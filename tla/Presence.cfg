SPECIFICATION Spec
CONSTANTS
    Sessions = {x1}
    Profiles = {p1, p2}
    AgentIds = {a1, a2}
    ReportIds = {r1}
    Slots = {s1, s2, s3}
    None = None
    OnlineFor = 2
    OfflineAfter = 3
    CallLife = 1
    MaxTime = 5
SYMMETRY PresenceSymmetry
INVARIANTS SessionsAgree PresenceHonest
PROPERTY ResolvedWasOffline
