SPECIFICATION Spec
CONSTANTS
    Slots = {s1, s2}
    None = None
    Tokens = {k1}
    Sessions = {x1, x2}
    User = u1
    Sources = {i1}
    Routes = {"send", "set_fact", "invite_capture", "read", "bootstrap", "mutate", "connect", "redeem", "logout", "operate", "ready"}
    Limit <- TwoEach
    Window <- Windows
    MaxTime = 2
    MaxCalls = 4
    MaxTurns = 2
SYMMETRY GatewaySymmetry
CONSTRAINT Scope
CHECK_DEADLOCK FALSE
INVARIANTS LimitHolds ShutOut FailuresToldOnce ReadyIsFresh CleanExit
