SPECIFICATION Spec
CONSTANTS
    Users = {u1, u2}
    SessionIds = {x1, x2, x3}
    Attempts = {a1, a2, a3}
    Slots = {s1, s2}
    None = None
    Ops = {"call", "bootstrap", "logout", "login", "block", "unblock"}
    IdleLife = 2
    AbsoluteLife = 3
    TouchInterval = 1
    AttemptLife = 1
    MaxTime = 3
    MaxCsrf = 1
SYMMETRY WebSessionSymmetry
CONSTRAINT Scope
INVARIANTS SessionsLegitimate OneSuccessor SuccessorLivesOn AttemptSpentOnce LifeIsBounded
