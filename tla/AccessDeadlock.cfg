SPECIFICATION Spec
CONSTANTS
    Users = {u1}
    Projects = {p1}
    Tokens = {t1}
    Keys = {k1}
    Slots = {s1, s2}
    Ops = {"create", "archive", "restore", "issue", "revoke", "auth"}
    ProjectLimit = 0
    None = None
SYMMETRY AccessSymmetry
INVARIANT TokenWorkWithoutDeadlock
