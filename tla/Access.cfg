SPECIFICATION Spec
CONSTANTS
    Users = {u1, u2}
    Projects = {p1, p2}
    Tokens = {t1}
    Keys = {k1, k2}
    Slots = {s1, s2}
    Ops = {"create", "restore", "archive", "delete", "issue", "revoke", "block", "unblock", "opArchive", "assign", "auth", "createProject"}
    ProjectLimit = 1
    None = None
SYMMETRY AccessSymmetry
INVARIANTS ActiveWithinLimit OwnershipAgrees AdmittedIsEntitled KeyStillUnused NoDeadlock
