SPECIFICATION Spec
CONSTANTS
    Ops = {o1, o2}
    None = None
    PageSize = 1
    MaxEvent = 3
    MaxMessage = 3
    MaxGen = 2
SYMMETRY DashboardSymmetry
INVARIANTS RowsWhole AcksShown KeepsPolling
CONSTRAINT Scope
