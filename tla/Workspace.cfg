SPECIFICATION Spec
CONSTANTS
    Ids = {i1, i2}
    None = None
    Listing = listing
    Name <- OwnName
    Pages = {"landing", "projects", "invite", "users", "overview", "connections", "settings", "pulse", "user"}
    MaxAsks = 1
    Trips = 1
SYMMETRY WorkspaceSymmetry
CONSTRAINT Scope
INVARIANTS ShownIsRoute WaitsEnd
