SPECIFICATION ListSpec
CONSTANTS
    Projects = {p1, p2}
    Nothing = Nothing
    Limit = 1
    MaxRow = 2
    MaxReads = 2
    MaxPolls = 1
    Changes = 1
INVARIANTS
    ReadWasAllowed
    PollingGoesOn
PROPERTY
    CatchesUp
CHECK_DEADLOCK FALSE
