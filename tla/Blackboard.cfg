SPECIFICATION BoardSpec
CONSTANTS
    Keys = {k1}
    Agents = {a1, a2, a3}
    Writes = {w1, w2, w3, w4}
    MaxVersion = 4
    Nothing = Nothing
SYMMETRY BlackboardSymmetry
INVARIANTS VersionNamesOneValue NoStaleOverwrite
PROPERTY ImplementsFactStore
