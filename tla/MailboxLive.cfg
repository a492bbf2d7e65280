CONSTANTS
    Agents = {a, b}
    Stranger = stranger
    Keys = {k1, k2}
    Texts = {x}
    SendSlots = {s1, s2}
    SyncSlots = {p1}
    MaxSeq = 2
    MaxLimit = 1
    JournalCap = 2
    None = None
SPECIFICATION FairSpec
PROPERTY EventuallyReceived
