CONSTANTS
    Agents = {a, b}
    Stranger = stranger
    Keys = {k1, k2}
    Texts = {x, y}
    SendSlots = {s1, s2}
    SyncSlots = {p1, p2}
    MaxSeq = 2
    MaxLimit = 2
    JournalCap = 2
    None = None
SPECIFICATION Spec
SYMMETRY MailboxSymmetry
INVARIANTS OneMessagePerKey RepliesHonest AckedWasReceived PageIsOpen JournalExact NothingSkipped
PROPERTY ImplementsInbox
