SPECIFICATION ListsSpec
CONSTANTS
    None = None
    Every = Every
    p1 = p1
    p2 = p2
    a = a
    b = b
    Procs = {p1, p2}
    Values = {a, b}
    MaxNodes = 3
    MaxText = 2
    Chunk = 2
SYMMETRY Symmetry
INVARIANTS
    MemorySafe
    RingIntact
    ReadsConsistent
    UnloadFreesAll
    SMPKeepsListWhole
    SeqListing
PROPERTIES
    SMPIsAtomic
CHECK_DEADLOCK FALSE
