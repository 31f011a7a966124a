SPECIFICATION FairSpec
CONSTANTS
    NoValue = NoValue
    a = a
    b = b
    c1 = c1
    p1 = p1
    p2 = p2
    Producers = {p1, p2}
    Consumers = {c1}
    Values = {a, b}
    Capacity = 2
    MaxSignals = 2
INVARIANTS
    Consistent
PROPERTIES
    ImplementsBuffer
    FairUnlessInterrupted
