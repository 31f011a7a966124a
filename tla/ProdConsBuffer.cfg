SPECIFICATION FairSpec
CONSTANTS
    NoValue = NoValue
    a = a
    b = b
    c1 = c1
    c2 = c2
    p1 = p1
    p2 = p2
    Producers = {p1, p2}
    Consumers = {c1, c2}
    Values = {a, b}
    Capacity = 3
    MaxSignals = 1
INVARIANTS
    UnitsAccounted
PROPERTIES
    ImplementsFairBuffer
