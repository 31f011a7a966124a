SPECIFICATION Spec
CONSTANTS
    NoValue = NoValue
    a = a
    c1 = c1
    c2 = c2
    p1 = p1
    Producers = {p1}
    Consumers = {c1, c2}
    Values = {a}
    Capacity = 1
    MaxSignals = 1
INVARIANTS
    NoStall
