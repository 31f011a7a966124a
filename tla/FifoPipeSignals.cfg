SPECIFICATION Spec
CONSTANTS
    r1 = r1
    w1 = w1
    x = x
    Readers = {r1, x}
    Writers = {w1, x}
    Capacity = 2
    ReadLens = {1}
    WriteLens = {1}
    MaxSignals = 2
INVARIANTS
    MutexConserved
    WaitAccounting
    CountsDriftBySignals
CHECK_DEADLOCK FALSE
