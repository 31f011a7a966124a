SPECIFICATION BoundedSpec
CONSTANTS
    r1 = r1
    r2 = r2
    w = w
    Procs = {r1, r2}
    Worker = w
    NLists = 2
    Capacity = 2
    Lens = {1, 2}
    Thresholds = {1, 3}
    Numbers = 1
    MaxListed = 1
    MaxSignals = 1
    MaxOpens = 3
SYMMETRY Symmetry
INVARIANTS
    OddWaitAccounting
    TimerRuns
    ListHasReader
CHECK_DEADLOCK FALSE
