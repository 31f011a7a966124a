SPECIFICATION BoundedSpec
CONSTANTS
    r1 = r1
    r2 = r2
    w = w
    Procs = {r1, r2}
    Worker = w
    NLists = 1
    Capacity = 3
    Lens = {1, 2}
    Thresholds = {2}
    Numbers = 2
    MaxListed = 1
    MaxSignals = 1
INVARIANTS
    Consistent
    CodesInOrder
    MutualExclusion
    CopiedStayBriefly
    ClosedIsQuiet
PROPERTIES
    SleeperIsWoken
CHECK_DEADLOCK FALSE
