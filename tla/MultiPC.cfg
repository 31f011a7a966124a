SPECIFICATION Spec
CONSTANTS
    m1 = m1
    m2 = m2
    u1 = u1
    u2 = u2
    a = a
    test = test
    Admins = {m1, m2}
    Producers = {u1}
    Consumers = {u2}
    Names = {test, a}
    Test = test
    Types = {FALSE}
    MaxEntries = 1
    MaxSize = 1
    UINT_MAX = 3
    MaxBuffers = 3
    MaxUps = 2
    MaxSignals = 1
CONSTRAINT OnceRaced
SYMMETRY Symmetry
INVARIANTS
    DataOutlivesCalls
    ListAndBuffersSafe
    ListMatchesProc
    Consistent
    EntriesExact
CHECK_DEADLOCK FALSE
