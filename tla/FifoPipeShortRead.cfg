SPECIFICATION Spec
CONSTANTS
    r1 = r1
    w1 = w1
    Readers = {r1}
    Writers = {w1}
    Capacity = 3
    ReadLens = {1, 2}
    WriteLens = {1, 2}
    MaxSignals = 0
PROPERTY
    ReadReportsWhatItGot
