SPECIFICATION PipeSpec
CONSTANTS
    r1 = r1
    w1 = w1
    x = x
    Readers = {r1, x}
    Writers = {w1, x}
    Capacity = 3
    ReadLens = {1, 2}
    WriteLens = {1, 2}
    MaxSignals = 0
INVARIANTS
    PairDoesNotBlock
    MessagesOfOneSizeWhole
PROPERTIES
    PairIsWoken
    ImplementsFairMonitor
