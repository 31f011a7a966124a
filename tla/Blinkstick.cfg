SPECIFICATION StickSpec
CONSTANTS
    Off = Off
    a = a
    p1 = p1
    p2 = p2
    Procs = {p1, p2}
    NR_LEDS = 2
    Colors = {Off, a}
    Commands <- Texts
    MaxSticks = 2
    LEDS = 8
    Centre = 4
    Die = {0, 1, 2, 3}
INVARIANTS
    NoUseAfterFree
    RefsAccounted
    WrittenPrefix
    RaceIsRight
PROPERTIES
    GoneIsFreed
    GameEnds
CHECK_DEADLOCK FALSE
