SPECIFICATION UserSpec
CONSTANTS
    LEDS = 8
    Centre = 4
    Die = {0, 1, 2, 3}
INVARIANTS
    StoppedInCentre
