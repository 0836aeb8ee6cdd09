\* Four links of a MAX96724: isolation is a lock word only.
CONSTANTS
    Chip = "max96724"
    NumLinks = 4
    Boards = {{}, {0}, {1, 2, 3}, {0, 1, 2, 3}}
    MayOverrun = FALSE
    MaxFaults = 2
    MaxNaps = 2
SPECIFICATION FairSpec
CHECK_DEADLOCK FALSE
INVARIANTS
    IsolationHeld
    HandedBack
    Addressable
PROPERTIES
    ResumesFinish
