CONSTANTS
    Pipes = {0, 1, 2}
    Links = {0, 1}
    Phys = {0, 1}
    Loads <- MCLoads
    SplitLinks = FALSE
SPECIFICATION Spec
INVARIANTS
    DoublingAgrees
    MapsFit
CHECK_DEADLOCK FALSE
