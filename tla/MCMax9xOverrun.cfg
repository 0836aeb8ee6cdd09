\* A sibling gives up waiting while the holder is still at work.
CONSTANTS
    Chip = "max9296"
    NumLinks = 2
    Boards = {{}, {0}, {1}, {0, 1}}
    MayOverrun = TRUE
    MaxFaults = 0
    MaxNaps = 2
SPECIFICATION FairSpec
CHECK_DEADLOCK FALSE
INVARIANTS
    NoTwins
