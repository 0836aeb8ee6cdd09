\* The MAX9296 with its two links: one is wired to the bus while isolated.
\* Boards of every kind: all links, one, or none with an address of its own.
CONSTANTS
    Chip = "max9296"
    NumLinks = 2
    Boards = {{}, {0}, {1}, {0, 1}}
    MayOverrun = FALSE
    MaxFaults = 4
    MaxNaps = 2
SPECIFICATION FairSpec
CHECK_DEADLOCK FALSE
INVARIANTS
    TypeOK
    IsolationHeld
    HandedBack
    NoTwins
    Addressable
    AllRegistered
    LinksRestored
PROPERTIES
    ResumesFinish
