CONSTANTS
    NumLinks = 2
    NumPipes = 4
    NumPhys = 2
    NumStreams = 2
    NumVcs = 3
    Enabled = {0, 1}
    DesModes = {"pixel"}
    TpgMode = "pixel"
    DesVcRemap = FALSE
    SerModes <- MCSerModes
    SerVcRemap = {}
    Routings <- MCStealingRoutings
    FrameDescs <- MCFrameDescs
    EnabledPhys = {0, 1}
    HasPipePhy = FALSE
    HasTunnelPhy = FALSE
    HasPipeLink = FALSE
    UniqueIds = TRUE
    SerPipes <- MCSerPipes
    MaxFaults = 1
    MaxSuspends = 1
SPECIFICATION StreamsSpec
INVARIANTS
    NoCollision
    CommitDelivers
    PipeLinkMatches
    CachesSound
    FrameDescKept
    MasksActive
PROPERTIES
    SiblingsFlow
    ImplementsSwitch
    NoGlitch
