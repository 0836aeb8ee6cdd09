CONSTANTS
    NumLinks = 2
    NumPipes = 3
    NumPhys = 3
    NumStreams = 2
    NumVcs = 3
    Enabled = {0, 1}
    DesModes = {"pixel", "tunnel"}
    TpgMode = "pixel"
    DesVcRemap = FALSE
    SerModes <- MCSerModes
    SerVcRemap = {}
    Routings <- MCAllRoutings
    FrameDescs <- MCFrameDescs
    EnabledPhys = {0, 1}
    HasPipePhy = TRUE
    HasTunnelPhy = TRUE
    HasPipeLink = TRUE
    UniqueIds = FALSE
    SerPipes <- MCSerPipes
    MaxFaults = 1
    MaxSuspends = 1
SPECIFICATION StreamsSpec
CONSTRAINT MCStealsCalmly
INVARIANTS
    PipeLinkMatches
    NoCollision
    CommitDelivers
    MasksActive
    CachesSound
PROPERTIES
    SiblingsFlow
    NoGlitch
    ImplementsSwitch
