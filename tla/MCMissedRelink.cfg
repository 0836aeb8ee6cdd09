CONSTANTS
    NumLinks = 2
    NumPipes = 3
    NumPhys = 3
    NumStreams = 2
    NumVcs = 3
    Enabled = {0, 1}
    DesModes = {"pixel", "tunnel"}
    TpgMode = "pixel"
    DesVcRemap = FALSE
    SerModes <- MCSerModes
    SerVcRemap = {}
    Routings <- MCStealingRoutings
    FrameDescs <- MCFrameDescs
    EnabledPhys = {0, 1}
    HasPipePhy = TRUE
    HasTunnelPhy = TRUE
    HasPipeLink = TRUE
    UniqueIds = FALSE
    SerPipes <- MCSerPipes
    MaxFaults = 1
    MaxSuspends = 0
SPECIFICATION StreamsSpec
INVARIANTS
    PipeLinkMatches
