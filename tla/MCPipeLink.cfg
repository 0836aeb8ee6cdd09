CONSTANTS
    NumLinks = 2
    NumPipes = 2
    NumPhys = 2
    NumStreams = 2
    NumVcs = 3
    Enabled = {0, 1}
    DesModes = {"pixel", "tunnel"}
    TpgMode = "pixel"
    DesVcRemap = FALSE
    SerModes <- MCSerModes
    SerVcRemap = {}
    Routings <- MCLink0Routings
    FrameDescs <- MCFrameDescs
    EnabledPhys = {0, 1}
    HasPipePhy = FALSE
    HasTunnelPhy = TRUE
    HasPipeLink = FALSE
    UniqueIds = FALSE
    SerPipes <- MCSerPipes
    MaxFaults = 0
    MaxSuspends = 0
SPECIFICATION StreamsSpec
INVARIANTS
    PipeLinkMatches
