CONSTANTS
    NumLinks = 2
    NumPipes = 3
    NumPhys = 2
    NumStreams = 2
    NumVcs = 2
    MaxRoutes = 4
    Enabled = {0, 1}
    DesModes = {"pixel", "tunnel"}
    TpgMode = "pixel"
    DesVcRemap = FALSE
    SerModes <- MCSerModes
    SerVcRemap = {}
    Routings <- MCRoutings
    FrameDescs <- MCFrameDescs
SPECIFICATION Spec
INVARIANTS
    TypeOK
    PipeNotShared
    LowestPipeSpeaks
    VcsDistinct
    NeverDepleted
    EveryLinkConsulted
    OneStreamPerPipe
