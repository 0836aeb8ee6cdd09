CONSTANTS
    Scenes <- MCScenes
    MaxFaults = 1
    MaxSuspends = 1
SPECIFICATION Spec
INVARIANTS
    StreamsFlow
    NoCollision
    CachesAgree
