\* A camera with two streams, each on a pipe of its own.
CONSTANTS
    Scenes <- D457Scenes
    MaxFaults = 0
    MaxSuspends = 0
SPECIFICATION Spec
INVARIANTS
    StreamsFlow
