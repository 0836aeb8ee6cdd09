CONSTANTS
    Scenes <- MCScenes
    MaxFaults = 2
    MaxNaps = 2
SPECIFICATION Spec
INVARIANTS
    StreamsFlow
    RetryWorks
