SPECIFICATION Spec
CONSTANTS
    Drivers <- AllDrivers
    Modes <- MCModes
    Default <- MCDefault
    MaxFaults = 3
    MaxNaps = 2
    MaxUsage = 6
INVARIANTS
    StreamsAsSet
    HeldThenReleased
