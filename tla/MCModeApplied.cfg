SPECIFICATION Spec
CONSTANTS
    Drivers <- Isx031Only
    Modes <- MCModes
    Default <- MCDefault
    MaxFaults = 0
    MaxNaps = 1
    MaxUsage = 2
INVARIANTS
    ModeApplied
