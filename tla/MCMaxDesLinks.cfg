CONSTANTS
    Scenes <- MCScenes
    MaxFaults = 3
    MaxResumes = 2
SPECIFICATION Spec
INVARIANTS AliasesAnswered
PROPERTIES OnlyOwnLink
CHECK_DEADLOCK FALSE
