SPECIFICATION SetupFairSpec
CONSTANTS
    MaxRuns = 2
    PickerRuns = 2
INVARIANTS
    SetupIsHonest
PROPERTIES
    SetupMovesOn
CHECK_DEADLOCK FALSE
