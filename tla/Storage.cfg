SPECIFICATION LiveSpec
CONSTANTS
    Capacity = 5
    LowPercent = 30
    HighPercent = 45
    MinimumFree = 2
    EmergencyFree = 1
    PairSize = 2
    MaxFailures = 2
    StartupSteps = 1
    PassSteps = 2
    MaxAsked = 2
    WritesPerLook = 2
INVARIANT
    StorageInv
PROPERTIES
    StorageSteps
    KeepsPolicy
    StorageProgress
