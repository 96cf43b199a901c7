SPECIFICATION Spec
CONSTANTS
    MaxFragments = 3
    MaxLosses = 1
    MaxBus = 1
    MaxAttempts = 2
CHECK_DEADLOCK FALSE
INVARIANT
    MediaInv
PROPERTY
    StopEnds
