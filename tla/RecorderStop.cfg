SPECIFICATION Spec
CONSTANTS
    MaxRestarts = 1
CHECK_DEADLOCK FALSE
INVARIANTS
    StopReleases
