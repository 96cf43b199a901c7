SPECIFICATION LiveSpec
CONSTANTS
    MaxClips = 1
    Events = {e1}
    Holders = {h1}
    LeaseDuration = 2
    MaxLeases = 1
    PreviousCount = 1
    NextCount = 1
    MaxWindows = 2
    MaxActions = 1
    MaxLag = 0
    MaxTime = 2
    MaxBoots = 1
    MaxRevision = 3
    MaxFaults = 2
    CloseNames = {"boot", "utc"}
    Foreign <- Collisions
CHECK_DEADLOCK FALSE
INVARIANT
    CatalogInv
PROPERTY
    RecoverySettles
