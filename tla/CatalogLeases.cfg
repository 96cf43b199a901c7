SPECIFICATION Spec
CONSTANTS
    MaxClips = 2
    Events = {e1}
    Holders = {h1, h2}
    LeaseDuration = 1
    MaxLeases = 1
    PreviousCount = 1
    NextCount = 1
    MaxWindows = 2
    MaxActions = 2
    MaxLag = 1
    MaxTime = 2
    MaxBoots = 0
    MaxRevision = 1
    MaxFaults = 0
    CloseNames = {"utc"}
    Foreign <- NoForeign
CHECK_DEADLOCK FALSE
INVARIANTS
    CatalogSafe
    CountsKept
PROPERTIES
    CatalogSteps
    KeepsPromise
