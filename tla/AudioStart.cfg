SPECIFICATION Spec
CONSTANTS
    Parts = {"audio"}
    OpenTimeout = 1
    ReadTimeout = 1
    ReadDeadline = 1
    CloseTimeout = 1
    Coalesce = 0
    MinDelay = 1
    MaxDelay = 2
    StaleAfter = 1
    MaxLine = 2
    MaxConsecutive = 1
    MaxPerWindow = 2
    WindowLength = 2
    UtcOffsets = {0, 1, 3}
    MaxConflict = 1
    MaxReacquire = 2
    MaxInterval = 2
    DriftEvery = 3
    MaxAge = 3
    Day = 4
    MaxForward = 2
    MinimumInterval = 2
    FieldsStaleAfter = 1
    HistoryCapacity = 2
    MaxClipSamples = 1
    MaxTime = 3
    Cards = {1, 2}
    MaxRestarts = 2
    MaxBusChanges = 2
    MaxCameraFaults = 3
    EdgeBound = 2
    MaxForeign = 0
    MaxFrames = 5
    MaxQueued = 2
    Buffers = {b1, b2}
    MaxMappings = 1
    MaxBackends = 2
    MaxGpsChanges = 1
    MaxStreams = 1
    MaxReordered = 1
    MaxSequence = 3
    MaxAttempts = 2
    MaxEncoded = 1
    NPairs = 2
    MaxIntents = 1
    MaxActions = 2
    MaxRows = 2
    MaxEntries = 3
    MaxCrashes = 1
    Capacity = 2
    MinNormal = 2
    Target = 3
    MaxNormal = 4
    Lead = 1
    MaxStamp = 9
    Owners = {"a", "b"}
    MaxBackendRestarts = 2
CHECK_DEADLOCK FALSE
INVARIANT
    MicrophoneNeverStops
