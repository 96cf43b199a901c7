SPECIFICATION LiveSpec
CONSTANTS
    MaxRestarts = 2
CHECK_DEADLOCK FALSE
INVARIANT
    DaemonInv
PROPERTIES
    NoSecondSession
    WatchdogSparesRecovery
    DaemonProgress
