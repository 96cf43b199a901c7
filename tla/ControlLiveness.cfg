SPECIFICATION LiveSpec
CONSTANTS
    Requests = {r1, r2}
    Commands = {"RELEASE", "PROTECT"}
    MaxClients = 2
CHECK_DEADLOCK FALSE
PROPERTY
    RequestsEnd
