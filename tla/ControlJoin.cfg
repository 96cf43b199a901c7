SPECIFICATION Spec
CONSTANTS
    Requests = {r1}
    Commands = {"PROTECT"}
    MaxClients = 1
CHECK_DEADLOCK FALSE
INVARIANTS
    NativeWorkJoined
