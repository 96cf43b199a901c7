SPECIFICATION Spec
CONSTANTS
    Requests = {r1, r2}
    Commands = {"READ", "UPDATE_CONFIG", "ACQUIRE", "RELEASE", "PROTECT", "DELETE", "EVENT", "RESTART", "PREPARE_REMOVAL"}
    MaxClients = 2
CHECK_DEADLOCK FALSE
SYMMETRY Symmetry
INVARIANTS
    EndpointInv
    OkMeansDone
