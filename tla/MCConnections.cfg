SPECIFICATION ConnSpec
CONSTANTS
    Client = {c1, c2, c3}
    Capacity = 1
    QueryLimit = 1
    MaxClients = 3
    Idle = FALSE
    Requests = {"query", "drain", "other"}
    MaxLines = 2
    MaxEvents = 0
    MaxMerges = 0
    MaxFailures = 0
CHECK_DEADLOCK FALSE
INVARIANTS NoLostPermit
SYMMETRY Symmetry
