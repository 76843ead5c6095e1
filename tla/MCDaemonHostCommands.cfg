SPECIFICATION Spec
CONSTANTS
    Client = {c1, c2}
    Capacity = 1
    QueryLimit = 1
    MaxClients = 2
    Idle = FALSE
    Requests = {"command", "drain"}
    MaxLines = 1
    MaxEvents = 0
    MaxMerges = 0
    MaxFailures = 0
CHECK_DEADLOCK FALSE
INVARIANTS PendingExact CommandsNotDropped
SYMMETRY Symmetry
