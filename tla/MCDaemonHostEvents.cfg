SPECIFICATION FairSpec
CONSTANTS
    Client = {c1}
    Capacity = 1
    QueryLimit = 1
    MaxClients = 1
    Idle = TRUE
    Requests = {"command"}
    MaxLines = 1
    MaxEvents = 1
    MaxMerges = 1
    MaxFailures = 0
CHECK_DEADLOCK FALSE
INVARIANT ExitsClean
PROPERTIES EventsServed
