SPECIFICATION FairSpec
CONSTANTS
    Client = {c1}
    Capacity = 1
    QueryLimit = 1
    MaxClients = 1
    Idle = TRUE
    Requests = {"command", "drain"}
    MaxLines = 1
    MaxEvents = 0
    MaxMerges = 0
    MaxFailures = 1
CHECK_DEADLOCK FALSE
INVARIANT ExitsClean
PROPERTIES DrainExits CommandsAnswered HangupsEnd
