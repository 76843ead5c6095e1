SPECIFICATION Spec
CONSTANTS
    Hash = {h1}
    DormantCap = 1
    MaxDoc = 2
    MaxCommits = 2
    MaxPublications = 3
    MaxIncarnations = 1
    MaxPlans = 1
    MaxFailures = 1
    MaxReads = 2
CHECK_DEADLOCK FALSE
INVARIANTS
    ReaderComplete
