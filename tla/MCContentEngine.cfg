SPECIFICATION Spec
CONSTANTS
    Hash = {h1, h2}
    DormantCap = 1
    MaxDoc = 3
    MaxCommits = 4
    MaxPublications = 4
    MaxIncarnations = 1
    MaxPlans = 2
    MaxFailures = 2
    MaxReads = 0
SYMMETRY HashSymmetry
CHECK_DEADLOCK FALSE
INVARIANTS
    TypeOK
    
    PublishedValid
    NeverDiscarded
    
    
    
