SPECIFICATION FairSpec
CONSTANTS
    Worker = {w1, w2, w3}
    Entry <- MCEntry
    Root = "root"
    Listing <- MCListing
    MaxOpen = 2
    MaxPanics = 1
    MaxFaults = 1
CHECK_DEADLOCK FALSE
INVARIANTS
    ConsideredOnce
    NoWorkAbandoned
    OpenExact
    WakePerJob
PROPERTIES
    WalkEnds
