SPECIFICATION FairSpec
CONSTANTS
  Worker = {1, 2}
  MaxTasks = 3
  Modes <- MCModes
  Capacity = 2
  RunTasks = 2
  RunBytes = 2
  Bytes = 3
  HandoffBytes = 2
  HandoffGroups = 2
INVARIANTS EveryGroupOnce BytesExact StealableNeverFewer StreamingWakes
PROPERTIES OthersPublished RunEnds
