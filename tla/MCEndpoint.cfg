SPECIFICATION FairSpec
CHECK_DEADLOCK FALSE
CONSTANTS
  old = old
  new1 = new1
  new2 = new2
  indexer = indexer
  searcher = searcher
  None = None
  Daemon = {old, new1, new2}
  Old = {old}
  Writer = {indexer}
  Query = {searcher}
  MaxCrashes = 1
  Idles = TRUE
  Fails = TRUE
INVARIANTS LiveSocket NotRefusedByLeaver
PROPERTY StartedServes
