SPECIFICATION FairSpec
CHECK_DEADLOCK FALSE
CONSTANTS
  a = a
  b = b
  i = i
  j = j
  r = r
  Root = {r}
  Sub = {a}
  RootOf <- ABelowR
  SubId = {i, j}
  Network = {r}
  WatchCap = 3
  ScopeCap = 2
  ExactFailures = 1
  QueueCap = 3
  MaxWd = 4
  InitDisk <- AHoldsI
  Refusable = {r, i, j}
  ReuseIds = FALSE
  MaxChanges = 1
  MaxFaults = 1
  MaxTimers = 1
  MaxCommands = 1
PROPERTY Fresh
