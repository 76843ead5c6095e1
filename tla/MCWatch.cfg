SPECIFICATION Spec
CHECK_DEADLOCK FALSE
CONSTANTS
  a = a
  b = b
  i = i
  j = j
  r = r
  Root = {r}
  Sub = {a, b}
  RootOf <- BothBelowR
  SubId = {i, j}
  Network = {}
  WatchCap = 3
  ScopeCap = 1
  ExactFailures = 1
  QueueCap = 3
  MaxWd = 4
  InitDisk <- OnlyAHoldsI
  Refusable = {r, i, j}
  ReuseIds = FALSE
  MaxChanges = 2
  MaxFaults = 1
  MaxTimers = 0
  MaxCommands = 0
INVARIANTS  HintsAreDue
