CONSTANTS
  Pid = {p1, p2}
  NoPid = NoPid
  Target = {f, g}
  NonExistent = NonExistent
  Persistent = TRUE
  MaxCnt = 3
  MaxRuns = 4
  MaxStarts = 3
SPECIFICATION FairSpec
INVARIANTS
  PipesInSync
  TargetDelivered
  InputStable
  NoOrphan
  StoppedChildKnown
PROPERTIES
  ImplementsExecutor
  Returns
