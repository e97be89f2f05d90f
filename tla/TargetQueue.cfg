CONSTANTS
  NTargets = 3
  Modes <- FreshAndResumed
  MaxItems = 3
  SkipMinItems = 2
  CalChances = 2
  U32 = 8
SPECIFICATION FairSpec
INVARIANTS
  TypeOK
  SelectionSound
  RightServer
  AttentionFirst
PROPERTIES
  SeedNotSkipped
  FirstCycleEnds
