CONSTANTS
  NTargets = 2
  Modes <- FreshOnly
  MaxItems = 2
  SkipMinItems = 2
  CalChances = 2
  U32 = 8
SPECIFICATION FairSpec
PROPERTY DryRunReturns
