SPECIFICATION Spec
CONSTANTS
  f = f
  g = g
  Fn <- MCFn
  Configs <- MCConfigs
  U32 = 8
  MaxDepth = 3
  MaxLibCalls = 3
  MaxIter = 2
INVARIANT OwnTimer
