CONSTANTS
  MaxN = 4
  MaxWeight = 3
  Base = 2
  TypeInfo <- MCTypeInfo
  Targets <- MCTargets
  Calls <- MCCalls
  TestCases <- MCTestCases
  Order <- MCOrder
  NULL = NULL
SPECIFICATION MCSpec
INVARIANTS
  Proportional
  ConstraintsHold
  RoundTrip
