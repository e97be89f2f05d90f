SPECIFICATION FairSpec
CONSTANTS
  Test = {p, q}
  NoTest = NoTest
  Target = {f, g, read_f, cxx}
  NoTarget = NoTarget
  Mangled = {cxx}
  WithoutArgs = {}
  p = p
  q = q
  Calls <- MCCalls
  MaxKilled = 1
  f = f
  g = g
  read_f = read_f
  cxx = cxx
  PartOf <- MCPartOf
  Budget = 2
INVARIANTS
  TypeOK
  RecordsWhole
  RecordsArrive
  FuzzedOnce
  CountsOnlyIfTried
  BudgetKept
PROPERTIES
  SuiteEnds
  CampaignsEnd
