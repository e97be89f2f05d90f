SPECIFICATION FairSpec
CONSTANTS
  Instance = {m, a, b}
  Main = {m}
  Items = 1
  MaxStops = 2
INVARIANTS
  FileIsTrue
PROPERTIES
  StaysSettled
  GivesWay
  MainElected
