CONSTANTS
  c1 = c1
  c2 = c2
  c3 = c3
  f = f
  g = g
  int = int
  ptr = ptr
  NoCompiler = NoCompiler
  Compiler <- MCCompiler
  Target <- MCTarget
  Module <- MCModule
  Type <- MCType
  ArgType <- MCArgType
SPECIFICATION FairSpec
INVARIANTS
  NoTornRead
  RightTypes
PROPERTIES
  FirstStays
  BuildEnds
