CONSTANTS
  f = f
  g = g
  h = h
  TypeInfo <- MCTypeInfo
  SubstringOf <- MCSubstringOf
  MaxArgs = 3
  ArgCells <- MCArgCells
  Data <- MCData
  MAX_TARGETS = 3
SPECIFICATION Spec
INVARIANT CorpusIsRecorded
