SPECIFICATION MCSpec
CONSTANTS
  n1 = n1
  n2 = n2
  n3 = n3
  n4 = n4
  None = None
  N = 4
  Inputs <- MergeModules
  MaxFunctions = 8
  Val <- MCVal
  Void <- MCVoid
INVARIANTS
  NamesSound
  MergeSound
PROPERTIES
  NamesKept
  PassesEnd
CHECK_DEADLOCK FALSE
