SPECIFICATION Spec
CONSTANTS
  Size = 4
  Block <- MCBlock
  x = x
  p = p
  q = q
  f = f
  Value <- MCValue
  Unnamed <- MCUnnamed
  Null = Null
  Programs <- MCPrograms
INVARIANTS
  LiveExact
  EquationsHold
PROPERTIES
  SetsOnlyGrow
  Terminates
