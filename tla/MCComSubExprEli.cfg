SPECIFICATION Spec
CONSTANTS
  Size = 4
  Block <- MCBlock
  x = x
  y = y
  c = c
  Value <- MCValue
  Const <- MCConst
  Expr <- MCExpr
  Commutative <- MCCommutative
  Null = Null
  Programs <- MCPrograms
INVARIANTS
  AvailExact
  ResultSound
PROPERTIES
  OutOnlyShrinks
  Terminates
