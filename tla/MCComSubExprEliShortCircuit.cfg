SPECIFICATION Spec
CONSTANTS
  Size = 5
  Block <- MCBlock
  x = x
  y = y
  c = c
  Value <- MCValue
  Const <- MCConst
  Expr <- MCExpr
  Commutative <- MCCommutative
  Null = Null
  Programs <- MCShortCircuit
INVARIANT
  PhiChoosesPath
