SPECIFICATION MCSpec
CONSTANTS
  Names <- MCNames
  Library <- MCLibrary
  Exprs <- EveryExpr
  Kinds <- EveryKind
  MaxNodes = 4
  MaxVisits = 0
  Width = 3
  IntValues <- MCInts
  FloatValues <- MCFloats
INVARIANTS
  CheckerSurvives
CHECK_DEADLOCK FALSE
