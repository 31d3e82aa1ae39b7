SPECIFICATION MCSpec
CONSTANTS
  Names <- MCNames
  Library <- MCLibrary
  Exprs <- FewExprs
  Kinds = {"const", "var"}
  MaxNodes = 5
  MaxVisits = 4
  Width = 3
  IntValues <- MCInts
  FloatValues <- MCFloats
CONSTRAINT UntilFault
INVARIANTS
  NamesAgree
  BuilderFollows
  ValuesSound
  StopsSound
CHECK_DEADLOCK FALSE
