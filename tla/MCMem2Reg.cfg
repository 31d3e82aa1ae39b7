SPECIFICATION SpecRun
CONSTANTS
  Size = 5
  MaxStmts = 3
  Block <- MCBlock
  Root = 1
  va = va
  vb = vb
  vt = vt
  Var <- MCVar
  Null = Null
  Datum = {0, 1}
  Undef = Undef
  Programs <- MCPrograms
INVARIANTS
  StateSound
  SSAForm
  SameMeaning
PROPERTY
  Terminates
