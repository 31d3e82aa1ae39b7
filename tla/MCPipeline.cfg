SPECIFICATION MCSpec
CONSTANTS
  Entry = Entry
  Cond = Cond
  Body = Body
  Exit = Exit
  Only = Only
  Ret = Ret
  br1 = br1
  ph = ph
  cbr = cbr
  br2 = br2
  ret1 = ret1
  br3 = br3
  ret2 = ret2
  a = a
  k = k
  x = x
  Modules <- DamagedModules
  Words <- MCWords
  MaxWords = 4
  Const = {c1}
  Block = {b1}
  Instr = {i1, i2, i3}
  MaxOps = 2
SYMMETRY Symmetry
INVARIANTS
  
  OutputJustified
  CheckSound
  UseDefSound
PROPERTY
  OnlyHoldersChange
