SPECIFICATION Spec
CONSTANT
  Bounds <- MCBounds
INVARIANTS
  GraphInStep
  WellFormed
  StateRestored
PROPERTIES
  JumpsInnermost
  ShortCircuit
