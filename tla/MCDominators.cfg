SPECIFICATION MCSpec
CONSTANTS
  Size = 5
  Block <- MCBlock
  Root = 1
  Null = Null
  Graphs <- MCGraphs
INVARIANTS
  TablesSound
  PostTablesSound
  PostResultExact
PROPERTIES
  ImplementsDominance
  DomsOnlyRise
  PassesEnd
