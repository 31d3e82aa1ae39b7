SPECIFICATION MCSpec
CONSTANT
  Contexts <- MCContexts
INVARIANTS
  StackSound
  TreesExact
  TokensExact
PROPERTY
  ReadsEnd
