CONSTANTS
  a = a
  b = b
  c = c
  Grammars <- WholeLanguage
  ByteSize = 256
  RETURN = 4
SYMMETRY AnyNames
SPECIFICATION Spec
CHECK_DEADLOCK FALSE
INVARIANTS
  TypeOK
  ScopeMatchesStack
  StackBalanced
  LocalsExist
  ListsAllButOne
  UpvaluesExist
  CapturedAreClosedUnnested
  UpvaluesLeadHome
