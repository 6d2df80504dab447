CONSTANTS
  a = a
  b = b
  c = c
  Grammars <- Superclasses
  ByteSize = 256
  RETURN = 4
SYMMETRY AnyNames
SPECIFICATION Spec
CHECK_DEADLOCK FALSE
INVARIANT
  ClassesEndTheirOwnScope
