CONSTANTS
  a = a
  b = b
  c = c
  Grammars <- Shadowing
  ByteSize = 256
  RETURN = 4
SYMMETRY AnyNames
SPECIFICATION Spec
CHECK_DEADLOCK FALSE
INVARIANT
  PositionsAreSlots
