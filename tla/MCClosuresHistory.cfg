CONSTANTS
  a = a
  Nil = Nil
  Value = {a, Nil}
  FRAMES_MAX = 3
  kMaxStackSize = 3
  MaxStack = 4
  MaxClosures = 3
  MaxUpvalues = 2
SPECIFICATION HSpec
CHECK_DEADLOCK FALSE
INVARIANTS
  TypeOK
  OpenListDescends
  OpenListComplete
  OpenWithinStack
  FramesNested
  EndsClosed
  OneUpvaluePerVariable
  PointsToItsVariable
PROPERTY
  ImplementsCells
