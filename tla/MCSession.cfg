CONSTANTS
  a = a
  Nil = Nil
  Value = {a, Nil}
  FRAMES_MAX = 3
  kMaxStackSize = 3
  MaxStack = 4
  MaxClosures = 3
  MaxUpvalues = 2
  MaxLines = 3
SPECIFICATION SessionSpec
CHECK_DEADLOCK FALSE
PROPERTY
  LeftoversStay
