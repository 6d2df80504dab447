CONSTANTS
  x = x
  init = init
  Constructor = init
  Name = {x, init}
  Global = {}
  FRAMES_MAX = 3
  MaxStack = 4
  MaxClasses = 2
  MaxMethods = 1
  MaxObjects = 1
  MaxArity = 1
  FunctionArities = {1}
  Natives = {0, 1}
  SuperArguments = 1
SPECIFICATION Spec
CHECK_DEADLOCK FALSE
INVARIANT
  SuperFindsItsClass
