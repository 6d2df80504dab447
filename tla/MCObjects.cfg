CONSTANTS
  x = x
  init = init
  g = g
  Constructor = init
  Name = {x, init}
  Global = {g}
  FRAMES_MAX = 3
  MaxStack = 4
  MaxClasses = 1
  MaxMethods = 1
  MaxObjects = 1
  MaxArity = 1
  FunctionArities = {1}
  Natives = {1}
  SuperArguments = 1
SPECIFICATION Spec
CHECK_DEADLOCK FALSE
INVARIANTS
  TypeOK
  ReceiverInSlotZero
  InvokeIsGetThenCall
  SuperInvokeIsGetThenCall
