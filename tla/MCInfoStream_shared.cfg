SPECIFICATION Spec
CONSTANTS
  Request = {r1, r2}
  Lines = 2
  None = None
INVARIANTS
  NoLateLine
  CancelIsOwn
PROPERTIES
  EveryRequestAnswered
CHECK_DEADLOCK FALSE
