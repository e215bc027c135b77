SPECIFICATION Spec
CONSTANTS
  Request = {r1, r2, r3}
  Lines = 1
  None = None
SYMMETRY Symmetry
INVARIANTS
  JoinersShareStream
CHECK_DEADLOCK FALSE
