CONSTANTS
  Lengths = {3}
  MaxOpens = 1
  Drag = TRUE
SPECIFICATION PlaySpec
INVARIANTS
  CanRewind
CHECK_DEADLOCK FALSE
