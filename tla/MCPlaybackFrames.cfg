CONSTANTS
  Lengths = {3}
  MaxOpens = 2
  Drag = FALSE
SPECIFICATION PlaySpec
\* Each is violated; swap the comment to see the other.
INVARIANT ShownIsOpen
\* INVARIANT FramesReadWhole
CHECK_DEADLOCK FALSE
