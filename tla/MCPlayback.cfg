CONSTANTS
  Lengths = {0, 1, 3}
  MaxOpens = 3
  Drag = FALSE
SPECIFICATION PlayFairSpec
INVARIANTS
  FrameComing
PROPERTIES
  NoFrameSkipped
  PlaybackServed
CHECK_DEADLOCK FALSE
