CONSTANTS
  Lengths = {3}
  MaxOpens = 1
  Drag = FALSE
SPECIFICATION PlayFairSpec
PROPERTIES
  PlaybackFinishes
CHECK_DEADLOCK FALSE
