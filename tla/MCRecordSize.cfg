CONSTANTS
  Modes = {m1, m2}
  NoSize = NoSize
  MaxFrames = 1
  MaxRecordings = 2
  MaxQueue = 1
  PanicLimit = 1
  ModeChanges = FALSE
SPECIFICATION Spec
INVARIANTS
  FramesFitHeader
