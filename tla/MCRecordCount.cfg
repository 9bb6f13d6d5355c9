CONSTANTS
  Modes = {m1}
  NoSize = NoSize
  MaxFrames = 2
  MaxRecordings = 2
  MaxQueue = 1
  PanicLimit = 1
  ModeChanges = FALSE
SPECIFICATION Spec
\* Each is violated; swap the comments to see the other.
INVARIANT RecordingComplete
\* With SPECIFICATION FairSpec and MaxFrames = 1:
\* PROPERTY RecordingAlwaysEnds
