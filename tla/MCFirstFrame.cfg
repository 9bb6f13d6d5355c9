CONSTANTS
  MaxStarts = 2
  MaxFrames = 2
  MaxWire = 2
  SaveLimit = 2
SPECIFICATION Spec
PROPERTIES FirstFrameIsNew
