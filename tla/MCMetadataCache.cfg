CONSTANTS
  Modules = {x, y}
  Modes = {mp}
  None = None
  Local = Local
  UseCache = TRUE
  ExportFails = FALSE
  HasReceived = TRUE
  MaxWire = 3
SPECIFICATION Spec
SYMMETRY Symmetry
INVARIANTS
  CalibrationIsOwn
CHECK_DEADLOCK FALSE
