CONSTANTS
  Modules = {x, y}
  Modes = {mp, lr}
  None = None
  Local = Local
  UseCache = FALSE
  ExportFails = FALSE
  HasReceived = TRUE
  MaxWire = 3
SPECIFICATION Spec
SYMMETRY Symmetry
INVARIANTS
  CalibrationIsOwn
  TofiIsCurrent
CHECK_DEADLOCK FALSE
