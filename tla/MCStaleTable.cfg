CONSTANTS
  Modules = {x, y}
  Modes = {mp}
  None = None
  Local = Local
  UseCache = FALSE
  ExportFails = TRUE
  HasReceived = TRUE
  MaxWire = 3
SPECIFICATION Spec
SYMMETRY Symmetry
INVARIANTS
  TableIsOwn
CHECK_DEADLOCK FALSE
