CONSTANTS
  Modules = {x, y}
  Modes = {mp}
  None = None
  Local = Local
  UseCache = FALSE
  ExportFails = FALSE
  HasReceived = FALSE
  MaxWire = 3
SPECIFICATION Spec
SYMMETRY Symmetry
INVARIANTS
  FallbackOnlyBefore
CHECK_DEADLOCK FALSE
