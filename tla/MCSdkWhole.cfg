CONSTANTS
  MaxCalls = 3
  MaxRetry = 3
SPECIFICATION Spec
INVARIANTS TypeOK
PROPERTIES WrittenWhole
CHECK_DEADLOCK FALSE
