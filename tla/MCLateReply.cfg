CONSTANTS
  MaxCalls = 2
  MaxRetry = 3
SPECIFICATION Spec
INVARIANTS LateAnswerIsOwn
CHECK_DEADLOCK FALSE
