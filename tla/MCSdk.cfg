CONSTANTS
  MaxCalls = 3
  MaxRetry = 3
SPECIFICATION FairSpec
INVARIANTS
  OnceOnWire
  AnswerIsOwn
PROPERTIES
  ImplementsRemoteCall
  CallReturns
CHECK_DEADLOCK FALSE
