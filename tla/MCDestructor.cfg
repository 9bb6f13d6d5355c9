CONSTANTS
  MaxCalls = 1
  MaxRetry = 3
SPECIFICATION FairSpec
PROPERTIES DestructorReturns
CHECK_DEADLOCK FALSE
