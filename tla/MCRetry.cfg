CONSTANTS
  MaxCalls = 1
  MaxRetry = 3
SPECIFICATION Spec
\* Each is violated; swap the comment to see the other.
PROPERTY RetryReachesWire
\* INVARIANT SocketExists
CHECK_DEADLOCK FALSE
