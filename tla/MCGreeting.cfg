CONSTANTS
  NBuf = 1
  FrameTypes = {t1}
  NoType = NoType
  Conns = {c1}
  NoConn = NoConn
  FrameLimit = 1
  FailLimit = 1
  Vanish = TRUE
SPECIFICATION Spec
\* Each is violated; swap the comments to see the others.
INVARIANT GreetedFirst
\* INVARIANT CleanExit
\* PROPERTY BlockedWhenCondemned
CHECK_DEADLOCK FALSE
