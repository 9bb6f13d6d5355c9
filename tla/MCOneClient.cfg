CONSTANTS
  NBuf = 1
  FrameTypes = {t1}
  NoType = NoType
  Conns = {c1, c2, c3}
  NoConn = NoConn
  FrameLimit = 1
  FailLimit = 1
  Vanish = FALSE
SPECIFICATION Spec
INVARIANTS OneClientAtATime
CHECK_DEADLOCK FALSE
