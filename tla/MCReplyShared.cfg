CONSTANTS
  NBuf = 1
  FrameTypes = {t1}
  NoType = NoType
  Conns = {c1, c2}
  NoConn = NoConn
  FrameLimit = 1
  FailLimit = 1
  Vanish = FALSE
SPECIFICATION Spec
INVARIANT ReplyAnswersRequest
CHECK_DEADLOCK FALSE
