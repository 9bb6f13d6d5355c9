CONSTANTS
  NBuf = 2
  FrameTypes = {t1}
  NoType = NoType
  Conns = {c1}
  NoConn = NoConn
  FrameLimit = 1
  FailLimit = 2
  Vanish = FALSE
SPECIFICATION FairSpec
INVARIANTS
  ReplyAnswersRequest
  SensorBehindRequest
  StreamHasItsBuffers
  FullStreamHasItsType
PROPERTIES
  StuckFrameEnds
  WatchdogJustified
CHECK_DEADLOCK FALSE
