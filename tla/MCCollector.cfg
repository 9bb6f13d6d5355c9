CONSTANTS
  Modes = {m1}
  Conns = {c1, c2}
  NoConn = NoConn
  NoMode = NoMode
  ChanCap = 1
  CmdCap = 1
  Backlog = 1
  InitialMode = m1
  NFrames = 1
  SensorFrames = 1
  SendAllDealias = FALSE
  SetFps = TRUE
  Reconnect = TRUE
SPECIFICATION FairSpec
INVARIANTS
  TypeOK
  MainAloneInHandlers
  IdleCameraStopped
PROPERTIES
  ImplementsCaptureStream
  StopThreadReturns
  ClosedViewerNoticed
  SignalEndsCollector
CHECK_DEADLOCK FALSE
