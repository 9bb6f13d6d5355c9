CONSTANTS
  Modes = {m1}
  Conns = {c1}
  NoConn = NoConn
  NoMode = NoMode
  ChanCap = 1
  CmdCap = 2
  Backlog = 1
  InitialMode = m1
  NFrames = 0
  SensorFrames = 1
  SendAllDealias = FALSE
  SetFps = FALSE
  Reconnect = TRUE
  DefaultMode = m1
  SilenceLimit = 1
  Faults = {}
SPECIFICATION Spec
INVARIANT WatchdogArmed
CHECK_DEADLOCK FALSE
