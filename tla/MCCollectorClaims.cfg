CONSTANTS
  Modes = {m1, m2}
  Conns = {c1}
  NoConn = NoConn
  NoMode = NoMode
  ChanCap = 1
  CmdCap = 1
  Backlog = 1
  InitialMode = m1
  NFrames = 2
  SensorFrames = 2
  SendAllDealias = FALSE
  SetFps = TRUE
  Reconnect = TRUE
SPECIFICATION Spec
\* Each is violated; swap the comments to see the others.
INVARIANT SensorMatchesMode
\* INVARIANT DealiasForEveryMode
\* INVARIANT IdleDeviceStopped
\* With SPECIFICATION FairSpec, Modes = {m1} and Conns = {c1, c2}:
\* PROPERTY SignalEndsSetup
CHECK_DEADLOCK FALSE
