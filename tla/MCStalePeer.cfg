CONSTANTS
  Modes = {m1}
  Conns = {c1}
  NoConn = NoConn
  NoMode = NoMode
  ChanCap = 1
  CmdCap = 1
  Backlog = 1
  DefaultMode = m1
  SilenceLimit = 2
SPECIFICATION FairSpec
PROPERTY StalePeerDropped
CHECK_DEADLOCK FALSE
