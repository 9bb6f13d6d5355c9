CONSTANTS
  Modes = {m1, m2}
  Conns = {c1}
  NoConn = NoConn
  NoMode = NoMode
  ChanCap = 1
  CmdCap = 1
  Backlog = 1
  DefaultMode = m1
  SilenceLimit = 1
SPECIFICATION FairSpec
INVARIANTS
  OneOwnerOfClient
  ClosedMeansReleased
PROPERTIES
  StopReturns
  ClosedPeerNoticed
  SilentPeerDropped
CHECK_DEADLOCK FALSE
