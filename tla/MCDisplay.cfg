CONSTANTS
  Images = {ir, depth, xyz}
  Free = Free
SPECIFICATION FairSpec
INVARIANTS
  ImagesMatch
PROPERTIES
  FrameStable
  BarrierPasses
  ViewCloses
CHECK_DEADLOCK FALSE
