CONSTANTS
  SegmentBound = 3
  SessionBound = 2
  PauseBound = 1
  Blocks = 2
  Batches <- OneBatch
  KickBlocks = 1
  KickRefusable = TRUE
  SmallBuffer = FALSE
  CloseTimesOut = FALSE
CHECK_DEADLOCK FALSE
SPECIFICATION Spec
INVARIANTS LaneExact NoSilentLoss
PROPERTY ImplementsStream
