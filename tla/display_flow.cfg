CONSTANTS
  SegmentBound = 2
  SessionBound = 2
  PauseBound = 0
  Blocks = 2
  Batches <- ThreeBatches
  KickBlocks = 1
  KickRefusable = FALSE
  SmallBuffer = TRUE
  CloseTimesOut = TRUE
CHECK_DEADLOCK FALSE
SPECIFICATION FairSpec
PROPERTY StreamGoesOn
