CONSTANTS
  SegmentBound = 3
  CallBound = 2
  Blocks <- TwoBlocks
  Reserve = 1
SPECIFICATION FairSpec
INVARIANT BlocksAccounted
PROPERTIES ImplementsFile FileLossless LaneSettles
