CONSTANTS
  Emitters = {"dispatcher", "reader", "writer"}
  LaneCapacity = 1
  DrainBatch = 1
  FileLines = 1
  RecordBound = 2
  PostBound = 2
  RawBound = 1
SPECIFICATION FairSpec
CHECK_DEADLOCK FALSE
INVARIANT LifeExact
PROPERTIES OnlyLastPassIsLost CoreSettles
