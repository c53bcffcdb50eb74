CONSTANTS
  CallBound = 4
  JobBound = 2
  DataBlocks = 2
  CompletionBound = 2
  Waiters = {w1, w2}
  StreamIds = {2, 3}
  Size = 2
SPECIFICATION FairSpec
CHECK_DEADLOCK FALSE
INVARIANTS RequestsExact LogExact FilesWhole
PROPERTY WriterSettles
