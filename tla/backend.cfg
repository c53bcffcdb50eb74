CONSTANTS
  BlockBytes = 2
  MaxIterations = 2
  JobBound = 2
  LineBound = 1
SPECIFICATION FairSpec
CHECK_DEADLOCK FALSE
INVARIANTS ReadsExact WritesExact
PROPERTIES ReaderEndsClean CloseReturns
