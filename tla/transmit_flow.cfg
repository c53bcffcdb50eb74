SPECIFICATION FairSpec
CONSTANTS
  SendBound = 2
  OpenBound = 2
  ConfigBound = 1
  Blocks <- TwoBlocks
  JobBound = 1
  StreakLimit = 2
  CloseWaits = FALSE
CHECK_DEADLOCK FALSE
PROPERTY PipelineSettles
