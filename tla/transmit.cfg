SPECIFICATION Spec
CONSTANTS
  SendBound = 2
  OpenBound = 2
  ConfigBound = 2
  Blocks <- ThreeBlocks
  JobBound = 1
  StreakLimit = 2
  CloseWaits = TRUE
CHECK_DEADLOCK FALSE
INVARIANTS PipelineExact GateHeld CloseMeansNoTx
PROPERTIES WrittenInItsSession ImplementsStream
