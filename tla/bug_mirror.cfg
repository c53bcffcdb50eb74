\* A cancelled open: the generation falls from its close to the next open.
\* The other claims at the end of PortMirror, checked in place of this one under
\* FairSpec, are refuted with the same constants.
CONSTANTS
  ClickBound = 3
  FaultBound = 1
  RenameBound = 1
  QueueBound = 3
SPECIFICATION FairSpec
CHECK_DEADLOCK FALSE
PROPERTY GenerationNeverFalls
