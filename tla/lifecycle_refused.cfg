CONSTANTS
  Ports <- AnyPort
  Refusable <- Signals
  EagerClient = FALSE
  QueueBound = 1
  SessionBound = 2
SPECIFICATION Spec
INVARIANT FaultIsLatched
