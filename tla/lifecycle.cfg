CONSTANTS
  Ports <- ComPort
  Refusable <- CallerRequests
  EagerClient = FALSE
  QueueBound = 2
  SessionBound = 2
SPECIFICATION FairSpec
INVARIANTS SessionResources DeadReaderIsReported
PROPERTIES NoDoubleOpen ImplementsPort RequestsEnd
