CONSTANTS
  Blocks = {1, 2, 3}
  Nil = 0
  Threads = {1, 2}
  TagBound = 4
  Order <- ThreeOrdered
  Producers = {p1, p2}
  Size = 2
  Width = 16
  PushBound = 5
  Intervals = {2, 3}
  TimeBound = 8
  StartBound = 2
  Bytes = {"esc", "[", "]", "letter", "print", "cr", "lf", "bel"}
  BlockMax = 2
  StreamBound = 4
  ToggleBound = 1
  Timeout = 1
  LongPark = 1
  Groups = {{"reader", "dispatcher"}, {"writer"}}
  Kinds = {"frame", "overrun"}
  HoldBits = {"cts", "xoff"}
  ErrorBound = 2
  ToggleBoundOfLines = 1
  ClickBound = 3
  FaultBound = 1
  RenameBound = 1
  QueueBound = 3
SPECIFICATION AllSpec
CHECK_DEADLOCK FALSE
INVARIANTS PoolInv ViewsFaithful
PROPERTIES OnlyFreeTaken RingExact DeadlinesRight  LinesTrue MirrorTrue PartsSettle
