CONSTANTS
  reader = reader
  writer = writer
  worker = worker
  Thread <- TwoThreads
  CallsOf <- AnyCall
  Chunks = 2
  Timed = TRUE
  Faults = {"lost", "server", "local"}
SPECIFICATION Spec
INVARIANTS
  IdleIsNonBlocking
  WholeOrReported
  WholeWhenAlone
  ReleasedWhenAlone
PROPERTIES
  CallsReturn
CHECK_DEADLOCK FALSE
