CONSTANTS
  w1 = w1
  w2 = w2
  a = a
  b = b
  c = c
  h1 = h1
  h2 = h2
  Worker <- Workers
  Main = main
  NoTask = null
  MAX_PARALLEL_TRANSFERS = 2
  Task <- TwoTasks
  Key <- OneHost
  KeyOf <- HostOfTwo
  TypeOf <- Downloads
  DEFAULT_RETRIES = 1
  Faults = {"fatal", "retryable"}
  Disturbances = {"stop", "terminal", "cancel"}
  MaxInbox = 1
SPECIFICATION SafetySpec
SYMMETRY WorkerSymmetry
INVARIANTS
  NoConnectionLeft
  SessionExclusive
CHECK_DEADLOCK FALSE
