CONSTANTS
  w1 = w1
  w2 = w2
  a = a
  b = b
  c = c
  h1 = h1
  h2 = h2
  Worker <- Workers
  Main = main
  NoTask = null
  MAX_PARALLEL_TRANSFERS = 2
  Task <- TwoTasks
  Key <- OneHost
  KeyOf <- HostOfTwo
  TypeOf <- KindOfTwo
  DEFAULT_RETRIES = 1
  Faults = {"fatal", "retryable"}
  Disturbances = {}
  MaxInbox = 1
SPECIFICATION Spec
PROPERTIES
  ImplementsJobs
  EveryTransferEnds
CHECK_DEADLOCK FALSE
