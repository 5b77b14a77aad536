CONSTANTS
  MIN_FRAME_TIME = 2
  Chunks = 4
  MaxSwitches = 2
SPECIFICATION Spec
INVARIANTS
  NothingLostOrDoubled
  PendingIsScheduled
PROPERTIES
  OutputArrives
CHECK_DEADLOCK FALSE
