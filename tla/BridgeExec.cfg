CONSTANTS
  reader = reader
  writer = writer
  worker = worker
  Thread <- Terminal
  CallsOf <- ExecCalls
  Chunks = 2
  Timed = FALSE
  Faults = {}
SPECIFICATION SafetySpec
INVARIANT ExecReadsResult
CHECK_DEADLOCK FALSE
