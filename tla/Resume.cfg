CONSTANTS
  Source <- Sources
  Prior <- Priors
  Block = 2
  TailSize = 1
  Batch = 2
  Garbage = 99
  Runs = 3
SPECIFICATION Spec
INVARIANTS
  OwnWorkIsSound
  Intact
  TypeOK
PROPERTIES
  ProgressKept
  Ends
CHECK_DEADLOCK FALSE
