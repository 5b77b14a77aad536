CONSTANTS
  Openings = {"screen", "container", "reconnect", "attach"}
  Faults = {"dial", "auth", "gone"}
SPECIFICATION Spec
INVARIANTS
  ReleasedAtRest
  ScreenAgrees
  ToldOnce
PROPERTIES
  EndIsFinal
  DisconnectCompletes
  AttemptIsReported
CHECK_DEADLOCK FALSE
