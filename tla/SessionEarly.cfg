CONSTANTS
  Openings = {"screen", "container", "reconnect", "attach"}
  Faults = {"dial", "auth", "gone"}
SPECIFICATION SafetySpec
INVARIANTS
  Released
CHECK_DEADLOCK FALSE
