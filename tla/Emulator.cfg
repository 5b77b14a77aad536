CONSTANTS
  Sizes <- TwoSizes
  Arg = {0, 1, 2, 3}
  MaxInt = 7
SPECIFICATION Spec
INVARIANTS
  TypeOK
  StaysOnScreen
PROPERTIES
  ChangesMarked
CHECK_DEADLOCK FALSE
