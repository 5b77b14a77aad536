CONSTANTS
  Detail = {d}
  Browser = {b}
  Helper = {s}
  Conn = {c1, c2}
  MaxIds = 2
  MaxScreens = 2
SPECIFICATION Spec
INVARIANTS NoneForgotten OneOwner OwnedIsOpen
SYMMETRY Interchangeable
CHECK_DEADLOCK FALSE
CONSTRAINT FewAccidents
CONSTANT MaxAccidents = 1
