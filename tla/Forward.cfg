CONSTANTS
  a = a
  b = b
  web = web
  socks = socks
  Client = {a, b}
  Forward = {web, socks}
  PortOf <- BothDynamic
  Dynamic = {socks}
  Pool = 4
SPECIFICATION Spec
INVARIANTS
  UplinkHasDownlink
  NothingLeft
  PortIsServed
PROPERTIES
  
  UplinkStarts
CHECK_DEADLOCK FALSE
