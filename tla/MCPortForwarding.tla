------------------------- MODULE MCPortForwarding -------------------------
(* Two forwards and two clients of the dynamic one, which do all that a    *)
(* client of the other would; the loops wait for each other in any order.  *)
EXTENDS PortForwarding, TLC

CONSTANTS a, b, web, socks

BothDynamic == a :> socks @@ b :> socks
=============================================================================
