-------------------------- MODULE MCHandleSharing --------------------------
(* One screen of each kind.  Connections are interchangeable, and at most  *)
(* MaxAccidents of them are lost or crossed.                               *)
EXTENDS HandleSharing, TLC

CONSTANT MaxAccidents

Interchangeable == Permutations(Conn)
FewAccidents == Cardinality(lost \cup crossed) <= MaxAccidents
=============================================================================
