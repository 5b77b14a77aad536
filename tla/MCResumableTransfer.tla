------------------------ MODULE MCResumableTransfer ------------------------
(* Sources with and without repetition, of whole blocks and with a short   *)
(* last one; copies that are absent, right so far, right at their end only *)
(* and too long.                                                           *)
EXTENDS ResumableTransfer

Sources == {<<>>, <<1, 2, 3, 4>>, <<1, 2, 3, 4, 5>>, <<1, 1, 1, 1, 2>>}
Priors  == {<<>>, <<1, 2, 3>>, <<0, 0, 3, 4>>, <<0, 0, 0, 0, 0, 0>>}
=============================================================================
