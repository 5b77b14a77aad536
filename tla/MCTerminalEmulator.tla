-------------------------- MODULE MCTerminalEmulator --------------------------
(* Instances of TerminalEmulator for TLC. *)
EXTENDS TerminalEmulator

(* A phone held sideways and upright: each is larger than the other in one *)
(* dimension.                                                              *)
TwoSizes == {<<2, 2>>, <<1, 3>>}
=============================================================================
