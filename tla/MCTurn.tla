------------------------------- MODULE MCTurn -------------------------------
(* Instances of Turn for TLC. *)
EXTENDS Turn

CONSTANTS chan1, chan2, dm
=============================================================================
