----------------------------- MODULE MCStreams -----------------------------
(* Instances of Streams for TLC. *)
EXTENDS Streams

CONSTANTS main, sub, c1, beat
=============================================================================
