------------------------------ MODULE MCAccess ------------------------------
(* Instances of Access for TLC. *)
EXTENDS Access, TLC

CONSTANTS s1, s2, g1, c1, c2, k1, k2

\* The channel is opened to one sender.
OpenToOne == {[mention |-> FALSE, allow |-> {s2}]}

Symmetric == Permutations(Codes) \cup Permutations(Clis)
=============================================================================
