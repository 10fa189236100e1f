----------------------------- MODULE MCRouting -----------------------------
(* Instances of Routing for TLC. *)
EXTENDS Routing, TLC

CONSTANTS g1, g2, dm, w1, w2, k1, k2, k3, boot

Symmetric == Permutations({g1, g2}) \cup Permutations({w1, w2}) \cup Permutations(Cmds)
=============================================================================
