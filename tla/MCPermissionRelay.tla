------------------------- MODULE MCPermissionRelay -------------------------
(* Instances of PermissionRelay for TLC. *)
EXTENDS PermissionRelay, TLC

CONSTANTS h1, p1, alice, bob

MCToolOf == [r \in HookReqs |-> "Bash"]
MCArgOf == [r \in HookReqs |-> r]
MCNarrowed == {"Bash"}

UserSymmetry == Permutations(Users)
=============================================================================
