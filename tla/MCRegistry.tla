----------------------------- MODULE MCRegistry -----------------------------
(* Instances of Registry for TLC. *)
EXTENDS Registry

CONSTANTS a, b, c

\* a and b are sessions in one directory; c runs in another one whose
\* basename is the same.
MCCwdOf == [p \in Plugins |-> IF p = c THEN "/x/app" ELSE "/y/app"]
MCBaseOf == [w \in {"/x/app", "/y/app"} |-> "app"]
=============================================================================
