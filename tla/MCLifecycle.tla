---------------------------- MODULE MCLifecycle -----------------------------
(* Instances of Lifecycle for TLC. *)
EXTENDS Lifecycle

CONSTANTS a, b, h1

\* Two sessions in one directory.
MCCwdOf == [p \in Plugins |-> "/y/app"]
MCBaseOf == [w \in {"/y/app"} |-> "app"]
=============================================================================
