-------------------------- MODULE OneShotDecision --------------------------
(***************************************************************************)
(* What the permission relay promises its requesters: a request is put to  *)
(* the user or settled at once, it is settled once, and whatever was       *)
(* answered at that moment is all its requester ever gets.  An answer may  *)
(* be missing (the requester is gone, the relay restarted); it is never    *)
(* changed, repeated or taken back.                                        *)
(***************************************************************************)
EXTENDS Sequences

CONSTANTS Requests, Answers

VARIABLES
    phase,   \* unseen, asked or settled
    given    \* the answers handed to the requester

vars == <<phase, given>>

Init ==
    /\ phase = [r \in Requests |-> "unseen"]
    /\ given = [r \in Requests |-> <<>>]

\* The user is asked.
Ask(r) ==
    /\ phase[r] = "unseen"
    /\ phase' = [phase EXCEPT ![r] = "asked"]
    /\ given' = given

\* The request is settled, with one answer or with none.
Settle(r) ==
    /\ phase[r] # "settled"
    /\ phase' = [phase EXCEPT ![r] = "settled"]
    /\ given' = given \/ \E a \in Answers : given' = [given EXCEPT ![r] = <<a>>]

\* Everything that was asked is forgotten.
Forget ==
    /\ phase' = [r \in Requests |-> IF phase[r] = "asked" THEN "settled" ELSE phase[r]]
    /\ given' = given

Next == Forget \/ \E r \in Requests : Ask(r) \/ Settle(r)

Spec == Init /\ [][Next]_vars
=============================================================================
