----------------------------- MODULE MCToolCalls -----------------------------
(* Instances of ToolCalls for TLC. *)
EXTENDS ToolCalls

CONSTANTS q1, r1, yes, no

\* Texts of up to six characters against a limit of three, and a reply that is
\* cut at a line.
MCTexts == UNION {[1 .. n -> {"\n", " ", "x"}] : n \in 0 .. 6}
MCTextOf == [r \in Replies |-> <<"x", "x", "\n", "x", "x">>]
=============================================================================
