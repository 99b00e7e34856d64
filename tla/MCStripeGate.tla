----------------------------- MODULE MCStripeGate -----------------------------
(* StripeGate for TLC: three calls of one pod. *)
EXTENDS StripeGate, TLC
CONSTANTS p1, c1, c2, c3

OnePod == [c \in {c1, c2, c3} |-> p1]
=============================================================================
