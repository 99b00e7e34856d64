----------------------------- MODULE MCCheckout -----------------------------
(* Instances of Checkout: requests spread over two pods. *)
EXTENDS Checkout, TLC
CONSTANTS p1, p2, p3, d1, d2

Placement == [p \in Procs |-> IF p = p1 THEN d1 ELSE d2]

ProcSymmetry == Permutations(Procs \ {p1})
=============================================================================
