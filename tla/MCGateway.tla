------------------------------ MODULE MCGateway ------------------------------
(* Instances of Gateway for TLC. *)
EXTENDS Gateway, TLC
CONSTANTS m1, m2, p1, p2, r1, r2, s1, s2

\* Suspended, then active again with a new secret and a larger limit.
Rotated ==
  [v \in 0..2 |->
    CASE v = 0 -> [status |-> "active", secret |-> s1, limit |-> 1]
      [] v = 1 -> [status |-> "suspended", secret |-> s1, limit |-> 1]
      [] v = 2 -> [status |-> "active", secret |-> s2, limit |-> 0]]

RequestSymmetry == Permutations(Requests)
=============================================================================
