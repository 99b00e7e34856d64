------------------------- MODULE MCPaymentLifecycle -------------------------
(* Instances of PaymentLifecycle: up to two orders and two intents. *)
EXTENDS PaymentLifecycle, TLC
CONSTANTS o1, o2, p1, p2, h1, h2, c1, c2

OneOrder  == [p \in Intents |-> o1]
TwoOrders == (p1 :> o1) @@ (p2 :> o2)

\* Requests are interchangeable, and so are pods.
HandlerSymmetry == Permutations(Handlers) \cup Permutations(Crons)
=============================================================================
