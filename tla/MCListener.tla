------------------------------ MODULE MCListener ------------------------------
(* Small instances of Listener. *)
EXTENDS Listener, TLC

CONSTANTS d1, d2, t1, t2, t3, o1, o2

\* Who pays for what, and how much: t1 and t2 pay the price, t3 does not.
OneOrder == [t \in Txs |-> {o1}]
\* Two merchants have an order with the order_id t1 names, at different prices.
SameId == [t \in Txs |-> IF t = t1 THEN {o1, o2} ELSE {o1}]
FullPrice == [o \in Orders |-> IF o = o1 THEN 1 ELSE 2]
Twice == [t \in Txs |-> IF t = t3 THEN 2 ELSE 1]
Short == [t \in Txs |-> IF t = t1 THEN 1 ELSE 2]
\* Five and one have the same low two bits.
Wrapped == [t \in Txs |-> 5]
OneStray == [t \in Txs |-> IF t = t1 THEN {o1} ELSE {}]

\* Bounds: one pod at a time is subscribed, and two of the workers of all pods
\* are at work at a time; when the chain has its full height these are trackers
\* and reconcilers.
AtWork ==
  {<<d, "subscriber">> : d \in {e \in Pods : sub[e] > 0}}
    \cup {<<d, "scanner">> : d \in {e \in Pods : scan[e].pc # "idle"}}
    \cup {<<d, "tracker">> : d \in {e \in Pods : track[e].pc # "idle"}}
    \cup {<<d, "reconciler">> : d \in {e \in Pods : recon[e].pc # "idle"}}
TwoAtWork ==
  /\ Cardinality(conn) <= 1 /\ \A d \in Pods : Len(logs[d]) <= 1
  /\ Cardinality(AtWork) <= 2
  /\ head = MaxHead => Cardinality(AtWork) <= 1 \/ AtWork \subseteq Pods \X {"tracker", "reconciler"}

PodSymmetry == Permutations(Pods)
=============================================================================
