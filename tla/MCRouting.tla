------------------------------ MODULE MCRouting ------------------------------
(* Small instances of Routing. *)
EXTENDS Routing, TLC

CONSTANTS m1, m2, o1, a1, a2, c1

Upper(s) == [letters |-> s, canonical |-> TRUE]
Lower(s) == [letters |-> s, canonical |-> FALSE]

\* Baht, in lower case, by a method the codec does not know.
Baht == [o \in Orders |-> [currency |-> Lower("THB"), method |-> Upper("paypal")]]

\* One merchant on shard 0: the next two go to shards 1 and 2, on two pools.
OneEarlier == [i \in 0..254 |-> IF i = 0 THEN 1 ELSE 0]

AdminSymmetry == Permutations(Admins)

\* transaction_id: one per merchant and order.
Ids == [mo \in Merchants \X Orders |-> IF mo[1] = m1 THEN 1 ELSE 2]
=============================================================================
