------------------------------- MODULE Delivery -------------------------------
(***************************************************************************)
(* What the settlement of a partition promises, without batches, attempts, *)
(* fallback or dead-letter topic: the group's offset passes a message only *)
(* when the message has been settled, or a known fault has dropped it.     *)
(* Module Settlement implements it.                                        *)
(*                                                                         *)
(* It promises no order and no single delivery: what the reader had        *)
(* settled beyond the committed offset is settled again after a restart.   *)
(***************************************************************************)
EXTENDS Naturals

CONSTANTS
  N,           \* bound on the messages of the partition
  NoCallback   \* messages that are settled by being read

VARIABLES
  committed,   \* offset of the group
  settled,     \* messages answered 2xx or kept in the dead-letter topic
  dropped      \* messages passed over since the reader was started

vars == <<committed, settled, dropped>>

Messages == 1..N

Init == committed = 0 /\ settled = NoCallback /\ dropped = {}

Settle(m) == settled' = settled \cup {m} /\ UNCHANGED <<committed, dropped>>

\* Only what is not committed yet can be dropped.
Drop(S) ==
  /\ S \cap 1..committed = {}
  /\ dropped' = dropped \cup S
  /\ UNCHANGED <<committed, settled>>

\* The reader starts again: what it had dropped beyond the offset comes back.
Reread == dropped' = dropped \cap 1..committed /\ UNCHANGED <<committed, settled>>

CommitTo(k) ==
  /\ k >= committed /\ 1..k \subseteq settled \cup dropped
  /\ committed' = k
  /\ UNCHANGED <<settled, dropped>>

Next ==
  \/ \E m \in Messages : Settle(m) \/ CommitTo(m)
  \/ \E S \in SUBSET Messages : Drop(S)
  \/ Reread

Spec == Init /\ [][Next]_vars
=============================================================================
