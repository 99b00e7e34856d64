---------------------------- MODULE PaymentLedger ----------------------------
(***************************************************************************)
(* What the gateway promises about an order, without handlers, events or   *)
(* retries: its recorded status and what merchants are told never run      *)
(* ahead of the money.  Module PaymentLifecycle implements it.             *)
(*                                                                         *)
(* It promises no order between statuses: the repository's UpdateStatus    *)
(* does not look at the status it replaces.                                *)
(***************************************************************************)
CONSTANT Orders

VARIABLES
  status,    \* recorded status of each order
  settled,   \* orders Stripe has collected the money of
  reversed,  \* orders Stripe has sent money back for
  heard      \* what merchants have been told: order and status

vars == <<status, settled, reversed, heard>>

Init ==
  /\ status = [o \in Orders |-> "none"]
  /\ settled = {}
  /\ reversed = {}
  /\ heard = {}

\* The money an order must have behind it to be given, or announced with, s.
Backed(o, s) ==
  /\ s = "paid" => o \in settled
  /\ s = "refunded" => o \in reversed

Settle(o)  == settled' = settled \cup {o} /\ UNCHANGED <<status, reversed, heard>>
Reverse(o) == o \in settled /\ reversed' = reversed \cup {o} /\ UNCHANGED <<status, settled, heard>>

Accept(o) ==
  /\ status[o] = "none"
  /\ status' = [status EXCEPT ![o] = "created"]
  /\ UNCHANGED <<settled, reversed, heard>>

Record(o, s) ==
  /\ status[o] # "none" /\ Backed(o, s)
  /\ status' = [status EXCEPT ![o] = s]
  /\ UNCHANGED <<settled, reversed, heard>>

Announce(o, s) ==
  /\ status[o] # "none" /\ Backed(o, s)
  /\ heard' = heard \cup {[order |-> o, status |-> s]}
  /\ UNCHANGED <<status, settled, reversed>>

Next ==
  \E o \in Orders :
    \/ Settle(o) \/ Reverse(o) \/ Accept(o)
    \/ \E s \in {"paid", "failed", "refunded"} : Record(o, s)
    \/ \E s \in {"paid", "refunded"} : Announce(o, s)

Spec == Init /\ [][Next]_vars
=============================================================================
