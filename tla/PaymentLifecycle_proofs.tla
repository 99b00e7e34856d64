----------------------- MODULE PaymentLifecycle_proofs -----------------------
(***************************************************************************)
(* The safety properties of PaymentLifecycle for any number of orders,     *)
(* intents, concurrent webhook requests and faults.                        *)
(***************************************************************************)
EXTENDS PaymentLifecycle, FiniteSetTheorems, TLAPS

USE OrderOfAssumption, NoIntentAssumption, NoOrderAssumption

\* The created_at rank that Insert gives a row is a number.
LEMMA RankIsNat == Cardinality({q \in Orders : Exists(q)}) \in Nat
BY OrdersAssumption, FS_Subset, FS_CardinalityType, Zenon

\* The answer to Stripe leaves unacked inside sent and faults in its bound.
LEMMA AckType ==
  ASSUME TypeOK, NEW e, Ack(e)
  PROVE  unacked' \subseteq sent /\ faults' \in 0..MaxFaults
BY MaxFaultsAssumption DEF TypeOK, Ack

\* An order found for an event is an order.
LEMMA OrderForType ==
  ASSUME NEW e \in Events, NEW o \in OrderFor(e)
  PROVE  o \in Orders
<1>1. CASE e.meta
  BY <1>1 DEF OrderFor, Events
<1>2. CASE ~e.meta
  BY <1>2, Zenon DEF OrderFor, Events
<1> QED BY <1>1, <1>2, Zenon

\* New events are events, and are sent before they are unacked.
LEMMA EmitType ==
  ASSUME TypeOK, NEW evs \in SUBSET Events, Emit(evs)
  PROVE  sent' \subseteq Events /\ unacked' \subseteq sent' /\ sent \subseteq sent'
BY Zenon DEF TypeOK, Emit

\* What a handler's pc says about the rest of it.
LEMMA HandlerType ==
  ASSUME TypeOK, NEW h \in Handlers
  PROVE  /\ handler[h].pc \in {"idle", "check", "update", "publish"}
         /\ handler[h].pc = "idle" <=> handler[h] = Idle
         /\ handler[h].pc # "idle" => handler[h].ev \in sent /\ handler[h].ev \in Events
         /\ handler[h].pc \in {"update", "publish"} => handler[h].order \in Orders
         /\ handler[h].pc = "publish" => handler[h].ev.type # Failed
BY DEF TypeOK, Idle, Requests

\* Requests in flight stay requests when Stripe sends more events.
LEMMA HandlerMonotone ==
  ASSUME TypeOK, UNCHANGED handler, sent \subseteq sent'
  PROVE  handler' \in [Handlers -> Requests']
BY Zenon DEF TypeOK, Requests

\* What a cron's pc says about the row it works on.
LEMMA CronType ==
  ASSUME TypeOK, NEW c \in Crons
  PROVE  /\ cron[c] \in Passes
         /\ cron[c].pc \in {"next", "confirm", "publish", "fail"}
         /\ cron[c].batch \subseteq Listed
         /\ cron[c].pc = "next" => cron[c].cur = Nothing
         /\ cron[c].pc # "next" => cron[c].cur \in Listed
BY Zenon DEF TypeOK, Passes

\* The domains of the row, of the intents and of the topic, without the rest
\* of the type invariant.
LEMMA StoreType ==
  ASSUME TypeOK
  PROVE  /\ row \in [Orders -> [status : Statuses, pi : Intents \cup {NoIntent}, at : Nat]]
         /\ intent \in [Intents -> IntentStates]
         /\ published \subseteq [order : Orders, status : {"paid", "refunded"}]
BY Zenon DEF TypeOK

\* reconcileOne's verdict is one of its three ways on.
LEMMA VerdictType ==
  ASSUME NEW x
  PROVE  /\ Verdict(x) \in {"next", "confirm", "fail"}
         /\ Verdict(x) # "next" => x.pi # NoIntent
         /\ Verdict(x) = "confirm" => intent[x.pi] = "succeeded"
BY Zenon DEF Verdict

\* Every variable of the lifecycle stays in its domain, whatever the handlers,
\* the cron and Stripe do.
THEOREM TypeCorrect == Spec => []TypeOK
<1>1. Init => TypeOK
  BY MaxFaultsAssumption DEF Init, TypeOK, Requests, Passes, NoRow, Statuses, IntentStates, Idle, Resting, Nothing
<1>2. TypeOK /\ [Next]_vars => TypeOK'
  <2> SUFFICES ASSUME TypeOK, [Next]_vars PROVE TypeOK'
    BY Zenon
  <2> USE DEF rowVars, stripeVars, dedupVars, topicVars, Requests
  <2>1. ASSUME NEW o \in Orders, Insert(o) PROVE TypeOK'
    BY <2>1, RankIsNat DEF TypeOK, Insert, Statuses
  <2>2. ASSUME NEW o \in Orders, CreateRefund(o) PROVE TypeOK'
    <3>1. row[o].pi \in Intents
      BY <2>2, Zenon DEF CreateRefund, TypeOK
    <3> QED BY <2>2, <3>1, Zenon DEF CreateRefund, TypeOK
  <2>2a. ASSUME NEW p \in Intents, StripeRefund(p) PROVE TypeOK'
    <3>1. CASE UNCHANGED <<refunds, sent, unacked>>
      BY <2>2a, <3>1, Zenon DEF StripeRefund, TypeOK
    <3>2. ASSUME NEW m \in BOOLEAN, Emit({[type |-> Refunded, pi |-> p, meta |-> m]}), refunds' = refunds \cup {p}
          PROVE  TypeOK'
      <4>1. {[type |-> Refunded, pi |-> p, meta |-> m]} \in SUBSET Events
        BY DEF Events
      <4> QED BY <2>2a, <3>2, <4>1, EmitType, HandlerMonotone, Zenon DEF StripeRefund, TypeOK
    <3> QED BY <2>2a, <3>1, <3>2, Zenon DEF StripeRefund
  <2>3. ASSUME NEW p \in Intents, UpdateCheckout(p) PROVE TypeOK'
    BY <2>3 DEF TypeOK, UpdateCheckout
  <2>4. ASSUME NEW p \in Intents, OpenIntent(p) PROVE TypeOK'
    BY <2>4, Zenon DEF TypeOK, OpenIntent, IntentStates
  <2>5. ASSUME NEW p \in Intents, StartProcessing(p) PROVE TypeOK'
    <3>1. {[type |-> Completed, pi |-> p, meta |-> TRUE]} \in SUBSET Events
      BY DEF Events
    <3> QED BY <2>5, <3>1, EmitType, HandlerMonotone, ZenonT(30) DEF StartProcessing, TypeOK, IntentStates
  <2>6. ASSUME NEW p \in Intents, Pay(p) PROVE TypeOK'
    <3>1. PICK m \in BOOLEAN :
            Emit({[type |-> Completed, pi |-> p, meta |-> TRUE],
                  [type |-> Succeeded, pi |-> p, meta |-> m]})
      BY <2>6, Zenon DEF Pay
    <3>2. {[type |-> Completed, pi |-> p, meta |-> TRUE],
           [type |-> Succeeded, pi |-> p, meta |-> m]} \in SUBSET Events
      BY DEF Events
    <3> QED BY <2>6, <3>1, <3>2, EmitType, HandlerMonotone, ZenonT(30) DEF Pay, TypeOK, IntentStates
  <2>7. ASSUME NEW p \in Intents, Decline(p) PROVE TypeOK'
    <3>1. PICK m \in BOOLEAN : Emit({[type |-> Failed, pi |-> p, meta |-> m]})
      BY <2>7, Zenon DEF Decline
    <3>2. {[type |-> Failed, pi |-> p, meta |-> m]} \in SUBSET Events
      BY DEF Events
    <3> QED BY <2>7, <3>1, <3>2, EmitType, HandlerMonotone, Zenon DEF Decline, TypeOK, IntentStates
  <2>8. ASSUME NEW p \in Intents, Cancel(p) PROVE TypeOK'
    BY <2>8, Zenon DEF TypeOK, Cancel, IntentStates
  <2>9. CASE Age
    BY <2>9 DEF TypeOK, Age
  <2>10. ASSUME NEW e \in unacked, ProcessDuplicate(e) PROVE TypeOK'
    BY <2>10, AckType, Zenon DEF TypeOK, ProcessDuplicate
  <2>11. ASSUME NEW h \in Handlers, NEW e \in unacked, Process(h, e) PROVE TypeOK'
    BY <2>11, Zenon DEF TypeOK, Process
  <2>12. ASSUME NEW e \in dedup, DedupExpire(e) PROVE TypeOK'
    BY <2>12, Zenon DEF TypeOK, DedupExpire
  <2>13. ASSUME NEW h \in Handlers, Check(h) PROVE TypeOK'
    <3>1. PICK o \in OrderFor(handler[h].ev) :
            handler' = [handler EXCEPT ![h] = [pc |-> "update", ev |-> @.ev, order |-> o]]
      BY <2>13, ZenonT(30) DEF Check
    <3>2. handler[h].ev \in Events /\ handler[h].ev \in sent
      BY <2>13, HandlerType, Zenon DEF Check
    <3>3. o \in Orders
      BY <3>1, <3>2, OrderForType, Zenon
    <3> QED BY <2>13, <3>1, <3>2, <3>3, Zenon DEF Check, TypeOK
  <2>14. ASSUME NEW h \in Handlers, Reject(h) PROVE TypeOK'
    BY <2>14, Zenon DEF TypeOK, Reject, Idle
  <2>15. ASSUME NEW h \in Handlers, Update(h) PROVE TypeOK'
    <3> DEFINE e == handler[h].ev
               o == handler[h].order
    <3>1. e \in sent /\ e \in Events /\ o \in Orders
      BY <2>15, HandlerType, Zenon DEF Update
    <3>2. row' \in [Orders -> [status : Statuses, pi : Intents \cup {NoIntent}, at : Nat]]
      <4>1. e.pi \in Intents /\ StatusFor(e.type) \in Statuses
        BY <3>1, Zenon DEF Events, StatusFor, Statuses, Succeeded, Completed, Failed, Refunded
      <4>2. UpdateStatus(row[o], StatusFor(e.type), e.pi)
              \in [status : Statuses, pi : Intents \cup {NoIntent}, at : Nat]
        BY <3>1, <4>1, Zenon DEF UpdateStatus, TypeOK
      <4>3. row' = [row EXCEPT ![o] = UpdateStatus(row[o], StatusFor(e.type), e.pi)]
        BY <2>15, Zenon DEF Update
      <4> QED BY <3>1, <4>2, <4>3, Zenon DEF TypeOK
    <3>3. unacked' \subseteq sent /\ faults' \in 0..MaxFaults
      BY <2>15, AckType, Zenon DEF Update, TypeOK
    <3>4. handler' \in [Handlers -> Requests]
      BY <2>15, <3>1 DEF Update, TypeOK
    <3>5. sent' = sent /\ Requests' = Requests
      BY <2>15, Zenon DEF Update
    <3> QED BY <2>15, <3>2, <3>3, <3>4, <3>5, Zenon DEF Update, TypeOK
  <2>4a. ASSUME NEW h \in Handlers, Publish(h) PROVE TypeOK'
    <3> DEFINE e == handler[h].ev
               o == handler[h].order
    <3>1. e \in sent /\ e \in Events /\ o \in Orders /\ e.type # Failed
      BY <2>4a, HandlerType, Zenon DEF Publish
    <3>2. published' \subseteq [order : Orders, status : {"paid", "refunded"}]
      <4>1. StatusFor(e.type) \in {"paid", "refunded"}
        BY <3>1, Zenon DEF StatusFor, Events
      <4> QED BY <2>4a, <3>1, <4>1 DEF Publish, TypeOK
    <3>3. unacked' \subseteq sent /\ faults' \in 0..MaxFaults
      BY <2>4a, AckType, Zenon DEF Publish, TypeOK
    <3> QED BY <2>4a, <3>1, <3>2, <3>3, Zenon DEF Publish, TypeOK
  <2>17. ASSUME NEW h \in Handlers, HandlerFault(h) PROVE TypeOK'
    BY <2>17, MaxFaultsAssumption DEF TypeOK, HandlerFault, Idle
  <2>18. ASSUME NEW c \in Crons, Tick(c) PROVE TypeOK'
    <3>1. [pc |-> "next", cur |-> Nothing, batch |-> GetPendingBefore] \in Passes
      BY DEF Passes, GetPendingBefore, Pending, Listed, TypeOK
    <3> QED BY <2>18, <3>1, Zenon DEF TypeOK, Tick
  <2>19. ASSUME NEW c \in Crons, ReconcileRead(c) PROVE TypeOK'
    <3>1. PICK x \in cron[c].batch :
            cron' = [cron EXCEPT ![c] = [pc |-> Verdict(x), batch |-> cron[c].batch \ {x},
                                         cur |-> IF Verdict(x) = "next" THEN Nothing ELSE x]]
      BY <2>19, ZenonT(30) DEF ReconcileRead
    <3>2. x \in Listed /\ cron[c].batch \subseteq Listed
      BY <3>1, CronType, Zenon
    <3>3. [pc |-> Verdict(x), batch |-> cron[c].batch \ {x},
           cur |-> IF Verdict(x) = "next" THEN Nothing ELSE x] \in Passes
      BY <3>2, VerdictType, SMTT(30) DEF Passes
    <3>4. cron' \in [Crons -> Passes]
      BY <3>1, <3>3, ZenonT(30) DEF TypeOK
    <3>5. UNCHANGED <<row, aged, intent, refunds, refunding, sent, unacked, dedup, expired, handler, published, notified,
                      renotified, faults>>
      BY <2>19, Zenon DEF ReconcileRead
    <3> QED BY <3>4, <3>5, Zenon DEF TypeOK
  <2>20. ASSUME NEW c \in Crons, ReconcileConfirm(c) PROVE TypeOK'
    <3>1. cron[c].cur \in Listed /\ cron[c].batch \subseteq Listed
      BY <2>20, CronType, Zenon DEF ReconcileConfirm
    <3>2. cron[c].cur.order \in Orders /\ cron[c].cur.pi \in Intents \cup {NoIntent}
      BY <3>1, Zenon DEF Listed
    <3>3. UpdateStatus(row[cron[c].cur.order], "paid", cron[c].cur.pi)
            \in [status : Statuses, pi : Intents \cup {NoIntent}, at : Nat]
      BY <3>2, Zenon DEF UpdateStatus, TypeOK, Statuses
    <3>4. [pc |-> "publish", cur |-> cron[c].cur, batch |-> cron[c].batch] \in Passes
      BY <3>1, Zenon DEF Passes
    <3> QED BY <2>20, <3>2, <3>3, <3>4, Zenon DEF ReconcileConfirm, TypeOK
  <2>21. ASSUME NEW c \in Crons, RowDone(c) PROVE cron' \in [Crons -> Passes]
    <3>1. [pc |-> "next", cur |-> Nothing, batch |-> cron[c].batch] \in Passes
      BY CronType, Zenon DEF Passes
    <3> QED BY <2>21, <3>1, Zenon DEF RowDone, TypeOK
  <2>22. ASSUME NEW c \in Crons, ReconcilePublish(c) PROVE TypeOK'
    <3>1. cron[c].cur.order \in Orders
      BY <2>22, CronType, Zenon DEF ReconcilePublish, Listed
    <3> QED BY <2>21, <2>22, <3>1 DEF ReconcilePublish, TypeOK
  <2>23. ASSUME NEW c \in Crons, ReconcileFail(c) PROVE TypeOK'
    <3>1. cron[c].cur \in Listed
      BY <2>23, CronType, Zenon DEF ReconcileFail
    <3>2. cron[c].cur.order \in Orders /\ cron[c].cur.pi \in Intents \cup {NoIntent}
      BY <3>1, Zenon DEF Listed
    <3>3. UpdateStatus(row[cron[c].cur.order], "failed", cron[c].cur.pi)
            \in [status : Statuses, pi : Intents \cup {NoIntent}, at : Nat]
      BY <3>2, Zenon DEF UpdateStatus, TypeOK, Statuses
    <3> QED BY <2>21, <2>23, <3>2, <3>3, Zenon DEF ReconcileFail, TypeOK
  <2>24. ASSUME NEW c \in Crons, ReconcileFault(c) PROVE TypeOK'
    <3>1. cron' \in [Crons -> Passes]
      <4>1. CASE RowDone(c)
        BY <2>21, <4>1, Zenon
      <4>2. ASSUME NEW x \in cron[c].batch,
                   cron' = [cron EXCEPT ![c] = [pc |-> "next", cur |-> Nothing, batch |-> cron[c].batch \ {x}]]
            PROVE  cron' \in [Crons -> Passes]
        <5>1. [pc |-> "next", cur |-> Nothing, batch |-> cron[c].batch \ {x}] \in Passes
          BY CronType, Zenon DEF Passes
        <5> QED BY <4>2, <5>1, Zenon DEF TypeOK
      <4> QED BY <2>24, <4>1, <4>2, ZenonT(30) DEF ReconcileFault
    <3> QED BY <2>24, <3>1, MaxFaultsAssumption DEF ReconcileFault, TypeOK
  <2>25. ASSUME NEW c \in Crons, Crash(c) PROVE TypeOK'
    <3>1. Resting \in Passes /\ Idle \in Requests
      BY Zenon DEF Resting, Passes
    <3> QED BY <2>25, <3>1, MaxFaultsAssumption DEF TypeOK, Crash
  <2>26. CASE UNCHANGED vars
    BY <2>26, Zenon DEF TypeOK, vars
  <2> QED
    BY <2>1, <2>2, <2>3, <2>4, <2>5, <2>6, <2>7, <2>8, <2>9, <2>10, <2>11, <2>12,
       <2>13, <2>14, <2>15, <2>4a, <2>17, <2>18, <2>19, <2>20, <2>22, <2>23,
       <2>24, <2>25, <2>26, <2>2a, Zenon DEF Next, HandlerStep, Reconcile
<1> QED BY <1>1, <1>2, PTL DEF Spec

-----------------------------------------------------------------------------
(* Who writes what *)

StripeStep ==
  \/ \E o \in Orders : CreateRefund(o)
  \/ \E p \in Intents : OpenIntent(p) \/ StartProcessing(p) \/ Pay(p) \/ Decline(p) \/ Cancel(p)
                        \/ StripeRefund(p)

RowStep ==
  \/ \E o \in Orders : Insert(o)
  \/ \E p \in Intents : UpdateCheckout(p)
  \/ \E h \in Handlers : Update(h)
  \/ \E c \in Crons : ReconcileConfirm(c) \/ ReconcileFail(c)

RequestStep ==
  \/ \E h \in Handlers : Check(h) \/ Reject(h) \/ Update(h) \/ Publish(h) \/ HandlerFault(h)
  \/ \E h \in Handlers, e \in unacked : Process(h, e)
  \/ \E c \in Crons : Crash(c)

CronStep == \E c \in Crons : Tick(c) \/ Reconcile(c) \/ Crash(c)

TopicStep == (\E c \in Crons : ReconcilePublish(c)) \/ \E h \in Handlers : Publish(h)

\* Each part of the state has its own writers: the rest of the steps leave it
\* alone.
LEMMA Writers ==
  ASSUME [Next]_vars
  PROVE  /\ UNCHANGED <<intent, refunds, sent>> \/ StripeStep
         /\ UNCHANGED row \/ RowStep
         /\ UNCHANGED handler \/ RequestStep
         /\ UNCHANGED cron \/ CronStep
         /\ UNCHANGED published \/ TopicStep
<1> USE DEF rowVars, stripeVars, dedupVars, topicVars
<1>1. ASSUME StripeStep
      PROVE  UNCHANGED <<row, handler, cron, published>>
  BY <1>1, ZenonT(30) DEF StripeStep, CreateRefund, StripeRefund, OpenIntent, StartProcessing, Pay, Decline, Cancel
<1>2. ASSUME NEW o \in Orders, Insert(o)
      PROVE  UNCHANGED <<intent, refunds, sent, handler, cron, published>>
  BY <1>2, Zenon DEF Insert
<1>3. ASSUME NEW p \in Intents, UpdateCheckout(p)
      PROVE  UNCHANGED <<intent, refunds, sent, handler, cron, published>>
  BY <1>3, Zenon DEF UpdateCheckout
<1>4. ASSUME Age \/ (\E e \in unacked : ProcessDuplicate(e)) \/ (\E e \in dedup : DedupExpire(e)) \/ UNCHANGED vars
      PROVE  UNCHANGED <<intent, refunds, sent, row, handler, cron, published>>
  BY <1>4, Zenon DEF Age, ProcessDuplicate, DedupExpire, vars
<1>5. ASSUME NEW h \in Handlers, NEW e \in unacked, Process(h, e)
      PROVE  UNCHANGED <<intent, refunds, sent, row, cron, published>>
  BY <1>5, Zenon DEF Process
<1>6. ASSUME NEW h \in Handlers, Check(h) \/ Reject(h) \/ HandlerFault(h)
      PROVE  UNCHANGED <<intent, refunds, sent, row, cron, published>>
  BY <1>6, Zenon DEF Check, Reject, HandlerFault
<1>7. ASSUME NEW h \in Handlers, Update(h)
      PROVE  UNCHANGED <<intent, refunds, sent, cron, published>>
  BY <1>7, Zenon DEF Update
<1>8. ASSUME NEW h \in Handlers, Publish(h)
      PROVE  UNCHANGED <<intent, refunds, sent, row, cron>>
  BY <1>8, Zenon DEF Publish
<1>9. ASSUME NEW c \in Crons, Tick(c) \/ ReconcileRead(c) \/ ReconcileFault(c)
      PROVE  UNCHANGED <<intent, refunds, sent, row, handler, published>>
  BY <1>9, Zenon DEF Tick, ReconcileRead, ReconcileFault
<1>10. ASSUME NEW c \in Crons, ReconcileConfirm(c) \/ ReconcileFail(c)
       PROVE  UNCHANGED <<intent, refunds, sent, handler, published>>
  BY <1>10, Zenon DEF ReconcileConfirm, ReconcileFail
<1>11. ASSUME NEW c \in Crons, ReconcilePublish(c)
       PROVE  UNCHANGED <<intent, refunds, sent, row, handler>>
  BY <1>11, Zenon DEF ReconcilePublish
<1>12. ASSUME NEW c \in Crons, Crash(c)
       PROVE  UNCHANGED <<intent, refunds, sent, row, published>>
  BY <1>12, Zenon DEF Crash
<1>13. \/ StripeStep \/ (\E o \in Orders : Insert(o)) \/ (\E p \in Intents : UpdateCheckout(p))
       \/ Age \/ (\E e \in unacked : ProcessDuplicate(e)) \/ (\E e \in dedup : DedupExpire(e))
       \/ UNCHANGED vars
       \/ (\E h \in Handlers, e \in unacked : Process(h, e))
       \/ (\E h \in Handlers : Check(h) \/ Reject(h) \/ Update(h) \/ Publish(h) \/ HandlerFault(h))
       \/ (\E c \in Crons : Tick(c) \/ Reconcile(c) \/ Crash(c))
  BY Zenon DEF Next, HandlerStep, StripeStep
<1> HIDE DEF rowVars, stripeVars, dedupVars, topicVars
<1> QED
  BY <1>1, <1>2, <1>3, <1>4, <1>5, <1>6, <1>7, <1>8, <1>9, <1>10, <1>11, <1>12, <1>13, Zenon
  DEF RowStep, RequestStep, CronStep, TopicStep, Reconcile

\* What no step takes back: a row, an intent, its success, a refund, an event.
Monotone ==
  /\ \A o \in Orders : Exists(o) => Exists(o)'
  /\ \A p \in Intents : intent[p] # "none" => intent'[p] # "none"
  /\ \A p \in Intents : intent[p] = "succeeded" => intent'[p] = "succeeded"
  /\ refunds \subseteq refunds'
  /\ sent \subseteq sent'

\* What Stripe and the table have recorded is never taken back: no handler
\* deletes a row, and intents do not leave "succeeded".
LEMMA StepsMonotone ==
  ASSUME TypeOK, [Next]_vars
  PROVE  Monotone
<1>1. \A o \in Orders : Exists(o) => Exists(o)'
  <2>1. CASE UNCHANGED row
    BY <2>1, Zenon DEF Exists
  <2>2. ASSUME NEW o \in Orders, Insert(o) PROVE \A q \in Orders : Exists(q) => Exists(q)'
    BY <2>2, Zenon DEF Insert, Exists, TypeOK
  <2>3. ASSUME NEW p \in Intents, UpdateCheckout(p) PROVE \A q \in Orders : Exists(q) => Exists(q)'
    BY <2>3, ZenonT(30) DEF UpdateCheckout, Exists, TypeOK
  <2>4. ASSUME NEW h \in Handlers, Update(h) PROVE \A q \in Orders : Exists(q) => Exists(q)'
    <3>1. handler[h].ev \in Events
      BY <2>4, HandlerType, Zenon DEF Update
    <3>2. StatusFor(handler[h].ev.type) # "none"
      BY <3>1, Zenon DEF StatusFor, Events
    <3> QED BY <2>4, <3>2, Zenon DEF Update, UpdateStatus, Exists, TypeOK
  <2>5. ASSUME NEW c \in Crons, ReconcileConfirm(c) \/ ReconcileFail(c)
        PROVE  \A o \in Orders : Exists(o) => Exists(o)'
    <3>1. CASE ReconcileConfirm(c)
      BY <3>1, Zenon DEF ReconcileConfirm, UpdateStatus, Exists, TypeOK
    <3>2. CASE ReconcileFail(c)
      BY <3>2, Zenon DEF ReconcileFail, UpdateStatus, Exists, TypeOK
    <3> QED BY <2>5, <3>1, <3>2, SMTT(30)
  <2> QED BY <2>1, <2>2, <2>3, <2>4, <2>5, Writers, Zenon DEF RowStep
<1>2. /\ \A p \in Intents : intent[p] # "none" => intent'[p] # "none"
      /\ \A p \in Intents : intent[p] = "succeeded" => intent'[p] = "succeeded"
      /\ refunds \subseteq refunds'
      /\ sent \subseteq sent'
  <2>1. CASE UNCHANGED <<intent, refunds, sent>>
    BY <2>1, SMTT(30)
  <2>2. CASE StripeStep
    BY <2>2, Zenon DEF StripeStep, CreateRefund, StripeRefund, OpenIntent, StartProcessing, Pay, Decline, Cancel, Emit, TypeOK
  <2> QED BY <2>1, <2>2, Writers, Zenon
<1> QED BY <1>1, <1>2, Zenon DEF Monotone

-----------------------------------------------------------------------------
(* The rows, the topic and Stripe *)

Grounded ==
  /\ TypeOK
  /\ StripeHistory
  /\ HandlerGrounded
  /\ CronGrounded
  /\ IntentIsOwn

\* Every event Stripe generates tells of a state it is in.
LEMMA StripeHistoryStep ==
  ASSUME Grounded, [Next]_vars
  PROVE  StripeHistory'
<1>1. Monotone
  BY StepsMonotone, Zenon DEF Grounded
<1>2. CASE UNCHANGED <<intent, refunds, sent>>
  BY <1>1, <1>2, Zenon DEF Grounded, StripeHistory, Monotone, TypeOK, Events
<1>3. ASSUME NEW o \in Orders, CreateRefund(o) PROVE StripeHistory'
  BY <1>2, <1>3, Zenon DEF CreateRefund
<1>3a. ASSUME NEW p \in Intents, StripeRefund(p) PROVE StripeHistory'
  <2>1. CASE UNCHANGED <<refunds, sent, unacked>>
    BY <1>2, <1>3a, <2>1, Zenon DEF StripeRefund
  <2>2. ASSUME NEW m \in BOOLEAN, Emit({[type |-> Refunded, pi |-> p, meta |-> m]}), refunds' = refunds \cup {p},
               intent[p] = "succeeded"
        PROVE  StripeHistory'
    BY <1>1, <1>3a, <2>2 DEF Grounded, StripeHistory, Monotone, TypeOK, StripeRefund, Emit, Events
  <2> QED BY <1>3a, <2>1, <2>2, Zenon DEF StripeRefund
<1>4. ASSUME NEW p \in Intents, OpenIntent(p) PROVE StripeHistory'
  BY <1>1, <1>4, Zenon DEF Grounded, StripeHistory, Monotone, TypeOK, OpenIntent, Events
<1>5. ASSUME NEW p \in Intents, StartProcessing(p) PROVE StripeHistory'
  BY <1>1, <1>5 DEF Grounded, StripeHistory, Monotone, TypeOK, StartProcessing, Emit, Events, Completed, Refunded
<1>6. ASSUME NEW p \in Intents, Pay(p) PROVE StripeHistory'
  BY <1>1, <1>6 DEF Grounded, StripeHistory, Monotone, TypeOK, Pay, Emit, Events, Completed, Succeeded, Refunded
<1>7. ASSUME NEW p \in Intents, Decline(p) PROVE StripeHistory'
  BY <1>1, <1>7 DEF Grounded, StripeHistory, Monotone, TypeOK, Decline, Emit, Events, Failed, Refunded
<1>8. ASSUME NEW p \in Intents, Cancel(p) PROVE StripeHistory'
  BY <1>1, <1>8, Zenon DEF Grounded, StripeHistory, Monotone, TypeOK, Cancel, Events, stripeVars
<1> QED BY <1>2, <1>3, <1>4, <1>5, <1>6, <1>7, <1>8, <1>3a, Writers, Zenon DEF StripeStep

\* The order a handler goes to work on is the event's own, also when it was
\* found through the intent id of a row.
LEMMA OrderForIsOwn ==
  ASSUME IntentIsOwn, NEW e \in Events, NEW o \in OrderFor(e)
  PROVE  o = OrderOf[e.pi]
<1>1. CASE e.meta
  BY <1>1, Zenon DEF OrderFor
<1>2. CASE ~e.meta
  BY <1>2, Zenon DEF OrderFor, IntentIsOwn, Events
<1> QED BY <1>1, <1>2, Zenon

\* Every step keeps what the webhook handlers have established of their
\* event: the order is its own and the cross-check holds.
LEMMA HandlerGroundedStep ==
  ASSUME Grounded, [Next]_vars
  PROVE  HandlerGrounded'
<1>1. Monotone /\ TypeOK
  BY StepsMonotone, Zenon DEF Grounded
<1>2. CASE UNCHANGED handler
  <2>1. ASSUME NEW h \in Handlers, handler[h].pc \in {"update", "publish"}
        PROVE  handler[h].order = OrderOf[handler[h].ev.pi] /\ CrossCheck(handler[h].ev)'
    BY <1>1, <1>2, <2>1, HandlerType, SMTT(30) DEF Grounded, HandlerGrounded, Monotone, CrossCheck, Events
  <2> QED BY <1>2, <2>1, Zenon DEF HandlerGrounded
<1>3. ASSUME NEW h \in Handlers, NEW e \in unacked, Process(h, e) PROVE HandlerGrounded'
  BY <1>3, Zenon DEF Process, Grounded, HandlerGrounded, CrossCheck, TypeOK, stripeVars
<1>4. ASSUME NEW h \in Handlers, Check(h) PROVE HandlerGrounded'
  <2>1. PICK o \in OrderFor(handler[h].ev) :
          handler' = [handler EXCEPT ![h] = [pc |-> "update", ev |-> @.ev, order |-> o]]
    BY <1>4, ZenonT(30) DEF Check
  <2>2. handler[h].ev \in Events
    BY <1>1, <1>4, HandlerType, Zenon DEF Check
  <2>3. o = OrderOf[handler[h].ev.pi]
    BY <2>1, <2>2, OrderForIsOwn, Zenon DEF Grounded
  <2>4. CrossCheck(handler[h].ev) /\ intent' = intent
    BY <1>4, Zenon DEF Check, stripeVars
  <2> QED BY <2>1, <2>3, <2>4, Zenon DEF Grounded, HandlerGrounded, CrossCheck, TypeOK
<1>5. ASSUME NEW h \in Handlers, Reject(h) \/ HandlerFault(h) PROVE HandlerGrounded'
  BY <1>5 DEF Reject, HandlerFault, Idle, Grounded, HandlerGrounded, CrossCheck, TypeOK, stripeVars
<1>6. ASSUME NEW h \in Handlers, Update(h) PROVE HandlerGrounded'
  BY <1>6, SMTT(30) DEF Update, Idle, Grounded, HandlerGrounded, CrossCheck, TypeOK, stripeVars
<1>7. ASSUME NEW h \in Handlers, Publish(h) PROVE HandlerGrounded'
  BY <1>7, Zenon DEF Publish, Idle, Grounded, HandlerGrounded, CrossCheck, TypeOK, stripeVars
<1>8. ASSUME NEW c \in Crons, Crash(c) PROVE HandlerGrounded'
  BY <1>8 DEF Crash, Idle, Grounded, HandlerGrounded, CrossCheck, TypeOK, stripeVars
<1> QED BY <1>2, <1>3, <1>4, <1>5, <1>6, <1>7, <1>8, Writers, Zenon DEF RequestStep

\* What a cron's pass relies on is never taken back.
LEMMA PassMonotone ==
  ASSUME Monotone, NEW k \in Passes, PassGrounded(k)
  PROVE  PassGrounded(k)'
BY Zenon DEF PassGrounded, Monotone, Passes, Listed

\* A step of one cron that leaves it grounded leaves all of them grounded.
LEMMA OnePassStep ==
  ASSUME TypeOK, Monotone, CronGrounded, NEW c \in Crons, NEW k, PassGrounded(k)',
         cron' = [cron EXCEPT ![c] = k]
  PROVE  CronGrounded'
<1> SUFFICES ASSUME NEW d \in Crons PROVE PassGrounded(cron[d])'
  BY Zenon DEF CronGrounded, PassGrounded
<1>1. CASE d = c
  <2>1. cron'[d] = k
    BY <1>1, Zenon DEF TypeOK
  <2> QED BY <2>1, Zenon DEF PassGrounded
<1>2. CASE d # c
  <2>1. cron'[d] = cron[d] /\ cron[d] \in Passes /\ PassGrounded(cron[d])
    BY <1>2, Zenon DEF TypeOK, CronGrounded
  <2> QED BY <2>1, PassMonotone, ZenonT(30) DEF PassGrounded
<1> QED BY <1>1, <1>2, Zenon

\* A cron that is done with a row, or has dropped one, still has grounded rows.
LEMMA PassDone ==
  ASSUME NEW k \in Passes, PassGrounded(k), NEW b \in SUBSET k.batch
  PROVE  PassGrounded([pc |-> "next", cur |-> Nothing, batch |-> b])
BY Zenon DEF PassGrounded, Passes

\* Every step keeps what reconcileOne has established of the rows it listed,
\* stale as they may be.
LEMMA CronGroundedStep ==
  ASSUME Grounded, [Next]_vars
  PROVE  CronGrounded'
<1>1. Monotone /\ TypeOK /\ CronGrounded
  BY StepsMonotone, Zenon DEF Grounded
<1>2. CASE UNCHANGED cron
  <2>1. ASSUME NEW c \in Crons PROVE PassGrounded(cron[c])'
    BY <1>1, <1>2, PassMonotone, CronType, Zenon DEF CronGrounded, PassGrounded
  <2> QED BY <2>1, Zenon DEF CronGrounded
<1>3. ASSUME NEW c \in Crons, Tick(c) PROVE CronGrounded'
  <2> DEFINE k == [pc |-> "next", cur |-> Nothing, batch |-> GetPendingBefore]
  <2>1. cron' = [cron EXCEPT ![c] = k] /\ row' = row /\ intent' = intent
    BY <1>3, Zenon DEF Tick, rowVars, stripeVars
  <2>2. ASSUME NEW x \in Pending
        PROVE  /\ row[x.order].status # "none"
               /\ x.pi # NoIntent => OrderOf[x.pi] = x.order /\ intent[x.pi] # "none"
    BY <2>2 DEF Pending, Grounded, IntentIsOwn
  <2>3. PICK n : n = k
    BY Zenon
  <2>4. n.pc = "next" /\ n.batch \subseteq Pending
    BY <2>3, Zenon DEF GetPendingBefore
  <2>5. PassGrounded(n)'
    BY <2>1, <2>2, <2>4, Zenon DEF PassGrounded, Exists
  <2> QED BY <1>1, <2>1, <2>3, <2>5, OnePassStep, Zenon
<1>4. ASSUME NEW c \in Crons, ReconcileRead(c) PROVE CronGrounded'
  <2>1. PICK x \in cron[c].batch :
          cron' = [cron EXCEPT ![c] = [pc |-> Verdict(x), batch |-> cron[c].batch \ {x},
                                       cur |-> IF Verdict(x) = "next" THEN Nothing ELSE x]]
    BY <1>4, ZenonT(30) DEF ReconcileRead
  <2>2. x \in Listed /\ PassGrounded(cron[c]) /\ row' = row /\ intent' = intent
    BY <1>1, <1>4, <2>1, CronType, Zenon DEF CronGrounded, ReconcileRead, rowVars, stripeVars
  <2>3. PICK n : n = [pc |-> Verdict(x), batch |-> cron[c].batch \ {x},
                      cur |-> IF Verdict(x) = "next" THEN Nothing ELSE x]
    BY Zenon
  <2>4. PassGrounded(n)'
    BY <2>1, <2>2, <2>3, VerdictType, SMTT(30) DEF PassGrounded, Listed, Exists
  <2> QED BY <1>1, <2>1, <2>3, <2>4, OnePassStep, Zenon
<1>5. ASSUME NEW c \in Crons, ReconcileConfirm(c) PROVE CronGrounded'
  <2>1. PICK n : n = [pc |-> "publish", cur |-> cron[c].cur, batch |-> cron[c].batch]
    BY Zenon
  <2>2. cron' = [cron EXCEPT ![c] = n] /\ cron[c].pc = "confirm"
    BY <1>5, <2>1, Zenon DEF ReconcileConfirm
  <2>3. PassGrounded(cron[c])
    BY <1>1, Zenon DEF CronGrounded
  <2>4. n \in Passes /\ PassGrounded(n)
    BY <1>1, <2>1, <2>2, <2>3, CronType, Zenon DEF PassGrounded, Passes
  <2>5. PassGrounded(n)'
    BY <1>1, <2>4, PassMonotone, Zenon DEF PassGrounded
  <2> QED BY <1>1, <2>2, <2>5, OnePassStep, Zenon
<1>6. ASSUME NEW c \in Crons, NEW b \in SUBSET cron[c].batch,
             cron' = [cron EXCEPT ![c] = [pc |-> "next", cur |-> Nothing, batch |-> b]]
      PROVE  CronGrounded'
  <2>1. PICK n : n = [pc |-> "next", cur |-> Nothing, batch |-> b]
    BY Zenon
  <2>2. n \in Passes /\ PassGrounded(n)
    BY <1>1, <2>1, PassDone, CronType, Zenon DEF CronGrounded, Passes
  <2>3. PassGrounded(n)'
    BY <1>1, <2>2, PassMonotone, Zenon DEF PassGrounded
  <2> QED BY <1>1, <1>6, <2>1, <2>3, OnePassStep, Zenon
<1>7. ASSUME NEW c \in Crons, ReconcilePublish(c) \/ ReconcileFail(c) \/ ReconcileFault(c)
      PROVE  CronGrounded'
  <2>1. CASE RowDone(c)
    BY <1>6, <2>1, Zenon DEF RowDone
  <2>2. ASSUME NEW x \in cron[c].batch,
               cron' = [cron EXCEPT ![c] = [pc |-> "next", cur |-> Nothing, batch |-> cron[c].batch \ {x}]]
        PROVE  CronGrounded'
    <3>1. cron[c].batch \ {x} \in SUBSET cron[c].batch
      BY Zenon
    <3> QED BY <1>6, <2>2, <3>1, Zenon
  <2> QED BY <1>7, <2>1, <2>2, ZenonT(30) DEF ReconcilePublish, ReconcileFail, ReconcileFault
<1>8. ASSUME NEW c \in Crons, Crash(c) PROVE CronGrounded'
  <2>1. cron' = [cron EXCEPT ![c] = [pc |-> "next", cur |-> Nothing, batch |-> {}]]
    BY <1>8, Zenon DEF Crash, Resting
  <2>2. {} \in SUBSET cron[c].batch
    BY Zenon
  <2> QED BY <1>6, <2>1, <2>2, Zenon
<1> QED BY <1>2, <1>3, <1>4, <1>5, <1>7, <1>8, Writers, Zenon DEF CronStep, Reconcile

\* A write that leaves stripe_pi_id alone, clears it, or stores an intent Stripe
\* has opened for that order keeps intents with their orders.
LEMMA OwnWrite ==
  ASSUME Grounded, Monotone, NEW o \in Orders, NEW r, row' = [row EXCEPT ![o] = r],
         \/ r.pi = NoIntent \/ r.pi = row[o].pi
         \/ r.pi \in Intents /\ OrderOf[r.pi] = o /\ intent[r.pi] # "none"
  PROVE  IntentIsOwn'
<1>1. row \in [Orders -> [status : Statuses, pi : Intents \cup {NoIntent}, at : Nat]]
  BY StoreType, Zenon DEF Grounded
<1>2. \A q \in Orders : row[q].pi \in Intents \cup {NoIntent}
  BY <1>1, Zenon
<1>3. \A q \in Orders : row'[q] = IF q = o THEN r ELSE row[q]
  BY <1>1, Zenon
<1> QED BY <1>2, <1>3 DEF Grounded, IntentIsOwn, Monotone

\* Every write of stripe_pi_id, by UpdateStatus or UpdateCheckout, stores an
\* intent of the row's own order.
LEMMA IntentIsOwnStep ==
  ASSUME Grounded, [Next]_vars
  PROVE  IntentIsOwn'
<1>1. Monotone /\ TypeOK
  BY StepsMonotone, Zenon DEF Grounded
<1>2. CASE UNCHANGED row
  <2>1. \A o \in Orders : row[o].pi \in Intents \cup {NoIntent}
    BY <1>1, StoreType, Zenon
  <2> QED BY <1>1, <1>2, <2>1, Zenon DEF Grounded, IntentIsOwn, Monotone
<1>3. ASSUME NEW o \in Orders, Insert(o) PROVE IntentIsOwn'
  <2>1. PICK n : row' = [row EXCEPT ![o] = [status |-> "created", pi |-> NoIntent, at |-> n]]
    BY <1>3, ZenonT(30) DEF Insert
  <2> QED BY <1>1, <2>1, OwnWrite, ZenonT(30)
<1>4. ASSUME NEW p \in Intents, UpdateCheckout(p) PROVE IntentIsOwn'
  <2> DEFINE o == OrderOf[p]
             r == [row[o] EXCEPT !.pi = p]
  <2>1. o \in Orders /\ r.pi = p
    BY <1>1, StoreType, OrderOfAssumption, Zenon
  <2>2. row' = [row EXCEPT ![o] = r] /\ intent[p] # "none"
    BY <1>4, Zenon DEF UpdateCheckout
  <2> HIDE DEF r
  <2> QED BY <1>1, <2>1, <2>2, OwnWrite, ZenonT(30)
<1>5. ASSUME NEW h \in Handlers, Update(h) PROVE IntentIsOwn'
  <2> DEFINE e == handler[h].ev
             o == handler[h].order
  <2>1. e \in Events /\ e \in sent /\ o = OrderOf[e.pi] /\ o \in Orders
    BY <1>1, <1>5, HandlerType, Zenon DEF Update, Grounded, HandlerGrounded
  <2>2. e.pi \in Intents /\ intent[e.pi] # "none"
    BY <2>1, Zenon DEF Events, Grounded, StripeHistory
  <2>3. row' = [row EXCEPT ![o] = UpdateStatus(row[o], StatusFor(e.type), e.pi)]
    BY <1>5, Zenon DEF Update
  <2>4. UpdateStatus(row[o], StatusFor(e.type), e.pi).pi \in {row[o].pi, e.pi}
    BY Zenon DEF UpdateStatus
  <2> QED BY <1>1, <2>1, <2>2, <2>3, <2>4, OwnWrite, ZenonT(30)
<1>6. ASSUME NEW c \in Crons, NEW status, cron[c].pc # "next",
             row' = [row EXCEPT ![cron[c].cur.order] = UpdateStatus(@, status, cron[c].cur.pi)]
      PROVE  IntentIsOwn'
  <2>1. /\ cron[c].cur.order \in Orders /\ cron[c].cur.pi \in Intents
        /\ OrderOf[cron[c].cur.pi] = cron[c].cur.order /\ intent[cron[c].cur.pi] # "none"
    BY <1>1, <1>6, CronType, Zenon DEF Listed, Grounded, CronGrounded, PassGrounded
  <2>2. UpdateStatus(row[cron[c].cur.order], status, cron[c].cur.pi).pi \in {row[cron[c].cur.order].pi, cron[c].cur.pi}
    BY Zenon DEF UpdateStatus
  <2> QED BY <1>1, <1>6, <2>1, <2>2, OwnWrite, ZenonT(30)
<1>7. ASSUME NEW c \in Crons, ReconcileConfirm(c) \/ ReconcileFail(c) PROVE IntentIsOwn'
  BY <1>6, <1>7, Zenon DEF ReconcileConfirm, ReconcileFail
<1> QED BY <1>2, <1>3, <1>4, <1>5, <1>7, Writers, Zenon DEF RowStep

\* The inductive invariant behind the theorems below.
LEMMA AlwaysGrounded == Spec => []Grounded
<1> DEFINE Rest == StripeHistory /\ HandlerGrounded /\ CronGrounded /\ IntentIsOwn
<1>1. Init => Rest
  <2> SUFFICES ASSUME Init PROVE Rest
    BY Zenon
  <2>1. StripeHistory
    BY Zenon DEF Init, StripeHistory
  <2>2. HandlerGrounded
    BY Zenon DEF Init, HandlerGrounded, Idle
  <2>3. CronGrounded
    BY Zenon DEF Init, CronGrounded, PassGrounded, Resting
  <2>4. IntentIsOwn
    BY Zenon DEF Init, IntentIsOwn, NoRow
  <2> QED BY <2>1, <2>2, <2>3, <2>4, Zenon
<1>2. TypeOK /\ Rest /\ [Next]_vars => Rest'
  BY StripeHistoryStep, HandlerGroundedStep, CronGroundedStep, IntentIsOwnStep, Zenon DEF Grounded
<1>3. TypeOK /\ Rest => Grounded
  BY Zenon DEF Grounded
<1> QED BY <1>1, <1>2, <1>3, TypeCorrect, PTL DEF Spec

\* The intent id of a row is always one opened for that order: no webhook,
\* no lookup by intent id and no cron write attaches another order's payment.
THEOREM IntentsAreOwn == Spec => []IntentIsOwn
<1>1. Grounded => IntentIsOwn
  BY Zenon DEF Grounded
<1> QED BY <1>1, AlwaysGrounded, PTL

\* No handler ever reaches the UPDATE of an order whose row is missing.
THEOREM OrdersNeverMissing == Spec => []OrderNeverMissing
<1>1. Grounded => OrderNeverMissing
  <2> SUFFICES ASSUME Grounded, NEW h \in Handlers, handler[h].pc = "update"
               PROVE  Exists(handler[h].order)
    BY Zenon DEF OrderNeverMissing
  <2>1. handler[h].ev \in Events /\ handler[h].ev \in sent
    BY HandlerType, Zenon DEF Grounded
  <2> QED BY <2>1, Zenon DEF Grounded, HandlerGrounded, StripeHistory, Events
<1> QED BY <1>1, AlwaysGrounded, PTL

\* What a handler is about to write or announce has the money behind it.
LEMMA HandlerBacked ==
  ASSUME Grounded, NEW h \in Handlers, handler[h].pc \in {"update", "publish"}
  PROVE  /\ handler[h].order \in Orders /\ Exists(handler[h].order)
         /\ StatusFor(handler[h].ev.type) = "paid" => Settled(handler[h].order)
         /\ StatusFor(handler[h].ev.type) = "refunded" => Reversed(handler[h].order)
<1> DEFINE e == handler[h].ev
<1>1. e \in Events /\ e \in sent /\ handler[h].order \in Orders
  BY HandlerType, Zenon DEF Grounded
<1>2. e.pi \in Intents /\ handler[h].order = OrderOf[e.pi] /\ Exists(OrderOf[e.pi])
  BY <1>1, Zenon DEF Events, Grounded, HandlerGrounded, StripeHistory
<1>3. StatusFor(e.type) = "paid" => intent[e.pi] = "succeeded"
  BY <1>1, Zenon DEF StatusFor, Events, Grounded, HandlerGrounded, CrossCheck, Failed, Refunded, Succeeded, Completed
<1>4. StatusFor(e.type) = "refunded" => e.pi \in refunds
  BY <1>1, Zenon DEF StatusFor, Events, Grounded, StripeHistory, Failed, Refunded, Succeeded, Completed
<1> QED BY <1>1, <1>2, <1>3, <1>4, Zenon DEF Settled, Reversed

\* The money behind an order is never taken away from under it.
LEMMA BackingMonotone ==
  ASSUME TypeOK, Monotone, NEW o \in Orders
  PROVE  (Settled(o) => Settled(o)') /\ (Reversed(o) => Reversed(o)')
BY Zenon DEF Settled, Reversed, Monotone

\* The row a cron is about to write exists, and is paid for if the cron is
\* about to say so.
LEMMA CronBacked ==
  ASSUME Grounded, NEW c \in Crons, cron[c].pc # "next"
  PROVE  /\ cron[c].cur.order \in Orders /\ Exists(cron[c].cur.order)
         /\ cron[c].pc \in {"confirm", "publish"} => Settled(cron[c].cur.order)
<1>1. cron[c].cur \in Listed
  BY CronType, Zenon DEF Grounded
<1>2. PassGrounded(cron[c])
  BY Zenon DEF Grounded, CronGrounded
<1> QED BY <1>1, <1>2, Zenon DEF Listed, Settled, PassGrounded

\* No row is ever marked paid or refunded ahead of Stripe, for any number of
\* orders, intents, concurrent deliveries, stale cron batches and faults.
THEOREM RowsNeverAhead == Spec => []RowNeverAheadOfStripe
<1>1. Init => RowNeverAheadOfStripe
  BY DEF Init, NoRow, RowNeverAheadOfStripe
<1>2. Grounded /\ RowNeverAheadOfStripe /\ [Next]_vars => RowNeverAheadOfStripe'
  <2> SUFFICES ASSUME Grounded, RowNeverAheadOfStripe, [Next]_vars
               PROVE  RowNeverAheadOfStripe'
    BY Zenon
  <2>1. TypeOK /\ Monotone
    BY StepsMonotone, Zenon DEF Grounded
  <2>2. \A o \in Orders : (Settled(o) => Settled(o)') /\ (Reversed(o) => Reversed(o)')
    BY <2>1, BackingMonotone, Zenon
  <2>3. CASE UNCHANGED row
    BY <2>2, <2>3, SMTT(30) DEF RowNeverAheadOfStripe
  <2>4. ASSUME NEW o \in Orders, Insert(o) PROVE RowNeverAheadOfStripe'
    BY <2>1, <2>2, <2>4, Zenon DEF Insert, RowNeverAheadOfStripe, TypeOK
  <2>5. ASSUME NEW p \in Intents, UpdateCheckout(p) PROVE RowNeverAheadOfStripe'
    BY <2>1, <2>2, <2>5 DEF UpdateCheckout, RowNeverAheadOfStripe, TypeOK
  <2>6. ASSUME NEW h \in Handlers, Update(h) PROVE RowNeverAheadOfStripe'
    <3>1. PICK o \in Orders : o = handler[h].order
      BY <2>6, HandlerBacked, Zenon DEF Update
    <3>2. PICK s : s = StatusFor(handler[h].ev.type)
      BY Zenon
    <3>3. (s = "paid" => Settled(o)') /\ (s = "refunded" => Reversed(o)')
      BY <2>2, <2>6, <3>1, <3>2, HandlerBacked, SMTT(30) DEF Update
    <3>4. row'[o].status = s /\ \A q \in Orders \ {o} : row'[q] = row[q]
      BY <2>1, <2>6, <3>1, <3>2, SMTT(30) DEF Update, UpdateStatus, TypeOK
    <3> QED BY <2>2, <3>3, <3>4, Zenon DEF RowNeverAheadOfStripe
  <2>7. ASSUME NEW c \in Crons, ReconcileConfirm(c) PROVE RowNeverAheadOfStripe'
    <3>1. cron[c].cur.order \in Orders /\ Settled(cron[c].cur.order)
      BY <2>7, CronBacked, Zenon DEF ReconcileConfirm
    <3> QED BY <2>1, <2>2, <2>7, <3>1, SMTT(30) DEF ReconcileConfirm, UpdateStatus, RowNeverAheadOfStripe, TypeOK
  <2>8. ASSUME NEW c \in Crons, ReconcileFail(c) PROVE RowNeverAheadOfStripe'
    BY <2>1, <2>2, <2>8, Zenon DEF ReconcileFail, UpdateStatus, RowNeverAheadOfStripe, TypeOK
  <2> QED BY <2>3, <2>4, <2>5, <2>6, <2>7, <2>8, Writers, Zenon DEF RowStep
<1> QED BY <1>1, <1>2, AlwaysGrounded, PTL DEF Spec

\* One more true announcement leaves the topic true: what was announced before
\* is never taken back.
LEMMA Announcement ==
  ASSUME TypeOK, Monotone, PublishedNeverAheadOfStripe, NEW o \in Orders, NEW status,
         Exists(o), status = "paid" => Settled(o), status = "refunded" => Reversed(o),
         published' = published \cup {[order |-> o, status |-> status]}
  PROVE  PublishedNeverAheadOfStripe'
<1>1. \A q \in Orders : /\ Settled(q) => Settled(q)'
                        /\ Reversed(q) => Reversed(q)'
                        /\ Exists(q) => Exists(q)'
  BY BackingMonotone, Zenon DEF Monotone
<1>2. ASSUME NEW m \in published'
      PROVE  /\ Exists(m.order)'
             /\ m.status = "paid" => Settled(m.order)'
             /\ m.status = "refunded" => Reversed(m.order)'
  <2>1. CASE m \in published
    <3>1. m.order \in Orders
      BY <2>1, StoreType, Zenon
    <3>2. /\ Exists(m.order)
          /\ m.status = "paid" => Settled(m.order)
          /\ m.status = "refunded" => Reversed(m.order)
      BY <2>1, Zenon DEF PublishedNeverAheadOfStripe
    <3> QED BY <1>1, <3>1, <3>2, Zenon
  <2>2. CASE m = [order |-> o, status |-> status]
    <3>1. m.order = o /\ m.status = status
      BY <2>2, Zenon
    <3> QED BY <1>1, <3>1, Zenon
  <2> QED BY <1>2, <2>1, <2>2, Zenon
<1> QED BY <1>2, SMTT(30) DEF PublishedNeverAheadOfStripe

\* Nothing is announced on payment.confirmed ahead of Stripe, or for an order
\* without a row.
THEOREM TopicNeverAhead == Spec => []PublishedNeverAheadOfStripe
<1>1. Init => PublishedNeverAheadOfStripe
  BY Zenon DEF Init, PublishedNeverAheadOfStripe
<1>2. Grounded /\ PublishedNeverAheadOfStripe /\ [Next]_vars => PublishedNeverAheadOfStripe'
  <2> SUFFICES ASSUME Grounded, PublishedNeverAheadOfStripe, [Next]_vars
               PROVE  PublishedNeverAheadOfStripe'
    BY Zenon
  <2>1. TypeOK /\ Monotone
    BY StepsMonotone, Zenon DEF Grounded
  <2>2. \A o \in Orders : /\ Settled(o) => Settled(o)'
                          /\ Reversed(o) => Reversed(o)'
                          /\ Exists(o) => Exists(o)'
    BY <2>1, BackingMonotone, SMTT(30) DEF Monotone
  <2>3. CASE UNCHANGED published
    BY <2>1, <2>2, <2>3, Zenon DEF PublishedNeverAheadOfStripe, TypeOK
  <2>4. ASSUME NEW h \in Handlers, Publish(h) PROVE PublishedNeverAheadOfStripe'
    <3>1. published' = published \cup
            {[order |-> handler[h].order, status |-> StatusFor(handler[h].ev.type)]}
      BY <2>4, Zenon DEF Publish
    <3>2. /\ handler[h].order \in Orders /\ Exists(handler[h].order)
          /\ StatusFor(handler[h].ev.type) = "paid" => Settled(handler[h].order)
          /\ StatusFor(handler[h].ev.type) = "refunded" => Reversed(handler[h].order)
      BY <2>4, HandlerBacked, Zenon DEF Publish
    <3> QED BY <2>1, <3>1, <3>2, Announcement, SMTT(30)
  <2>5. ASSUME NEW c \in Crons, ReconcilePublish(c) PROVE PublishedNeverAheadOfStripe'
    <3>1. cron[c].cur.order \in Orders /\ Settled(cron[c].cur.order) /\ Exists(cron[c].cur.order)
      BY <2>5, CronBacked, Zenon DEF ReconcilePublish
    <3>2. published' = published \cup {[order |-> cron[c].cur.order, status |-> "paid"]}
      BY <2>5, Zenon DEF ReconcilePublish
    <3> QED BY <2>1, <3>1, <3>2, Announcement
  <2> QED BY <2>3, <2>4, <2>5, Writers, SMTT(30) DEF TopicStep
<1> QED BY <1>1, <1>2, AlwaysGrounded, PTL DEF Spec

-----------------------------------------------------------------------------
(* One event, one announcement *)

KeysInv == KeyExcludes /\ EventPublishedOnce

\* Steps that leave keys, requests and the record of announcements alone.
LEMMA KeysFrame ==
  ASSUME KeysInv, UNCHANGED <<dedup, expired, handler, notified, renotified>>
  PROVE  KeysInv'
BY SMTT(30) DEF KeysInv, KeyExcludes, EventPublishedOnce

\* A request that ends without publishing.
LEMMA KeysEnd ==
  ASSUME TypeOK, KeysInv, NEW h \in Handlers,
         handler' = [handler EXCEPT ![h] = Idle],
         UNCHANGED <<dedup, expired, notified, renotified>>
  PROVE  KeysInv'
BY Zenon DEF KeysInv, KeyExcludes, EventPublishedOnce, TypeOK, Idle

\* A request that goes on with the same event.
LEMMA KeysGoOn ==
  ASSUME TypeOK, KeysInv, NEW h \in Handlers, handler[h].pc # "idle", NEW pc, NEW o,
         handler' = [handler EXCEPT ![h] = [pc |-> pc, ev |-> handler[h].ev, order |-> o]],
         UNCHANGED <<dedup, expired, notified, renotified>>
  PROVE  KeysInv'
BY Zenon DEF KeysInv, KeyExcludes, EventPublishedOnce, TypeOK

\* Two deliveries of one event publish twice only if its key expired between
\* them: SET NX lets one request past it, and a request that has published is
\* followed by no other.
THEOREM PublishedOnce == Spec => []EventPublishedOnce
<1>1. Init => KeysInv
  BY DEF Init, KeysInv, KeyExcludes, EventPublishedOnce, Idle
<1>2. TypeOK /\ KeysInv /\ [Next]_vars => KeysInv'
  <2> SUFFICES ASSUME TypeOK, KeysInv, [Next]_vars PROVE KeysInv'
    BY SMTT(30)
  <2> USE DEF dedupVars, topicVars
  <2>1. ASSUME NEW h \in Handlers, NEW e \in unacked, Process(h, e) PROVE KeysInv'
    BY <2>1, ZenonT(30) DEF Process, KeysInv, KeyExcludes, EventPublishedOnce, TypeOK, Idle
  <2>2. ASSUME NEW e \in dedup, DedupExpire(e) PROVE KeysInv'
    BY <2>2, Zenon DEF DedupExpire, KeysInv, KeyExcludes, EventPublishedOnce
  <2>3. ASSUME NEW h \in Handlers, Check(h) PROVE KeysInv'
    BY <2>3, KeysGoOn, ZenonT(30) DEF Check
  <2>4. ASSUME NEW h \in Handlers, Reject(h) \/ HandlerFault(h) PROVE KeysInv'
    BY <2>4, KeysEnd, Zenon DEF Reject, HandlerFault
  <2>5. ASSUME NEW h \in Handlers, Update(h) PROVE KeysInv'
    BY <2>5, KeysEnd, KeysGoOn, Zenon DEF Update
  <2>6. ASSUME NEW h \in Handlers, Publish(h) PROVE KeysInv'
    BY <2>6, ZenonT(30) DEF Publish, KeysInv, KeyExcludes, EventPublishedOnce, TypeOK, Idle
  <2>7. ASSUME NEW c \in Crons, Crash(c) PROVE KeysInv'
    <3>1. \A h \in Handlers : handler'[h] = handler[h] \/ handler'[h].pc = "idle"
      BY <2>7 DEF Crash, Idle
    <3>2. UNCHANGED <<dedup, expired, notified, renotified>>
      BY <2>7, Zenon DEF Crash
    <3> QED BY <3>1, <3>2, Zenon DEF KeysInv, KeyExcludes, EventPublishedOnce
  <2>8. CASE UNCHANGED <<dedup, expired, handler, notified, renotified>>
    BY <2>8, KeysFrame, Zenon
  <2>9. \/ UNCHANGED <<dedup, expired, handler, notified, renotified>>
        \/ RequestStep \/ \E e \in dedup : DedupExpire(e)
    <3>1. CASE StripeStep
      BY <3>1, ZenonT(30) DEF StripeStep, CreateRefund, StripeRefund, OpenIntent, StartProcessing, Pay, Decline, Cancel
    <3>2. CASE Age \/ \E c \in Crons : Tick(c) \/ Reconcile(c)
      BY <3>2, Zenon DEF Tick, Age, Reconcile, ReconcileRead, ReconcileConfirm, ReconcilePublish,
           ReconcileFail, ReconcileFault
    <3>3. CASE \/ \E o \in Orders : Insert(o)
               \/ \E p \in Intents : UpdateCheckout(p)
               \/ \E e \in unacked : ProcessDuplicate(e)
      BY <3>3, ZenonT(30) DEF Insert, UpdateCheckout, ProcessDuplicate
    <3>4. CASE UNCHANGED vars
      BY <3>4, Zenon DEF vars
    <3> QED BY <3>1, <3>2, <3>3, <3>4, SMTT(30) DEF Next, HandlerStep, StripeStep, RequestStep
  <2> QED BY <2>1, <2>2, <2>3, <2>4, <2>5, <2>6, <2>7, <2>8, <2>9, Zenon DEF RequestStep
<1>3. KeysInv => EventPublishedOnce
  BY Zenon DEF KeysInv
<1> QED BY <1>1, <1>2, <1>3, TypeCorrect, PTL DEF Spec

-----------------------------------------------------------------------------
(* The lifecycle implements the ledger *)

MStatus   == [o \in Orders |-> row[o].status]
MSettled  == {OrderOf[p] : p \in {q \in Intents : intent[q] = "succeeded"}}
MReversed == {OrderOf[p] : p \in refunds}

\* Membership in the mapped sets, in the words of the invariants.
LEMMA MappedBacking ==
  ASSUME TypeOK, NEW o \in Orders
  PROVE  (o \in MSettled <=> Settled(o)) /\ (o \in MReversed <=> Reversed(o))
BY Zenon DEF MSettled, MReversed, Settled, Reversed, TypeOK

\* A row write with a backed status is a ledger Record.
LEMMA RecordStep ==
  ASSUME TypeOK, NEW o \in Orders, NEW s \in {"paid", "failed", "refunded"}, NEW pi,
         Exists(o), s = "paid" => Settled(o), s = "refunded" => Reversed(o),
         row' = [row EXCEPT ![o] = UpdateStatus(row[o], s, pi)],
         UNCHANGED <<intent, refunds, published>>
  PROVE  Ledger!Record(o, s)
<1>1. MStatus' = [MStatus EXCEPT ![o] = s]
  BY ZenonT(30) DEF MStatus, UpdateStatus, TypeOK
<1>2. MStatus[o] # "none"
  BY Zenon DEF MStatus, Exists
<1>3. Ledger!Backed(o, s)
  BY MappedBacking, Zenon DEF Ledger!Backed, MSettled, MReversed
<1> QED BY <1>1, <1>2, <1>3, SMTT(30) DEF Ledger!Record, MStatus

\* Every step of the lifecycle is one step of the ledger or leaves it alone:
\* Stripe's steps settle and reverse, row writes record, publishes announce.
THEOREM LifecycleImplementsLedger == Spec => ImplementsLedger
<1>1. Init => Ledger!Init
  BY DEF Init, Ledger!Init, NoRow
<1>2. Grounded /\ [Next]_vars => [Ledger!Next]_(Ledger!vars)
  <2> SUFFICES ASSUME Grounded, [Next]_vars
               PROVE  Ledger!Next \/ UNCHANGED Ledger!vars
    BY ZenonT(30) DEF Ledger!vars
  <2> USE DEF rowVars, stripeVars, topicVars
  <2>1. TypeOK
    BY Zenon DEF Grounded
  <2>2. CASE UNCHANGED <<row, intent, refunds, published>>
    BY <2>2, Zenon DEF Ledger!vars
  <2>3. ASSUME NEW p \in Intents, Pay(p) PROVE Ledger!Next
    <3>1. MSettled' = MSettled \cup {OrderOf[p]}
      BY <2>1, <2>3, Zenon DEF Pay, MSettled, TypeOK
    <3>2. Ledger!Settle(OrderOf[p])
      BY <2>3, <3>1, Zenon DEF Pay, Ledger!Settle, MSettled
    <3> QED BY <3>2, Zenon DEF Ledger!Next
  <2>4. ASSUME NEW p \in Intents, StripeRefund(p) PROVE Ledger!Next \/ UNCHANGED Ledger!vars
    <3>1. CASE refunds' = refunds
      BY <2>2, <2>4, <3>1, Zenon DEF StripeRefund
    <3>2. CASE intent[p] = "succeeded" /\ refunds' = refunds \cup {p}
      <4>1. PICK o \in Orders : o = OrderOf[p]
        BY OrderOfAssumption, Zenon
      <4>2. MReversed' = MReversed \cup {o} /\ o \in MSettled
        <5>1. MReversed' = MReversed \cup {o}
          BY <3>2, <4>1 DEF MReversed
        <5> QED BY <3>2, <4>1, <5>1, Zenon DEF MSettled
      <4>3. Ledger!Reverse(o)
        BY <2>4, <4>2, Zenon DEF StripeRefund, Ledger!Reverse, MSettled, MReversed
      <4> QED BY <4>3, Zenon DEF Ledger!Next
    <3> QED BY <2>4, <3>1, <3>2, Zenon DEF StripeRefund
  <2>4a. ASSUME NEW o \in Orders, CreateRefund(o) PROVE Ledger!Next \/ UNCHANGED Ledger!vars
    BY <2>2, <2>4a, Zenon DEF CreateRefund
  <2>5. ASSUME NEW p \in Intents, OpenIntent(p) \/ StartProcessing(p) \/ Decline(p) \/ Cancel(p)
        PROVE  UNCHANGED Ledger!vars
    <3>1. UNCHANGED <<row, refunds, published>>
      BY <2>5, SMTT(30) DEF OpenIntent, StartProcessing, Decline, Cancel
    <3>2. {q \in Intents : intent'[q] = "succeeded"} = {q \in Intents : intent[q] = "succeeded"}
      BY <2>1, <2>5, Zenon DEF OpenIntent, StartProcessing, Decline, Cancel, TypeOK
    <3> QED BY <3>1, <3>2, Zenon DEF Ledger!vars
  <2>6. ASSUME NEW o \in Orders, Insert(o) PROVE Ledger!Next
    <3>1. MStatus' = [MStatus EXCEPT ![o] = "created"] /\ MStatus[o] = "none"
      BY <2>1, <2>6, ZenonT(30) DEF Insert, MStatus, Exists, TypeOK
    <3>2. Ledger!Accept(o)
      BY <2>6, <3>1, Zenon DEF Insert, Ledger!Accept, MStatus
    <3> QED BY <3>2, SMTT(30) DEF Ledger!Next
  <2>7. ASSUME NEW p \in Intents, UpdateCheckout(p) PROVE UNCHANGED Ledger!vars
    <3>1. MStatus' = MStatus
      BY <2>1, <2>7 DEF UpdateCheckout, MStatus, TypeOK
    <3> QED BY <2>7, <3>1, Zenon DEF UpdateCheckout, Ledger!vars, MStatus
  <2>8. ASSUME NEW h \in Handlers, Update(h) PROVE Ledger!Next
    <3>1. PICK o \in Orders, s \in {StatusFor(handler[h].ev.type)} : o = handler[h].order /\ s = StatusFor(handler[h].ev.type)
      BY <2>8, HandlerBacked, Zenon DEF Update
    <3>2. s \in {"paid", "failed", "refunded"}
      BY <2>1, <2>8, <3>1, HandlerType, SMTT(30) DEF Update, StatusFor, Events
    <3>3. Ledger!Record(o, s)
      BY <2>1, <2>8, <3>1, <3>2, HandlerBacked, RecordStep, ZenonT(30) DEF Update
    <3> QED BY <3>2, <3>3, Zenon DEF Ledger!Next
  <2>9. ASSUME NEW c \in Crons, ReconcileConfirm(c) PROVE Ledger!Next
    <3>1. /\ cron[c].cur.order \in Orders
          /\ Settled(cron[c].cur.order) /\ Exists(cron[c].cur.order)
      BY <2>9, CronBacked, Zenon DEF ReconcileConfirm
    <3>2. PICK o \in Orders : o = cron[c].cur.order
      BY <3>1, Zenon
    <3>3. Ledger!Record(o, "paid")
      BY <2>1, <2>9, <3>1, <3>2, RecordStep, ZenonT(30) DEF ReconcileConfirm
    <3> QED BY <3>3, Zenon DEF Ledger!Next
  <2>10. ASSUME NEW c \in Crons, ReconcileFail(c) PROVE Ledger!Next
    <3>1. cron[c].cur.order \in Orders /\ Exists(cron[c].cur.order)
      BY <2>10, CronBacked, Zenon DEF ReconcileFail
    <3>2. PICK o \in Orders : o = cron[c].cur.order
      BY <3>1, Zenon
    <3>3. Ledger!Record(o, "failed")
      BY <2>1, <2>10, <3>1, <3>2, RecordStep, ZenonT(30) DEF ReconcileFail
    <3> QED BY <3>3, Zenon DEF Ledger!Next
  <2>11. ASSUME NEW h \in Handlers, Publish(h) PROVE Ledger!Next
    <3>1. PICK o \in Orders, s \in {StatusFor(handler[h].ev.type)} : o = handler[h].order /\ s = StatusFor(handler[h].ev.type)
      BY <2>11, HandlerBacked, Zenon DEF Publish
    <3>2. s \in {"paid", "refunded"}
      BY <2>1, <2>11, <3>1, HandlerType, SMTT(30) DEF Publish, StatusFor, Events
    <3>3. Ledger!Backed(o, s) /\ MStatus[o] # "none"
      <4>1. Exists(o) /\ (s = "paid" => Settled(o)) /\ (s = "refunded" => Reversed(o))
        BY <2>11, <3>1, HandlerBacked, Zenon DEF Publish
      <4>2. MStatus[o] # "none"
        BY <4>1, Zenon DEF MStatus, Exists
      <4>3. (s = "paid" => o \in MSettled) /\ (s = "refunded" => o \in MReversed)
        BY <2>1, <4>1, MappedBacking, Zenon
      <4> QED BY <4>2, <4>3, Zenon DEF Ledger!Backed, MSettled, MReversed
    <3>4. Ledger!Announce(o, s)
      BY <2>11, <3>1, <3>3, Zenon DEF Publish, Ledger!Announce, MStatus
    <3> QED BY <3>2, <3>4, Zenon DEF Ledger!Next
  <2>12. ASSUME NEW c \in Crons, ReconcilePublish(c) PROVE Ledger!Next
    <3>1. /\ cron[c].cur.order \in Orders
          /\ Settled(cron[c].cur.order) /\ Exists(cron[c].cur.order)
      BY <2>12, CronBacked, Zenon DEF ReconcilePublish
    <3>2. PICK o \in Orders : o = cron[c].cur.order
      BY <3>1, Zenon
    <3>3. Ledger!Backed(o, "paid") /\ MStatus[o] # "none"
      <4>1. o \in MSettled
        BY <2>1, <3>1, <3>2, MappedBacking, Zenon
      <4>2. MStatus[o] # "none"
        BY <3>1, <3>2, Zenon DEF MStatus, Exists
      <4> QED BY <4>1, <4>2, Zenon DEF Ledger!Backed, MSettled
    <3>4. Ledger!Announce(o, "paid")
      BY <2>12, <3>2, <3>3, Zenon DEF ReconcilePublish, Ledger!Announce, MStatus
    <3> QED BY <3>4, SMTT(30) DEF Ledger!Next
  <2>13. CASE StripeStep
    BY <2>3, <2>4, <2>5, <2>13, <2>4a, Zenon DEF StripeStep
  <2>14. CASE RowStep
    BY <2>6, <2>7, <2>8, <2>9, <2>10, <2>14, Zenon DEF RowStep
  <2>15. CASE TopicStep
    BY <2>11, <2>12, <2>15, Zenon DEF TopicStep
  <2> HIDE DEF rowVars, stripeVars, topicVars
  <2> QED BY <2>2, <2>13, <2>14, <2>15, Writers, Zenon
<1> QED BY <1>1, <1>2, AlwaysGrounded, PTL DEF Spec, ImplementsLedger, Ledger!Spec
=============================================================================
