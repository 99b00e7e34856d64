--------------------------- MODULE PaymentLifecycle ---------------------------
(***************************************************************************)
(* The life of a card order after it has been accepted: the transactions   *)
(* row, the Stripe payment intents opened for it, the webhook events       *)
(* Stripe sends, the webhook service, the reconciliation cron, refunds and *)
(* the payment.confirmed topic.                                            *)
(*                                                                         *)
(* A handler is cut at every call to a store or to Stripe, so steps of     *)
(* concurrent handlers, of the cron and of Stripe interleave there.        *)
(*                                                                         *)
(* Scope: who calls UpdateCheckout (eager Create or the checkout resolver) *)
(* is the subject of module Checkout; here it is an operation that may     *)
(* happen once a session's intent exists.  Event types the webhook service *)
(* ignores (disputes, unknown types) only write their dedup key, and are   *)
(* left out.  Stripe itself is external: it is modelled from what the code *)
(* asks of it and from the events the code handles.                        *)
(***************************************************************************)
EXTENDS Naturals, FiniteSets

CONSTANTS
  Orders,      \* (merchant_id, order_id) pairs
  Intents,     \* Stripe payment intents
  OrderOf,     \* the order stamped into the metadata of the intent's session
  Handlers,    \* concurrent webhook requests
  Crons,       \* reconcilers: one per pod
  Subscribed,  \* event types the endpoint is subscribed to at Stripe
  BatchSize,   \* rows the reconciliation cron lists per tick
  MaxFaults,   \* bound on transient errors, lost answers and crashes
  MaxExpired,  \* bound on dedup keys that outlive their 24h
  NoIntent,    \* empty stripe_pi_id
  NoOrder,     \* a handler that has not resolved its order
  NoEvent      \* an idle handler

ASSUME OrdersAssumption    == IsFiniteSet(Orders)
ASSUME OrderOfAssumption   == OrderOf \in [Intents -> Orders]
ASSUME NoIntentAssumption  == NoIntent \notin Intents
ASSUME NoOrderAssumption   == NoOrder \notin Orders
ASSUME BatchSizeAssumption == BatchSize \in Nat \ {0}
ASSUME MaxFaultsAssumption == MaxFaults \in Nat
ASSUME MaxExpiredAssumption == MaxExpired \in Nat

VARIABLES
  row,         \* transactions table: status, stripe_pi_id, created_at (a rank)
  aged,        \* rows of rank at most aged are older than StuckAfter
  intent,      \* Stripe: state of each payment intent
  refunds,     \* Stripe: intents with a refund
  refunding,   \* Stripe: intents a refund request is about to refund
  sent,        \* Stripe: every event generated so far
  unacked,     \* Stripe: events without a 2xx answer, delivered again and again
  dedup,       \* Redis: events whose "webhook:<id>" key exists
  expired,     \* events whose key has outlived its 24h once
  handler,     \* webhook requests in flight
  cron,        \* the reconcilers: where each is, and the rows it listed
  published,   \* what payment.confirmed has said: order and status
  notified,    \* events whose handling has published
  renotified,  \* events whose handling has published more than once
  faults       \* faults so far

rowVars    == <<row, aged>>
stripeVars == <<intent, refunds, refunding, sent>>
dedupVars  == <<dedup, expired>>
topicVars  == <<published, notified, renotified>>
vars == <<rowVars, stripeVars, unacked, dedupVars, handler, cron, topicVars, faults>>

-----------------------------------------------------------------------------
(* Data *)

Statuses == {"none", "created", "paid", "failed", "refunded"}
IntentStates == {"none", "requires_payment_method", "processing", "succeeded", "canceled"}

Succeeded == "payment_intent.succeeded"
Completed == "checkout.session.completed"
Failed    == "payment_intent.payment_failed"
Refunded  == "charge.refunded"

\* meta: whether the object carries our order_id and merchant_id metadata.
Events == [type : {Succeeded, Completed, Failed, Refunded}, pi : Intents, meta : BOOLEAN]

NoRow == [status |-> "none", pi |-> NoIntent, at |-> 0]
Idle  == [pc |-> "idle", ev |-> NoEvent, order |-> NoOrder]

Listed  == [order : Orders, pi : Intents \cup {NoIntent}, at : Nat]
Nothing == [order |-> NoOrder, pi |-> NoIntent, at |-> 0]
Resting == [pc |-> "next", cur |-> Nothing, batch |-> {}]

Exists(o) == row[o].status # "none"

Init ==
  /\ row = [o \in Orders |-> NoRow]
  /\ aged = 0
  /\ intent = [p \in Intents |-> "none"]
  /\ refunds = {} /\ refunding = {}
  /\ sent = {}
  /\ unacked = {}
  /\ dedup = {}
  /\ expired = {}
  /\ handler = [h \in Handlers |-> Idle]
  /\ cron = [c \in Crons |-> Resting]
  /\ published = {}
  /\ notified = {}
  /\ renotified = {}
  /\ faults = 0

-----------------------------------------------------------------------------
(* The transactions table *)

\* UPDATE ... SET status, stripe_pi_id = COALESCE(NULLIF(pi, ''), stripe_pi_id):
\* the old status is not looked at.
UpdateStatus(r, status, pi) ==
  [status |-> status, pi |-> IF pi = NoIntent THEN r.pi ELSE pi, at |-> r.at]

\* paymentService.Create wins the INSERT: the row is durable before any
\* session exists.
Insert(o) ==
  /\ ~Exists(o)
  /\ row' = [row EXCEPT ![o] =
       [status |-> "created", pi |-> NoIntent,
        at |-> 1 + Cardinality({q \in Orders : Exists(q)})]]
  /\ UNCHANGED <<aged, stripeVars, unacked, dedupVars, handler, cron, topicVars, faults>>

\* Create or the resolver stores the intent of a session it has opened.  It
\* may never happen: the session may come back without an intent, and the
\* write may fail.
UpdateCheckout(p) ==
  LET o == OrderOf[p] IN
  /\ Exists(o) /\ intent[p] # "none" /\ row[o].pi # p
  /\ row' = [row EXCEPT ![o].pi = p]
  /\ UNCHANGED <<aged, stripeVars, unacked, dedupVars, handler, cron, topicVars, faults>>

\* The next oldest row becomes older than StuckAfter.
Age ==
  /\ \E o \in Orders : Exists(o) /\ row[o].at > aged
  /\ aged' = aged + 1
  /\ UNCHANGED <<row, stripeVars, unacked, dedupVars, handler, cron, topicVars, faults>>

-----------------------------------------------------------------------------
(* Stripe *)

\* Mutant: the session is opened before the INSERT.
OpenIntent_BeforeInsert(p) ==
  /\ intent[p] = "none"
  /\ intent' = [intent EXCEPT ![p] = "requires_payment_method"]
  /\ UNCHANGED <<refunds, refunding, sent, unacked, rowVars, dedupVars, handler, cron, topicVars, faults>>

\* CreateCheckoutSession: only called for an order whose row is durable.
OpenIntent(p) ==
  /\ intent[p] = "none" /\ Exists(OrderOf[p])
  /\ intent' = [intent EXCEPT ![p] = "requires_payment_method"]
  /\ UNCHANGED <<refunds, refunding, sent, unacked, rowVars, dedupVars, handler, cron, topicVars, faults>>

HasSent(type, p) == \E e \in sent : e.type = type /\ e.pi = p

\* The session stamps its own metadata; whether the intent or the charge
\* carries it is not up to this code.
Emit(evs) ==
  LET new == {e \in evs : e.type \in Subscribed} IN
  /\ sent' = sent \cup new
  /\ unacked' = unacked \cup (new \ sent)

\* A delayed payment method: the session is complete, the money is not there.
StartProcessing(p) ==
  /\ intent[p] = "requires_payment_method" /\ ~HasSent(Completed, p)
  /\ intent' = [intent EXCEPT ![p] = "processing"]
  /\ Emit({[type |-> Completed, pi |-> p, meta |-> TRUE]})
  /\ UNCHANGED <<refunds, refunding, rowVars, dedupVars, handler, cron, topicVars, faults>>

Pay(p) ==
  /\ intent[p] \in {"requires_payment_method", "processing"}
  /\ intent' = [intent EXCEPT ![p] = "succeeded"]
  /\ \E m \in BOOLEAN :
       Emit({[type |-> Completed, pi |-> p, meta |-> TRUE],
             [type |-> Succeeded, pi |-> p, meta |-> m]})
  /\ UNCHANGED <<refunds, refunding, rowVars, dedupVars, handler, cron, topicVars, faults>>

\* Bound: one payment_failed event per intent.
Decline(p) ==
  /\ intent[p] \in {"requires_payment_method", "processing"} /\ ~HasSent(Failed, p)
  /\ intent' = [intent EXCEPT ![p] = "requires_payment_method"]
  /\ \E m \in BOOLEAN : Emit({[type |-> Failed, pi |-> p, meta |-> m]})
  /\ UNCHANGED <<refunds, refunding, rowVars, dedupVars, handler, cron, topicVars, faults>>

Cancel(p) ==
  /\ intent[p] = "requires_payment_method"
  /\ intent' = [intent EXCEPT ![p] = "canceled"]
  /\ UNCHANGED <<refunds, refunding, sent, unacked, rowVars, dedupVars, handler, cron, topicVars, faults>>

\* webhookService.CreateRefund reads the row, of which only the intent id is
\* consulted.  Bounds: one request per intent at a time, and none once it is
\* refunded.
CreateRefund(o) ==
  /\ Exists(o) /\ row[o].pi \notin refunding \cup refunds \cup {NoIntent}
  /\ refunding' = refunding \cup {row[o].pi}
  /\ UNCHANGED <<intent, refunds, sent, unacked, rowVars, dedupVars, handler, cron, topicVars, faults>>

\* Then it calls Stripe with the intent it has read and does not write the row.
\* Stripe refuses an intent that has not succeeded, and the call may fail.
\* Bound: one charge.refunded event per intent.
StripeRefund(p) ==
  /\ p \in refunding
  /\ refunding' = refunding \ {p}
  /\ \/ /\ intent[p] = "succeeded"
        /\ refunds' = refunds \cup {p}
        /\ \E m \in BOOLEAN : Emit({[type |-> Refunded, pi |-> p, meta |-> m]})
     \/ UNCHANGED <<refunds, sent, unacked>>
  /\ UNCHANGED <<intent, rowVars, dedupVars, handler, cron, topicVars, faults>>

-----------------------------------------------------------------------------
(* The webhook service *)

\* The 2xx answer reaches Stripe, or is lost and the event comes again.
Ack(e) ==
  \/ unacked' = unacked \ {e} /\ UNCHANGED faults
  \/ faults < MaxFaults /\ faults' = faults + 1 /\ UNCHANGED unacked

\* Mutant: GET and SET instead of SET NX, the key not looked at in time.
Process_NoDedup(h, e) ==
  /\ handler[h] = Idle /\ e \in unacked
  /\ dedup' = dedup \cup {e}
  /\ handler' = [handler EXCEPT ![h] = [pc |-> "check", ev |-> e, order |-> NoOrder]]
  /\ UNCHANGED <<expired, rowVars, stripeVars, unacked, cron, topicVars, faults>>

\* Process, first delivery: SET NX takes the key before any of the work.
Process(h, e) ==
  /\ handler[h] = Idle /\ e \in unacked \ dedup
  /\ dedup' = dedup \cup {e}
  /\ handler' = [handler EXCEPT ![h] = [pc |-> "check", ev |-> e, order |-> NoOrder]]
  /\ UNCHANGED <<expired, rowVars, stripeVars, unacked, cron, topicVars, faults>>

\* Mutant: a duplicate is answered as an error.
ProcessDuplicate_Refused(e) ==
  /\ e \in unacked \cap dedup
  /\ UNCHANGED vars

\* Process, key already there: ErrWebhookDuplicate, which the HTTP handler
\* answers with 200.
ProcessDuplicate(e) ==
  /\ e \in unacked \cap dedup
  /\ Ack(e)
  /\ UNCHANGED <<rowVars, stripeVars, dedupVars, handler, cron, topicVars>>

\* The key's 24h pass.  Bounds: once per event, MaxExpired in all.
DedupExpire(e) ==
  /\ e \in dedup \ expired /\ Cardinality(expired) < MaxExpired
  /\ dedup' = dedup \ {e}
  /\ expired' = expired \cup {e}
  /\ UNCHANGED <<rowVars, stripeVars, unacked, handler, cron, topicVars, faults>>

\* Mutant: the event is believed without asking Stripe.
CrossCheck_Skipped(e) == TRUE

\* handleSucceeded asks Stripe for the intent; the other handlers do not.
CrossCheck(e) ==
  e.type \in {Succeeded, Completed} => intent[e.pi] = "succeeded"

\* Mutant: the lookup forgets WHERE stripe_pi_id = ?.
OrderFor_AnyRow(e) ==
  IF e.meta THEN {OrderOf[e.pi]}
  ELSE IF e.type = Refunded THEN {o \in Orders : Exists(o)}
  ELSE {}

\* The order an event is about: its metadata, or for charge.refunded the row
\* that holds the intent (GetByPaymentIntentID).
OrderFor(e) ==
  IF e.meta THEN {OrderOf[e.pi]}
  ELSE IF e.type = Refunded THEN {o \in Orders : Exists(o) /\ row[o].pi = e.pi}
  ELSE {}

\* Metadata and cross-check pass; the handler goes on to the shard's UPDATE.
Check(h) ==
  /\ handler[h].pc = "check" /\ CrossCheck(handler[h].ev)
  /\ \E o \in OrderFor(handler[h].ev) :
       handler' = [handler EXCEPT ![h] = [pc |-> "update", ev |-> @.ev, order |-> o]]
  /\ UNCHANGED <<rowVars, stripeVars, unacked, dedupVars, cron, topicVars, faults>>

\* No order for the event, an intent that has not succeeded, or no row to
\* update (ErrWebhookOrderMissing).
Refused(w) ==
  IF w.pc = "check" THEN ~CrossCheck(w.ev) \/ OrderFor(w.ev) = {}
                    ELSE w.pc = "update" /\ ~Exists(w.order)

\* A 4xx or 5xx answer.  The key stays.
Reject(h) ==
  /\ Refused(handler[h])
  /\ handler' = [handler EXCEPT ![h] = Idle]
  /\ UNCHANGED <<rowVars, stripeVars, unacked, dedupVars, cron, topicVars, faults>>

StatusFor(type) ==
  CASE type \in {Succeeded, Completed} -> "paid"
    [] type = Failed   -> "failed"
    [] type = Refunded -> "refunded"

\* UpdateStatus; handleFailed is then done, the others reload and publish.
Update(h) ==
  LET e == handler[h].ev
      o == handler[h].order
  IN
  /\ handler[h].pc = "update" /\ Exists(o)
  /\ row' = [row EXCEPT ![o] = UpdateStatus(@, StatusFor(e.type), e.pi)]
  /\ IF e.type = Failed
       THEN Ack(e) /\ handler' = [handler EXCEPT ![h] = Idle]
       ELSE /\ handler' = [handler EXCEPT ![h] = [pc |-> "publish", ev |-> e, order |-> o]]
            /\ UNCHANGED <<unacked, faults>>
  /\ UNCHANGED <<aged, stripeVars, dedupVars, cron, topicVars>>

\* GetByMerchantOrderID and PublishPaymentConfirmed, then the 200 answer.
Publish(h) ==
  LET e == handler[h].ev IN
  /\ handler[h].pc = "publish"
  /\ published' = published \cup {[order |-> handler[h].order, status |-> StatusFor(e.type)]}
  /\ notified' = notified \cup {e}
  /\ renotified' = renotified \cup (notified \cap {e})
  /\ Ack(e)
  /\ handler' = [handler EXCEPT ![h] = Idle]
  /\ UNCHANGED <<rowVars, stripeVars, dedupVars, cron>>

\* Redis, MySQL, Stripe or Kafka fails a call: an error answer, at any point,
\* and nothing that was done is undone.
HandlerFault(h) ==
  /\ handler[h] # Idle /\ faults < MaxFaults
  /\ faults' = faults + 1
  /\ handler' = [handler EXCEPT ![h] = Idle]
  /\ UNCHANGED <<rowVars, stripeVars, unacked, dedupVars, cron, topicVars>>

-----------------------------------------------------------------------------
(* The reconciliation cron *)

Older(S, x) == {y \in S : y.at < x.at}

Pending == {[order |-> o, pi |-> row[o].pi, at |-> row[o].at] :
              o \in {q \in Orders : row[q].status = "created" /\ row[q].at <= aged}}

\* The oldest BatchSize rows, over all shards.
GetPendingBefore == {x \in Pending : Cardinality(Older(Pending, x)) < BatchSize}

\* A tick lists its rows at once; the next one waits for the last row.
Tick(c) ==
  /\ cron[c].pc = "next" /\ cron[c].batch = {}
  /\ cron' = [cron EXCEPT ![c] = [pc |-> "next", cur |-> Nothing, batch |-> GetPendingBefore]]
  /\ UNCHANGED <<rowVars, stripeVars, unacked, dedupVars, handler, topicVars, faults>>

\* Mutant: canceled intents are taken for intents still in progress.
Verdict_CanceledIgnored(x) ==
  IF x.pi = NoIntent \/ intent[x.pi] \in {"processing", "canceled"} THEN "next"
  ELSE IF intent[x.pi] = "succeeded" THEN "confirm"
  ELSE "fail"

\* Mutant: an intent in progress is taken for a paid one.
Verdict_Eager(x) ==
  IF x.pi = NoIntent THEN "next"
  ELSE IF intent[x.pi] \in {"processing", "succeeded"} THEN "confirm"
  ELSE "fail"

\* Where reconcileOne goes with a listed row: rows without an intent id are
\* left alone, and so are intents in any other state.
Verdict(x) ==
  CASE x.pi = NoIntent -> "next"
    [] x.pi # NoIntent /\ intent[x.pi] = "succeeded" -> "confirm"
    [] x.pi # NoIntent /\ intent[x.pi] \in {"canceled", "requires_payment_method"} -> "fail"
    [] OTHER -> "next"

\* reconcileOne takes the oldest row left and asks Stripe for its intent, as
\* the row was when it was listed.
ReconcileRead(c) ==
  /\ cron[c].pc = "next"
  /\ \E x \in cron[c].batch :
       /\ Older(cron[c].batch, x) = {}
       /\ cron' = [cron EXCEPT ![c] = [pc |-> Verdict(x), batch |-> cron[c].batch \ {x},
                                      cur |-> IF Verdict(x) = "next" THEN Nothing ELSE x]]
  /\ UNCHANGED <<rowVars, stripeVars, unacked, dedupVars, handler, topicVars, faults>>

RowDone(c) == cron' = [cron EXCEPT ![c] = [pc |-> "next", cur |-> Nothing, batch |-> cron[c].batch]]

ReconcileConfirm(c) ==
  /\ cron[c].pc = "confirm"
  /\ row' = [row EXCEPT ![cron[c].cur.order] = UpdateStatus(@, "paid", cron[c].cur.pi)]
  /\ cron' = [cron EXCEPT ![c] = [pc |-> "publish", cur |-> cron[c].cur, batch |-> cron[c].batch]]
  /\ UNCHANGED <<aged, stripeVars, unacked, dedupVars, handler, topicVars, faults>>

ReconcilePublish(c) ==
  /\ cron[c].pc = "publish"
  /\ published' = published \cup {[order |-> cron[c].cur.order, status |-> "paid"]}
  /\ RowDone(c)
  /\ UNCHANGED <<rowVars, stripeVars, unacked, dedupVars, handler, notified, renotified, faults>>

ReconcileFail(c) ==
  /\ cron[c].pc = "fail"
  /\ row' = [row EXCEPT ![cron[c].cur.order] = UpdateStatus(@, "failed", cron[c].cur.pi)]
  /\ RowDone(c)
  /\ UNCHANGED <<aged, stripeVars, unacked, dedupVars, handler, topicVars, faults>>

\* A call for the current row fails: it is logged and the next row follows.
\* The failing call may be the read, so a row may be dropped unread.
ReconcileFault(c) ==
  /\ faults < MaxFaults
  /\ faults' = faults + 1
  /\ \/ cron[c].pc # "next" /\ RowDone(c)
     \/ /\ cron[c].pc = "next"
        /\ \E x \in cron[c].batch :
             /\ Older(cron[c].batch, x) = {}
             /\ cron' = [cron EXCEPT ![c] = [pc |-> "next", cur |-> Nothing, batch |-> cron[c].batch \ {x}]]
  /\ UNCHANGED <<rowVars, stripeVars, unacked, dedupVars, handler, topicVars>>

Reconcile(c) ==
  \/ ReconcileRead(c) \/ ReconcileConfirm(c) \/ ReconcilePublish(c)
  \/ ReconcileFail(c) \/ ReconcileFault(c)

\* The pod of cron c dies and restarts: the rows it listed go, and so do the
\* requests it was serving.
Crash(c) ==
  /\ faults < MaxFaults
  /\ faults' = faults + 1
  /\ \E H \in SUBSET Handlers : handler' = [h \in Handlers |-> IF h \in H THEN Idle ELSE handler[h]]
  /\ cron' = [cron EXCEPT ![c] = Resting]
  /\ UNCHANGED <<rowVars, stripeVars, unacked, dedupVars, topicVars>>

-----------------------------------------------------------------------------
HandlerStep(h) == Check(h) \/ Reject(h) \/ Update(h) \/ Publish(h)

Next ==
  \/ \E o \in Orders : Insert(o) \/ CreateRefund(o)
  \/ \E p \in Intents : \/ UpdateCheckout(p) \/ OpenIntent(p) \/ StartProcessing(p)
                        \/ Pay(p) \/ Decline(p) \/ Cancel(p) \/ StripeRefund(p)
  \/ Age
  \/ \E e \in unacked : ProcessDuplicate(e) \/ \E h \in Handlers : Process(h, e)
  \/ \E e \in dedup : DedupExpire(e)
  \/ \E h \in Handlers : HandlerStep(h) \/ HandlerFault(h)
  \/ \E c \in Crons : Tick(c) \/ Reconcile(c) \/ Crash(c)

Spec == Init /\ [][Next]_vars
\* The tickers run for the life of the process, requests in flight run to
\* their end, and Stripe delivers an event again until it is answered 2xx.
Fairness ==
  /\ WF_vars(Age) /\ \A c \in Crons : WF_vars(Tick(c)) /\ WF_vars(Reconcile(c))
  /\ \A h \in Handlers : WF_vars(HandlerStep(h))
  /\ \A e \in Events : WF_vars(e \in unacked /\ (ProcessDuplicate(e) \/ \E h \in Handlers : Process(h, e)))

FairSpec == Spec /\ Fairness

-----------------------------------------------------------------------------
(* Invariants *)

\* What a webhook request can be doing; handleFailed never publishes.
Requests ==
  {Idle} \cup [pc : {"check"}, ev : sent, order : {NoOrder}]
         \cup [pc : {"update"}, ev : sent, order : Orders]
         \cup [pc : {"publish"}, ev : {e \in sent : e.type # Failed}, order : Orders]

\* What a cron can be doing.
Passes ==
  [pc : {"next"}, cur : {Nothing}, batch : SUBSET Listed]
    \cup [pc : {"confirm", "publish", "fail"}, cur : Listed, batch : SUBSET Listed]

\* Every variable stays in its domain.
TypeOK ==
  /\ row \in [Orders -> [status : Statuses, pi : Intents \cup {NoIntent}, at : Nat]]
  /\ aged \in Nat
  /\ intent \in [Intents -> IntentStates]
  /\ refunds \subseteq Intents /\ refunding \subseteq Intents
  /\ sent \subseteq Events /\ unacked \subseteq sent
  /\ dedup \subseteq sent /\ expired \subseteq sent
  /\ handler \in [Handlers -> Requests]
  /\ cron \in [Crons -> Passes]
  /\ published \subseteq [order : Orders, status : {"paid", "refunded"}]
  /\ notified \subseteq sent /\ renotified \subseteq notified
  /\ faults \in 0..MaxFaults

Settled(o)  == \E p \in Intents : OrderOf[p] = o /\ intent[p] = "succeeded"
Reversed(o) == \E p \in refunds : OrderOf[p] = o

\* A row says "paid" only when Stripe has collected an intent of that very
\* order, and "refunded" only when one was refunded: whichever of the webhook
\* handlers and the cron wrote last, from whatever stale read.
RowNeverAheadOfStripe ==
  \A o \in Orders :
    /\ row[o].status = "paid" => Settled(o)
    /\ row[o].status = "refunded" => Reversed(o)

\* payment.confirmed never tells a merchant of a payment or a refund that
\* Stripe does not know, with handlers failing and starting again anywhere.
PublishedNeverAheadOfStripe ==
  \A m \in published :
    /\ Exists(m.order)
    /\ m.status = "paid" => Settled(m.order)
    /\ m.status = "refunded" => Reversed(m.order)

\* A row only ever holds an intent that was opened for its own order, so the
\* cron asks about, and CreateRefund refunds, the right payment; also when
\* charge.refunded finds its order through GetByPaymentIntentID.
IntentIsOwn ==
  \A o \in Orders :
    row[o].pi # NoIntent => OrderOf[row[o].pi] = o /\ intent[row[o].pi] # "none"

\* A webhook never finds its order missing: the row is durable before Stripe
\* can know of the order, so ErrWebhookOrderMissing is never a benign race.
OrderNeverMissing == \A h \in Handlers : handler[h].pc = "update" => Exists(handler[h].order)

\* The SET NX key keeps concurrent and repeated deliveries of one event id
\* from publishing twice, as long as the key lives.
EventPublishedOnce == renotified \subseteq expired

-----------------------------------------------------------------------------
(* What makes the invariants inductive *)

\* Stripe knows an order only after its row, and sends only true events.
StripeHistory ==
  /\ \A p \in Intents : intent[p] # "none" => Exists(OrderOf[p])
  /\ \A p \in refunds : intent[p] = "succeeded"
  /\ \A e \in sent : intent[e.pi] # "none" /\ (e.type = Refunded => e.pi \in refunds)

\* A handler past its checks works on the event's own order, and what it saw
\* at Stripe still holds: an intent never leaves "succeeded".
HandlerGrounded ==
  \A h \in Handlers :
    handler[h].pc \in {"update", "publish"} =>
      /\ handler[h].order = OrderOf[handler[h].ev.pi]
      /\ CrossCheck(handler[h].ev)

\* The rows a cron listed exist and hold intents of their own; the verdict
\* "succeeded" still holds when the cron comes to write it, whatever other
\* crons and handlers did to the row.
PassGrounded(k) ==
  /\ \A x \in k.batch :
       /\ Exists(x.order)
       /\ x.pi # NoIntent => OrderOf[x.pi] = x.order /\ intent[x.pi] # "none"
  /\ k.pc # "next" =>
       /\ k.cur.pi \in Intents
       /\ Exists(k.cur.order) /\ OrderOf[k.cur.pi] = k.cur.order
       /\ intent[k.cur.pi] # "none"
  /\ k.pc \in {"confirm", "publish"} => intent[k.cur.pi] = "succeeded"

CronGrounded == \A c \in Crons : PassGrounded(cron[c])

\* While the key of an event lives, at most one handler works on it, and none
\* once it has published.
KeyExcludes ==
  /\ notified \subseteq dedup \cup expired
  /\ \A h \in Handlers : handler[h].pc # "idle" =>
       /\ handler[h].ev \in dedup \cup expired
       /\ handler[h].ev \notin notified \/ handler[h].ev \in expired
  /\ \A g, h \in Handlers :
       (g # h /\ handler[g].pc # "idle" /\ handler[h].pc # "idle" /\ handler[g].ev = handler[h].ev)
         => handler[h].ev \in expired

-----------------------------------------------------------------------------
(* Temporal properties *)

Stuck(o) ==
  /\ row[o].status = "created" /\ row[o].pi # NoIntent
  /\ intent[row[o].pi] \in {"succeeded", "canceled"}

\* The cron gets to every row that is stuck on an intent Stripe has decided,
\* whatever happened to the webhooks.
StuckOrderResolved == \A o \in Orders : Stuck(o) ~> row[o].status # "created"

\* Stripe's retries come to an end: every event is answered 2xx at last.
RetriesEnd == \A e \in Events : e \in unacked ~> e \notin unacked

\* An event that names its order and passes the cross-check has its effect
\* on the row at some time: an error answer makes Stripe deliver it again.
EventTakesEffect ==
  \A e \in Events :
    (e \in sent /\ e.meta /\ CrossCheck(e)) ~> row[OrderOf[e.pi]].status = StatusFor(e.type)

\* A row that Create leaves behind as created is cleaned up by the cron.
CreatedRowCleanedUp == \A o \in Orders : row[o].status = "created" ~> row[o].status # "created"

\* The status change of a refund is persisted.
RefundReachesRow == \A p \in Intents : p \in refunds ~> row[OrderOf[p]].status = "refunded"

\* The cron fails a row by Stripe's ground truth: never one that is paid.
FailsByGroundTruth ==
  [][\A c \in Crons : ReconcileFail(c) => intent[cron[c].cur.pi] # "succeeded"]_vars

\* The statuses announced on payment.confirmed are terminal: a row that was
\* announced as refunded stays refunded.
RefundedIsTerminal ==
  [][\A o \in Orders :
       ([order |-> o, status |-> "refunded"] \in published /\ row[o].status = "refunded")
         => row'[o].status = "refunded"]_vars

Ledger == INSTANCE PaymentLedger WITH
  status   <- [o \in Orders |-> row[o].status],
  settled  <- {OrderOf[p] : p \in {q \in Intents : intent[q] = "succeeded"}},
  reversed <- {OrderOf[p] : p \in refunds},
  heard    <- published

\* The lifecycle implements the ledger: every step of a handler, of the cron
\* or of Stripe is one ledger step or none.
ImplementsLedger == Ledger!Spec
=============================================================================
