# A TLA+ verification of easypay

easypay is a payment gateway: merchants post orders, customers pay them by card
through Stripe or with a token transfer on a chain, and the merchant is called
back. Its difficulty is not in any one handler but between them: webhooks that
come twice or late, a cron that works from old lists, locks that expire under
their owner, a consumer that commits offsets, a chain that reorganises, caches
and clocks that disagree, rows spread over shards, and several pods doing all of
this at the same time on one MySQL, Redis and Kafka.

This directory models those parts, model-checks them on small instances with
TLC, and proves the main safety properties for all instances with TLAPS. Paths
below are relative to the repository (`src/`); `PROJECT.json` maps every
definition to the lines it stands for.

## Inventory

| Part | State | Operations | Interacts with |
|---|---|---|---|
| payment service (`internal/service/payment_service.go`) | `transactions` row | `Create`: insert, idempotent retry, crypto / lazy / eager | Stripe, resolver (through the `/pay` link) |
| checkout resolver (`checkout_resolver.go`), lock, URL cache, token bucket, breaker | row, Redis lock, cache of each pod | `Resolve`: five tiers | Stripe, payment service |
| webhook service (`webhook_service.go`) | row, Redis dedup keys | `Process` and its three handlers, `CreateRefund` | Stripe events, cron, topic |
| order reconciliation (`reconciliation.go`) | row | `tick`, `reconcileOne` | Stripe, webhook service, topic |
| Kafka batch consumer and settlement consumer | group offset, dead-letter topic | fetch, handle, fallback, commit | merchants |
| chain listener (`internal/provider/blockchain`) | `onchain_transactions`, `block_cursors`, row | subscriber, backfill scanner, confirmation tracker, reconciler | the chain, topic |
| shard router, configuration, repositories (`internal/repository`) | pools, rows of each pool, shard of a merchant | start-up, routing by merchant, lookups over all pools, codecs, `pickLeastLoadedShard` | every service |
| authentication and rate limiter (`internal/api/middleware`), merchant cache | merchant row, cache of each pod, Redis sorted set | lookup by key or id, `HMACAuth`, `RateLimit` | operators changing a merchant, settlement |
| token bucket, circuit breaker | Redis hash, breaker of each pod | `Allow`, `wrap` | resolver, Stripe |
| tokens, pages, health, metrics | none shared | per request | |

What is hard here, and where it bites, is the list of hazards in
`PROJECT.json`. In short: a dedup key that outlives a failed handling; rows
written from stale reads without looking at the old status; a batch limit that
old rows can fill; two idempotency keys for one order; a lock with a TTL; a
failing write that is only logged; a cursor that can jump; receipts, heads and
lists that are old when they are used; crashes between two writes; a shard number
computed backwards from a pool; a pool that does not answer; cached secrets; time
stamps of clocks that disagree; results that come in after the breaker has moved on.

What correctness means: nobody is told of money that is not there, nobody is
charged twice or for something else, an order's money is never booked on another
order, an event is not published twice, and what was paid is finally known to
the row and to the merchant.

## Modules

| Module | Models |
|---|---|
| `PaymentLedger` | the promise: a row and the topic follow what Stripe has collected and refunded |
| `PaymentLifecycle` | webhook service, reconciliation cron, refunds, the row, Stripe's intents and events |
| `Checkout` | `Create` and `Resolve`, lock, URL cache, sessions at Stripe |
| `Delivery` | the promise of at-least-once delivery: the committed offset passes a message only when it is settled or known to be lost |
| `Settlement` | batch consumer and settlement consumer on one partition |
| `Listener` | the four chain workers of every pod over the shared tables |
| `ShardRouter`, `Codec` | pure operators: shard and pool numbers with their inverse; status, method and currency codes |
| `Routing` | start-up of the pools, merchant creation, the transactions of all pools, lookups and follow-up writes |
| `Gateway` | merchant lookups through the cache of a pod, authentication, the sliding-window limiter |
| `StripeGate` | the fleet's token bucket and the breaker of each pod in front of Stripe |
| `MC…` | the instances for TLC |
| `…_proofs`, `Listener_safety` | the theorems; `Listener_safety` goes on from `Listener_proofs` |

In every module a handler is cut at each call to a store or a service, because
there steps of others can come in between; what happens between two calls is
one step. A call that fails may have taken effect. A crash takes what lives in
the process (requests in flight, lists, caches, subscriptions) and leaves what
is stored. Stripe, Kafka, merchants and the chain are external: they are
modelled by what the code asks of them and what it handles.

**PaymentLifecycle.** `row` is the table; `handler` the webhook requests in
flight, each at `check`, `update` or `publish`; `cron` the reconciler of each pod with
the rows it has listed, as they were when listed; `intent`, `refunds`, `sent` and
`unacked` are Stripe's side: an event stays in `unacked`, and is delivered again
at any time, until a 2xx answer arrives. `dedup` holds the `webhook:<id>` keys.
`Process` takes the key and starts the handler, `ProcessDuplicate` is the other
outcome of SET NX. `Check` covers metadata, cross-check and shard; `Update` the
`UpdateStatus`; `Publish` reload, publication and answer. `CreateRefund` reads the row and
`StripeRefund` calls Stripe with the intent it found; webhooks and crons may come in
between. The cross-check is
modelled for events that carry a payment intent, which sessions in payment mode
do; for one that carries none, `handleSucceeded` skips it. Nothing in the code
writes the status `pending` to this table, so it is left out.

**Checkout.** A request of either kind is a process with a program counter; a URL
is the session it leads to; `Materials` stands for amount, currency and bucket.
Stripe returns the existing session for an idempotency key. `lapsed` is a history
variable: the requests whose lock ran out while they were at work. The token
bucket and the breaker appear as the refusal `CallFault`; a bucket that fails
lets the call through, like one that allows it. `Lazy` is the set of pods that run
with `LazyCheckout`: while a new configuration is rolled out, pods of both modes
serve the same orders. The expiry of `/pay` tokens, and of sessions at Stripe, is not
modelled: `UrlsAreLive` says that a URL leads to a session that was opened for its
order, not that Stripe still takes money for it.

**Settlement.** Offsets number the messages; the batch in hand is
`start+1..position`. `handle` is the batch handler, `fallback` the loop over
single messages. `Stop` is the cancellation of `Run`'s context by `main`. The loop
looks at it only before a fetch, so a batch in hand goes on under a cancelled context:
POSTs are cut off (`sendCancelled`), lookups, dead-letter writes and commits may fail or
still succeed, and the commit may pass over what was given up. It ends wherever the
process does (`Restart`). A message that a failed call has dropped is in the history
variable `lost`.

**Listener.** A transaction is mined, deepens, and may be orphaned while it is
less than `ReorgDepth` deep. `row` holds status and block of each hash; a `todo`
set of a worker is its list, as old as it is. Lookup and insert are one step
because UNIQUE(tx_hash) makes the loser of a race a duplicate. A chain event names an
order_id and no merchant, so `OrderOf` gives a transaction all orders of that id;
`GetByOrderIDAny` returns one of them, at each lookup anew, and the tracker keeps it
through its three writes. `published` counts the messages of each pod. The LIMIT of
`ListPendingByChain` is larger than any instance. `WebSocket` says whether the
subscription endpoint can be reached at all. `undone` and `misread` are history
variables: transactions a reorganisation took back, and ones whose receipt could
not be read.

**Routing.** `boot` is a pod's start: configuration, validation, the pools one after
the other (`OpenPool`, or `OpenPoolFails` with the deferred close), and a restart. A
merchant is created in two steps, the counts of `pickLeastLoadedShard` and the
insert. `rows` are the transactions with the pool they are on. A `caller` is a
lookup that asks every pool in any order (`scatterFirst`), or the cron's listing
(`GetPendingBefore`, one query per pool, then the sort and the cut), followed by the
update through the shard number `physicalToFirstLogical` gave the row. `due` is a
history variable: what the stores held when the lookup began. The sort is the
insertion sort of the code. Spellings are a name and whether it is in the table's
case; the hex and byte encodings of ids are left out, except that an id may be too
long for its column.

**Gateway.** A merchant's row goes through the versions of the constant `Records`;
no code updates it, so `ChangeMerchant` is an operator's statement. A request looks
the merchant up by API key (`auth`) or by id (`settlement`, and the webhook and checkout
services as `service`); a miss queries and then fills the cache, with time and changes
in between: at most `QueryTimeout`, except for the services, whose context has no
deadline and whose entry a settlement may find. `took` remembers how long the lookup
took that filled an entry. A settlement keeps what it found for all its attempts, at
most `SendTimeout`. Requests
with missing headers or a bad time stamp change nothing and are left out. A pod's
clock may be `Late` behind or `Ahead` of true time. `zset` is the sorted set: its
members are time stamps, so equal ones are one. The script may run and its answer be
lost (`AllowLost`); the client library then sends the call again with the same stamp, or
it fails and the request passes (`AllowFails`). `admitted` is the history of what the
script has admitted, lost answers included; a request that passes because Redis failed
is not in it.

**StripeGate.** Tokens are counted in whole parts of a token instead of doubles, so
that refill is exact. `credit` is the history variable behind `FleetRate`: capacity
plus refill plus what a stamp going backwards gives twice, less what was granted. So
`FleetRate` does not say that clocks cannot give the fleet more than
`README.md:38` promises ("caps Stripe call rate fleet-wide"): it says by how much, and
that nothing else does.
The breaker library (gobreaker) is external: generations, counts and the three
states are modelled from how the code configures and calls it; `ReadyToTrip`,
`IsSuccessful`, `wrap` and `mapStripeError` are the repository's.

## Runs

Bounds are constants: `MaxFaults` (faults and crashes), `MaxExpired` (dedup keys
that run out), `N` (messages), `MaxHead` (blocks), `MaxTime`, `MaxClock`,
`MaxOutages`, `MaxRows`, `CacheSize`, `BatchSize`. The faults of `Settlement` and
`Listener` are a constant set of kinds, so that a run can say which of them a
property survives. Deadlock is checked except in `Settlement`, where an empty topic
leaves nothing to do, and in `Routing`, `Gateway` and `StripeGate`, where bounded
rows, time or calls run out.

Runs that pass:

| Run | Instance | Shows |
|---|---|---|
| `lifecycle_safe` | 2 orders, 1 intent, the events `checkout.session.completed`, `payment_intent.payment_failed` and `charge.refunded`, 2 handlers, 1 cron, batch 2, 1 fault, 1 expired key | `RowNeverAheadOfStripe`, `PublishedNeverAheadOfStripe`, `OrderNeverMissing`, `IntentIsOwn`, `EventPublishedOnce`, and that the lifecycle implements `PaymentLedger` |
| `lifecycle_live` | 1 order, the crons of 2 pods, 2 faults, 1 expired key | the crons resolve every decided row whatever happens to the webhooks (`StuckOrderResolved`); every event is finally answered 2xx (`RetriesEnd`) |
| `checkout` | 2 orders, 2 materials, 2 requests on a lazy and an eager pod, cache of 1, 1 fault | `ResolverOpensOne`, `ChargedAsAsked`, `UrlsAreLive`, `LockHeld`, `LinkServed` |
| `settlement` | 4 messages, batch 2, all faults, 2 of them | `CallsBounded`, `DeadLettersEarned`, `OnlyFaultsLose`, `CommitsAdvance`, `EventSettled`, and that the consumers implement `Delivery` |
| `listener` | 2 pods, 2 transactions for one order, one of which may also be taken for another merchant's order at another price, 3 blocks, all kinds of faults, 1 of them, two workers of all pods at work at a time | types and the cursor behind the head, `PaidIsFinal`, `PublishedOnce`, `GoodPaymentKept` |
| `listener_live` | 2 pods without WebSocket, one failing RPC | `LogPersisted`, `PaymentCredited`, `ConfirmedFinally` |
| `routing` | 4 logical shards, a single DSN or 2 pools (3 are refused), 2 merchants created by 2 admins beside an earlier one, 1 caller, limit 1, 1 fault | `StartsWhole`, `RowsAtHome`, `FollowUpFindsRow`, `MissIsHonest`, `OldestFirst`, `ReadBack`, `SpreadBounded` |
| `gateway` | 1 merchant with 3 versions, 2 requests on a pod, clocks 1 behind, window 3 | `RevocationBounded`, `LookupBounded`, `WindowRespected`, `RefusedWhenFull` |
| `stripe_gate` | 3 calls on a pod, capacity 2, clocks 1 behind, 1 outage | `FleetRate`, `TripEarned`, `Recovers` |

The instances are small, but each has the least that makes its case happen: two
handlers for one event, an order next to it that must not be touched, two crons on
one row, a second request that takes the lock after it has lapsed, a cache with one
slot for two orders, a batch that a poisoned message divides, a chain with room for
a block, its depth and one more, two scanners on one cursor, pools that hold more
than one logical shard, a list shorter than the rows of two pools, a version that
comes back active with another secret, three calls of which one ends a period
late, two transactions deep enough to pay one order on two pods. Requests, handlers,
admins and pods that are interchangeable are declared symmetric where no liveness is
checked. In `listener` a CONSTRAINT (`TwoAtWork`) bounds the concurrency as well: one pod
subscribed at a time, two workers at work, and at the full height of the chain only
trackers and reconcilers among them when there are two; what goes on between more
workers is left to the proofs, which have no such bound.

Other instances that also pass, all larger: `checkout_lazy` (3 requests, all pods lazy,
with `OneSessionPerOrder` and `CacheBounded`); `lifecycle_crons` (`lifecycle_safe` with
the crons of two pods, 13 million states); `lifecycle_safe` with
`payment_intent.succeeded` in the place of `checkout.session.completed` (3 million
states); `settlement` with 5 messages (1.2 million); `listener` with both pods
subscribed and any two workers at work (36 million).

Runs that fail, each because the code does something else than the line of the
repository it is held against (quoted in the findings of `PROJECT.json`):

| Run | What happens |
|---|---|
| `lifecycle_event_lost` | a handling fails after SET NX; all retries are duplicates and the event never takes effect |
| `settlement_lost_fetch` | a fetch error drops the messages in hand, and the next commit passes over them |
| `listener_missed_log` | after a gap the cursor jumps over blocks nobody has scanned |

The other configurations here show where the hypotheses of the passing runs are
needed. Each checks one property against a line of the repository, and TLC finds
a counterexample (`tlc -config X.cfg MC…`):

| Configuration | What happens | Held against |
|---|---|---|
| `lifecycle_created_kept` | a row without an intent id is never cleaned up | `payment_service.go:171` |
| `lifecycle_refund_lost` | a refund never reaches the row | `webhook_service.go:268` |
| `lifecycle_stale_fail` | the cron fails an order that has been paid since it asked | `service/reconciliation.go:16` |
| `lifecycle_refund_undone` | paid is written over an announced refund | `kafka/producer.go:31` |
| `lifecycle_cron_starved` | rows that are always skipped fill every batch | `transaction_repo.go:306` |
| `checkout_two_sessions` | a failed eager `Create` and the resolver open two sessions | `payment_service.go:208` |
| `settlement_lost_dlq` | a failed dead-letter write is committed (with `Faults = {"stop"}` too: a shutdown is enough) | `kafka/consumer.go:17` |
| `settlement_lost_lookup` | a failed merchant lookup skips the event | `settlement_consumer.go:34` |
| `settlement_repeated` | merchants that answered are called again | `settlement_consumer.go:36` |
| `listener_half_confirmed` | crash between confirmed and paid | `confirmation.go:17` |
| `listener_reorg_back` | a payment mined again is never credited | `blockchain/reconciliation.go:16` |
| `listener_receipt_error` | an RPC error is taken for a reorganisation | `confirmation.go:72` |
| `listener_shallow` | the old block number makes a new block look deep | `confirmation.go:17` |
| `listener_confirmed_undone` | another pod writes pending over confirmed | `confirmation.go:93` |
| `listener_unpersisted` | a log whose insert failed is passed over by the cursor | `backfill.go:19` |
| `listener_wrapped` | an amount above the width of `Int64` passes for the price | `confirmation.go:17` |
| `gateway_rotation` | a rotated callback is still used from the cache | `kafka/producer.go:18` |
| `routing_long_id` | a merchant id of 17 to 64 bytes is accepted and can never be charged | `transaction_repo.go:72` |

### Fairness

- `PaymentLifecycle`: the ticker and the requests in flight go on (weak fairness
  of `Tick`, `Reconcile` and `HandlerStep`), time passes (`Age`), and Stripe
  delivers an event again while it has no 2xx, which is what the HTTP answers in
  `handler/webhook.go` count on. Payments, refunds and faults are not fair.
- `Checkout`: requests run to their end, Redis expires keys, and the customer
  opens the link again, as the auto-refreshing page in `handler/checkout.go`
  makes the browser do. That last one is strong fairness, because a request is
  only possible while a process is free.
- `Settlement`: the consumer goroutine goes on, and a process that is shutting down
  ends and is followed by another. Merchants owe nothing.
- `Listener`: the chain grows and the goroutines of every pod go on.
- `StripeGate`: time passes, calls that were begun end (the client has a timeout),
  and callers keep calling; Stripe's outages are bounded in number, and `Recovers`
  only speaks of behaviours in which Stripe stays up.
- `Routing` and `Gateway` have only safety properties.

## Proofs

Every theorem holds for all values of the constants that meet the named `ASSUME`s
of its module: any number of orders, requests, pods, pools, messages and faults,
any bounds. The assumptions are no more than the code gives, with two to note:
`OutcomesAssumption` (the writers that follow a lookup set `paid`, `failed` or
`refunded`, a status of the table and never one the cron looks for: `confirmation.go:121`,
`reconciliation.go:104`, `webhook_service.go:157`) and `Late + Ahead < Window` in
`Gateway` (clocks agree better than a window is long).

**`PaymentLifecycle_proofs`.** `TypeCorrect` comes first. The safety invariants
are not inductive: whether a handler may write `paid` depends on what it saw two
steps ago. `Grounded` adds that: Stripe knows an order only after its row and
sends only true events (`StripeHistory`); a handler past its checks works on its
event's own order and the cross-check still holds (`HandlerGrounded`); what each
cron has listed exists and is its own, and a verdict `succeeded` still holds
(`CronGrounded`); rows hold their own intents (`IntentIsOwn`). It is preserved
because succeeded intents, refunds, events and rows never go away
(`StepsMonotone`), so a stale read of them is stale but true; this is also why any
number of crons may work on the same rows. From it follow
`IntentsAreOwn`, `OrdersNeverMissing`, `RowsNeverAhead` and `TopicNeverAhead`.
`PublishedOnce` has an invariant of its own, `KeyExcludes`: while a key lives, one
handler at most works on its event. `LifecycleImplementsLedger` is the refinement:
each step of the lifecycle is a ledger step or leaves the mapped state alone.

**`Checkout_proofs`.** One lemma for each variable says which actions write it.
`AlwaysGrounded` (with `RequestGrounded`: what a request in flight knows of its
order still holds) gives `AlwaysChargedAsAsked` and `AlwaysLiveUrls`.
`ResolverOpensOnlyOne` says that two sessions of an order under the resolver's key
agree in material, and so are one, whatever mode the pods run in. When all are lazy
no other key is used, hence `LazyOneSession` (assuming `Lazy = Pods`), which does
not rest on the lock at all. `LockIsHeld` and `CacheStaysBounded` (a pod's URL cache
never outgrows its size, whichever entry a `Put` drops) are inductive by themselves.

**`Settlement_proofs`.** `TypeCorrect` orders the offsets. `LossesAreFaults` uses
`BatchHandled`: everything before the message in hand is handled, or among the
messages that one of the three known faults has dropped. `NothingLost` assumes
that no fetch, lookup or DLQ write fails and that no process is shut down, which the
`settlement_lost_…` configurations show to be needed. `DeadLettersAreEarned` excepts a
process that is shutting down (its context is cancelled, so `HandleOne` gives up after
one attempt or none) and uses `AttemptsCounted`.
`CommitsOnlyAdvance` is an action property from the type invariant.

- `SettlementImplementsDelivery` is the refinement: a message counts as settled once
  its merchant has answered, it is in the dead-letter topic, or its merchant has no
  callback. A commit maps to `CommitTo` because everything before it is settled or
  dropped (`NothingSkipped`, from `BatchHandled`); a restart maps to a step in which the
  reader goes back and nothing that was settled is forgotten.
- `CallsStayBounded`: the batch handler and then the fallback each call a merchant at
  most `maxAttempts` times for a message, and a restart or a shutdown, which is a fault, has the
  message read again; so `CallsBounded` allows `2 * maxAttempts` calls for each of
  `faults + 1` passes. The invariant behind it, `CallsCounted`, says how much of its
  allowance a pass has spent at each place of the program (`Spent`): nothing on a
  message not yet handled, one round after the batch handler, both after the fallback.

**`Listener_proofs`, `Listener_safety`.** A receipt, a head and a list are all old
when they are used, so `PaidIsFinal` is not inductive. `Sound` says why they do no
harm: what a worker of any pod holds of a transaction is what the chain says, unless
a reorganisation has taken the transaction out (`Known`); a row that the tracker
carries to its later steps was deep under a head that has been reached, and over
the right amount (`TrackSound`); the reconciler only writes to transactions that were
taken out or could not be read (`ReconSound`). `Listener_proofs` shows that steps keep
the types, that heads, rows, payments and `undone` only grow (`StepsMonotone`), and
that chain, rows and logs stay sound; `Listener_safety` adds the three workers
(`Soundness`). From it: `TypeCorrect`, with every cursor behind the head; and
`PaidForGoodReason`, which assumes that amounts fit an int64 (`AmountsFit`; the
configuration `listener_wrapped` shows what happens otherwise). The same invariant says
that a verdict against a transaction has a reason (`Excused`), which gives
`NoGoodPaymentLost`: whatever the workers of all pods write from their own lists and
heads, no good payment is marked failed or reorged. `AnnouncedOnce` rests on
`Unannounced`: an order on its way to a pod's topic message was not paid when that pod
looked it up, and since paid is never taken back and a pod has one tracker, the pod has
not announced it before. Two pods may each announce an order, and each may write
pending over the other's confirmed (`listener_confirmed_undone`); that this is repaired
is `ConfirmedFinally`, which is model-checked.

**`Routing_proofs`.** Arithmetic first: `ShardInverse` (the shard that
`physicalToFirstLogical` gives a scanned row routes back to the row's pool),
`ForInRange`, `ValidatedOpens` (`OpenShards` accepts what `config.validate` accepts),
and the three codecs. The state invariant `IInv` has a part for the start-up, the
pools, the merchants, the rows and the callers; a caller's part says that a row that
was there when its lookup began is still to be heard of, and that every row it holds
is stored under the shard it is stamped with. It gives `RowsStayHome`, `OneRow`,
`FollowUpLands`, `HonestMiss` and `WholeStart`. `TypeCorrect` goes on from it: the
numbers of the configuration fit a byte (`Sized`) and the status in every row is a
code of the table (`StatusesKnown`), whoever wrote it. `RowsDecode` says what follows
for the readers: no stored row meets the error path of a decoder.

- `SpreadStaysBounded`: count and insert are two statements, so creations may pick
  the same shard. The shard picked is the emptiest at that time, and at most one
  creation per admin is under way; so no shard, with what is on its way to it, gets
  ahead of another by more than the number of admins. Assumes the same of the
  merchants that take no part, over every shard that some configuration has, because a
  restart may bring another configuration (`Balanced`).
- `SortSorts`: the insertion sort of `sortTransactionsByCreatedAt` returns an ordered
  list, with every element of its input at a place of its own. The sort is a recursive
  function, so the induction is made over a least counterexample.
- `RowsReadBack` and `OldestAreListed` need `ListInv`: every row holds the codes of
  its order's material; and a row that was due when a scan began, and still is, is on
  a pool yet to answer, is in the list, or there are `Limit` rows at least as old
  before it (`Accounted`). A pool's answer accounts for its rows, because it leaves one
  out only for `Limit` older ones (a pigeonhole argument), the sort keeps what is
  accounted for (`AccountedSorted`), and the cut leaves a row out only for older ones
  (`CutKeepsOldest`). Rows that are written meanwhile only stop being due
  (`ScanKept`, by `OutcomesAssumption`).

**`Gateway_proofs`.** `Fresh`, `InFlight` and `Passed` follow a version of a merchant's
row from the database through a lookup and the cache to its use, with its age at each
place: `Revocation` and `Lookup`, the latter up to the last attempt of a settlement and
for entries that a lookup without a deadline has filled. `Counted` ties the sorted set to the history of
admissions: every stamp in it was admitted by a run of the script, and all that no
script may yet have trimmed are there: `SlidingWindow` and `Refusal`. `CacheCapacity`
and `TypeCorrect` come with it.

**`StripeGate_proofs`.** `FleetWithinRate` rests on `BucketInv`: the stored bucket holds
no more than an ideal one would, and the key lives until any bucket would be full.
`TripsAreEarned` rests on `TripInv`: the history of outcomes
(`Recent` of it) holds at least what the breaker has counted in its period, and a
call of the present generation began in that period; so a result of an earlier period
can never help to trip the breaker. `TypeCorrect` adds the history variables.

### Model-checked only

- Liveness (`StuckOrderResolved`, `RetriesEnd`, `LinkServed`, `EventSettled`,
  `LogPersisted`, `PaymentCredited`, `ConfirmedFinally`, `Recovers`): the prover does not reason about
  fairness. Every invariant and every action property of the runs is proved.
- Every violation: a counterexample is its own evidence.

## Not modelled

Signatures, HMACs, tokens and the expiry of `/pay` links; requests with missing
headers, decoding, validation, pages, logs, metrics, health; the hex and byte
encodings of ids; settings other than the shards, and migrations; the shutdown of
parts other than the settlement consumer; the inside of the breaker library beyond its states and counts;
Kafka's replication and rebalancing beyond a restart of the reader; disputes and event
types the service ignores; the benchmark.

## Plan

1. Composition: `Checkout` and `PaymentLifecycle` over one row, so that the intent
   a webhook speaks of comes from the session a customer was given; topic to
   `Settlement`.
2. The order of the shutdown of the other parts: HTTP server, crons, listener, pools.
