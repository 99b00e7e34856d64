------------------------------- MODULE Checkout -------------------------------
(***************************************************************************)
(* How an order gets its Stripe Checkout Session: POST /api/payments       *)
(* (paymentService.Create), which opens the session itself in eager mode   *)
(* or hands out a /pay link in lazy mode, and GET /pay (the checkout       *)
(* resolver), which opens it on the first click behind a URL cache, the    *)
(* row, a Redis lock with a TTL, a token bucket and a circuit breaker.     *)
(*                                                                         *)
(* Requests run concurrently on several pods and are cut at every call.    *)
(* A URL is the session it leads to.  Stripe is external: it returns the   *)
(* session it already has for an idempotency key, within the key's life.   *)
(***************************************************************************)
EXTENDS Naturals, FiniteSets

CONSTANTS
  Orders,
  Materials,   \* amount, currency and bucket of a payment, as one value
  Crypto,      \* the materials of the crypto bucket
  Procs,       \* concurrent requests
  Pods,
  PodOf,       \* the pod a request runs on
  Lazy,        \* the pods that run with cfg.App.LazyCheckout on
  CacheSize,   \* entries of a pod's URL cache
  MaxFaults,   \* bound on failing calls, refusals and crashes
  None

ASSUME CryptoAssumption    == Crypto \subseteq Materials
ASSUME PodOfAssumption     == PodOf \in [Procs -> Pods]
ASSUME LazyAssumption      == Lazy \subseteq Pods
ASSUME CacheSizeAssumption == CacheSize \in Nat \ {0}
ASSUME MaxFaultsAssumption == MaxFaults \in Nat
ASSUME NoneAssumption      == None \notin Procs \cup Materials

VARIABLES
  row,         \* transactions: material and stripe_session of each order
  sessions,    \* Stripe: the sessions that exist
  links,       \* orders whose /pay link has been handed out
  lock,        \* Redis: owner token of "lock:checkout:<order>"
  lapsed,      \* requests whose lock ran out before they released it
  cache,       \* url cache of each pod
  proc,        \* requests in flight
  given,       \* URLs handed out, with what was asked for
  faults

vars == <<row, sessions, links, lock, lapsed, cache, proc, given, faults>>

\* Idempotency keys: transaction_id (eager) and "checkout:<merchant>:<order>".
Keys     == {"transaction_id", "checkout"}
Sessions == [order : Orders, key : Keys, material : Materials]

NoRow == [material |-> None, session |-> None]
Idle  == [pc |-> "idle", order |-> None, material |-> None, session |-> None]

Exists(o) == row[o].material # None

\* Between Acquire and Release.
Critical == {"recheck", "call", "save", "release"}

Init ==
  /\ row = [o \in Orders |-> NoRow]
  /\ sessions = {}
  /\ links = {}
  /\ lock = [o \in Orders |-> None]
  /\ lapsed = {}
  /\ cache = [d \in Pods |-> [o \in Orders |-> None]]
  /\ proc = [p \in Procs |-> Idle]
  /\ given = {}
  /\ faults = 0

Goto(p, pc) ==
  proc' = [proc EXCEPT ![p] = [pc |-> pc, order |-> @.order, material |-> @.material, session |-> @.session]]

End(p) == proc' = [proc EXCEPT ![p] = Idle]

Give(p, s) == given' = given \cup {[order |-> proc[p].order, asked |-> proc[p].material, session |-> s]}

-----------------------------------------------------------------------------
(* POST /api/payments *)

\* Insert wins: the row is durable, then the chosen flow.
CreateInsert(p, o, m) ==
  /\ proc[p] = Idle /\ ~Exists(o)
  /\ row' = [row EXCEPT ![o] = [material |-> m, session |-> None]]
  /\ IF m \notin Crypto /\ PodOf[p] \notin Lazy
       THEN proc' = [proc EXCEPT ![p] = [pc |-> "stripe", order |-> o, material |-> m, session |-> None]]
       ELSE UNCHANGED proc
  /\ links' = links \cup (IF m \notin Crypto /\ PodOf[p] \in Lazy THEN {o} ELSE {})
  /\ UNCHANGED <<sessions, lock, lapsed, cache, given, faults>>

\* Insert hits the UNIQUE key: an idempotent retry.
CreateDuplicate(p, o, m) ==
  /\ proc[p] = Idle /\ Exists(o)
  /\ proc' = [proc EXCEPT ![p] = [pc |-> "lookup", order |-> o, material |-> m, session |-> None]]
  /\ UNCHANGED <<row, sessions, links, lock, lapsed, cache, given, faults>>

\* Mutant: the retry's material is not compared.
sameMaterialPayment_Skipped(r, m) == TRUE

sameMaterialPayment(r, m) == r.material = m

\* GetByTransactionID, then 409 or reconstructResult: crypto payload, session
\* URL, or the /pay link.
CreateLookup(p) ==
  LET o == proc[p].order
      r == row[o]
  IN
  /\ proc[p].pc = "lookup"
  /\ IF sameMaterialPayment(r, proc[p].material) /\ r.material \notin Crypto
       THEN IF r.session # None
              THEN Give(p, r.session) /\ UNCHANGED links
              ELSE links' = links \cup {o} /\ UNCHANGED given
       ELSE UNCHANGED <<links, given>>
  /\ End(p)
  /\ UNCHANGED <<row, sessions, lock, lapsed, cache, faults>>

\* Eager CreateCheckoutSession under the transaction id.
EagerCall(p) ==
  LET s == [order |-> proc[p].order, key |-> "transaction_id", material |-> proc[p].material] IN
  /\ proc[p].pc = "stripe"
  /\ sessions' = sessions \cup {s}
  /\ proc' = [proc EXCEPT ![p] = [pc |-> "persist", order |-> @.order, material |-> @.material, session |-> s]]
  /\ UNCHANGED <<row, links, lock, lapsed, cache, given, faults>>

\* UpdateCheckout; its failure is the request's.
EagerPersist(p) ==
  LET o == proc[p].order IN
  /\ proc[p].pc = "persist"
  /\ row' = [row EXCEPT ![o] = [material |-> @.material, session |-> proc[p].session]]
  /\ Give(p, proc[p].session)
  /\ End(p)
  /\ UNCHANGED <<sessions, links, lock, lapsed, cache, faults>>

-----------------------------------------------------------------------------
(* GET /pay/:merchant_id/:order_id *)

Cached(p, o) == cache[PodOf[p]][o]

\* Mutant: the cache key leaves out the order id.
Put_SharedKey(p, o, s) == cache' = [cache EXCEPT ![PodOf[p]] = [q \in Orders |-> s]]

\* A Put into a full cache first drops an entry, possibly its own.
Put(p, o, s) ==
  LET d    == PodOf[p]
      used == {q \in Orders : cache[d][q] # None}
  IN \E out \in IF Cardinality(used) >= CacheSize THEN used ELSE {o} :
       cache' = [cache EXCEPT ![d] = [q \in Orders |->
                   IF q = o THEN s ELSE IF q = out THEN None ELSE cache[d][q]]]

\* Tier 1: a hit ends the request.
OpenHit(p, o) ==
  /\ proc[p] = Idle /\ o \in links /\ Cached(p, o) # None
  /\ given' = given \cup {[order |-> o, asked |-> row[o].material, session |-> Cached(p, o)]}
  /\ UNCHANGED <<row, sessions, links, lock, lapsed, cache, proc, faults>>

OpenMiss(p, o) ==
  /\ proc[p] = Idle /\ o \in links /\ Cached(p, o) = None
  /\ proc' = [proc EXCEPT ![p] = [pc |-> "load", order |-> o, material |-> row[o].material, session |-> None]]
  /\ UNCHANGED <<row, sessions, links, lock, lapsed, cache, given, faults>>

\* Serve the session the row has.
Serve(p, next) ==
  LET o == proc[p].order IN
  /\ row[o].session # None
  /\ Put(p, o, row[o].session)
  /\ Give(p, row[o].session)
  /\ IF next = "idle" THEN End(p) ELSE Goto(p, next)

\* Tier 2: the row.
Load(p) ==
  /\ proc[p].pc = "load"
  /\ \/ Serve(p, "idle")
     \/ row[proc[p].order].session = None /\ Goto(p, "acquire") /\ UNCHANGED <<cache, given>>
  /\ UNCHANGED <<row, sessions, links, lock, lapsed, faults>>

\* Tier 3: SET NX with a TTL; the loser sleeps and reads again.
Acquire(p) ==
  LET o == proc[p].order IN
  /\ proc[p].pc = "acquire"
  /\ \/ lock[o] = None /\ lock' = [lock EXCEPT ![o] = p] /\ Goto(p, "recheck")
     \/ lock[o] # None /\ Goto(p, "after") /\ UNCHANGED lock
  /\ UNCHANGED <<row, sessions, links, lapsed, cache, given, faults>>

\* resolveAfterLock: the session, or ErrOrderNotReady.
resolveAfterLock(p) ==
  /\ proc[p].pc = "after"
  /\ \/ Serve(p, "idle")
     \/ row[proc[p].order].session = None /\ End(p) /\ UNCHANGED <<cache, given>>
  /\ UNCHANGED <<row, sessions, links, lock, lapsed, faults>>

\* The row again, under the lock.
Recheck(p) ==
  /\ proc[p].pc = "recheck"
  /\ \/ Serve(p, "release")
     \/ row[proc[p].order].session = None /\ Goto(p, "call") /\ UNCHANGED <<cache, given>>
  /\ UNCHANGED <<row, sessions, links, lock, lapsed, faults>>

\* Mutant: a fresh key per request.
IdemKey_Fresh(p) == p

\* "checkout:" + merchant + ":" + order.
IdemKey(p) == "checkout"

SessionFor(p) == [order |-> proc[p].order, key |-> IdemKey(p), material |-> proc[p].material]

\* Mutant: Stripe's error is not looked at.
createSession_ErrorIgnored(p) ==
  /\ proc[p].pc = "call"
  /\ proc' = [proc EXCEPT ![p] = [pc |-> "save", order |-> @.order, material |-> @.material,
                                  session |-> SessionFor(p)]]
  /\ UNCHANGED <<row, sessions, links, lock, lapsed, cache, given, faults>>

\* Tier 5: Stripe opens the session, or returns the one of this key.
createSession(p) ==
  /\ proc[p].pc = "call"
  /\ sessions' = sessions \cup {SessionFor(p)}
  /\ proc' = [proc EXCEPT ![p] = [pc |-> "save", order |-> @.order, material |-> @.material,
                                  session |-> SessionFor(p)]]
  /\ UNCHANGED <<row, links, lock, lapsed, cache, given, faults>>

\* UpdateCheckout, whose failure is only logged; then cache and answer.
Save(p) ==
  LET o == proc[p].order
      s == proc[p].session
  IN
  /\ proc[p].pc = "save"
  /\ \/ row' = [row EXCEPT ![o] = [material |-> @.material, session |-> s]] /\ UNCHANGED faults
     \/ faults < MaxFaults /\ faults' = faults + 1 /\ UNCHANGED row
  /\ Put(p, o, s)
  /\ Give(p, s)
  /\ Goto(p, "release")
  /\ UNCHANGED <<sessions, links, lock, lapsed>>

\* Mutant: DEL without comparing the token.
Release_Blind(p) ==
  /\ proc[p].pc = "release"
  /\ lock' = [lock EXCEPT ![proc[p].order] = None]
  /\ lapsed' = lapsed \ {p}
  /\ End(p)
  /\ UNCHANGED <<row, sessions, links, cache, given, faults>>

\* The deferred release, compare-and-delete.
Release(p) ==
  /\ proc[p].pc = "release"
  /\ lock' = [lock EXCEPT ![proc[p].order] = IF @ = p THEN None ELSE @]
  /\ lapsed' = lapsed \ {p}
  /\ End(p)
  /\ UNCHANGED <<row, sessions, links, cache, given, faults>>

-----------------------------------------------------------------------------
(* Time and faults *)

\* Mutant: the key is set without a TTL.
LockExpire_Never(o) == FALSE /\ UNCHANGED vars

\* The lock's 10s pass, whether or not its owner is still at work.
LockExpire(o) ==
  /\ lock[o] # None
  /\ lock' = [lock EXCEPT ![o] = None]
  /\ lapsed' = lapsed \cup {p \in Procs : lock[o] = p /\ proc[p].order = o /\ proc[p].pc \in Critical}
  /\ UNCHANGED <<row, sessions, links, cache, proc, given, faults>>

CacheExpire(d, o) ==
  /\ cache[d][o] # None
  /\ cache' = [cache EXCEPT ![d][o] = None]
  /\ UNCHANGED <<row, sessions, links, lock, lapsed, proc, given, faults>>

Fault == faults < MaxFaults /\ faults' = faults + 1

\* MySQL fails the request.
RequestFault(p) ==
  /\ proc[p].pc \in {"lookup", "persist", "load", "after"}
  /\ Fault /\ End(p)
  /\ UNCHANGED <<row, sessions, links, lock, lapsed, cache, given>>

\* Stripe fails the eager call, perhaps after it opened the session.
EagerFault(p) ==
  /\ proc[p].pc = "stripe"
  /\ Fault /\ End(p)
  /\ \/ UNCHANGED sessions
     \/ sessions' = sessions \cup
          {[order |-> proc[p].order, key |-> "transaction_id", material |-> proc[p].material]}
  /\ UNCHANGED <<row, links, lock, lapsed, cache, given>>

\* Redis fails the SET NX, perhaps after it took effect; treated as a lost race.
AcquireFault(p) ==
  LET o == proc[p].order IN
  /\ proc[p].pc = "acquire"
  /\ Fault /\ Goto(p, "after")
  /\ \/ UNCHANGED lock
     \/ lock[o] = None /\ lock' = [lock EXCEPT ![o] = p]
  /\ UNCHANGED <<row, sessions, links, lapsed, cache, given>>

\* The read under the lock fails: the resolver goes on as if there were no
\* session.
RecheckFault(p) ==
  /\ proc[p].pc = "recheck"
  /\ Fault /\ Goto(p, "call")
  /\ UNCHANGED <<row, sessions, links, lock, lapsed, cache, given>>

\* The bucket or the breaker refuses, or Stripe fails, perhaps after it opened
\* the session.
CallFault(p) ==
  /\ proc[p].pc = "call"
  /\ Fault /\ Goto(p, "release")
  /\ sessions' \in {sessions, sessions \cup {SessionFor(p)}}
  /\ UNCHANGED <<row, links, lock, lapsed, cache, given>>

\* Redis fails the release: the lock stays until its TTL.
ReleaseFault(p) ==
  /\ proc[p].pc = "release"
  /\ Fault /\ End(p)
  /\ lapsed' = lapsed \ {p}
  /\ UNCHANGED <<row, sessions, links, lock, cache, given>>

\* A pod dies with its requests and its cache; its locks stay.
Crash(d) ==
  /\ Fault
  /\ proc' = [p \in Procs |-> IF PodOf[p] = d THEN Idle ELSE proc[p]]
  /\ cache' = [cache EXCEPT ![d] = [o \in Orders |-> None]]
  /\ lapsed' = {p \in lapsed : PodOf[p] # d}
  /\ UNCHANGED <<row, sessions, links, lock, given>>

-----------------------------------------------------------------------------
Step(p) ==
  \/ CreateLookup(p) \/ EagerCall(p) \/ EagerPersist(p)
  \/ Load(p) \/ Acquire(p) \/ resolveAfterLock(p) \/ Recheck(p)
  \/ createSession(p) \/ Save(p) \/ Release(p)

FaultyStep(p) ==
  \/ RequestFault(p) \/ EagerFault(p) \/ AcquireFault(p)
  \/ RecheckFault(p) \/ CallFault(p) \/ ReleaseFault(p)

Open(p, o) == OpenHit(p, o) \/ OpenMiss(p, o)

Next ==
  \/ \E p \in Procs, o \in Orders :
       \/ Open(p, o)
       \/ \E m \in Materials : CreateInsert(p, o, m) \/ CreateDuplicate(p, o, m)
  \/ \E p \in Procs : Step(p) \/ FaultyStep(p)
  \/ \E o \in Orders : LockExpire(o) \/ \E d \in Pods : CacheExpire(d, o)
  \/ \E d \in Pods : Crash(d)

Spec == Init /\ [][Next]_vars

\* Requests run to their end, Redis expires keys, and the not-ready and the
\* unavailable page send the customer back to the link.
Fairness ==
  /\ \A p \in Procs : WF_vars(Step(p))
  /\ \A o \in Orders : WF_vars(LockExpire(o)) /\ SF_vars(\E p \in Procs : Open(p, o))

FairSpec == Spec /\ Fairness

-----------------------------------------------------------------------------
(* What makes the invariants inductive *)

\* What a request in flight knows of its order still holds.
RequestGrounded ==
  \A p \in Procs : proc[p].pc # "idle" =>
    /\ proc[p].pc # "lookup" => proc[p].material = row[proc[p].order].material
    /\ proc[p].pc \in {"persist", "save"} =>
         proc[p].session \in sessions /\ proc[p].session.order = proc[p].order

\* When every pod is lazy, only the resolver's key is ever used.
LazyKeyOnly ==
  Lazy = Pods =>
          /\ \A s \in sessions : s.key = "checkout"
          /\ \A p \in Procs : proc[p].pc # "stripe"

-----------------------------------------------------------------------------
(* Properties *)

Known == {o \in Orders : Exists(o)}

\* Every variable stays in its domain.
TypeOK ==
  /\ row \in [Orders -> [material : Materials \cup {None}, session : Sessions \cup {None}]]
  /\ sessions \subseteq Sessions
  /\ links \subseteq Known
  /\ lock \in [Orders -> Procs \cup {None}]
  /\ lapsed \subseteq Procs
  /\ cache \in [Pods -> [Orders -> Sessions \cup {None}]]
  /\ proc \in [Procs -> {Idle}
       \cup [pc : {"lookup", "stripe", "load", "acquire", "after", "recheck", "call"},
             order : Known, material : Materials, session : {None}]
       \cup [pc : {"persist", "save"}, order : Known, material : Materials, session : Sessions]
       \cup [pc : {"release"}, order : Known, material : Materials, session : Sessions \cup {None}]]
  /\ given \subseteq [order : Orders, asked : Materials, session : Sessions]
  /\ faults \in 0..MaxFaults

\* Every key the resolver uses leads to one session: whatever the modes of the
\* pods, an order has at most one session besides the one its own eager create
\* opened, although the lock may run out under its owner, the persist may fail
\* silently and pods may die in between.
ResolverOpensOne ==
  \A s, t \in sessions : s.order = t.order /\ "transaction_id" \notin {s.key, t.key} => s = t

\* When every pod is lazy the customer can never be charged twice for an order:
\* it has one session at Stripe.
OneSessionPerOrder == \A s, t \in sessions : s.order = t.order => s = t

\* A session is for exactly what the order was accepted for, and nobody is
\* handed a URL for anything but what they asked for: the loser of the INSERT
\* race with other terms gets a conflict.
ChargedAsAsked ==
  /\ \A s \in sessions : Exists(s.order) /\ s.material = row[s.order].material
  /\ \A g \in given : g.session.order = g.order /\ g.session.material = g.asked

\* Every URL that is stored, cached or handed out leads to a session that was
\* opened at Stripe, for that order.  Stripe's own expiry of sessions is left out.
UrlsAreLive ==
  /\ \A o \in Orders : row[o].session # None => row[o].session \in sessions /\ row[o].session.order = o
  /\ \A d \in Pods, o \in Orders : cache[d][o] # None => cache[d][o] \in sessions /\ cache[d][o].order = o
  /\ \A g \in given : g.session \in sessions

CachedOn(d) == {o \in Orders : cache[d][o] # None}

\* A pod's URL cache never holds more than its size, whichever entry a Put into
\* a full cache drops, the one of its own key included.
CacheBounded == \A d \in Pods : IsFiniteSet(CachedOn(d)) /\ Cardinality(CachedOn(d)) <= CacheSize

\* A request that is at work under the lock holds it, unless its own TTL has
\* run out: nobody else's late release takes it away.
LockHeld ==
  \A p \in Procs : proc[p].pc \in Critical /\ p \notin lapsed => lock[proc[p].order] = p

\* A handed-out link leads to a session at last: a lock that a dead pod left
\* behind does not block the order for ever.
LinkServed == \A o \in Orders : o \in links ~> \E g \in given : g.order = o
=============================================================================
