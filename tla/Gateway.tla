------------------------------- MODULE Gateway -------------------------------
(***************************************************************************)
(* The way into the merchant API: the merchant is looked up through each   *)
(* pod's lruCache (merchant_repo.go), HMACAuth checks its status and the   *)
(* signature, and RateLimit asks the sliding window in Redis.  The same    *)
(* cache, under other keys, serves the lookups by merchant id of the       *)
(* settlement consumer and of the webhook and checkout services.           *)
(*                                                                         *)
(* A merchant's row is a version number; Records says what each version    *)
(* holds.  No code of the repository changes a row once it is inserted:    *)
(* operators do, in the database.  A request that lacks a header, or whose *)
(* X-Timestamp is out of range, is refused before anything is read or      *)
(* written and is left out.  A signature is the secret it was made with.   *)
(***************************************************************************)
EXTENDS Integers, FiniteSets

CONSTANTS
  Merchants,
  Pods,
  Requests,     \* requests and lookups in progress, over all pods
  Records,      \* what each version of a merchant's row holds
  Cap, TTL,     \* newLRUCache(1024, 5*time.Minute)
  QueryTimeout, \* of the contexts of HMACAuth and of the settlement's lookup
  SendTimeout,  \* how long the attempts of a settlement may take
  Window,       \* time.Minute
  Late, Ahead,  \* a stamp is at most this far behind or before Redis's clock
  DefaultLimit, \* 1000
  MaxTime,      \* bound on the clock
  None

LastVersion == Cardinality(DOMAIN Records) - 1
Secrets     == {Records[v].secret : v \in DOMAIN Records}

ASSUME GatewayAssumption ==
  /\ IsFiniteSet(DOMAIN Records) /\ DOMAIN Records = 0..LastVersion /\ LastVersion \in Nat
  /\ \A v \in DOMAIN Records : Records[v].limit \in Int
  /\ Cap \in Nat \ {0} /\ TTL \in Nat /\ QueryTimeout \in Nat /\ SendTimeout \in Nat
  /\ Window \in Nat /\ Late \in Nat /\ Ahead \in Nat /\ Late + Ahead < Window
  /\ DefaultLimit \in Nat \ {0} /\ MaxTime \in Nat
  /\ None \notin [val: DOMAIN Records, until: Nat, took: Nat]

VARIABLES
  now,
  row,          \* version of each merchant's row
  retired,      \* ghost: when each version was replaced
  cache,        \* lruCache.data of each pod
  req,
  zset,         \* stamps in the sorted set of each merchant
  expireAt,     \* when Redis drops the sorted set
  admitted      \* ghost: what the script has admitted for each merchant, [time, stamp]

vars == <<now, row, retired, cache, req, zset, expireAt, admitted>>

Keys     == {"api", "mid"} \X Merchants
Versions == DOMAIN Records
\* took is a ghost: how long the lookup took that read the value.
Entry    == [val: Versions, until: Nat, took: Nat]
\* by: HMACAuth, the settlement consumer, or the webhook and checkout services.
Request  == [pc: {"query", "scanned", "limit", "used", "refused"},
             by: {"auth", "settlement", "service"}, pod: Pods, key: Keys,
             secret: Secrets \cup {None}, since: Nat, val: Versions, took: Nat,
             stamp: Int \cup {None}]
Idle     == [pc |-> "idle", by |-> None, pod |-> None, key |-> None, secret |-> None, since |-> 0,
             val |-> 0, took |-> 0, stamp |-> None]

Init ==
  /\ now = 0
  /\ row = [m \in Merchants |-> 0]
  /\ retired = [m \in Merchants |-> [v \in Versions |-> 0]]
  /\ cache = [p \in Pods |-> [k \in Keys |-> None]]
  /\ req = [r \in Requests |-> Idle]
  /\ zset = [m \in Merchants |-> {}]
  /\ expireAt = [m \in Merchants |-> 0]
  /\ admitted = [m \in Merchants |-> {}]

-----------------------------------------------------------------------------
(* lruCache *)

Cached(c) == {k \in Keys : c[k] # None}

\* Mutant: an entry does not grow old.
expired_Never(e) == FALSE

expired(e) == now > e.until

\* The entries a full cache may drop to make room: those that expire first.
Oldest(c) == {k \in Cached(c) : \A j \in Cached(c) : c[k].until <= c[j].until}

full(c) == Cardinality(Cached(c)) >= Cap

\* The contents put may leave.
put(c, key, val, took) ==
  LET fill(d) == [d EXCEPT ![key] = [val |-> val, until |-> now + TTL, took |-> took]] IN
  IF full(c) THEN {fill([c EXCEPT ![k] = None]) : k \in Oldest(c)} ELSE {fill(c)}

-----------------------------------------------------------------------------
(* GetByAPIKey and GetByMerchantID, followed by HMACAuth *)

\* What a request goes on with once its merchant is known.  The lookups by
\* merchant id belong to no request of a merchant: a settlement keeps the URL
\* and the secret for all its attempts, the services want the shard.
HMACAuth(x) ==
  LET m == Records[x.val] IN
  IF x.by = "settlement" THEN [x EXCEPT !.pc = "used", !.since = now]
  ELSE IF x.by = "auth" /\ m.status = "active" /\ m.secret = x.secret
  THEN [x EXCEPT !.pc = "limit", !.since = 0, !.took = 0]
  ELSE Idle

Get(r, by, p, k, s) ==
  /\ req[r].pc = "idle"
  /\ LET e == cache[p][k]
         x == [pc |-> "query", by |-> by, pod |-> p, key |-> k, secret |-> s, since |-> now,
               val |-> 0, took |-> 0, stamp |-> None] IN
     IF e # None /\ ~ expired(e)
     THEN /\ req' = [req EXCEPT ![r] = HMACAuth([x EXCEPT !.val = e.val, !.took = e.took])]
          /\ UNCHANGED cache
     ELSE /\ req' = [req EXCEPT ![r] = x]
          /\ cache' = [cache EXCEPT ![p][k] = None]
  /\ UNCHANGED <<now, row, retired, zset, expireAt, admitted>>

\* The database reads the row; its answer is on the way.
Query(r) ==
  /\ req[r].pc = "query"
  /\ req' = [req EXCEPT ![r].pc = "scanned", ![r].val = row[req[r].key[2]]]
  /\ UNCHANGED <<now, row, retired, cache, zset, expireAt, admitted>>

\* The query fails or its context ends: 401 to a request, and a lookup that
\* comes back empty.
QueryFails(r) ==
  /\ req[r].pc \in {"query", "scanned"}
  /\ req' = [req EXCEPT ![r] = Idle]
  /\ UNCHANGED <<now, row, retired, cache, zset, expireAt, admitted>>

Put(r) ==
  LET x == [req[r] EXCEPT !.took = now - req[r].since] IN
  /\ req[r].pc = "scanned"
  /\ \E c \in put(cache[x.pod], x.key, x.val, x.took) : cache' = [cache EXCEPT ![x.pod] = c]
  /\ req' = [req EXCEPT ![r] = HMACAuth(x)]
  /\ UNCHANGED <<now, row, retired, zset, expireAt, admitted>>

-----------------------------------------------------------------------------
(* RateLimit and slidingWindowScript *)

\* A limit of zero or less stands for the default.
limit(v) == IF Records[v].limit <= 0 THEN DefaultLimit ELSE Records[v].limit

\* The sorted set when the script runs, stale stamps removed.
trimmed(m, stamp) ==
  IF now >= expireAt[m] THEN {} ELSE {s \in zset[m] : s > stamp - Window}

Admit(m, stamp) == admitted' = [admitted EXCEPT ![m] = @ \cup {[time |-> now, stamp |-> stamp]}]

\* Mutant: the script adds its stamp before it counts.
slidingWindowScript_CountsRefused(m, stamp, lim, allowed) ==
  LET kept == trimmed(m, stamp) IN
  /\ allowed = (Cardinality(kept) < lim)
  /\ zset' = [zset EXCEPT ![m] = kept \cup {stamp}]
  /\ expireAt' = [expireAt EXCEPT ![m] = now + Window]
  /\ IF allowed THEN Admit(m, stamp) ELSE UNCHANGED admitted

\* Mutant: the limit is compared with > .
slidingWindowScript_OneMore(m, stamp, lim, allowed) ==
  LET kept == trimmed(m, stamp) IN
  /\ allowed = (Cardinality(kept) <= lim)
  /\ zset' = [zset EXCEPT ![m] = IF allowed THEN kept \cup {stamp} ELSE kept]
  /\ expireAt' = [expireAt EXCEPT ![m] = IF allowed THEN now + Window ELSE @]
  /\ IF allowed THEN Admit(m, stamp) ELSE UNCHANGED admitted

slidingWindowScript(m, stamp, lim, allowed) ==
  LET kept == trimmed(m, stamp) IN
  /\ allowed = (Cardinality(kept) < lim)
  /\ zset' = [zset EXCEPT ![m] = IF allowed THEN kept \cup {stamp} ELSE kept]
  /\ expireAt' = [expireAt EXCEPT ![m] = IF allowed THEN now + Window ELSE @]
  /\ IF allowed THEN Admit(m, stamp) ELSE UNCHANGED admitted

\* Redis runs the script for a request.  The stamp is time.Now() of the pod,
\* read before the call, and stays the same when the client library sends the
\* call again; Redis runs it later, and by a clock of its own.
Eval(r, stamp, allowed) ==
  /\ req[r].pc = "limit" /\ req[r].stamp \in {None, stamp}
  /\ slidingWindowScript(req[r].key[2], stamp, limit(req[r].val), allowed)
  /\ UNCHANGED <<now, row, retired, cache>>

\* The answer arrives: the request goes on to its handler, or gets a 429.
Allow(r, stamp, allowed) ==
  /\ Eval(r, stamp, allowed)
  /\ req' = [req EXCEPT ![r] = IF allowed THEN Idle ELSE [@ EXCEPT !.pc = "refused", !.stamp = None]]

\* The script has run, and its answer is lost: the call is sent again, or fails.
AllowLost(r, stamp, allowed) ==
  /\ Eval(r, stamp, allowed)
  /\ req' = [req EXCEPT ![r].stamp = stamp]

\* Redis gives no answer in time: the request passes.
AllowFails(r) ==
  /\ req[r].pc = "limit"
  /\ req' = [req EXCEPT ![r] = Idle]
  /\ UNCHANGED <<now, row, retired, cache, zset, expireAt, admitted>>

Done(r) ==
  /\ req[r].pc \in {"used", "refused"}
  /\ req' = [req EXCEPT ![r] = Idle]
  /\ UNCHANGED <<now, row, retired, cache, zset, expireAt, admitted>>

-----------------------------------------------------------------------------
(* The surroundings *)

\* An operator suspends a merchant, replaces its secret, or the like.
ChangeMerchant(m) ==
  /\ row[m] < LastVersion
  /\ row' = [row EXCEPT ![m] = @ + 1]
  /\ retired' = [retired EXCEPT ![m][row[m]] = now]
  /\ UNCHANGED <<now, cache, req, zset, expireAt, admitted>>

\* The deadlines of HMACAuth, of the settlement's lookup and of its attempts
\* are kept: time does not pass them.  The lookups of the services run under a
\* context without one.  What follows HMACAuth is prompt; the delays of the
\* calls to Redis are in their stamps.
Tick ==
  /\ now < MaxTime
  /\ \A r \in Requests :
       \/ req[r].pc = "idle"
       \/ req[r].pc \in {"query", "scanned"} /\ (req[r].by = "service" \/ now < req[r].since + QueryTimeout)
       \/ req[r].pc = "used" /\ now < req[r].since + SendTimeout
  /\ now' = now + 1
  /\ UNCHANGED <<row, retired, cache, req, zset, expireAt, admitted>>

Next ==
  \/ Tick
  \/ \E m \in Merchants : ChangeMerchant(m)
  \/ \E r \in Requests :
       \/ \E p \in Pods, m \in Merchants :
            \/ \E s \in Secrets : Get(r, "auth", p, <<"api", m>>, s)
            \/ \E by \in {"settlement", "service"} : Get(r, by, p, <<"mid", m>>, None)
       \/ Query(r) \/ QueryFails(r) \/ Put(r)
       \/ \E stamp \in (now - Late)..(now + Ahead), allowed \in BOOLEAN :
            \/ Allow(r, stamp, allowed)
            \/ AllowLost(r, stamp, allowed)
       \/ AllowFails(r) \/ Done(r)

Spec == Init /\ [][Next]_vars
-----------------------------------------------------------------------------
\* Every variable keeps its shape: what a failed lookup leaves is never cached.
TypeOK ==
  /\ now \in Nat
  /\ row \in [Merchants -> Versions]
  /\ retired \in [Merchants -> [Versions -> Nat]]
  /\ cache \in [Pods -> [Keys -> Entry \cup {None}]]
  /\ req \in [Requests -> Request \cup {Idle}]
  /\ zset \in [Merchants -> SUBSET Int]
  /\ expireAt \in [Merchants -> Nat]
  /\ admitted \in [Merchants -> SUBSET [time: Nat, stamp: Int]]

\* Version v of merchant m was in the database at some time of the last
\* `age' units before t.
CurrentWithin(m, v, t, age) ==
  v <= row[m] /\ (v < row[m] => t - retired[m][v] <= age)

\* Taking a merchant's access away takes hold: a request that got past
\* HMACAuth carries a secret that an active version of the row held no longer
\* ago than the entry's lifetime and one lookup.  A lookup that read the row
\* before the change and fills the cache after it is inside the bound
\* (merchant_repo.go:49, auth.go:49).
RevocationBounded ==
  \A r \in Requests : req[r].pc = "limit" =>
    \E v \in Versions :
      /\ Records[v].status = "active" /\ Records[v].secret = req[r].secret
      /\ CurrentWithin(req[r].key[2], v, now, TTL + QueryTimeout)

\* Up to its last attempt a settlement is sent with a callback URL and a secret
\* that were in the database no longer ago than the attempts may take, the
\* entry's lifetime, and as long as the lookup took that filled the entry.  It
\* may have been another's: those of the services have no deadline, and a row
\* that one of them read before a change may be cached long after it
\* (main.go:148, settlement_consumer.go:92, webhook_service.go:59).
LookupBounded ==
  \A r \in Requests : req[r].pc = "used" =>
    CurrentWithin(req[r].key[2], req[r].val, now, SendTimeout + TTL + req[r].took)

\* A merchant's change takes effect with the next lookup: what a comment says
\* and the cache does not do (producer.go:18).
TakesEffectImmediately ==
  \A r \in Requests : req[r].pc = "used" =>
    CurrentWithin(req[r].key[2], req[r].val, now, SendTimeout + QueryTimeout)

\* The cache of a pod never outgrows its capacity, over both kinds of key and
\* with any number of lookups filling it (put, merchant_repo.go:195).
CacheBounded == \A p \in Pods : Cardinality(Cached(cache[p])) <= Cap

\* The distinct stamps admitted for m in the `age' units up to t.
Stamps(m, t, age) == {a.stamp : a \in {b \in admitted[m] : t - age < b.time /\ b.time <= t}}

\* In no window, less what the pods' clocks and the calls' delays differ by,
\* has the script more admissions than the largest limit the merchant has had,
\* those included whose answer was lost.  Admissions with the same stamp are
\* one member of the sorted set and count once (slidingWindowScript,
\* ratelimiter.go:27).
WindowRespected ==
  \A m \in Merchants, v \in Versions :
    (\A w \in Versions : limit(w) <= limit(v)) =>
      \A a \in admitted[m] : Cardinality(Stamps(m, a.time, Window - Late - Ahead)) <= limit(v)

\* A request is refused only when the script has admitted as many as the limit
\* in its window: refusals do not count, and what has left the window is
\* forgotten (ratelimiter.go:36).  A run whose answer was lost is among the
\* admissions, so that a request the client library sends again may be refused
\* on account of its own first run.
RefusedWhenFull ==
  \A r \in Requests : req[r].pc = "refused" =>
    Cardinality(Stamps(req[r].key[2], now, Window + Late + Ahead)) >= limit(req[r].val)
=============================================================================
