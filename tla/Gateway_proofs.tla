---------------------------- MODULE Gateway_proofs ----------------------------
(***************************************************************************)
(* What Gateway promises, for every number of merchants, pods and requests, *)
(* every capacity, lifetime and window.                                     *)
(*                                                                          *)
(* The invariant has two halves.  Fresh, InFlight and Passed follow a       *)
(* version of a merchant's row from the database through a lookup and the   *)
(* cache to its use, with its age at each place.  Counted ties the sorted   *)
(* set to the history of admissions.                                        *)
(***************************************************************************)
EXTENDS Gateway, FiniteSetTheorems, TLAPS

\* An entry of a cache was current when the lookup that filled it began; the
\* lookups by API key are HMACAuth's, and have a deadline.
Fresh ==
  \A p \in Pods, k \in Keys : cache[p][k] # None =>
    /\ cache[p][k].until <= now + TTL
    /\ CurrentWithin(k[2], cache[p][k].val, cache[p][k].until, TTL + cache[p][k].took)
    /\ k[1] = "api" => cache[p][k].took <= QueryTimeout

\* A lookup is inside its deadline if it has one, and what it read was current
\* since it began.
Looking(x) ==
  /\ x.since <= now /\ (x.by # "service" => now <= x.since + QueryTimeout)
  /\ x.by = "auth" <=> x.key[1] = "api"
  /\ x.pc = "scanned" => CurrentWithin(x.key[2], x.val, x.since, 0)

InFlight == \A r \in Requests : req[r].pc \in {"query", "scanned"} => Looking(req[r])

\* A request that knows its merchant knows a version that is recent enough.
Limiting(x) ==
  /\ CurrentWithin(x.key[2], x.val, now, TTL + QueryTimeout)
  /\ Records[x.val].status = "active" /\ Records[x.val].secret = x.secret

Using(x) ==
  /\ x.since <= now /\ now <= x.since + SendTimeout
  /\ CurrentWithin(x.key[2], x.val, x.since, TTL + x.took)

Passed ==
  \A r \in Requests :
    /\ req[r].pc = "limit" => Limiting(req[r])
    /\ req[r].pc = "used" => Using(req[r])

Bounded == \A p \in Pods : IsFiniteSet(Cached(cache[p])) /\ Cardinality(Cached(cache[p])) <= Cap

Lived == \A m \in Merchants, v \in Versions : retired[m][v] <= now

CacheInv == TypeOK /\ Lived /\ Fresh /\ InFlight /\ Passed /\ Bounded

\* The sorted set holds stamps of admissions only, and all of those that no
\* script may yet have trimmed.
Counted ==
  \A m \in Merchants :
    /\ IsFiniteSet(admitted[m]) /\ IsFiniteSet(zset[m])
    /\ \A b \in admitted[m] :
         /\ b.time <= now /\ b.time + Window <= expireAt[m]
         /\ b.time - Late <= b.stamp /\ b.stamp <= b.time + Ahead
         /\ now - (Window - Late - Ahead) < b.time => b.stamp \in zset[m]
    /\ \A s \in zset[m] : \E b \in admitted[m] : b.stamp = s

LimitInv == Counted /\ WindowRespected /\ RefusedWhenFull

IInv == CacheInv /\ LimitInv

----------------------------------------------------------------------------
\* The rate limits in force are positive.
LEMMA LimitNat == \A v \in Versions : limit(v) \in Nat
BY GatewayAssumption DEF limit, Versions

\* A version is a number.
LEMMA VersionsNat == \A v \in Versions : v \in Nat
BY GatewayAssumption DEF Versions

\* One more element is one more at most.
LEMMA AddOne ==
  ASSUME NEW S, IsFiniteSet(S), NEW x
  PROVE  /\ IsFiniteSet(S \cup {x}) /\ Cardinality(S \cup {x}) \in Nat
         /\ Cardinality(S \cup {x}) <= Cardinality(S) + 1
<1>1. IsFiniteSet(S \cup {x}) /\ Cardinality(S) \in Nat
  BY FS_AddElement, FS_CardinalityType, Zenon
<1>2. CASE x \in S
  <2>1. S \cup {x} = S
    BY <1>2, Zenon
  <2> QED BY <1>1, <2>1
<1>3. CASE x \notin S
  BY <1>1, <1>3, FS_AddElement
<1> QED BY <1>2, <1>3, Zenon

\* What a request goes on with after HMACAuth.
LEMMA AuthType ==
  ASSUME NEW x \in Request, now \in Nat
  PROVE  /\ HMACAuth(x) \in Request \cup {Idle}
         /\ HMACAuth(x).pc \in {"idle", "limit", "used"}
         /\ HMACAuth(x).pc # "idle" => HMACAuth(x).key = x.key /\ HMACAuth(x).val = x.val
         /\ HMACAuth(x).pc = "used" => HMACAuth(x).since = now /\ HMACAuth(x).took = x.took
         /\ HMACAuth(x).pc = "limit" =>
              /\ x.by = "auth" /\ Records[x.val].status = "active"
              /\ Records[x.val].secret = HMACAuth(x).secret
<1>1. CASE x.by = "settlement"
  <2>1. HMACAuth(x) = [x EXCEPT !.pc = "used", !.since = now]
    BY <1>1, Zenon DEF HMACAuth
  <2> QED BY <2>1, ZenonT(30) DEF Request
<1>2. CASE x.by = "auth" /\ Records[x.val].status = "active" /\ Records[x.val].secret = x.secret
  <2>1. HMACAuth(x) = [x EXCEPT !.pc = "limit", !.since = 0, !.took = 0]
    BY <1>2, Zenon DEF HMACAuth
  <2>2. 0 \in Nat
    OBVIOUS
  <2> QED BY <1>2, <2>1, <2>2, ZenonT(30) DEF Request
<1>3. CASE HMACAuth(x) = Idle
  <2>1. Idle.pc = "idle"
    BY Zenon DEF Idle
  <2> QED BY <1>3, <2>1, Zenon
<1> QED BY <1>1, <1>2, <1>3, Zenon DEF HMACAuth

\* A version that was current stays so within the same bound when a merchant's
\* row is replaced now.
LEMMA ChangeKeeps ==
  ASSUME TypeOK, NEW n \in Merchants, ChangeMerchant(n),
         NEW m \in Merchants, NEW v \in Versions, NEW t \in Int, NEW age \in Int,
         t - now <= age, CurrentWithin(m, v, t, age)
  PROVE  CurrentWithin(m, v, t, age)'
<1>1. row[m] \in Nat /\ v \in Nat /\ row[n] \in Nat /\ now \in Nat
      /\ \A w \in Versions : retired[m][w] \in Nat
  BY VersionsNat DEF TypeOK
<1>2. /\ row' = [row EXCEPT ![n] = row[n] + 1]
      /\ retired' = [retired EXCEPT ![n][row[n]] = now]
      /\ row[n] \in Versions
  BY Zenon DEF ChangeMerchant, TypeOK
<1>3. CASE m = n
  <2>1. row'[m] = row[m] + 1
    BY <1>2, <1>3, Zenon DEF TypeOK
  <2>2. retired'[m][v] = IF v = row[m] THEN now ELSE retired[m][v]
    BY <1>2, <1>3, Zenon DEF TypeOK
  <2> QED BY <1>1, <2>1, <2>2 DEF CurrentWithin
<1>4. CASE m # n
  <2>1. row'[m] = row[m] /\ retired'[m] = retired[m]
    BY <1>2, <1>4, Zenon DEF TypeOK
  <2> QED BY <2>1, Zenon DEF CurrentWithin
<1> QED BY <1>3, <1>4, Zenon

\* The initial state.
LEMMA InitIInv == Init => IInv
<1> SUFFICES ASSUME Init PROVE IInv
  BY Zenon
<1>1. TypeOK
  BY GatewayAssumption DEF Init, TypeOK, Versions, Entry
<1>2. Lived /\ Fresh /\ InFlight /\ Passed
  BY GatewayAssumption DEF Init, Lived, Fresh, InFlight, Passed, Idle, Versions
<1>3. Bounded
  <2>1. \A p \in Pods : Cached(cache[p]) = {}
    BY Zenon DEF Init, Cached
  <2>2. IsFiniteSet({}) /\ Cardinality({}) = 0
    BY FS_EmptySet, Zenon
  <2>3. 0 <= Cap
    BY GatewayAssumption
  <2> QED BY <2>1, <2>2, <2>3, Zenon DEF Bounded
<1>4. LimitInv
  BY FS_EmptySet, Zenon DEF Init, LimitInv, Counted, WindowRespected, RefusedWhenFull, Idle
<1> QED BY <1>1, <1>2, <1>3, <1>4, Zenon DEF IInv, CacheInv

----------------------------------------------------------------------------
\* A step that changes one request, and neither the clock nor the limiter,
\* keeps the limiter's invariant if the request is not left refused.
LEMMA LimitFrame ==
  ASSUME IInv, NEW r \in Requests, NEW x, x.pc # "refused", req' = [req EXCEPT ![r] = x],
         UNCHANGED <<now, zset, expireAt, admitted>>
  PROVE  LimitInv'
<1>1. Counted' /\ WindowRespected'
  BY Zenon DEF IInv, LimitInv, Counted, WindowRespected, Stamps, limit
<1>2. \A q \in Requests : req'[q].pc = "refused" => req'[q] = req[q]
  BY Zenon DEF IInv, CacheInv, TypeOK
<1>3. RefusedWhenFull'
  BY <1>2, Zenon DEF IInv, LimitInv, RefusedWhenFull, Stamps, limit
<1> QED BY <1>1, <1>3, Zenon DEF LimitInv

\* The caches stay right while nothing but the requests changes.
LEMMA CacheSame ==
  ASSUME IInv, UNCHANGED <<now, row, retired, cache>>
  PROVE  cache' \in [Pods -> [Keys -> Entry \cup {None}]] /\ Fresh' /\ Bounded'
BY Zenon DEF IInv, CacheInv, TypeOK, Fresh, Bounded, Cached, CurrentWithin

\* A step that changes one request, and neither the clock nor the rows, keeps
\* the cache's invariant if the request and the caches are left right.
LEMMA ReqFrame ==
  ASSUME IInv, NEW r \in Requests, NEW x \in Request \cup {Idle},
         req' = [req EXCEPT ![r] = x], UNCHANGED <<now, row, retired>>,
         cache' \in [Pods -> [Keys -> Entry \cup {None}]], Fresh', Bounded',
         zset' \in [Merchants -> SUBSET Int], expireAt' \in [Merchants -> Nat],
         admitted' \in [Merchants -> SUBSET [time: Nat, stamp: Int]],
         x.pc \in {"query", "scanned"} => Looking(x),
         x.pc = "limit" => Limiting(x), x.pc = "used" => Using(x)
  PROVE  CacheInv'
<1>0. CacheInv /\ req \in [Requests -> Request \cup {Idle}]
  BY Zenon DEF IInv, CacheInv, TypeOK
<1>1. TypeOK'
  BY <1>0, Zenon DEF CacheInv, TypeOK
<1>3. Lived'
  BY <1>0, Zenon DEF CacheInv, Lived
<1>4. \A q \in Requests : req'[q] = IF q = r THEN x ELSE req[q]
  BY <1>0, Zenon
<1>5. InFlight'
  BY <1>0, <1>4, Zenon DEF CacheInv, InFlight, Looking, CurrentWithin
<1>6. Passed'
  BY <1>0, <1>4, Zenon DEF CacheInv, Passed, Limiting, Using, CurrentWithin
<1> QED BY <1>1, <1>3, <1>5, <1>6, Zenon DEF CacheInv

\* The types of what one request and one pod hold.
LEMMA Types ==
  ASSUME IInv
  PROVE  /\ now \in Nat /\ TTL \in Nat /\ QueryTimeout \in Nat /\ SendTimeout \in Nat
         /\ \A r \in Requests : req[r].pc # "idle" => req[r] \in Request
         /\ \A m \in Merchants, v \in Versions :
              row[m] \in Nat /\ row[m] \in Versions /\ v \in Nat /\ retired[m][v] \in Nat
         /\ \A k \in Keys : k[2] \in Merchants
         /\ zset \in [Merchants -> SUBSET Int] /\ expireAt \in [Merchants -> Nat]
         /\ admitted \in [Merchants -> SUBSET [time: Nat, stamp: Int]]
<1>1. TypeOK
  BY Zenon DEF IInv, CacheInv
<1>2. now \in Nat /\ TTL \in Nat /\ QueryTimeout \in Nat /\ SendTimeout \in Nat
      /\ \A k \in Keys : k[2] \in Merchants
  BY <1>1, GatewayAssumption, Zenon DEF TypeOK, Keys
<1>3. \A r \in Requests : req[r].pc # "idle" => req[r] \in Request
  BY <1>1 DEF TypeOK, Idle
<1>4. \A m \in Merchants, v \in Versions :
        row[m] \in Nat /\ row[m] \in Versions /\ v \in Nat /\ retired[m][v] \in Nat
  BY <1>1, VersionsNat DEF TypeOK
<1> QED BY <1>1, <1>2, <1>3, <1>4, Zenon DEF TypeOK

\* Admissions are stamped with times of this clock.
LEMMA TimesNat ==
  ASSUME IInv, NEW m \in Merchants, NEW a \in admitted[m]
  PROVE  a.time \in Nat
<1>1. admitted[m] \subseteq [time: Nat, stamp: Int]
  BY Types, Zenon
<1> QED BY <1>1, Zenon

\* A request ends.
LEMMA EndStep ==
  ASSUME IInv, NEW r \in Requests, QueryFails(r) \/ AllowFails(r) \/ Done(r)
  PROVE  IInv'
<1>1. req' = [req EXCEPT ![r] = Idle] /\ UNCHANGED <<now, row, retired, cache, zset, expireAt, admitted>>
  BY Zenon DEF QueryFails, AllowFails, Done
<1>2. Idle.pc = "idle"
  BY Zenon DEF Idle
<1>3. LimitInv'
  BY <1>1, <1>2, LimitFrame, Zenon
<1>4. CacheInv'
  BY <1>1, <1>2, Types, CacheSame, ReqFrame, Zenon
<1> QED BY <1>3, <1>4, Zenon DEF IInv

\* The database reads the row.
LEMMA QueryStep ==
  ASSUME IInv, NEW r \in Requests, Query(r)
  PROVE  IInv'
<1> DEFINE x == [req[r] EXCEPT !.pc = "scanned", !.val = row[req[r].key[2]]]
<1>1. req[r].pc = "query" /\ UNCHANGED <<now, row, retired, cache, zset, expireAt, admitted>>
  BY Zenon DEF Query
<1>2. req[r] \in Request /\ req[r].key[2] \in Merchants
  BY <1>1, Types, Zenon DEF Request
<1>3. x \in Request /\ x.pc = "scanned" /\ x.key = req[r].key /\ x.since = req[r].since
      /\ x.by = req[r].by /\ x.val = row[req[r].key[2]]
  BY <1>2, Types, Zenon DEF Request
<1>4. req' = [req EXCEPT ![r] = x]
  BY Zenon DEF Query
<1> HIDE DEF x
<1>5. /\ x.since <= now /\ (x.by # "service" => now <= x.since + QueryTimeout)
      /\ x.by = "auth" <=> x.key[1] = "api"
  BY <1>1, <1>3, Zenon DEF IInv, CacheInv, InFlight, Looking
<1>6. CurrentWithin(x.key[2], x.val, x.since, 0)
  <2>1. row[x.key[2]] \in Nat /\ x.val = row[x.key[2]]
    BY <1>2, <1>3, Types, Zenon DEF Request
  <2> QED BY <2>1 DEF CurrentWithin
<1>7. LimitInv'
  BY <1>1, <1>3, <1>4, LimitFrame, Zenon
<1>8. Looking(x)
  BY <1>5, <1>6, Zenon DEF Looking
<1>9. CacheInv'
  BY <1>1, <1>3, <1>4, <1>8, Types, CacheSame, ReqFrame, Zenon
<1> QED BY <1>7, <1>9, Zenon DEF IInv

\* Emptying a slot keeps the caches right.
LEMMA Dropped ==
  ASSUME IInv, NEW p \in Pods, NEW k \in Keys, cache' = [cache EXCEPT ![p][k] = None],
         UNCHANGED <<now, row, retired>>
  PROVE  cache' \in [Pods -> [Keys -> Entry \cup {None}]] /\ Fresh' /\ Bounded'
<1>1. cache \in [Pods -> [Keys -> Entry \cup {None}]] /\ Fresh /\ Bounded
  BY Zenon DEF IInv, CacheInv, TypeOK
<1>2. cache' \in [Pods -> [Keys -> Entry \cup {None}]]
  BY <1>1, Zenon
<1>3. \A q \in Pods, j \in Keys : cache'[q][j] = None \/ cache'[q][j] = cache[q][j]
  BY <1>1, Zenon
<1>4. Fresh'
  BY <1>1, <1>3 DEF Fresh, CurrentWithin
<1>5. ASSUME NEW q \in Pods
      PROVE  IsFiniteSet(Cached(cache'[q])) /\ Cardinality(Cached(cache'[q])) <= Cap
  <2>1. Cached(cache'[q]) \subseteq Cached(cache[q])
    BY <1>3, Zenon DEF Cached
  <2>2. IsFiniteSet(Cached(cache[q])) /\ Cardinality(Cached(cache[q])) <= Cap
    BY <1>1, Zenon DEF Bounded
  <2>3. Cardinality(Cached(cache'[q])) <= Cardinality(Cached(cache[q])) /\ IsFiniteSet(Cached(cache'[q]))
    BY <2>1, <2>2, FS_Subset, Zenon
  <2> QED BY <2>2, <2>3, FS_CardinalityType, GatewayAssumption
<1> QED BY <1>2, <1>4, <1>5, Zenon DEF Bounded

\* A lookup begins, and ends at once if the cache knows the merchant.
LEMMA GetStep ==
  ASSUME IInv, NEW r \in Requests, NEW by \in {"auth", "settlement", "service"},
         NEW p \in Pods, NEW k \in Keys, by = "auth" <=> k[1] = "api",
         NEW s \in Secrets \cup {None}, Get(r, by, p, k, s)
  PROVE  IInv'
<1> DEFINE e == cache[p][k]
<1> DEFINE x == [pc |-> "query", by |-> by, pod |-> p, key |-> k, secret |-> s, since |-> now,
                 val |-> 0, took |-> 0, stamp |-> None]
<1>1. UNCHANGED <<now, row, retired, zset, expireAt, admitted>>
  BY Zenon DEF Get
<1>2. x \in Request /\ x.pc = "query" /\ x.since = now /\ x.by = by /\ x.key = k
  <2>1. 0 \in Nat /\ 0 \in Versions /\ now \in Nat
    BY Types, GatewayAssumption DEF Versions
  <2> QED BY <2>1, ZenonT(30) DEF Request
<1>3. e \in Entry \cup {None}
  BY Zenon DEF IInv, CacheInv, TypeOK
<1>4. CASE e # None /\ ~ expired(e) /\ cache' = cache
           /\ req' = [req EXCEPT ![r] = HMACAuth([x EXCEPT !.val = e.val, !.took = e.took])]
  <2> DEFINE y == [x EXCEPT !.val = e.val, !.took = e.took]
  <2>1. /\ y \in Request /\ y.key = k /\ y.val = e.val /\ y.by = by /\ y.took = e.took
        /\ e.until \in Nat /\ e.took \in Nat
    BY <1>2, <1>3, <1>4, ZenonT(30) DEF Request, Entry
  <2> DEFINE z == HMACAuth(y)
  <2>2. req' = [req EXCEPT ![r] = z]
    BY <1>4, Zenon
  <2>3. CurrentWithin(k[2], e.val, now, TTL + e.took) /\ (by = "auth" => e.took <= QueryTimeout)
    <3>1. CurrentWithin(k[2], e.val, e.until, TTL + e.took) /\ (k[1] = "api" => e.took <= QueryTimeout)
      BY <1>4, Zenon DEF IInv, CacheInv, Fresh
    <3>2. now <= e.until
      BY <1>4, <2>1, Types DEF expired
    <3>3. retired[k[2]][e.val] \in Nat
      BY <1>3, <1>4, Types, Zenon DEF Entry
    <3> QED BY <2>1, <3>1, <3>2, <3>3, Types DEF CurrentWithin
  <2>4. by = "auth" => CurrentWithin(k[2], e.val, now, TTL + QueryTimeout)
    <3>1. retired[k[2]][e.val] \in Nat
      BY <1>3, <1>4, Types, Zenon DEF Entry
    <3> QED BY <2>1, <2>3, <3>1, Types DEF CurrentWithin
  <2> HIDE DEF y, e
  <2>5. /\ z \in Request \cup {Idle} /\ z.pc \in {"idle", "limit", "used"}
        /\ z.pc # "idle" => z.key = k /\ z.val = e.val
        /\ z.pc = "used" => z.since = now /\ z.took = e.took
        /\ z.pc = "limit" =>
             by = "auth" /\ Records[z.val].status = "active" /\ Records[z.val].secret = z.secret
    <3>1. now \in Nat
      BY Types, Zenon
    <3> QED BY <2>1, <3>1, AuthType, Zenon
  <2> HIDE DEF z
  <2>6. LimitInv'
    BY <1>1, <2>2, <2>5, LimitFrame, Zenon
  <2>7. (z.pc = "limit" => Limiting(z)) /\ (z.pc = "used" => Using(z))
    <3>1. now <= now /\ now <= now + SendTimeout
      BY Types
    <3> QED BY <2>3, <2>4, <2>5, <3>1, Zenon DEF Limiting, Using
  <2>8. CacheInv'
    BY <1>1, <1>4, <2>2, <2>5, <2>7, Types, CacheSame, ReqFrame, Zenon
  <2> QED BY <2>6, <2>8, Zenon DEF IInv
<1>5. CASE cache' = [cache EXCEPT ![p][k] = None] /\ req' = [req EXCEPT ![r] = x]
  <2> HIDE DEF x
  <2>1. LimitInv'
    BY <1>1, <1>2, <1>5, LimitFrame, Zenon
  <2>2. x.since <= now /\ now <= x.since + QueryTimeout
    BY <1>2, Types
  <2>3. cache' \in [Pods -> [Keys -> Entry \cup {None}]] /\ Fresh' /\ Bounded'
    BY <1>1, <1>5, Dropped, Zenon
  <2>4. Looking(x)
    BY <1>2, <2>2, Zenon DEF Looking
  <2>5. CacheInv'
    BY <1>1, <1>2, <1>5, <2>3, <2>4, Types, ReqFrame, Zenon
  <2> QED BY <2>1, <2>5, Zenon DEF IInv
<1> QED BY <1>4, <1>5, Zenon DEF Get

\* What put leaves in the cache of a pod: older entries and the new one, and
\* no more of them than the capacity.
LEMMA PutLeaves ==
  ASSUME IInv, NEW p \in Pods, NEW key \in Keys, NEW val \in Versions, NEW took \in Nat,
         NEW c \in put(cache[p], key, val, took)
  PROVE  /\ c \in [Keys -> Entry \cup {None}]
         /\ \A j \in Keys : \/ c[j] = None \/ c[j] = cache[p][j]
                            \/ j = key /\ c[j] = [val |-> val, until |-> now + TTL, took |-> took]
         /\ IsFiniteSet(Cached(c)) /\ Cardinality(Cached(c)) <= Cap
<1> DEFINE new == [val |-> val, until |-> now + TTL, took |-> took]
<1> DEFINE old == cache[p]
<1>1. new \in Entry /\ new # None
  BY Types, GatewayAssumption DEF Entry, Versions
<1>2. old \in [Keys -> Entry \cup {None}] /\ IsFiniteSet(Cached(old)) /\ Cardinality(Cached(old)) <= Cap
  BY Zenon DEF IInv, CacheInv, TypeOK, Bounded
<1>3. Cap \in Nat /\ Cap # 0 /\ Cardinality(Cached(old)) \in Nat
  BY <1>2, GatewayAssumption, FS_CardinalityType, Zenon
<1>4. CASE full(old)
  <2>1. PICK k \in Oldest(old) : c = [[old EXCEPT ![k] = None] EXCEPT ![key] = new]
    BY <1>4, Zenon DEF put
  <2>2. k \in Cached(old) /\ k \in Keys
    BY Zenon DEF Oldest, Cached
  <2> HIDE DEF new, old
  <2>3. /\ c \in [Keys -> Entry \cup {None}]
        /\ \A j \in Keys : c[j] = IF j = key THEN new ELSE IF j = k THEN None ELSE old[j]
    BY <1>1, <1>2, <2>1, <2>2, Zenon
  <2>4. Cached(c) \subseteq (Cached(old) \ {k}) \cup {key}
    BY <2>3, Zenon DEF Cached
  <2>5. IsFiniteSet(Cached(old) \ {k}) /\ Cardinality(Cached(old) \ {k}) = Cardinality(Cached(old)) - 1
    BY <1>2, <2>2, FS_RemoveElement, Zenon
  <2>6. /\ IsFiniteSet((Cached(old) \ {k}) \cup {key})
        /\ Cardinality((Cached(old) \ {k}) \cup {key}) <= Cardinality(Cached(old))
    <3> DEFINE T == Cached(old) \ {k}
    <3> HIDE DEF T
    <3>1. IsFiniteSet(T) /\ Cardinality(T) = Cardinality(Cached(old)) - 1
      BY <2>5, Zenon DEF T
    <3>2. IsFiniteSet(T \cup {key}) /\ Cardinality(T \cup {key}) <= Cardinality(T) + 1
      BY <3>1, AddOne, Zenon
    <3>3. Cardinality(T) + 1 = Cardinality(Cached(old))
      BY <1>3, <3>1
    <3> QED BY <3>2, <3>3, Zenon DEF T
  <2>7. IsFiniteSet(Cached(c)) /\ Cardinality(Cached(c)) <= Cardinality((Cached(old) \ {k}) \cup {key})
    BY <2>4, <2>6, FS_Subset, Zenon
  <2>8. Cardinality(Cached(c)) <= Cap
    BY <1>2, <1>3, <2>6, <2>7, FS_CardinalityType
  <2> QED BY <2>3, <2>7, <2>8, Zenon DEF new, old
<1>5. CASE ~ full(old)
  <2>1. c = [old EXCEPT ![key] = new]
    BY <1>5, Zenon DEF put
  <2>2. Cardinality(Cached(old)) < Cap
    BY <1>3, <1>5 DEF full
  <2> HIDE DEF new, old
  <2>3. /\ c \in [Keys -> Entry \cup {None}]
        /\ \A j \in Keys : c[j] = IF j = key THEN new ELSE old[j]
    BY <1>1, <1>2, <2>1, Zenon
  <2>4. Cached(c) \subseteq Cached(old) \cup {key}
    BY <2>3, Zenon DEF Cached
  <2>5. /\ IsFiniteSet(Cached(old) \cup {key})
        /\ Cardinality(Cached(old) \cup {key}) <= Cardinality(Cached(old)) + 1
    BY <1>2, AddOne, Zenon
  <2>6. IsFiniteSet(Cached(c)) /\ Cardinality(Cached(c)) <= Cardinality(Cached(old) \cup {key})
    BY <2>4, <2>5, FS_Subset, Zenon
  <2>7. Cardinality(Cached(c)) <= Cap
    BY <1>3, <2>2, <2>5, <2>6, FS_CardinalityType
  <2> QED BY <2>3, <2>6, <2>7, Zenon DEF new, old
<1> QED BY <1>4, <1>5, Zenon

\* A lookup fills the cache, perhaps with a version that is gone by now.
LEMMA PutStep ==
  ASSUME IInv, NEW r \in Requests, Put(r)
  PROVE  IInv'
<1> DEFINE x == [req[r] EXCEPT !.took = now - req[r].since]
<1> DEFINE z == HMACAuth(x)
<1>1. /\ req[r].pc = "scanned" /\ UNCHANGED <<now, row, retired, zset, expireAt, admitted>>
      /\ req' = [req EXCEPT ![r] = z]
  BY Zenon DEF Put
<1>2. PICK c \in put(cache[x.pod], x.key, x.val, x.took) : cache' = [cache EXCEPT ![x.pod] = c]
  BY Zenon DEF Put
<1>3. req[r] \in Request
  BY <1>1, Types, Zenon
<1>4. Looking(req[r]) /\ now \in Nat /\ req[r].since \in Nat
  BY <1>1, <1>3, Types, Zenon DEF IInv, CacheInv, InFlight, Request
<1>5. now - req[r].since \in Nat
  BY <1>4 DEF Looking
<1>6. /\ x \in Request /\ x.by = req[r].by /\ x.key = req[r].key /\ x.val = req[r].val
      /\ x.since = req[r].since /\ x.took = now - x.since
  BY <1>3, <1>5, ZenonT(30) DEF Request
<1>7. /\ x.pod \in Pods /\ x.key \in Keys /\ x.val \in Versions /\ x.since \in Nat
      /\ x.took \in Nat /\ x.key[2] \in Merchants
  BY <1>5, <1>6, Types, Zenon DEF Request
<1>8. /\ z \in Request \cup {Idle} /\ z.pc \in {"idle", "limit", "used"}
      /\ z.pc # "idle" => z.key = x.key /\ z.val = x.val
      /\ z.pc = "used" => z.since = now /\ z.took = x.took
      /\ z.pc = "limit" =>
           x.by = "auth" /\ Records[z.val].status = "active" /\ Records[z.val].secret = z.secret
  BY <1>4, <1>6, AuthType, Zenon
<1>9. /\ x.by # "service" => now <= x.since + QueryTimeout
      /\ x.by = "auth" <=> x.key[1] = "api"
      /\ CurrentWithin(x.key[2], x.val, x.since, 0)
  BY <1>1, <1>4, <1>6, Zenon DEF Looking
<1> HIDE DEF x, z
<1>10. /\ CurrentWithin(x.key[2], x.val, now + TTL, TTL + x.took)
       /\ CurrentWithin(x.key[2], x.val, now, TTL + x.took)
       /\ x.key[1] = "api" => x.took <= QueryTimeout
       /\ x.by = "auth" => CurrentWithin(x.key[2], x.val, now, TTL + QueryTimeout)
  <2>1. retired[x.key[2]][x.val] \in Nat
    BY <1>7, Types, Zenon
  <2> QED BY <1>6, <1>7, <1>9, <2>1, Types DEF CurrentWithin
<1>11. /\ c \in [Keys -> Entry \cup {None}]
       /\ \A j \in Keys : \/ c[j] = None \/ c[j] = cache[x.pod][j]
                          \/ j = x.key /\ c[j] = [val |-> x.val, until |-> now + TTL, took |-> x.took]
       /\ IsFiniteSet(Cached(c)) /\ Cardinality(Cached(c)) <= Cap
  BY <1>2, <1>7, PutLeaves, Zenon
<1>12. cache' \in [Pods -> [Keys -> Entry \cup {None}]]
      /\ \A q \in Pods : cache'[q] = IF q = x.pod THEN c ELSE cache[q]
  BY <1>2, <1>7, <1>11, Zenon DEF IInv, CacheInv, TypeOK
<1>13. Bounded'
  BY <1>11, <1>12, Zenon DEF IInv, CacheInv, Bounded
<1>14. Fresh'
  <2> SUFFICES ASSUME NEW q \in Pods, NEW j \in Keys, cache'[q][j] # None
               PROVE  /\ cache'[q][j].until <= now + TTL
                      /\ CurrentWithin(j[2], cache'[q][j].val, cache'[q][j].until, TTL + cache'[q][j].took)
                      /\ j[1] = "api" => cache'[q][j].took <= QueryTimeout
    BY <1>1, Zenon DEF Fresh, CurrentWithin
  <2>1. CASE cache'[q][j] = cache[q][j]
    BY <2>1, Zenon DEF IInv, CacheInv, Fresh
  <2>2. CASE j = x.key /\ cache'[q][j] = [val |-> x.val, until |-> now + TTL, took |-> x.took]
    BY <1>10, <2>2, Types
  <2> QED BY <1>11, <1>12, <2>1, <2>2, Zenon
<1>15. LimitInv'
  BY <1>1, <1>8, LimitFrame, Zenon
<1>16. (z.pc = "limit" => Limiting(z)) /\ (z.pc = "used" => Using(z))
  <2>1. now <= now /\ now <= now + SendTimeout
    BY Types
  <2> QED BY <1>8, <1>10, <2>1, Zenon DEF Limiting, Using
<1>17. CacheInv'
  BY <1>1, <1>8, <1>12, <1>13, <1>14, <1>16, Types, ReqFrame, Zenon
<1> QED BY <1>15, <1>17, Zenon DEF IInv

----------------------------------------------------------------------------
\* An operator changes a merchant's row.
LEMMA ChangeStep ==
  ASSUME IInv, NEW n \in Merchants, ChangeMerchant(n)
  PROVE  IInv'
<1>1. UNCHANGED <<now, cache, req, zset, expireAt, admitted>> /\ TypeOK
  BY Zenon DEF ChangeMerchant, IInv, CacheInv
<1>2. /\ row[n] < LastVersion /\ row' = [row EXCEPT ![n] = row[n] + 1]
      /\ retired' = [retired EXCEPT ![n][row[n]] = now]
  BY Zenon DEF ChangeMerchant
<1>3. row[n] + 1 \in Versions
  <2>1. row[n] \in Nat
    BY <1>1, VersionsNat, Zenon DEF TypeOK
  <2>2. LastVersion \in Nat /\ Versions = 0..LastVersion
    BY GatewayAssumption, Zenon DEF Versions
  <2> QED BY <1>2, <2>1, <2>2
<1>4. TypeOK'
  BY <1>1, <1>2, <1>3, Types, Zenon DEF TypeOK
<1>5. Lived'
  <2>1. \A m \in Merchants, v \in Versions : retired'[m][v] = now \/ retired'[m][v] = retired[m][v]
    BY <1>1, <1>2, Zenon DEF TypeOK
  <2> QED BY <1>1, <2>1, Types DEF IInv, CacheInv, Lived
<1>6. Fresh'
  <2> SUFFICES ASSUME NEW p \in Pods, NEW k \in Keys, cache[p][k] # None
               PROVE  /\ cache[p][k].until <= now + TTL
                      /\ CurrentWithin(k[2], cache[p][k].val, cache[p][k].until, TTL + cache[p][k].took)'
                      /\ k[1] = "api" => cache[p][k].took <= QueryTimeout
    BY <1>1, Zenon DEF Fresh
  <2> DEFINE e == cache[p][k]
  <2>1. e \in Entry
    BY <1>1, Zenon DEF TypeOK
  <2>2. /\ e.until <= now + TTL /\ CurrentWithin(k[2], e.val, e.until, TTL + e.took)
        /\ k[1] = "api" => e.took <= QueryTimeout
    BY Zenon DEF IInv, CacheInv, Fresh
  <2>3. e.val \in Versions /\ e.until \in Nat /\ e.took \in Nat /\ k[2] \in Merchants
    BY <2>1, Types, Zenon DEF Entry
  <2> HIDE DEF e
  <2>4. e.until - now <= TTL + e.took /\ TTL + e.took \in Int /\ e.until \in Int
    BY <2>2, <2>3, Types
  <2>5. CurrentWithin(k[2], e.val, e.until, TTL + e.took)'
    BY <1>1, <2>2, <2>3, <2>4, ChangeKeeps, Zenon DEF e
  <2> QED BY <1>1, <2>2, <2>5, Zenon DEF e
<1>7. InFlight'
  <2> SUFFICES ASSUME NEW r \in Requests, req[r].pc = "scanned"
               PROVE  CurrentWithin(req[r].key[2], req[r].val, req[r].since, 0)'
    BY <1>1, Zenon DEF IInv, CacheInv, InFlight, Looking
  <2>1. req[r].val \in Versions /\ req[r].since \in Int /\ req[r].key[2] \in Merchants
    BY Types DEF Request
  <2>2. req[r].since <= now /\ CurrentWithin(req[r].key[2], req[r].val, req[r].since, 0)
    BY Zenon DEF IInv, CacheInv, InFlight, Looking
  <2>3. req[r].since - now <= 0
    BY <2>1, <2>2, Types
  <2> QED BY <1>1, <2>1, <2>2, <2>3, ChangeKeeps
<1>8. Passed'
  <2>1. ASSUME NEW r \in Requests, req[r].pc = "limit"
        PROVE  Limiting(req[r])'
    <3>1. req[r].val \in Versions /\ req[r].key[2] \in Merchants
      BY <2>1, Types, Zenon DEF Request
    <3>2. Limiting(req[r])
      BY <2>1, Zenon DEF IInv, CacheInv, Passed
    <3>3. now - now <= TTL + QueryTimeout /\ TTL + QueryTimeout \in Int /\ now \in Int
      BY Types
    <3>4. CurrentWithin(req[r].key[2], req[r].val, now, TTL + QueryTimeout)'
      BY <1>1, <3>1, <3>2, <3>3, ChangeKeeps, Zenon DEF Limiting
    <3> QED BY <1>1, <3>2, <3>4, Zenon DEF Limiting
  <2>2. ASSUME NEW r \in Requests, req[r].pc = "used"
        PROVE  Using(req[r])'
    <3>1. /\ req[r].val \in Versions /\ req[r].key[2] \in Merchants
          /\ req[r].since \in Nat /\ req[r].took \in Nat
      BY <2>2, Types, Zenon DEF Request
    <3>2. Using(req[r])
      BY <2>2, Zenon DEF IInv, CacheInv, Passed
    <3>3. /\ req[r].since - now <= TTL + req[r].took /\ TTL + req[r].took \in Int
          /\ req[r].since \in Int
      BY <3>1, <3>2, Types DEF Using
    <3>4. CurrentWithin(req[r].key[2], req[r].val, req[r].since, TTL + req[r].took)'
      BY <1>1, <3>1, <3>2, <3>3, ChangeKeeps, Zenon DEF Using
    <3> QED BY <1>1, <3>2, <3>4, Zenon DEF Using
  <2> QED BY <1>1, <2>1, <2>2, Zenon DEF Passed
<1>9. Bounded'
  BY <1>1, Zenon DEF IInv, CacheInv, Bounded, Cached
<1>10. LimitInv'
  BY <1>1, ZenonT(30) DEF IInv, LimitInv, Counted, WindowRespected, RefusedWhenFull, Stamps, limit
<1> QED BY <1>4, <1>5, <1>6, <1>7, <1>8, <1>9, <1>10, Zenon DEF IInv, CacheInv

\* Time passes.
LEMMA TickStep ==
  ASSUME IInv, Tick
  PROVE  IInv'
<1>1. /\ UNCHANGED <<row, retired, cache, req, zset, expireAt, admitted>> /\ now' = now + 1
      /\ \A r \in Requests :
           \/ req[r].pc = "idle"
           \/ req[r].pc \in {"query", "scanned"}
              /\ (req[r].by = "service" \/ now < req[r].since + QueryTimeout)
           \/ req[r].pc = "used" /\ now < req[r].since + SendTimeout
  BY Zenon DEF Tick
<1>2. TypeOK' /\ Lived'
  <2>1. TypeOK /\ Lived
    BY Zenon DEF IInv, CacheInv
  <2> QED BY <1>1, <2>1, Types DEF TypeOK, Lived
<1>3. Fresh'
  <2> SUFFICES ASSUME NEW p \in Pods, NEW k \in Keys, cache[p][k] # None
               PROVE  /\ cache[p][k].until <= now' + TTL
                      /\ CurrentWithin(k[2], cache[p][k].val, cache[p][k].until, TTL + cache[p][k].took)
                      /\ k[1] = "api" => cache[p][k].took <= QueryTimeout
    BY <1>1, Zenon DEF Fresh, CurrentWithin
  <2>1. cache[p][k].until \in Nat
    BY ZenonT(30) DEF IInv, CacheInv, TypeOK, Entry
  <2>2. /\ cache[p][k].until <= now + TTL
        /\ CurrentWithin(k[2], cache[p][k].val, cache[p][k].until, TTL + cache[p][k].took)
        /\ k[1] = "api" => cache[p][k].took <= QueryTimeout
    BY Zenon DEF IInv, CacheInv, Fresh
  <2>3. cache[p][k].until <= now' + TTL
    BY <1>1, <2>1, <2>2, Types
  <2> QED BY <2>2, <2>3, Zenon
<1>4. InFlight'
  <2> SUFFICES ASSUME NEW r \in Requests, req[r].pc \in {"query", "scanned"}
               PROVE  /\ req[r].since <= now'
                      /\ req[r].by # "service" => now' <= req[r].since + QueryTimeout
    BY <1>1, Zenon DEF IInv, CacheInv, InFlight, Looking, CurrentWithin
  <2>1. req[r].since \in Nat
    BY Types, Zenon DEF Request
  <2>2. req[r].by = "service" \/ now < req[r].since + QueryTimeout
    BY <1>1, Zenon
  <2>3. req[r].since <= now
    BY Zenon DEF IInv, CacheInv, InFlight, Looking
  <2> QED BY <1>1, <2>1, <2>2, <2>3, Types
<1>5. Passed'
  <2> SUFFICES ASSUME NEW r \in Requests, req[r].pc = "used"
               PROVE  req[r].since <= now' /\ now' <= req[r].since + SendTimeout
    BY <1>1, Zenon DEF IInv, CacheInv, Passed, Using, CurrentWithin
  <2>1. req[r].since \in Nat
    BY Types, Zenon DEF Request
  <2>2. now < req[r].since + SendTimeout
    BY <1>1, Zenon
  <2>3. req[r].since <= now
    BY Zenon DEF IInv, CacheInv, Passed, Using
  <2> QED BY <1>1, <2>1, <2>2, <2>3, Types
<1>6. Bounded'
  BY <1>1, Zenon DEF IInv, CacheInv, Bounded, Cached
<1>7. Counted'
  <2> SUFFICES ASSUME NEW m \in Merchants, NEW b \in admitted[m]
               PROVE  /\ b.time <= now'
                      /\ now' - (Window - Late - Ahead) < b.time => b.stamp \in zset[m]
    BY <1>1, Zenon DEF IInv, LimitInv, Counted
  <2>1. b.time \in Nat
    BY Types
  <2>2. b.time <= now /\ (now - (Window - Late - Ahead) < b.time => b.stamp \in zset[m])
    BY Zenon DEF IInv, LimitInv, Counted
  <2>3. now' = now + 1 /\ now \in Nat /\ Window \in Nat /\ Late \in Nat /\ Ahead \in Nat
    BY <1>1, Types, GatewayAssumption, Zenon
  <2> QED BY <2>1, <2>2, <2>3
<1>8. WindowRespected'
  BY <1>1, Zenon DEF IInv, LimitInv, WindowRespected, Stamps, limit
<1>9. RefusedWhenFull'
  BY <1>1, Zenon DEF RefusedWhenFull
<1> QED BY <1>2, <1>3, <1>4, <1>5, <1>6, <1>7, <1>8, <1>9, Zenon DEF IInv, CacheInv, LimitInv

----------------------------------------------------------------------------
\* Admissions are finitely many, and so are their stamps.
LEMMA StampsFinite ==
  ASSUME IInv, NEW m \in Merchants, NEW t, NEW age
  PROVE  IsFiniteSet(Stamps(m, t, age))
<1> DEFINE B == {b \in admitted[m] : t - age < b.time /\ b.time <= t}
<1>1. IsFiniteSet(B)
  BY FS_Subset, Zenon DEF IInv, LimitInv, Counted
<1> HIDE DEF B
<1>2. IsFiniteSet({a.stamp : a \in B})
  <2> DEFINE T == {a.stamp : a \in B}
  <2> DEFINE f == [a \in B |-> a.stamp]
  <2>1. f \in Surjection(B, T)
    BY Zenon DEF Surjection
  <2> HIDE DEF T, f
  <2>2. IsFiniteSet(T)
    BY <1>1, <2>1, FS_Surjection, Zenon
  <2> QED BY <2>2, Zenon DEF T
<1> QED BY <1>2, Zenon DEF Stamps, B

\* What the script finds: all stamps of the shorter window, and only stamps of
\* the longer one.
LEMMA Trimmed ==
  ASSUME IInv, NEW m \in Merchants, NEW stamp \in (now - Late)..(now + Ahead)
  PROVE  /\ trimmed(m, stamp) \in SUBSET zset[m]
         /\ Stamps(m, now, Window - Late - Ahead) \subseteq trimmed(m, stamp)
         /\ trimmed(m, stamp) \subseteq Stamps(m, now, Window + Late + Ahead)
<1>1. /\ now \in Nat /\ Window \in Nat /\ Late \in Nat /\ Ahead \in Nat
      /\ stamp \in Int /\ now - Late <= stamp /\ stamp <= now + Ahead
      /\ expireAt[m] \in Nat
  BY Types, GatewayAssumption
<1>2. \A b \in admitted[m] :
        /\ b.time \in Nat /\ b.stamp \in Int
        /\ b.time <= now /\ b.time + Window <= expireAt[m]
        /\ b.time - Late <= b.stamp /\ b.stamp <= b.time + Ahead
        /\ now - (Window - Late - Ahead) < b.time => b.stamp \in zset[m]
  BY Types DEF IInv, LimitInv, Counted
<1>3. trimmed(m, stamp) \in SUBSET zset[m]
  BY Zenon DEF trimmed
<1>4. ASSUME NEW b \in admitted[m], now - (Window - Late - Ahead) < b.time
      PROVE  b.stamp \in trimmed(m, stamp)
  <2>1. now < expireAt[m] /\ b.stamp > stamp - Window
    BY <1>1, <1>2, <1>4
  <2>2. ~ (now >= expireAt[m])
    BY <1>1, <2>1
  <2> QED BY <1>2, <1>4, <2>1, <2>2, Zenon DEF trimmed
<1>5. ASSUME NEW s \in trimmed(m, stamp)
      PROVE  s \in Stamps(m, now, Window + Late + Ahead)
  <2>1. s \in zset[m] /\ s > stamp - Window
    BY Zenon DEF trimmed
  <2>2. PICK b \in admitted[m] : b.stamp = s
    BY <2>1, Zenon DEF IInv, LimitInv, Counted
  <2>3. now - (Window + Late + Ahead) < b.time /\ b.time <= now
    BY <1>1, <1>2, <2>1, <2>2
  <2> QED BY <2>2, <2>3, Zenon DEF Stamps
<1>6. Stamps(m, now, Window - Late - Ahead) \subseteq trimmed(m, stamp)
  BY <1>4, Zenon DEF Stamps
<1> QED BY <1>3, <1>5, <1>6, Zenon

\* What the script leaves of a request: its merchant, the version and the
\* secret it passed HMACAuth with.
Same(x, y) == x.key = y.key /\ x.val = y.val /\ x.secret = y.secret

\* A request that stays in the limiter is still one that passed HMACAuth.
LEMMA StillLimiting ==
  ASSUME IInv, NEW r \in Requests, req[r].pc = "limit", NEW x, Same(x, req[r])
  PROVE  Limiting(x)
BY Zenon DEF IInv, CacheInv, Passed, Limiting, Same

\* The script refuses.
LEMMA RefuseStep ==
  ASSUME IInv, NEW r \in Requests, NEW stamp \in (now - Late)..(now + Ahead),
         req[r].pc = "limit", NEW m \in Merchants, m = req[r].key[2],
         Cardinality(trimmed(m, stamp)) >= limit(req[r].val),
         zset' = [zset EXCEPT ![m] = trimmed(m, stamp)],
         NEW x \in Request, x.pc \in {"limit", "refused"}, Same(x, req[r]),
         req' = [req EXCEPT ![r] = x],
         UNCHANGED <<now, row, retired, cache, expireAt, admitted>>
  PROVE  IInv'
<1> DEFINE kept == trimmed(m, stamp)
<1>1. /\ kept \in SUBSET zset[m]
      /\ Stamps(m, now, Window - Late - Ahead) \subseteq kept
      /\ kept \subseteq Stamps(m, now, Window + Late + Ahead)
  BY Trimmed, Zenon
<1>2. x.key = req[r].key /\ x.val = req[r].val /\ x.val \in Versions
  BY Zenon DEF Request, Same
<1>3. x.pc = "limit" => Limiting(x)
  BY StillLimiting, Zenon
<1> HIDE DEF kept
<1>4. \A j \in Merchants : zset'[j] = IF j = m THEN kept ELSE zset[j]
  BY Types, Zenon DEF kept
<1>5. zset' \in [Merchants -> SUBSET Int]
  BY <1>1, Types, Zenon DEF kept
<1>6. CacheInv'
  BY <1>3, <1>5, Types, CacheSame, ReqFrame, Zenon
<1>7. Counted'
  <2> SUFFICES ASSUME NEW j \in Merchants
               PROVE  /\ IsFiniteSet(zset'[j])
                      /\ \A b \in admitted[j] :
                           now - (Window - Late - Ahead) < b.time => b.stamp \in zset'[j]
                      /\ \A s \in zset'[j] : \E b \in admitted[j] : b.stamp = s
    BY Zenon DEF IInv, LimitInv, Counted
  <2>1. CASE j # m
    BY <1>4, <2>1 DEF IInv, LimitInv, Counted
  <2>2. CASE j = m
    <3>1. IsFiniteSet(kept)
      BY <1>1, FS_Subset, Zenon DEF IInv, LimitInv, Counted
    <3>2. ASSUME NEW b \in admitted[m], now - (Window - Late - Ahead) < b.time
          PROVE  b.stamp \in kept
      BY <1>1, <3>2, Zenon DEF IInv, LimitInv, Counted, Stamps
    <3>3. \A s \in kept : \E b \in admitted[m] : b.stamp = s
      BY <1>1, Zenon DEF IInv, LimitInv, Counted
    <3> QED BY <1>4, <2>2, <3>1, <3>2, <3>3
  <2> QED BY <2>1, <2>2, Zenon
<1>8. WindowRespected'
  BY Zenon DEF IInv, LimitInv, WindowRespected, Stamps, limit
<1>9. RefusedWhenFull'
  <2> SUFFICES ASSUME NEW q \in Requests, req'[q].pc = "refused"
               PROVE  Cardinality(Stamps(req'[q].key[2], now, Window + Late + Ahead)) >= limit(req'[q].val)
    BY Zenon DEF RefusedWhenFull, Stamps, limit
  <2>1. req'[q] = IF q = r THEN x ELSE req[q]
    BY Zenon DEF IInv, CacheInv, TypeOK
  <2>2. CASE q # r
    BY <2>1, <2>2, Zenon DEF IInv, LimitInv, RefusedWhenFull
  <2>3. CASE q = r
    <3> DEFINE T == Stamps(m, now, Window + Late + Ahead)
    <3>1. IsFiniteSet(T)
      BY StampsFinite, Zenon
    <3> HIDE DEF T
    <3>2. Cardinality(kept) <= Cardinality(T) /\ IsFiniteSet(kept)
      BY <1>1, <3>1, FS_Subset, Zenon DEF T
    <3>3. Cardinality(kept) \in Nat /\ Cardinality(T) \in Nat /\ limit(x.val) \in Nat
      BY <1>2, <3>1, <3>2, FS_CardinalityType, LimitNat, Zenon
    <3>4. Cardinality(kept) >= limit(x.val)
      BY <1>2, Zenon DEF kept
    <3>5. Cardinality(T) >= limit(x.val)
      BY <3>2, <3>3, <3>4
    <3> QED BY <1>2, <2>1, <2>3, <3>5, Zenon DEF T
  <2> QED BY <2>2, <2>3, Zenon
<1> QED BY <1>6, <1>7, <1>8, <1>9, Zenon DEF IInv, LimitInv

\* The script admits.
LEMMA AdmitStep ==
  ASSUME IInv, NEW r \in Requests, NEW stamp \in (now - Late)..(now + Ahead),
         req[r].pc = "limit", NEW m \in Merchants, m = req[r].key[2],
         ~ (Cardinality(trimmed(m, stamp)) >= limit(req[r].val)),
         zset' = [zset EXCEPT ![m] = trimmed(m, stamp) \cup {stamp}],
         expireAt' = [expireAt EXCEPT ![m] = now + Window],
         admitted' = [admitted EXCEPT ![m] = @ \cup {[time |-> now, stamp |-> stamp]}],
         NEW x \in Request \cup {Idle}, x.pc \in {"idle", "limit"},
         x.pc = "limit" => Same(x, req[r]), req' = [req EXCEPT ![r] = x],
         UNCHANGED <<now, row, retired, cache>>
  PROVE  IInv'
<1> DEFINE kept == trimmed(m, stamp)
<1> DEFINE new == [time |-> now, stamp |-> stamp]
<1> DEFINE short == Window - Late - Ahead
<1>1. /\ kept \in SUBSET zset[m] /\ Stamps(m, now, short) \subseteq kept
  BY Trimmed, Zenon
<1>2. /\ now \in Nat /\ Window \in Nat /\ Late \in Nat /\ Ahead \in Nat /\ short \in Nat
      /\ stamp \in Int /\ now - Late <= stamp /\ stamp <= now + Ahead
  BY Types, GatewayAssumption
<1>3. new \in [time: Nat, stamp: Int] /\ new.time = now /\ new.stamp = stamp
  BY <1>2, Zenon
<1>4. x.pc = "limit" => Limiting(x)
  BY StillLimiting, Zenon
<1> HIDE DEF kept, new
<1>5. \A j \in Merchants :
        /\ zset'[j] = IF j = m THEN kept \cup {stamp} ELSE zset[j]
        /\ expireAt'[j] = IF j = m THEN now + Window ELSE expireAt[j]
        /\ admitted'[j] = IF j = m THEN admitted[m] \cup {new} ELSE admitted[j]
  BY Types, Zenon DEF kept, new
<1>6. /\ zset' \in [Merchants -> SUBSET Int] /\ expireAt' \in [Merchants -> Nat]
      /\ admitted' \in [Merchants -> SUBSET [time: Nat, stamp: Int]]
  BY <1>1, <1>2, <1>3, Types DEF kept, new
<1>7. CacheInv'
  BY <1>4, <1>6, CacheSame, ReqFrame, Zenon
<1>8. IsFiniteSet(kept) /\ IsFiniteSet(kept \cup {stamp}) /\ IsFiniteSet(admitted[m] \cup {new})
  <2>1. IsFiniteSet(zset[m]) /\ IsFiniteSet(admitted[m])
    BY Zenon DEF IInv, LimitInv, Counted
  <2>2. IsFiniteSet(kept)
    BY <1>1, <2>1, FS_Subset, Zenon
  <2> QED BY <2>1, <2>2, FS_AddElement, Zenon
<1>9. Counted'
  <2> SUFFICES ASSUME NEW j \in Merchants
        PROVE  /\ IsFiniteSet(admitted'[j]) /\ IsFiniteSet(zset'[j])
               /\ \A b \in admitted'[j] :
                    /\ b.time <= now /\ b.time + Window <= expireAt'[j]
                    /\ b.time - Late <= b.stamp /\ b.stamp <= b.time + Ahead
                    /\ now - short < b.time => b.stamp \in zset'[j]
               /\ \A s \in zset'[j] : \E b \in admitted'[j] : b.stamp = s
    BY Zenon DEF Counted
  <2>1. CASE j # m
    BY <1>5, <2>1 DEF IInv, LimitInv, Counted
  <2>2. CASE j = m
    <3>1. ASSUME NEW b \in admitted[m]
          PROVE  /\ b.time <= now /\ b.time + Window <= now + Window
                 /\ b.time - Late <= b.stamp /\ b.stamp <= b.time + Ahead
                 /\ now - short < b.time => b.stamp \in kept
      <4>1. b.time <= now /\ b.time - Late <= b.stamp /\ b.stamp <= b.time + Ahead
        BY Zenon DEF IInv, LimitInv, Counted
      <4>2. b.time \in Nat
        BY Types
      <4>3. now - short < b.time => b.stamp \in Stamps(m, now, short)
        BY <4>1, Zenon DEF Stamps
      <4> QED BY <1>1, <1>2, <4>1, <4>2, <4>3
    <3>2. /\ new.time <= now /\ new.time + Window <= now + Window
          /\ new.time - Late <= new.stamp /\ new.stamp <= new.time + Ahead
      BY <1>2, <1>3
    <3>3. ASSUME NEW s \in kept \cup {stamp}
          PROVE  \E b \in admitted[m] \cup {new} : b.stamp = s
      <4>1. CASE s = stamp
        BY <1>3, <4>1, Zenon
      <4>2. CASE s \in kept
        BY <1>1, <4>2, ZenonT(30) DEF IInv, LimitInv, Counted
      <4> QED BY <4>1, <4>2, Zenon
    <3>4. admitted'[j] = admitted[m] \cup {new} /\ zset'[j] = kept \cup {stamp}
          /\ expireAt'[j] = now + Window
      BY <1>5, <2>2, Zenon
    <3> HIDE DEF short
    <3>5. ASSUME NEW b \in admitted'[j]
          PROVE  /\ b.time <= now /\ b.time + Window <= expireAt'[j]
                 /\ b.time - Late <= b.stamp /\ b.stamp <= b.time + Ahead
                 /\ now - short < b.time => b.stamp \in zset'[j]
      <4>1. CASE b = new
        BY <1>3, <3>2, <3>4, <4>1, Zenon
      <4>2. CASE b \in admitted[m]
        BY <3>1, <3>4, <4>2, Zenon
      <4> QED BY <3>4, <4>1, <4>2, Zenon
    <3> QED BY <1>8, <3>3, <3>4, <3>5, Zenon
  <2> QED BY <2>1, <2>2, Zenon
<1>10. WindowRespected'
  <2> SUFFICES ASSUME NEW j \in Merchants, NEW v \in Versions,
                      \A w \in Versions : limit(w) <= limit(v), NEW a \in admitted'[j]
               PROVE  Cardinality(Stamps(j, a.time, short)') <= limit(v)
    BY Zenon DEF WindowRespected, Stamps, limit
  <2>1. CASE j # m
    <3>1. a \in admitted[j] /\ Stamps(j, a.time, short)' = Stamps(j, a.time, short)
      BY <1>5, <2>1, Zenon DEF Stamps
    <3> QED BY <3>1, Zenon DEF IInv, LimitInv, WindowRespected
  <2>2. CASE j = m /\ a.time = now
    <3>1. Stamps(j, a.time, short)' \subseteq kept \cup {stamp}
      <4>1. Stamps(j, a.time, short)' \subseteq Stamps(m, now, short) \cup {stamp}
        BY <1>3, <1>5, <2>2 DEF Stamps
      <4> QED BY <1>1, <4>1, Zenon
    <3>2. Cardinality(kept \cup {stamp}) <= Cardinality(kept) + 1 /\ Cardinality(kept \cup {stamp}) \in Nat
      BY <1>8, AddOne, Zenon
    <3>3. /\ Cardinality(Stamps(j, a.time, short)') <= Cardinality(kept \cup {stamp})
          /\ IsFiniteSet(Stamps(j, a.time, short)')
      BY <1>8, <3>1, FS_Subset, Zenon
    <3>4. req[r].val \in Versions
      BY Types, Zenon DEF Request
    <3>5. limit(req[r].val) <= limit(v) /\ limit(req[r].val) \in Nat /\ limit(v) \in Nat
      BY <3>4, LimitNat, Zenon
    <3>6. Cardinality(kept) \in Nat /\ Cardinality(Stamps(j, a.time, short)') \in Nat
      BY <1>8, <3>3, FS_CardinalityType, Zenon
    <3>7. ~ (Cardinality(kept) >= limit(req[r].val))
      BY Zenon DEF kept
    <3> QED BY <3>2, <3>3, <3>5, <3>6, <3>7
  <2>3. CASE j = m /\ a.time # now
    <3>1. a \in admitted[m] /\ a.time < now /\ a.time \in Nat
      <4>1. a \in admitted[m]
        BY <1>3, <1>5, <2>3
      <4>2. a.time <= now /\ a.time \in Nat
        <5>1. a.time \in Nat
          BY <4>1, TimesNat, Zenon
        <5> QED BY <4>1, <5>1, Zenon DEF IInv, LimitInv, Counted
      <4> QED BY <1>2, <2>3, <4>1, <4>2
    <3>2. ~ (new.time <= a.time)
      BY <1>2, <1>3, <3>1
    <3>3. Stamps(j, a.time, short)' = Stamps(m, a.time, short)
      BY <1>5, <2>3, <3>2, SMTT(30) DEF Stamps
    <3> QED BY <3>1, <3>3, Zenon DEF IInv, LimitInv, WindowRespected
  <2> QED BY <2>1, <2>2, <2>3, Zenon
<1>11. RefusedWhenFull'
  <2> DEFINE long == Window + Late + Ahead
  <2>1. ASSUME NEW q \in Requests, req'[q].pc = "refused"
        PROVE  req'[q] = req[q] /\ req[q].key[2] \in Merchants /\ req[q].val \in Versions
    <3>1. req'[q] = req[q]
      BY <2>1, Zenon DEF IInv, CacheInv, TypeOK
    <3> QED BY <2>1, <3>1, Types, Zenon DEF Request
  <2> SUFFICES ASSUME NEW q \in Requests, req'[q].pc = "refused",
                      NEW j \in Merchants, j = req[q].key[2]
               PROVE  Cardinality(Stamps(j, now, long)') >= limit(req[q].val)
    BY <2>1, Zenon DEF RefusedWhenFull, Stamps, limit
  <2> DEFINE T == Stamps(j, now, long)
  <2> DEFINE U == {a.stamp : a \in {b \in admitted'[j] : now - long < b.time /\ b.time <= now}}
  <2>2. U = Stamps(j, now, long)'
    BY Zenon DEF Stamps
  <2>3. T \subseteq U
    BY <1>5 DEF Stamps
  <2>4. IsFiniteSet(U)
    <3>1. \A b \in admitted'[j] : b = new \/ b \in admitted[j]
      BY <1>5
    <3>2. U \subseteq T \cup {stamp}
      BY <1>3, <3>1, Zenon DEF Stamps
    <3>3. IsFiniteSet(T \cup {stamp})
      BY StampsFinite, FS_AddElement, Zenon
    <3> QED BY <3>2, <3>3, FS_Subset, Zenon
  <2>5. Cardinality(T) >= limit(req[q].val)
    BY <2>1, Zenon DEF IInv, LimitInv, RefusedWhenFull
  <2> HIDE DEF T, U
  <2>6. Cardinality(T) <= Cardinality(U) /\ Cardinality(T) \in Nat /\ Cardinality(U) \in Nat
    BY <2>3, <2>4, FS_Subset, FS_CardinalityType, Zenon
  <2>7. limit(req[q].val) \in Nat
    BY <2>1, LimitNat, Zenon
  <2> QED BY <2>2, <2>5, <2>6, <2>7
<1> QED BY <1>7, <1>9, <1>10, <1>11, Zenon DEF IInv, LimitInv

\* Redis runs the script, and the request hears of it or does not.
LEMMA AllowStep ==
  ASSUME IInv, NEW r \in Requests, NEW stamp \in (now - Late)..(now + Ahead),
         NEW allowed \in BOOLEAN, Allow(r, stamp, allowed) \/ AllowLost(r, stamp, allowed)
  PROVE  IInv'
<1>1. Eval(r, stamp, allowed)
  BY Zenon DEF Allow, AllowLost
<1>2. req[r].pc = "limit" /\ UNCHANGED <<now, row, retired, cache>>
  BY <1>1, Zenon DEF Eval
<1>3. req[r] \in Request
  BY <1>2, Types, Zenon
<1>4. PICK m \in Merchants : m = req[r].key[2]
  BY <1>3, Types, Zenon DEF Request
<1>5. slidingWindowScript(m, stamp, limit(req[r].val), allowed)
  BY <1>1, <1>4, Zenon DEF Eval
<1> DEFINE lost == [req[r] EXCEPT !.stamp = stamp]
<1> DEFINE refused == [req[r] EXCEPT !.pc = "refused", !.stamp = None]
<1>6. /\ lost \in Request /\ lost.pc = "limit" /\ Same(lost, req[r])
      /\ refused \in Request /\ refused.pc = "refused" /\ Same(refused, req[r])
  <2>1. stamp \in Int
    BY Types, GatewayAssumption
  <2> QED BY <1>2, <1>3, <2>1, ZenonT(30) DEF Request, Same
<1>7. req' = [req EXCEPT ![r] = lost] \/ req' = [req EXCEPT ![r] = IF allowed THEN Idle ELSE refused]
  BY Zenon DEF Allow, AllowLost
<1> HIDE DEF lost, refused
<1>8. CASE ~ allowed
  <2>1. /\ zset' = [zset EXCEPT ![m] = trimmed(m, stamp)] /\ UNCHANGED admitted
        /\ expireAt' = [expireAt EXCEPT ![m] = expireAt[m]]
        /\ ~ (Cardinality(trimmed(m, stamp)) < limit(req[r].val))
    BY <1>5, <1>8, Zenon DEF slidingWindowScript
  <2>2. expireAt' = expireAt
    BY <2>1, Types, Zenon
  <2>3. Cardinality(trimmed(m, stamp)) >= limit(req[r].val)
    <3>1. IsFiniteSet(zset[m]) /\ trimmed(m, stamp) \in SUBSET zset[m]
      BY Trimmed, Zenon DEF IInv, LimitInv, Counted
    <3>2. Cardinality(trimmed(m, stamp)) \in Nat
      BY <3>1, FS_Subset, FS_CardinalityType, Zenon
    <3>3. limit(req[r].val) \in Nat
      BY <1>3, LimitNat, Zenon DEF Request
    <3> QED BY <2>1, <3>2, <3>3
  <2>4. PICK x \in Request : /\ x.pc \in {"limit", "refused"} /\ Same(x, req[r])
                             /\ req' = [req EXCEPT ![r] = x]
    BY <1>6, <1>7, <1>8, Zenon
  <2> QED BY <1>2, <1>4, <2>1, <2>2, <2>3, <2>4, RefuseStep, Zenon
<1>9. CASE allowed
  <2>1. /\ zset' = [zset EXCEPT ![m] = trimmed(m, stamp) \cup {stamp}]
        /\ expireAt' = [expireAt EXCEPT ![m] = now + Window]
        /\ admitted' = [admitted EXCEPT ![m] = @ \cup {[time |-> now, stamp |-> stamp]}]
        /\ Cardinality(trimmed(m, stamp)) < limit(req[r].val)
    BY <1>5, <1>9, Zenon DEF slidingWindowScript, Admit
  <2>2. ~ (Cardinality(trimmed(m, stamp)) >= limit(req[r].val))
    <3>1. IsFiniteSet(zset[m]) /\ trimmed(m, stamp) \in SUBSET zset[m]
      BY Trimmed, Zenon DEF IInv, LimitInv, Counted
    <3>2. Cardinality(trimmed(m, stamp)) \in Nat
      BY <3>1, FS_Subset, FS_CardinalityType, Zenon
    <3>3. limit(req[r].val) \in Nat
      BY <1>3, LimitNat, Zenon DEF Request
    <3> QED BY <2>1, <3>2, <3>3
  <2>3. Idle.pc = "idle"
    BY Zenon DEF Idle
  <2>4. PICK x \in Request \cup {Idle} :
          /\ x.pc \in {"idle", "limit"} /\ (x.pc = "limit" => Same(x, req[r]))
          /\ req' = [req EXCEPT ![r] = x]
    BY <1>6, <1>7, <1>9, <2>3, Zenon
  <2> QED BY <1>2, <1>4, <2>1, <2>2, <2>4, AdmitStep, Zenon
<1> QED BY <1>8, <1>9, Zenon

\* Every step preserves the invariant.
LEMMA NextIInv == IInv /\ [Next]_vars => IInv'
<1> SUFFICES ASSUME IInv, [Next]_vars PROVE IInv'
  BY Zenon
<1>1. CASE Tick
  BY <1>1, TickStep, Zenon
<1>2. ASSUME NEW m \in Merchants, ChangeMerchant(m) PROVE IInv'
  BY <1>2, ChangeStep, Zenon
<1>3. ASSUME NEW r \in Requests, NEW p \in Pods, NEW m \in Merchants,
             \/ \E s \in Secrets : Get(r, "auth", p, <<"api", m>>, s)
             \/ \E by \in {"settlement", "service"} : Get(r, by, p, <<"mid", m>>, None)
      PROVE  IInv'
  <2>1. <<"api", m>> \in Keys /\ <<"mid", m>> \in Keys
    BY Zenon DEF Keys
  <2>2. CASE \E s \in Secrets : Get(r, "auth", p, <<"api", m>>, s)
    BY <2>1, <2>2, GetStep, Zenon
  <2>3. CASE \E by \in {"settlement", "service"} : Get(r, by, p, <<"mid", m>>, None)
    <3>1. PICK by \in {"settlement", "service"} : Get(r, by, p, <<"mid", m>>, None)
      BY <2>3, Zenon
    <3>2. by \in {"auth", "settlement", "service"} /\ by # "auth"
      BY Zenon
    <3>3. <<"mid", m>>[1] # "api"
      BY Zenon
    <3> QED BY <2>1, <3>1, <3>2, <3>3, GetStep, Zenon
  <2> QED BY <1>3, <2>2, <2>3, Zenon
<1>4. ASSUME NEW r \in Requests, Query(r) PROVE IInv'
  BY <1>4, QueryStep, Zenon
<1>5. ASSUME NEW r \in Requests, Put(r) PROVE IInv'
  BY <1>5, PutStep, Zenon
<1>6. ASSUME NEW r \in Requests, QueryFails(r) \/ AllowFails(r) \/ Done(r) PROVE IInv'
  BY <1>6, EndStep, Zenon
<1>7. ASSUME NEW r \in Requests, NEW stamp \in (now - Late)..(now + Ahead), NEW allowed \in BOOLEAN,
             Allow(r, stamp, allowed) \/ AllowLost(r, stamp, allowed)
      PROVE  IInv'
  BY <1>7, AllowStep, Zenon
<1>8. CASE UNCHANGED vars
  <2>1. UNCHANGED <<now, row, retired, cache, req, zset, expireAt, admitted>>
    BY <1>8, Zenon DEF vars
  <2>2. TypeOK' /\ Lived' /\ Fresh' /\ InFlight' /\ Passed' /\ Bounded'
    BY <2>1, Zenon DEF IInv, CacheInv, TypeOK, Lived, Fresh, InFlight, Looking,
                         Passed, Limiting, Using, Bounded, Cached, CurrentWithin
  <2>3. LimitInv'
    BY <2>1, ZenonT(30) DEF IInv, LimitInv, Counted, WindowRespected, RefusedWhenFull, Stamps, limit
  <2> QED BY <2>2, <2>3, Zenon DEF IInv, CacheInv
<1> QED BY <1>1, <1>2, <1>3, <1>4, <1>5, <1>6, <1>7, <1>8, Zenon DEF Next

\* The invariant holds in every reachable state.
THEOREM Invariance == Spec => []IInv
BY InitIInv, NextIInv, PTL DEF Spec

\* Every variable keeps its type.
THEOREM TypeCorrect == Spec => []TypeOK
<1>1. IInv => TypeOK
  BY Zenon DEF IInv, CacheInv
<1> QED BY <1>1, Invariance, PTL

\* A merchant that is suspended, or whose secret is replaced, is shut out no
\* later than the entry's lifetime and one lookup afterwards, on every pod.
THEOREM Revocation == Spec => []RevocationBounded
<1>1. IInv => RevocationBounded
  <2> SUFFICES ASSUME IInv, NEW r \in Requests, req[r].pc = "limit"
        PROVE  \E v \in Versions :
                 /\ Records[v].status = "active" /\ Records[v].secret = req[r].secret
                 /\ CurrentWithin(req[r].key[2], v, now, TTL + QueryTimeout)
    BY Zenon DEF RevocationBounded
  <2>1. req[r].val \in Versions
    BY Types, Zenon DEF Request
  <2> QED BY <2>1, Zenon DEF IInv, CacheInv, Passed, Limiting
<1> QED BY <1>1, Invariance, PTL

\* What a settlement is sent with is as recent as the lookup allowed that
\* filled the entry, up to its last attempt.
THEOREM Lookup == Spec => []LookupBounded
<1>1. IInv => LookupBounded
  <2> SUFFICES ASSUME IInv, NEW r \in Requests, req[r].pc = "used"
        PROVE  CurrentWithin(req[r].key[2], req[r].val, now, SendTimeout + TTL + req[r].took)
    BY Zenon DEF LookupBounded
  <2>1. Using(req[r])
    BY Zenon DEF IInv, CacheInv, Passed
  <2>2. /\ req[r].since \in Nat /\ req[r].took \in Nat
        /\ retired[req[r].key[2]][req[r].val] \in Nat
    BY Types, Zenon DEF Request
  <2> QED BY <2>1, <2>2, Types DEF Using, CurrentWithin
<1> QED BY <1>1, Invariance, PTL

\* A pod's cache stays within its capacity.
THEOREM CacheCapacity == Spec => []CacheBounded
<1>1. IInv => CacheBounded
  BY Zenon DEF IInv, CacheInv, Bounded, CacheBounded
<1> QED BY <1>1, Invariance, PTL

\* The sliding window holds the limit over any window less the drift of the
\* stamps.
THEOREM SlidingWindow == Spec => []WindowRespected
<1>1. IInv => WindowRespected
  BY Zenon DEF IInv, LimitInv
<1> QED BY <1>1, Invariance, PTL

\* A refusal is earned.
THEOREM Refusal == Spec => []RefusedWhenFull
<1>1. IInv => RefusedWhenFull
  BY Zenon DEF IInv, LimitInv
<1> QED BY <1>1, Invariance, PTL
=============================================================================
