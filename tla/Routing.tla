------------------------------- MODULE Routing -------------------------------
(***************************************************************************)
(* Where rows live: start-up of the shard router, creation of merchants on *)
(* the least loaded shard, and the transactions repository over several    *)
(* MySQL pools.  Every statement on one pool is atomic; a merchant's       *)
(* creation is two statements, a lookup without a merchant is one          *)
(* statement per pool, answered in any order.                              *)
(***************************************************************************)
EXTENDS ShardRouter, Codec, Sequences, FiniteSets

CONSTANTS
  RawCounts,     \* values of app.logical_shard_count, 0 when left out
  ShardLists,    \* values of len(db.shards)
  Merchants,
  Earlier,       \* [0..254 -> Nat], merchants on each shard that take no part
  TooLong,       \* merchants whose id has 17 to 64 bytes
  Orders,        \* order ids; two merchants may use the same one
  Material,      \* [Orders -> [currency, method]], as the client spells them
  Admins,        \* concurrent POST /admin/merchants requests
  Callers,       \* webhook handlers, cron runs, confirmation trackers
  Limit,         \* the cron's batch size
  IdOf,          \* [Merchants \X Orders -> Nat], transaction_id
  Outcomes,      \* statuses the writers set
  MaxRows, MaxClock, MaxFaults,
  None

\* The numbers of the configuration, and a finite table of merchants.
ASSUME RoutingAssumption ==
  /\ RawCounts \subseteq Int /\ ShardLists \subseteq Nat
  /\ IsFiniteSet(Merchants) /\ IsFiniteSet(Admins) /\ Earlier \in [0..254 -> Nat]
  /\ None \notin Int /\ None \notin Merchants
  /\ MaxClock \in Nat /\ MaxFaults \in Nat /\ Limit \in Nat \ {0}

\* The writers set statuses of the table, and none that the cron's scan selects.
ASSUME OutcomesAssumption == Outcomes \subseteq DOMAIN statusCode \ {"created", "pending"}

VARIABLES
  boot,          \* [pc, raw, shards, dsn, L, n]: the process's start-up
  open,          \* pools with an open *sql.DB
  shardOf,       \* merchants.shard_index on the control pool, None if no row
  admin,         \* [pc, merchant, shard] of each merchant creation
  rows,          \* the transactions tables of all pools
  caller,        \* each global lookup: [pc, query, waiting, err, got, due]
  clock,         \* seconds; moves when a scan with a later cutoff is due
  faults

vars == <<boot, open, shardOf, admin, rows, caller, clock, faults>>

L == boot.L
n == boot.n
----------------------------------------------------------------------------
Row == [pool: Nat, merchant: Merchants, order: Orders, cur: Int, method: Int,
        status: Int, pi: BOOLEAN, created: Nat]

\* A query without a merchant: by order_id, by payment intent, or the cron's scan.
NoQuery == [kind |-> "none"]
Queries == [kind: {"order"}, order: Orders]
             \cup [kind: {"intent"}, merchant: Merchants, order: Orders]
             \cup [kind: {"pending"}, before: 1..MaxClock]

IdleAdmin  == [pc |-> "idle", merchant |-> None, shard |-> 0]
IdleCaller == [pc |-> "idle", query |-> NoQuery, waiting |-> {}, err |-> FALSE,
               got |-> <<>>, due |-> {}]

Init ==
  /\ boot \in [pc: {"load"}, raw: RawCounts, shards: ShardLists, dsn: BOOLEAN, L: {0}, n: {0}]
  /\ boot.shards > 0 => ~ boot.dsn
  /\ open = {}
  /\ shardOf = [m \in Merchants |-> None]
  /\ admin = [a \in Admins |-> IdleAdmin]
  /\ rows = {}
  /\ caller = [c \in Callers |-> IdleCaller]
  /\ clock = 0
  /\ faults = 0

Fault == faults < MaxFaults /\ faults' = faults + 1

Up == boot.pc = "up"
----------------------------------------------------------------------------
(* Start-up. *)

Load ==
  /\ boot.pc = "load"
  /\ LET l == shardCount(boot.raw) IN
     boot' = IF validate(l, boot.shards, boot.dsn)
               THEN [boot EXCEPT !.pc = "check", !.L = l, !.n = poolCount(boot.shards)]
               ELSE [boot EXCEPT !.pc = "refused"]
  /\ UNCHANGED <<open, shardOf, admin, rows, caller, clock, faults>>

\* OpenShards' checks again, before the first pool.
CheckShards ==
  /\ boot.pc = "check"
  /\ boot' = [boot EXCEPT !.pc = IF openable(L, boot.shards) THEN "opening" ELSE "programmer_error"]
  /\ UNCHANGED <<open, shardOf, admin, rows, caller, clock, faults>>

OpenPool ==
  /\ boot.pc = "opening"
  /\ open' = open \cup {Cardinality(open)}
  /\ boot' = [boot EXCEPT !.pc = IF open' = Pools(n) THEN "up" ELSE "opening"]
  /\ UNCHANGED <<shardOf, admin, rows, caller, clock, faults>>

\* Mutant: a failed start leaves the pools opened so far.
OpenPoolFails_Leak ==
  /\ boot.pc = "opening"
  /\ Fault
  /\ boot' = [boot EXCEPT !.pc = "failed"]
  /\ UNCHANGED <<open, shardOf, admin, rows, caller, clock>>

OpenPoolFails ==
  /\ boot.pc = "opening"
  /\ Fault
  /\ boot' = [boot EXCEPT !.pc = "failed"]
  /\ open' = {}
  /\ UNCHANGED <<shardOf, admin, rows, caller, clock>>

\* The process dies, or has failed to start; the same configuration starts again.
Restart ==
  /\ boot.pc \in {"up", "failed"}
  /\ boot.pc = "up" => Fault
  /\ boot.pc = "failed" => UNCHANGED faults
  /\ boot' = [boot EXCEPT !.pc = "load"]
  /\ open' = {}
  /\ admin' = [a \in Admins |-> IdleAdmin]
  /\ caller' = [c \in Callers |-> IdleCaller]
  /\ UNCHANGED <<shardOf, rows, clock>>
----------------------------------------------------------------------------
(* Merchants. *)

MerchantsOn(i) == Earlier[i] + Cardinality({m \in Merchants : shardOf[m] = i})

\* Mutant: the most loaded shard.
pickLeastLoadedShard_Most ==
  CHOOSE i \in Logical(L) : \A j \in Logical(L) :
    MerchantsOn(i) > MerchantsOn(j) \/ (MerchantsOn(i) = MerchantsOn(j) /\ i <= j)

\* The smallest count, the smallest index on a tie.
pickLeastLoadedShard ==
  CHOOSE i \in Logical(L) : \A j \in Logical(L) :
    MerchantsOn(i) < MerchantsOn(j) \/ (MerchantsOn(i) = MerchantsOn(j) /\ i <= j)

\* merchantService.Create up to the count query of Insert.
Create(a, m) ==
  /\ Up
  /\ admin[a].pc = "idle"
  /\ admin' = [admin EXCEPT ![a] = [pc |-> "insert", merchant |-> m,
                                    shard |-> pickLeastLoadedShard]]
  /\ UNCHANGED <<boot, open, shardOf, rows, caller, clock, faults>>

\* Mutant: a merchant_id that exists is overwritten.
InsertMerchant_Upsert(a) ==
  /\ admin[a].pc = "insert"
  /\ shardOf' = [shardOf EXCEPT ![admin[a].merchant] = admin[a].shard]
  /\ admin' = [admin EXCEPT ![a] = IdleAdmin]
  /\ UNCHANGED <<boot, open, rows, caller, clock, faults>>

\* The INSERT; an existing merchant_id is an error.
InsertMerchant(a) ==
  /\ admin[a].pc = "insert"
  /\ shardOf' = IF shardOf[admin[a].merchant] = None
                  THEN [shardOf EXCEPT ![admin[a].merchant] = admin[a].shard]
                  ELSE shardOf
  /\ admin' = [admin EXCEPT ![a] = IdleAdmin]
  /\ UNCHANGED <<boot, open, rows, caller, clock, faults>>
----------------------------------------------------------------------------
(* The transactions repository with a merchant in hand. *)

At(p, m, o) == {r \in rows : r.pool = p /\ r.merchant = m /\ r.order = o}

\* The payment request's Insert: refused for a long merchant_id or an unknown
\* currency, and a duplicate of the transaction_id.
Insert(m, o) ==
  /\ Up
  /\ shardOf[m] # None
  /\ m \notin TooLong
  /\ encodeCurrency(Material[o].currency) # Err
  /\ LET p == For(L, n, shardOf[m]) IN
     /\ p # Unknown
     /\ At(p, m, o) = {}
     /\ Cardinality(rows) < MaxRows
     /\ rows' = rows \cup
          {[pool |-> p, merchant |-> m, order |-> o,
            cur |-> encodeCurrency(Material[o].currency),
            method |-> encodeMethod(Material[o].method),
            status |-> encodeStatus("created"), pi |-> FALSE, created |-> clock]}
  /\ UNCHANGED <<boot, open, shardOf, admin, caller, clock, faults>>

\* The rows after an UPDATE of the rows in S.
Set(S, f(_)) == (rows \ S) \cup {f(r) : r \in S}

\* The rows an UPDATE by merchant and order finds through shard i.
Affected(i, m, o) ==
  IF For(L, n, i) = Unknown THEN {} ELSE At(For(L, n, i), m, o)

\* The resolver's or the payment service's UpdateCheckout.
UpdateCheckout(m, o) ==
  /\ Up
  /\ shardOf[m] # None
  /\ Affected(shardOf[m], m, o) # {}
  /\ rows' = Set(Affected(shardOf[m], m, o), LAMBDA r : [r EXCEPT !.pi = TRUE])
  /\ UNCHANGED <<boot, open, shardOf, admin, caller, clock, faults>>

\* COALESCE(NULLIF(?, ''), stripe_pi_id): an empty intent keeps the stored one.
Written(r, s, pi) == [r EXCEPT !.status = encodeStatus(s), !.pi = r.pi \/ pi]

\* A webhook's UpdateStatus, its merchant looked up first.
UpdateStatus(m, o, s, pi) ==
  /\ Up
  /\ shardOf[m] # None
  /\ Affected(shardOf[m], m, o) # {}
  /\ rows' = Set(Affected(shardOf[m], m, o), LAMBDA r : Written(r, s, pi))
  /\ UNCHANGED <<boot, open, shardOf, admin, caller, clock, faults>>
----------------------------------------------------------------------------
(* Global lookups: one query per pool, in parallel. *)

Pending(r, before) ==
  r.status \in {encodeStatus("created"), encodeStatus("pending")} /\ r.created < before

\* The rows a query's WHERE selects.
Selected(q) ==
  CASE q.kind = "order"   -> {r \in rows : r.order = q.order}
    [] q.kind = "intent"  -> {r \in rows : r.pi /\ r.merchant = q.merchant /\ r.order = q.order}
    [] q.kind = "pending" -> {r \in rows : Pending(r, q.before)}

On(p, S) == {r \in S : r.pool = p}

\* Rows are never deleted: a row is known by its pool, merchant and order.
Key(r) == <<r.pool, r.merchant, r.order>>

\* GetByOrderIDAny, GetByPaymentIntentID or GetPendingBefore is called; it is
\* at least as late as the cutoff of the last.
Ask(c, q) ==
  /\ Up
  /\ caller[c].pc = "idle"
  /\ clock' = IF q.kind = "pending" /\ q.before > clock THEN q.before ELSE clock
  /\ caller' = [caller EXCEPT ![c] =
       [pc |-> "wait", query |-> q, waiting |-> Pools(n), err |-> FALSE, got |-> <<>>,
        due |-> {Key(r) : r \in Selected(q)}]]
  /\ UNCHANGED <<boot, open, shardOf, admin, rows, faults>>

Decodable(r) == decodeCurrency(r.cur) # "decode_error" /\ decodeStatus(r.status) # "decode_error"

scanTransaction(r, i) ==
  [merchant |-> r.merchant, order |-> r.order, currency |-> decodeCurrency(r.cur),
   method |-> decodeMethod(r.method), status |-> decodeStatus(r.status),
   created |-> r.created, shard |-> i]

\* The next answer of a lookup when pool p's leaves it at x.
Answered(c, p, x) ==
  LET w == caller[c].waiting \ {p} IN
  [x EXCEPT !.waiting = w,
            !.pc = IF w # {} THEN "wait" ELSE IF x.err THEN "failed" ELSE "missed"]

\* scatterFirst receives pool p's answer: a miss, or the first row that matches.
\* The queries run in any order and no row is deleted, so a query may be taken
\* to run when its answer is received.
scatterFirst(c, p) ==
  /\ caller[c].pc = "wait" /\ caller[c].query.kind \in {"order", "intent"}
  /\ p \in caller[c].waiting
  /\ LET hits == On(p, Selected(caller[c].query)) IN
     \/ /\ hits = {}
        /\ caller' = [caller EXCEPT ![c] = Answered(c, p, caller[c])]
     \/ \E r \in hits :
          caller' = [caller EXCEPT ![c] =
            IF Decodable(r)
              THEN [@ EXCEPT !.pc = "found", !.waiting = {},
                      !.got = <<scanTransaction(r, physicalToFirstLogical(L, n, p))>>]
              ELSE Answered(c, p, [caller[c] EXCEPT !.err = TRUE])]
  /\ UNCHANGED <<boot, open, shardOf, admin, rows, clock, faults>>

\* Mutant: a failed query counts as a miss.
PoolFails_Miss(c, p) ==
  /\ caller[c].pc = "wait" /\ p \in caller[c].waiting
  /\ Fault
  /\ caller' = [caller EXCEPT ![c] = Answered(c, p, caller[c])]
  /\ UNCHANGED <<boot, open, shardOf, admin, rows, clock>>

\* A pool's query fails.
PoolFails(c, p) ==
  /\ caller[c].pc = "wait" /\ p \in caller[c].waiting
  /\ Fault
  /\ caller' = [caller EXCEPT ![c] = Answered(c, p, [caller[c] EXCEPT !.err = TRUE])]
  /\ UNCHANGED <<boot, open, shardOf, admin, rows, clock>>
----------------------------------------------------------------------------
(* GetPendingBefore. *)

Least(a, b) == IF a < b THEN a ELSE b

\* ORDER BY created_at LIMIT Limit over S: ties in any order.
OldestOf(S) ==
  LET k == Least(Limit, Cardinality(S)) IN
  {s \in [1..k -> S] :
     /\ \A i, j \in 1..k : i < j => s[i] # s[j] /\ s[i].created <= s[j].created
     /\ \A r \in S \ {s[i] : i \in 1..k} : \A i \in 1..k : s[i].created <= r.created}

\* a stays before b in the insertion sort.
Stays(a, b) ==
  \/ a.created < b.created
  \/ a.created = b.created /\ IdOf[a.merchant, a.order] <= IdOf[b.merchant, b.order]

\* x sinks from the end of s to the first entry that stays before it.
Sink(s, x) ==
  LET stops == {j \in 1..Len(s) : Stays(s[j], x)}
      k     == IF stops = {} THEN 0 ELSE CHOOSE j \in stops : \A i \in stops : i <= j
  IN  SubSeq(s, 1, k) \o <<x>> \o SubSeq(s, k + 1, Len(s))

\* Mutant: the pools' answers one after the other.
sortTransactionsByCreatedAt_Concat(s) == s

sortTransactionsByCreatedAt(s) ==
  LET sorted[i \in 0..Len(s)] == IF i = 0 THEN <<>> ELSE Sink(sorted[i - 1], s[i])
  IN  sorted[Len(s)]

Truncate(s) == SubSeq(s, 1, Least(Limit, Len(s)))

\* Pool p's answer is collected; after the last one the merged list is sorted
\* and cut.  One failed pool fails the scan.
GetPendingBefore(c, p) ==
  /\ caller[c].pc = "wait" /\ caller[c].query.kind = "pending"
  /\ p \in caller[c].waiting
  /\ \E s \in OldestOf(On(p, Selected(caller[c].query))) :
       LET read == [i \in DOMAIN s |-> scanTransaction(s[i], physicalToFirstLogical(L, n, p))]
           bad  == \E i \in DOMAIN s : ~ Decodable(s[i])
           all  == IF bad THEN caller[c].got ELSE caller[c].got \o read
           x    == Answered(c, p, [caller[c] EXCEPT !.err = @ \/ bad, !.got = all])
       IN  caller' = [caller EXCEPT ![c] =
             IF x.pc = "missed"
               THEN [x EXCEPT !.pc = "listed", !.got = Truncate(sortTransactionsByCreatedAt(all))]
               ELSE x]
  /\ UNCHANGED <<boot, open, shardOf, admin, rows, clock, faults>>

----------------------------------------------------------------------------
(* What the callers do with the rows. *)

Finish(x) == IF x.got = <<>> THEN IdleCaller ELSE x

\* The first row's status is written through the shard the lookup stamped on
\* it, and ErrNotFound if no row is there; or the caller leaves the row alone.
FollowUp(c) ==
  /\ caller[c].pc \in {"found", "listed", "writing"}
  /\ caller[c].got # <<>>
  /\ LET t == Head(caller[c].got)
         A == Affected(t.shard, t.merchant, t.order)
         x == [caller[c] EXCEPT !.pc = "writing", !.got = Tail(@)]
     IN  \/ /\ \E s \in Outcomes : rows' = Set(A, LAMBDA r : Written(r, s, FALSE))
            /\ caller' = [caller EXCEPT ![c] =
                 IF A = {} THEN [x EXCEPT !.pc = "norow"] ELSE Finish(x)]
         \/ /\ rows' = rows
            /\ caller' = [caller EXCEPT ![c] = Finish(x)]
  /\ UNCHANGED <<boot, open, shardOf, admin, clock, faults>>

\* Nothing found, nothing listed, or an error: the caller returns.
Return(c) ==
  /\ \/ caller[c].pc \in {"missed", "failed", "norow"}
     \/ caller[c].pc = "listed" /\ caller[c].got = <<>>
  /\ caller' = [caller EXCEPT ![c] = IdleCaller]
  /\ UNCHANGED <<boot, open, shardOf, admin, rows, clock, faults>>

Next ==
  \/ Load \/ CheckShards \/ OpenPool \/ OpenPoolFails \/ Restart
  \/ \E a \in Admins : InsertMerchant(a) \/ \E m \in Merchants : Create(a, m)
  \/ \E m \in Merchants, o \in Orders :
       \/ Insert(m, o)
       \/ UpdateCheckout(m, o)
       \/ \E s \in Outcomes, pi \in BOOLEAN : UpdateStatus(m, o, s, pi)
  \/ \E c \in Callers :
       \/ \E q \in Queries : Ask(c, q)
       \/ \E p \in Pools(n) : scatterFirst(c, p) \/ GetPendingBefore(c, p) \/ PoolFails(c, p)
       \/ FollowUp(c)
       \/ Return(c)

Spec == Init /\ [][Next]_vars
----------------------------------------------------------------------------
Found == [merchant: Merchants, order: Orders, currency: Currencies \cup {"decode_error"},
          method: DOMAIN methodToCode \cup {"unknown"},
          status: DOMAIN statusCode \cup {"decode_error"}, created: Nat, shard: 0..255]

\* Every stored code is one the decoders know, every pool and shard number is
\* in range: what scanTransaction, ShardRouter.For and uint8 columns rely on.
TypeOK ==
  /\ boot.pc \in {"load", "check", "opening", "up", "failed", "refused", "programmer_error"}
  /\ boot.raw \in RawCounts /\ boot.shards \in ShardLists /\ boot.dsn \in BOOLEAN
  /\ boot.L \in 0..255 /\ boot.n \in 0..255
  /\ open \subseteq Pools(n)
  /\ shardOf \in [Merchants -> Logical(L) \cup {None}]
  /\ admin \in [Admins -> {IdleAdmin} \cup
                 [pc: {"insert"}, merchant: Merchants, shard: Logical(L)]]
  /\ rows \subseteq Row
  /\ \A r \in rows : r.pool \in Pools(n) /\ r.status \in 0..5 /\ r.method \in 0..9
                     /\ \E c \in Currencies : currencyToCode[c] = r.cur
  /\ \A c \in Callers :
       /\ caller[c].pc \in {"idle", "wait", "found", "listed", "writing", "missed", "failed", "norow"}
       /\ caller[c].waiting \subseteq Pools(n)
       /\ \A i \in DOMAIN caller[c].got : caller[c].got[i] \in Found
  /\ clock \in 0..MaxClock
  /\ faults \in 0..MaxFaults

\* OpenShards never meets a configuration that config.validate should have
\* refused, a router that is up has every pool, and a start that failed half
\* way has closed the pools it had opened.
StartsWhole ==
  /\ boot.pc # "programmer_error"
  /\ Up => open = Pools(n)
  /\ boot.pc = "failed" => open = {}

\* A transaction is on the pool its merchant's shard_index routes to, through
\* concurrent creations, lookups, follow-up writes and restarts: a read with
\* the merchant in hand (GetByTransactionID, GetByMerchantOrderID) misses none.
RowsAtHome ==
  \A r \in rows : shardOf[r.merchant] # None /\ r.pool = For(L, n, shardOf[r.merchant])

\* One row per merchant and order over all pools, although the UNIQUE key is
\* on each pool alone.
OneRowPerOrder ==
  \A r, s \in rows : r.merchant = s.merchant /\ r.order = s.order => r = s

\* A write that follows a global lookup goes through the logical shard that
\* physicalToFirstLogical stamped on the row and never ends in ErrNotFound.
FollowUpFindsRow == \A c \in Callers : caller[c].pc # "norow"

\* scatterFirst says ErrNotFound only if no pool held the row when it was
\* called: a pool that did not answer is an error, never a miss.
MissIsHonest ==
  \A c \in Callers : caller[c].pc = "missed" => caller[c].due = {}

\* GetPendingBefore leaves out a stuck transaction only for Limit others that
\* are at least as old, whichever pools they are on and in whatever order the
\* pools answered while rows were being written; the list is oldest first.
OldestFirst ==
  \A c \in Callers : caller[c].pc = "listed" =>
    LET g == caller[c].got IN
    /\ \A i, j \in DOMAIN g : i < j => g[i].created <= g[j].created
    /\ \A r \in rows :
         /\ Key(r) \in caller[c].due
         /\ Pending(r, caller[c].query.before)
         /\ \A i \in DOMAIN g : <<g[i].merchant, g[i].order>> # <<r.merchant, r.order>>
         => Len(g) = Limit /\ \A i \in DOMAIN g : g[i].created <= r.created

\* A row reads back with the currency and the method the client sent, in the
\* table's case; a method the codec does not know reads back as "unknown".
ReadBack ==
  \A c \in Callers : \A i \in DOMAIN caller[c].got :
    LET g == caller[c].got[i] IN
    /\ g.currency = Fold(Material[g.order].currency)
    /\ g.method = IF Fold(Material[g.order].method) \in DOMAIN methodToCode
                    THEN Fold(Material[g.order].method) ELSE "unknown"

\* The creations on their way to a shard.
Picked(i) == Cardinality({a \in Admins : admin[a].pc = "insert" /\ admin[a].shard = i})

\* The count and the INSERT of a creation are two statements: concurrent
\* creations may pick the same shard, and put the fullest shard, those on
\* their way to it included, ahead of the emptiest by at most their number.
SpreadBounded ==
  \A i, j \in Logical(L) : MerchantsOn(i) + Picked(i) <= MerchantsOn(j) + Cardinality(Admins)

\* Every merchant the admin API accepts can be charged; not so for an id of 17
\* to 64 bytes, which Create accepts and transactionRepo.Insert refuses.
CreatedCanBeCharged == \A m \in Merchants : shardOf[m] # None => m \notin TooLong
=============================================================================
