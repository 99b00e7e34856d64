--------------------------- MODULE Routing_proofs ---------------------------
(***************************************************************************)
(* Proofs about Routing: the shard mapping and its inverse for every       *)
(* number of shards and pools, the codec's tables, the safety of the rows, *)
(* the spread of merchants and what a lookup returns, for every set of     *)
(* merchants, orders, creators and callers.                                *)
(***************************************************************************)
EXTENDS Routing, FiniteSetTheorems, TLAPS

\* Division by a positive number, given the quotient.
LEMMA Quotient ==
  ASSUME NEW a \in Int, NEW b \in Int, NEW q \in Int, b > 0, b * q <= a, a < b * q + b
  PROVE  a \div b = q
OBVIOUS

\* A number without a remainder is a multiple.
LEMMA Multiple ==
  ASSUME NEW a \in Int, NEW b \in Int, b > 0, a % b = 0
  PROVE  a = b * (a \div b)
OBVIOUS

\* Multiplication respects the order.
LEMMA Monotone ==
  ASSUME NEW a \in Int, NEW b \in Int, NEW k \in Int, a <= b, k >= 0
  PROVE  a * k <= b * k
OBVIOUS

----------------------------------------------------------------------------
\* What OpenShards guarantees of the two numbers.
Shape(l, k) == l \in 1..255 /\ k \in 1..l /\ l % k = 0

\* The first logical shard of a pool, as a number: no wrap of the uint8.
LEMMA FirstLogical ==
  ASSUME NEW l, NEW k, Shape(l, k), NEW p \in Pools(k)
  PROVE  /\ physicalToFirstLogical(l, k, p) = p * (l \div k)
         /\ p * (l \div k) \in Logical(l)
         /\ (p * (l \div k)) * k = p * l
<1> DEFINE d == l \div k
<1>1. l \in Int /\ k \in Int /\ k > 0 /\ l > 0 /\ l <= 255 /\ p \in Int /\ 0 <= p /\ p <= k - 1
  BY DEF Shape, Pools
<1>2. d \in Int /\ l = k * d
  BY <1>1, Multiple DEF Shape
<1>3. d >= 1
  BY <1>1, <1>2
<1> HIDE DEF d
<1>4. 0 * d <= p * d
  BY <1>1, <1>2, <1>3, Monotone
<1>5. p * d <= (k - 1) * d
  BY <1>1, <1>2, <1>3, Monotone
<1>6. (k - 1) * d = k * d - d
  BY <1>1, <1>2
<1>7. 0 <= p * d /\ p * d < l
  BY <1>1, <1>2, <1>3, <1>4, <1>5, <1>6
<1>8. p * d \in Int
  BY <1>1, <1>2
<1>9. (p * d) * k = p * (k * d)
  BY <1>1, <1>2
<1>10. (p * d) % 256 = p * d
  BY <1>1, <1>7, <1>8
<1> QED BY <1>1, <1>2, <1>7, <1>8, <1>9, <1>10 DEF physicalToFirstLogical, Uint8, Logical, d

\* The logical shard that physicalToFirstLogical gives a pool routes back to
\* that pool, for every number of logical shards and every number of pools the
\* configuration accepts: the follow-up write of a global lookup meets the row.
THEOREM ShardInverse ==
  ASSUME NEW l, NEW k, Shape(l, k), NEW p \in Pools(k)
  PROVE  For(l, k, physicalToFirstLogical(l, k, p)) = p
<1> DEFINE f == p * (l \div k)
<1>1. physicalToFirstLogical(l, k, p) = f /\ f \in Logical(l) /\ f * k = p * l
  BY FirstLogical, Zenon
<1>2. l \in Int /\ l > 0 /\ p \in Int
  BY DEF Shape, Pools
<1> HIDE DEF f
<1>3. l * p <= f * k /\ f * k < l * p + l /\ f * k \in Int
  BY <1>1, <1>2
<1>4. (f * k) \div l = p
  BY <1>2, <1>3, Quotient, Zenon
<1> QED BY <1>1, <1>2, <1>4 DEF For, logicalToDB, Logical

\* Every logical shard routes to a pool.
THEOREM ForInRange ==
  ASSUME NEW l, NEW k, Shape(l, k), NEW i \in Logical(l)
  PROVE  For(l, k, i) \in Pools(k)
<1>1. l \in Int /\ k \in Int /\ k > 0 /\ l > 0 /\ i \in Int /\ 0 <= i /\ i <= l - 1
  BY DEF Shape, Logical
<1>2. 0 * k <= i * k /\ i * k <= (l - 1) * k
  BY <1>1, Monotone
<1>3. (l - 1) * k = l * k - k
  BY <1>1
<1>4. i * k \in Int /\ l * k \in Int /\ 0 <= i * k /\ i * k < l * k
  BY <1>1, <1>2, <1>3
<1> DEFINE q == (i * k) \div l
<1>5. q \in Int /\ l * q <= i * k /\ i * k < l * q + l
  BY <1>1, <1>4
<1> HIDE DEF q
<1>6. q < k
  <2> SUFFICES ASSUME k <= q PROVE FALSE
    BY <1>1, <1>5
  <2>1. k * l <= q * l
    BY <1>1, <1>5, Monotone
  <2> QED BY <1>1, <1>4, <1>5, <2>1
<1>7. q >= 0
  <2> SUFFICES ASSUME q <= -1 PROVE FALSE
    BY <1>5
  <2>1. q * l <= (-1) * l
    BY <1>1, <1>5, Monotone
  <2> QED BY <1>1, <1>4, <1>5, <2>1
<1> QED BY <1>1, <1>5, <1>6, <1>7 DEF For, logicalToDB, Pools, q

\* OpenShards' checks and the shape of the router follow from config.validate:
\* "the caller (config.validate) is expected to have enforced both invariants".
THEOREM ValidatedOpens ==
  ASSUME NEW v \in Int, NEW k \in Nat, NEW d \in BOOLEAN, validate(shardCount(v), k, d)
  PROVE  openable(shardCount(v), k) /\ Shape(shardCount(v), poolCount(k))
<1>1. shardCount(v) \in 1..255
  BY DEF shardCount
<1>2. CASE k = 0
  <2>1. shardCount(v) % 1 = 0
    BY <1>1
  <2> QED BY <1>1, <1>2, <2>1 DEF openable, Shape, poolCount
<1>3. CASE k > 0
  BY <1>1, <1>3 DEF openable, Shape, poolCount, validate
<1> QED BY <1>2, <1>3
----------------------------------------------------------------------------
\* A status is decoded to what was encoded.
THEOREM StatusRoundTrip ==
  ASSUME NEW s \in DOMAIN statusCode
  PROVE  decodeStatus(encodeStatus(s)) = s
<1>1. s \in {"created", "pending", "paid", "failed", "expired", "refunded"}
  BY Zenon DEF statusCode
<1> QED BY <1>1 DEF decodeStatus, encodeStatus, statusCode

\* A currency the table knows is decoded to its name, however it was spelled:
\* no two currencies share a code.
THEOREM CurrencyRoundTrip ==
  ASSUME NEW s, Fold(s) \in Currencies
  PROVE  decodeCurrency(encodeCurrency(s)) = Fold(s)
<1> DEFINE c == Fold(s)
<1>1. c \in Currencies
  BY Zenon
<1> HIDE DEF c
<1>2. encodeCurrency(s) = currencyToCode[c]
  BY <1>1, Zenon DEF encodeCurrency, c
<1>3. \A b \in Currencies : currencyToCode[b] = currencyToCode[c] => b = c
  <2> SUFFICES ASSUME NEW b \in Currencies, currencyToCode[b] = currencyToCode[c]
               PROVE  b = c
    BY Zenon
  <2> QED BY <1>1 DEF Currencies, currencyToCode
<1>4. (CHOOSE b \in Currencies : currencyToCode[b] = currencyToCode[c]) = c
  BY <1>1, <1>3, Zenon
<1> QED BY <1>1, <1>2, <1>4, Zenon DEF decodeCurrency, codeToCurrency, c

\* A method the table knows is decoded to its name, every other to "unknown".
THEOREM MethodRoundTrip ==
  ASSUME NEW s
  PROVE  decodeMethod(encodeMethod(s)) =
           IF Fold(s) \in DOMAIN methodToCode THEN Fold(s) ELSE "unknown"
<1> DEFINE m == Fold(s)
<1> HIDE DEF m
<1>1. CASE m \notin DOMAIN methodToCode
  BY <1>1 DEF decodeMethod, codeToMethod, encodeMethod, methodUnknown, m
<1>2. CASE m \in DOMAIN methodToCode
  <2>1. m \in {"card", "crypto_eth", "wallet", "bank_transfer", "klarna", "afterpay",
               "affirm", "sepa_debit", "us_bank_account"}
    BY <1>2, Zenon DEF methodToCode
  <2>2. encodeMethod(s) = methodToCode[m]
    BY <1>2, Zenon DEF encodeMethod, m
  <2>3. codeToMethod(methodToCode[m]) = m
    BY <2>1 DEF codeToMethod, methodToCode
  <2> QED BY <1>2, <2>2, <2>3, Zenon DEF decodeMethod, m
<1> QED BY <1>1, <1>2, Zenon DEF m
----------------------------------------------------------------------------
\* A non-empty set of naturals has a least element.
LEMMA LeastNat ==
  ASSUME NEW T, T \subseteq Nat, T # {}
  PROVE  \E x \in T : \A y \in T : x <= y
<1> DEFINE R == StrictSubsetOrdering(Nat)
<1> DEFINE U == {0..x : x \in T}
<1>1. U \subseteq FiniteSubsetsOf(Nat) /\ U # {}
  <2>1. \A x \in T : IsFiniteSet(0..x) /\ 0..x \in SUBSET Nat
    BY FS_Interval
  <2> QED BY <2>1, Zenon DEF FiniteSubsetsOf
<1>2. IsWellFoundedOn(R, FiniteSubsetsOf(Nat))
  BY FS_StrictSubsetOrderingWellFounded, Zenon
<1>3. PICK X \in U : \A Y \in U : ~ (<<Y, X>> \in R)
  <2> HIDE DEF R, U
  <2> QED BY <1>1, <1>2, WFMin, Zenon
<1>4. PICK x \in T : X = 0..x
  BY Zenon
<1>5. ASSUME NEW y \in T PROVE x <= y
  <2>1. ~ (<<0..y, 0..x>> \in R)
    BY <1>3, <1>4, Zenon
  <2>2. 0..y \in SUBSET Nat /\ 0..x \in SUBSET Nat /\ x \in Nat /\ y \in Nat
    OBVIOUS
  <2>3. ~ (0..y \subseteq 0..x /\ 0..y # 0..x)
    BY <2>1, <2>2, Zenon DEF StrictSubsetOrdering
  <2>4. y < x => 0..y \subseteq 0..x /\ x \in 0..x /\ x \notin 0..y
    BY <2>2
  <2> QED BY <2>2, <2>3, <2>4
<1> QED BY <1>5, Zenon

\* The number of merchants on a shard is a natural number.
LEMMA LoadNat ==
  ASSUME NEW i \in 0..254
  PROVE  MerchantsOn(i) \in Nat
<1>1. IsFiniteSet({m \in Merchants : shardOf[m] = i})
  BY RoutingAssumption, FS_Subset, Zenon
<1>2. Cardinality({m \in Merchants : shardOf[m] = i}) \in Nat
  BY <1>1, FS_CardinalityType, Zenon
<1>3. Earlier[i] \in Nat
  BY RoutingAssumption, Zenon
<1> QED BY <1>2, <1>3 DEF MerchantsOn

\* pickLeastLoadedShard returns a logical shard, and none has fewer merchants.
LEMMA PickInRange ==
  ASSUME L \in 1..255
  PROVE  /\ pickLeastLoadedShard \in Logical(L)
         /\ \A j \in Logical(L) : MerchantsOn(pickLeastLoadedShard) <= MerchantsOn(j)
<1> DEFINE S == Logical(L)
<1> DEFINE best(i) == \A j \in S : MerchantsOn(i) < MerchantsOn(j)
                                     \/ (MerchantsOn(i) = MerchantsOn(j) /\ i <= j)
<1>1. S \subseteq 0..254 /\ 0 \in S
  BY DEF Logical
<1> HIDE DEF S
<1>2. \A i \in S : MerchantsOn(i) \in Nat
  BY <1>1, LoadNat, Zenon
<1>3. \E i \in S : best(i)
  <2> DEFINE T == {MerchantsOn(i) : i \in S}
  <2>1. T \subseteq Nat /\ T # {}
    BY <1>1, <1>2, ZenonT(30)
  <2>2. PICK x \in T : \A y \in T : x <= y
    BY <2>1, LeastNat, Zenon
  <2> DEFINE U == {i \in S : MerchantsOn(i) = x}
  <2>3. U \subseteq Nat /\ U # {}
    BY <1>1
  <2>4. PICK i \in U : \A j \in U : i <= j
    <3> HIDE DEF U
    <3> QED BY <2>3, LeastNat, Zenon
  <2>5. ASSUME NEW j \in S
        PROVE  MerchantsOn(i) < MerchantsOn(j) \/ (MerchantsOn(i) = MerchantsOn(j) /\ i <= j)
    <3>1. MerchantsOn(i) = x /\ MerchantsOn(j) \in T /\ i \in S
      BY <2>4, Zenon
    <3>2. x <= MerchantsOn(j)
      BY <2>2, <3>1, Zenon
    <3>3. CASE MerchantsOn(j) = x
      BY <2>4, <3>1, <3>3, Zenon
    <3>4. CASE MerchantsOn(j) # x
      BY <1>2, <3>1, <3>2, <3>4
    <3> QED BY <3>3, <3>4, Zenon
  <2> QED BY <2>4, <2>5, Zenon
<1> HIDE DEF best
<1>4. PICK k : k = CHOOSE i \in S : best(i)
  BY Zenon
<1>5. k \in S /\ best(k)
  BY <1>3, <1>4, Zenon
<1>6. \A j \in S : MerchantsOn(k) <= MerchantsOn(j)
  BY <1>2, <1>5 DEF best
<1>7. pickLeastLoadedShard = k
  BY <1>4, Zenon DEF pickLeastLoadedShard, best, S
<1> QED BY <1>5, <1>6, <1>7, Zenon DEF S
----------------------------------------------------------------------------
\* A non-empty set of naturals that has a bound has a greatest element.
LEMMA GreatestNat ==
  ASSUME NEW N \in Nat, NEW T, T \subseteq 0..N, T # {}
  PROVE  \E x \in T : \A y \in T : y <= x
<1>0. \A t \in T : t \in Nat
  OBVIOUS
<1> DEFINE U == {N - y : y \in T}
<1>1. U \subseteq Nat /\ U # {}
  <2>1. \A y \in T : N - y \in Nat
    OBVIOUS
  <2>2. PICK y \in T : TRUE
    BY Zenon
  <2>3. N - y \in U
    BY Zenon
  <2> QED BY <2>1, <2>3, Zenon
<1>2. PICK u \in U : \A v \in U : u <= v
  <2> HIDE DEF U
  <2> QED BY <1>1, LeastNat, Zenon
<1>3. PICK x \in T : u = N - x
  BY Zenon
<1>4. ASSUME NEW y \in T PROVE y <= x
  <2>1. N - x <= N - y
    BY <1>2, <1>3, Zenon
  <2> HIDE DEF U
  <2>2. x \in Nat /\ y \in Nat
    BY <1>0, Zenon
  <2>3. \A i, j, k \in Nat : k - i <= k - j => j <= i
    OBVIOUS
  <2> QED BY <2>1, <2>2, <2>3, Zenon
<1> QED BY <1>4, Zenon

\* Concatenation, entry by entry.
LEMMA ConcatAt ==
  ASSUME NEW S, NEW a \in Seq(S), NEW b \in Seq(S)
  PROVE  /\ a \o b \in Seq(S) /\ Len(a \o b) = Len(a) + Len(b)
         /\ \A j \in 1..Len(a) : (a \o b)[j] = a[j]
         /\ \A j \in 1..Len(b) : (a \o b)[Len(a) + j] = b[j]
OBVIOUS

\* d is s with x behind its k-th entry, the last one that stays before x.
SunkAt(s, x, k, d) ==
  /\ k > 0 => Stays(s[k], x)
  /\ \A j \in (k + 1)..Len(s) : ~ Stays(s[j], x)
  /\ Len(d) = Len(s) + 1
  /\ \A j \in 1..(Len(s) + 1) :
       d[j] = IF j <= k THEN s[j] ELSE IF j = k + 1 THEN x ELSE s[j - 1]

\* One step of the insertion sort: the entry comes to rest after the last one
\* that stays before it, and the others keep their order.
LEMMA SinkAt ==
  ASSUME NEW S, NEW s \in Seq(S), NEW x \in S
  PROVE  Sink(s, x) \in Seq(S) /\ \E k \in 0..Len(s) : SunkAt(s, x, k, Sink(s, x))
<1> DEFINE stops == {j \in 1..Len(s) : Stays(s[j], x)}
<1> DEFINE k == IF stops = {} THEN 0 ELSE CHOOSE j \in stops : \A i \in stops : i <= j
<1>1. Len(s) \in Nat /\ stops \subseteq 0..Len(s)
  OBVIOUS
<1>2. k \in 0..Len(s) /\ (k > 0 => k \in stops) /\ \A i \in stops : i <= k
  <2>1. CASE stops = {}
    BY <1>1, <2>1
  <2>2. CASE stops # {}
    <3> HIDE DEF stops
    <3>1. \E j \in stops : \A i \in stops : i <= j
      BY <1>1, <2>2, GreatestNat, Zenon
    <3>2. PICK z : z = CHOOSE j \in stops : \A i \in stops : i <= j
      BY Zenon
    <3>3. z \in stops /\ \A i \in stops : i <= z
      BY <3>1, <3>2, Zenon
    <3>4. k = z
      BY <2>2, <3>2, Zenon
    <3> HIDE DEF k
    <3> QED BY <1>1, <3>3, <3>4, Zenon
  <2> QED BY <2>1, <2>2, Zenon
<1>3. Sink(s, x) = SubSeq(s, 1, k) \o <<x>> \o SubSeq(s, k + 1, Len(s))
  BY Zenon DEF Sink
<1> HIDE DEF k
<1>4. (k > 0 => Stays(s[k], x)) /\ \A j \in (k + 1)..Len(s) : ~ Stays(s[j], x)
  BY <1>1, <1>2
<1> HIDE DEF stops
<1>5. PICK a : a = SubSeq(s, 1, k)
  BY Zenon
<1>6. a \in Seq(S) /\ Len(a) = k /\ \A j \in 1..k : a[j] = s[j]
  BY <1>1, <1>2, <1>5
<1>7. PICK b : b = SubSeq(s, k + 1, Len(s))
  BY Zenon
<1>8. b \in Seq(S) /\ Len(b) = Len(s) - k /\ \A j \in 1..(Len(s) - k) : b[j] = s[k + j]
  BY <1>1, <1>2, <1>7
<1>9. PICK c : c = a \o <<x>>
  BY Zenon
<1>10. <<x>> \in Seq(S) /\ Len(<<x>>) = 1 /\ <<x>>[1] = x
  OBVIOUS
<1>11. c \in Seq(S) /\ Len(c) = k + 1 /\ c[k + 1] = x /\ \A j \in 1..k : c[j] = s[j]
  BY <1>2, <1>6, <1>9, <1>10, ConcatAt
<1>12. PICK d : d = c \o b
  BY Zenon
<1>13. d \in Seq(S) /\ Len(d) = (k + 1) + (Len(s) - k) /\ (\A j \in 1..(k + 1) : d[j] = c[j])
       /\ \A j \in 1..(Len(s) - k) : d[(k + 1) + j] = b[j]
  <2>1. /\ d \in Seq(S) /\ Len(d) = Len(c) + Len(b) /\ (\A j \in 1..Len(c) : d[j] = c[j])
        /\ \A j \in 1..Len(b) : d[Len(c) + j] = b[j]
    <3>1. b \in Seq(S) /\ c \in Seq(S)
      BY <1>8, <1>11, Zenon
    <3>2. /\ c \o b \in Seq(S) /\ Len(c \o b) = Len(c) + Len(b) /\ (\A j \in 1..Len(c) : (c \o b)[j] = c[j])
          /\ \A j \in 1..Len(b) : (c \o b)[Len(c) + j] = b[j]
      BY <3>1, ConcatAt
    <3> QED BY <1>12, <3>2, Zenon
  <2>2. Len(c) = k + 1 /\ Len(b) = Len(s) - k
    BY <1>8, <1>11, Zenon
  <2> QED BY <2>1, <2>2, Zenon
<1>14. Sink(s, x) = d
  BY <1>3, <1>5, <1>7, <1>9, <1>12, Zenon
<1>15. ASSUME NEW j \in 1..(Len(s) + 1)
       PROVE  d[j] = IF j <= k THEN s[j] ELSE IF j = k + 1 THEN x ELSE s[j - 1]
  <2>1. CASE j <= k + 1
    BY <1>1, <1>2, <1>11, <1>13, <2>1
  <2>2. CASE j > k + 1
    <3>1. PICK h : h = j - (k + 1)
      BY Zenon
    <3>2. h \in 1..(Len(s) - k) /\ k + h = j - 1 /\ (k + 1) + h = j
      BY <1>1, <1>2, <2>2, <3>1
    <3>3. d[j] = s[j - 1]
      BY <1>8, <1>13, <3>2, Zenon
    <3> QED BY <1>1, <1>2, <2>2, <3>3
  <2> QED BY <1>1, <1>2, <2>1, <2>2
<1>16. d \in Seq(S) /\ Len(d) = Len(s) + 1
  BY <1>1, <1>2, <1>13
<1>17. SunkAt(s, x, k, d)
  BY <1>4, <1>15, <1>16, Zenon DEF SunkAt
<1> QED BY <1>2, <1>14, <1>16, <1>17, Zenon

\* One step of the insertion sort returns entries it was given.
LEMMA SinkSeq ==
  ASSUME NEW S, NEW s \in Seq(S), NEW x \in S
  PROVE  Sink(s, x) \in Seq(S)
BY SinkAt, Zenon

\* The insertion sort sinks the entries of its argument one after the other.
LEMMA SortSteps ==
  ASSUME NEW S, NEW s \in Seq(S)
  PROVE  \E r \in [0..Len(s) -> Seq(S)] :
           /\ r[0] = <<>> /\ \A i \in 1..Len(s) : r[i] = Sink(r[i - 1], s[i])
           /\ sortTransactionsByCreatedAt(s) = r[Len(s)]
<1> DEFINE N == Len(s)
<1> DEFINE P(k) == \E g \in [0..k -> Seq(S)] :
                     g[0] = <<>> /\ \A i \in 1..k : g[i] = Sink(g[i - 1], s[i])
<1> DEFINE Eq(g) == g = [i \in 0..N |-> IF i = 0 THEN <<>> ELSE Sink(g[i - 1], s[i])]
<1>1. N \in Nat /\ \A i \in 1..N : s[i] \in S
  OBVIOUS
<1> HIDE DEF N
<1>2. \A k \in 0..N : P(k)
  <2> SUFFICES ASSUME ~ (\A k \in 0..N : P(k)) PROVE FALSE
    BY Zenon
  <2> DEFINE T == {k \in 0..N : ~ P(k)}
  <2>1. T \subseteq Nat /\ T # {}
    <3> HIDE DEF P
    <3> QED BY <1>1
  <2>2. PICK k \in T : \A y \in T : k <= y
    <3> HIDE DEF T
    <3> QED BY <2>1, LeastNat, Zenon
  <2>3. k \in 0..N /\ ~ P(k)
    BY Zenon
  <2>4. CASE k = 0
    <3> DEFINE g == [i \in 0..0 |-> <<>>]
    <3>1. g \in [0..0 -> Seq(S)] /\ g[0] = <<>> /\ 1..0 = {}
      OBVIOUS
    <3>2. P(0)
      <4> HIDE DEF g
      <4> QED BY <3>1, Zenon
    <3> QED BY <2>3, <2>4, <3>2, Zenon
  <2>5. CASE k # 0
    <3>1. k - 1 \in 0..N /\ k - 1 \notin T
      <4> HIDE DEF T
      <4> QED BY <1>1, <2>2, <2>3, <2>5
    <3>2. P(k - 1)
      <4> HIDE DEF P
      <4> QED BY <3>1, Zenon
    <3>3. PICK g \in [0..(k - 1) -> Seq(S)] :
            g[0] = <<>> /\ \A i \in 1..(k - 1) : g[i] = Sink(g[i - 1], s[i])
      BY <3>2, Zenon
    <3>4. Sink(g[k - 1], s[k]) \in Seq(S)
      BY <1>1, <2>3, <2>5, <3>3, SinkSeq
    <3> DEFINE h == [i \in 0..k |-> IF i = k THEN Sink(g[k - 1], s[k]) ELSE g[i]]
    <3>5. h \in [0..k -> Seq(S)]
      BY <2>3, <3>3, <3>4
    <3>6. h[0] = <<>>
      BY <2>3, <2>5, <3>3
    <3>7. ASSUME NEW i \in 1..k PROVE h[i] = Sink(h[i - 1], s[i])
      <4>1. h[i - 1] = g[i - 1]
        BY <2>3
      <4>2. CASE i = k
        BY <2>3, <4>1, <4>2
      <4>3. CASE i # k
        <5>1. i \in 1..(k - 1) /\ h[i] = g[i]
          BY <2>3, <4>3
        <5> QED BY <3>3, <4>1, <5>1, Zenon
      <4> QED BY <4>2, <4>3, Zenon
    <3> HIDE DEF h
    <3> QED BY <2>3, <3>5, <3>6, <3>7, Zenon
  <2> QED BY <2>4, <2>5, Zenon
<1>3. \E g : Eq(g)
  <2>1. PICK g \in [0..N -> Seq(S)] :
          g[0] = <<>> /\ \A i \in 1..N : g[i] = Sink(g[i - 1], s[i])
    <3>1. P(N)
      <4> HIDE DEF P
      <4> QED BY <1>1, <1>2
    <3> QED BY <3>1, Zenon
  <2>2. \A i \in 0..N : g[i] = IF i = 0 THEN <<>> ELSE Sink(g[i - 1], s[i])
    BY <1>1, <2>1
  <2>3. g = [i \in 0..N |-> g[i]]
    BY <2>1, Zenon
  <2> QED BY <2>2, <2>3, Zenon
<1> DEFINE r == CHOOSE g : Eq(g)
<1>4. Eq(r)
  BY <1>3, Zenon
<1>5. sortTransactionsByCreatedAt(s) = r[N]
  BY Zenon DEF sortTransactionsByCreatedAt, N
<1> HIDE DEF r
<1>6. r[0] = <<>> /\ \A i \in 1..N : r[i] = Sink(r[i - 1], s[i])
  BY <1>1, <1>4
<1>7. ASSUME NEW e \in 0..N PROVE r[e] \in Seq(S)
  <2> SUFFICES ASSUME r[e] \notin Seq(S) PROVE FALSE
    BY Zenon
  <2> DEFINE T == {i \in 0..N : r[i] \notin Seq(S)}
  <2>1. T \subseteq Nat /\ e \in T
    BY <1>1
  <2>2. PICK k \in T : \A y \in T : k <= y
    <3> HIDE DEF T
    <3> QED BY <2>1, LeastNat, Zenon
  <2>3. k \in 0..N /\ k # 0
    <3>1. k \in 0..N /\ r[k] \notin Seq(S)
      BY Zenon
    <3>2. r[0] \in Seq(S)
      BY <1>6
    <3> QED BY <3>1, <3>2, Zenon
  <2>4. k \in 1..N /\ k - 1 \in 0..N /\ k - 1 \notin T
    <3> HIDE DEF T
    <3> QED BY <1>1, <2>2, <2>3
  <2>5. r[k - 1] \in Seq(S) /\ s[k] \in S
    BY <1>1, <2>4, Zenon
  <2>6. r[k] \in Seq(S)
    BY <1>6, <2>4, <2>5, SinkSeq, Zenon
  <2> QED BY <2>6, Zenon
<1>8. r = [i \in 0..N |-> r[i]]
  BY <1>4, Zenon
<1>9. r \in [0..N -> Seq(S)]
  BY <1>7, <1>8, Zenon
<1> QED BY <1>5, <1>6, <1>9, Zenon DEF N

\* The insertion sort returns rows of its argument and no other.
LEMMA SortSeq_ ==
  ASSUME NEW S, NEW s \in Seq(S)
  PROVE  sortTransactionsByCreatedAt(s) \in Seq(S)
<1>1. PICK r \in [0..Len(s) -> Seq(S)] : sortTransactionsByCreatedAt(s) = r[Len(s)]
  BY SortSteps, Zenon
<1> QED BY <1>1
----------------------------------------------------------------------------
(***************************************************************************)
(* The inductive invariant.  Booted says that the numbers in boot are the  *)
(* ones the configuration gives; before the first start there is nothing   *)
(* they could be wrong about.  Stored are the transactions read from a row *)
(* that is still where the shard stamped on them routes.                   *)
(***************************************************************************)
Booted ==
  /\ boot.L = shardCount(boot.raw)
  /\ boot.n = poolCount(boot.shards)
  /\ validate(boot.L, boot.shards, boot.dsn)

BootRec == [pc: {"load", "check", "opening", "up", "failed", "refused"}, raw: RawCounts,
            shards: ShardLists, dsn: BOOLEAN, L: Int, n: Int]

BootInv ==
  /\ boot \in BootRec
  /\ boot.pc \in {"check", "opening", "up", "failed"} => Booted
  /\ boot.pc # "up" => /\ \A a \in Admins : admin[a].pc = "idle"
                       /\ \A c \in Callers : caller[c] = IdleCaller
  /\ Booted \/ (rows = {} /\ \A m \in Merchants : shardOf[m] = None)

OpenInv ==
  /\ boot.pc \in {"load", "check", "failed", "refused"} => open = {}
  /\ boot.pc = "opening" => \E k \in 0..(n - 1) : open = 0..(k - 1)
  /\ Up => open = Pools(n)

MerchantInv ==
  /\ shardOf \in [Merchants -> Logical(L) \cup {None}]
  /\ admin \in [Admins -> {IdleAdmin} \cup [pc: {"insert"}, merchant: Merchants, shard: Logical(L)]]

RowInv == rows \subseteq Row /\ IsFiniteSet(rows) /\ RowsAtHome /\ OneRowPerOrder

Reads == {scanTransaction(r, i) : r \in Row, i \in 0..255}

HasRow(t) ==
  \E r \in rows : r.pool = For(L, n, t.shard) /\ r.merchant = t.merchant /\ r.order = t.order

Stored == {t \in Reads : HasRow(t)}

CallerPC == {"idle", "wait", "found", "listed", "writing", "missed", "failed"}

CallerRec == [pc: CallerPC, query: Queries \cup {NoQuery}, waiting: SUBSET Pools(n),
              err: BOOLEAN, got: Seq(Stored), due: SUBSET (Nat \X Merchants \X Orders)]

\* A lookup in progress, no pool having failed, has still to hear from the pool
\* of every row that was there when it began.
Covered(x) ==
  x.pc = "wait" /\ x.query.kind \in {"order", "intent"} /\ ~ x.err =>
    \A k \in x.due : k[1] \in x.waiting /\ \E r \in Selected(x.query) : Key(r) = k

CallerInv ==
  /\ caller \in [Callers -> CallerRec]
  /\ \A c \in Callers : Covered(caller[c])
  /\ \A c \in Callers : caller[c].pc = "missed" => caller[c].due = {}

IInv == BootInv /\ OpenInv /\ MerchantInv /\ RowInv /\ CallerInv /\ clock \in Nat

----------------------------------------------------------------------------
\* A booted router has the shape of OpenShards.
LEMMA BootedShape ==
  ASSUME boot \in BootRec, Booted
  PROVE  Shape(L, n) /\ openable(L, boot.shards)
<1>1. boot.raw \in Int /\ boot.shards \in Nat /\ boot.dsn \in BOOLEAN
  BY RoutingAssumption, Zenon DEF BootRec
<1>2. validate(shardCount(boot.raw), boot.shards, boot.dsn)
  BY Zenon DEF Booted
<1>3. Shape(shardCount(boot.raw), poolCount(boot.shards)) /\ openable(shardCount(boot.raw), boot.shards)
  BY <1>1, <1>2, ValidatedOpens, Zenon
<1> QED BY <1>3, Zenon DEF Booted, L, n

\* The initial states satisfy the invariant.
LEMMA InitIInv == Init => IInv
<1> SUFFICES ASSUME Init PROVE IInv
  BY Zenon
<1>1. BootInv
  BY DEF Init, BootInv, BootRec, IdleAdmin
<1>2. OpenInv
  BY Zenon DEF Init, OpenInv, Up
<1>3. MerchantInv
  BY Zenon DEF Init, MerchantInv
<1>4. RowInv
  BY FS_EmptySet, Zenon DEF Init, RowInv, RowsAtHome, OneRowPerOrder
<1>5. IdleCaller \in CallerRec
  <2>1. <<>> \in Seq(Stored)
    OBVIOUS
  <2> QED BY <2>1, Zenon DEF IdleCaller, CallerRec, CallerPC
<1>6. CallerInv
  BY <1>5, Zenon DEF Init, CallerInv, Covered, IdleCaller
<1>7. clock \in Nat
  BY Zenon DEF Init
<1> QED BY <1>1, <1>2, <1>3, <1>4, <1>6, <1>7, Zenon DEF IInv

\* The start-up actions keep the shards and the pools of a database in use.
LEMMA LoadStep ==
  ASSUME IInv, Load
  PROVE  /\ boot' \in BootRec
         /\ boot'.pc = "check" => Booted'
         /\ Booted => boot'.L = boot.L /\ boot'.n = boot.n /\ Booted'
         /\ boot'.pc \in {"check", "refused"}
<1>1. boot \in BootRec
  BY Zenon DEF IInv, BootInv
<1> DEFINE l == shardCount(boot.raw)
<1>2. l \in Int /\ poolCount(boot.shards) \in Int
  <2>1. boot.raw \in Int /\ boot.shards \in Nat
    BY <1>1, RoutingAssumption, Zenon DEF BootRec
  <2> QED BY <2>1 DEF shardCount, poolCount
<1> HIDE DEF l
<1>3. boot' = IF validate(l, boot.shards, boot.dsn)
               THEN [boot EXCEPT !.pc = "check", !.L = l, !.n = poolCount(boot.shards)]
               ELSE [boot EXCEPT !.pc = "refused"]
  BY Zenon DEF Load, l
<1>4. CASE validate(l, boot.shards, boot.dsn)
  BY <1>1, <1>2, <1>3, <1>4, Zenon DEF BootRec, Booted, l
<1>5. CASE ~ validate(l, boot.shards, boot.dsn)
  BY <1>1, <1>2, <1>3, <1>5, Zenon DEF BootRec, Booted, l
<1> QED BY <1>4, <1>5, Zenon
\* No row is deleted, moved or loses its payment intent.
KeysKept ==
  \A r \in rows : \E q \in rows' :
    q.pool = r.pool /\ q.merchant = r.merchant /\ q.order = r.order /\ (r.pi => q.pi)

\* A sequence over a set is one over a larger set.
LEMMA SeqMono ==
  ASSUME NEW S, NEW T, S \subseteq T, NEW s \in Seq(S)
  PROVE  s \in Seq(T)
OBVIOUS

\* What a lookup has collected stays true while rows are only added or rewritten.
LEMMA CallerKept ==
  ASSUME L' = L, n' = n, KeysKept
  PROVE  /\ Stored \subseteq Stored'
         /\ \A x \in CallerRec : x \in CallerRec' /\ (Covered(x) => Covered(x)')
<1>1. Stored \subseteq Stored'
  <2> SUFFICES ASSUME NEW t \in Reads, HasRow(t) PROVE HasRow(t)'
    <3>1. Reads' = Reads
      BY Zenon
    <3> QED BY <3>1, Zenon DEF Stored
  <2>1. PICK r \in rows : r.pool = For(L, n, t.shard) /\ r.merchant = t.merchant /\ r.order = t.order
    BY Zenon DEF HasRow
  <2>2. PICK q \in rows' : q.pool = r.pool /\ q.merchant = r.merchant /\ q.order = r.order
    BY Zenon DEF KeysKept
  <2> QED BY <2>1, <2>2, Zenon DEF HasRow
<1>2. ASSUME NEW x \in CallerRec
      PROVE  x \in CallerRec'
  <2>1. x.got \in Seq(Stored')
    BY <1>1, SeqMono, Zenon DEF CallerRec
  <2> QED BY <2>1, Zenon DEF CallerRec
<1>3. ASSUME NEW x \in CallerRec, Covered(x)
      PROVE  Covered(x)'
  <2> SUFFICES ASSUME x.pc = "wait", x.query.kind \in {"order", "intent"}, ~ x.err,
                      NEW k \in x.due
               PROVE  k[1] \in x.waiting /\ \E q \in Selected(x.query)' : Key(q) = k
    BY Zenon DEF Covered
  <2>1. k[1] \in x.waiting /\ \E r \in Selected(x.query) : Key(r) = k
    BY <1>3, Zenon DEF Covered
  <2>2. PICK r \in Selected(x.query) : Key(r) = k
    BY <2>1, Zenon
  <2>3. r \in rows
    BY Zenon DEF Selected
  <2>4. PICK q \in rows' : q.pool = r.pool /\ q.merchant = r.merchant /\ q.order = r.order /\ (r.pi => q.pi)
    BY <2>3, Zenon DEF KeysKept
  <2>5. Key(q) = k
    BY <2>2, <2>4, Zenon DEF Key
  <2>6. q \in Selected(x.query)'
    BY <2>2, <2>4, Zenon DEF Selected
  <2> QED BY <2>1, <2>5, <2>6, Zenon
<1> QED BY <1>1, <1>2, <1>3, Zenon
\* An UPDATE that leaves the keys and keeps the intents of the rows it changes
\* keeps the rows at home, one per order.
LEMMA RowsWritten ==
  ASSUME RowInv, UNCHANGED <<boot, shardOf>>, NEW A \in SUBSET rows, NEW h \in [A -> Row],
         \A r \in A : /\ h[r].pool = r.pool /\ h[r].merchant = r.merchant
                      /\ h[r].order = r.order /\ (r.pi => h[r].pi),
         rows' = (rows \ A) \cup {h[r] : r \in A}
  PROVE  RowInv' /\ KeysKept
<1>1. KeysKept
  <2> SUFFICES ASSUME NEW r \in rows
               PROVE  \E q \in rows' : q.pool = r.pool /\ q.merchant = r.merchant
                                       /\ q.order = r.order /\ (r.pi => q.pi)
    BY Zenon DEF KeysKept
  <2>1. CASE r \in A
    BY <2>1, Zenon
  <2>2. CASE r \notin A
    BY <2>2, Zenon
  <2> QED BY <2>1, <2>2, Zenon
<1>2. \A q \in rows' : \E r \in rows :
        /\ q.pool = r.pool /\ q.merchant = r.merchant /\ q.order = r.order
        /\ q = IF r \in A THEN h[r] ELSE r
  BY Zenon
<1>3. rows' \subseteq Row
  BY Zenon DEF RowInv
<1>4. RowsAtHome'
  <2> SUFFICES ASSUME NEW q \in rows'
               PROVE  shardOf[q.merchant] # None /\ q.pool = For(L, n, shardOf[q.merchant])
    BY Zenon DEF RowsAtHome, L, n
  <2> QED BY <1>2 DEF RowInv, RowsAtHome
<1>5. OneRowPerOrder'
  <2> SUFFICES ASSUME NEW q \in rows', NEW p \in rows', q.merchant = p.merchant, q.order = p.order
               PROVE  q = p
    BY Zenon DEF OneRowPerOrder
  <2>1. PICK r \in rows : q.merchant = r.merchant /\ q.order = r.order /\ q = IF r \in A THEN h[r] ELSE r
    BY <1>2, Zenon
  <2>2. PICK s \in rows : p.merchant = s.merchant /\ p.order = s.order /\ p = IF s \in A THEN h[s] ELSE s
    BY <1>2, Zenon
  <2>3. r = s
    <3>1. r.merchant = s.merchant /\ r.order = s.order
      BY <2>1, <2>2, Zenon
    <3>2. OneRowPerOrder
      BY Zenon DEF RowInv
    <3> QED BY <3>1, <3>2, Zenon DEF OneRowPerOrder
  <2> QED BY <2>1, <2>2, <2>3, Zenon
<1>6. IsFiniteSet(rows')
  <2> DEFINE g == [r \in rows |-> IF r \in A THEN h[r] ELSE r]
  <2>1. g \in Surjection(rows, rows')
    BY Zenon DEF Surjection
  <2> HIDE DEF g
  <2>2. IsFiniteSet(rows)
    BY Zenon DEF RowInv
  <2> QED BY <2>1, <2>2, FS_Surjection, Zenon
<1> QED BY <1>1, <1>3, <1>4, <1>5, <1>6, Zenon DEF RowInv

\* Start-up preserves the invariant.
LEMMA BootStep ==
  ASSUME IInv, Load \/ CheckShards \/ OpenPool \/ OpenPoolFails \/ Restart
  PROVE  IInv'
<1> USE DEF IInv
<1>1. boot \in BootRec /\ UNCHANGED <<rows, shardOf>>
  BY Zenon DEF BootInv, Load, CheckShards, OpenPool, OpenPoolFails, Restart
<1>2. /\ boot' \in BootRec
      /\ boot'.pc \in {"check", "opening", "up", "failed"} => Booted'
      /\ Booted => boot'.L = boot.L /\ boot'.n = boot.n /\ Booted'
  <2>1. CASE Load
    BY <2>1, LoadStep, Zenon
  <2>2. CASE CheckShards
    <3>1. boot.pc = "check" /\ Booted
      BY <2>2, Zenon DEF CheckShards, BootInv
    <3>2. openable(L, boot.shards)
      BY <1>1, <3>1, BootedShape, Zenon
    <3>3. boot' = [boot EXCEPT !.pc = "opening"]
      BY <2>2, <3>2, Zenon DEF CheckShards
    <3> QED BY <1>1, <3>1, <3>3, Zenon DEF BootRec, Booted
  <2>3. CASE OpenPool
    <3>1. Booted
      BY <2>3, Zenon DEF OpenPool, BootInv
    <3> QED BY <1>1, <2>3, <3>1, Zenon DEF OpenPool, BootRec, Booted
  <2>4. CASE OpenPoolFails
    <3>1. Booted
      BY <2>4, Zenon DEF OpenPoolFails, BootInv
    <3> QED BY <1>1, <2>4, <3>1, Zenon DEF OpenPoolFails, BootRec, Booted
  <2>5. CASE Restart
    <3>1. Booted
      BY <2>5, Zenon DEF Restart, BootInv
    <3> QED BY <1>1, <2>5, <3>1, Zenon DEF Restart, BootRec, Booted
  <2> QED BY <2>1, <2>2, <2>3, <2>4, <2>5, Zenon
<1>3. /\ \A a \in Admins : admin'[a].pc = "idle"
      /\ admin' \in [Admins -> {IdleAdmin}]
      /\ caller' = [c \in Callers |-> IdleCaller]
  <2>1. CASE Restart
    BY <2>1, Zenon DEF Restart, IdleAdmin
  <2>2. CASE Load \/ CheckShards \/ OpenPool \/ OpenPoolFails
    <3>1. boot.pc # "up" /\ UNCHANGED <<admin, caller>>
      BY <2>2, Zenon DEF Load, CheckShards, OpenPool, OpenPoolFails
    <3>2. (\A a \in Admins : admin[a].pc = "idle") /\ \A c \in Callers : caller[c] = IdleCaller
      BY <3>1, Zenon DEF BootInv
    <3>3. admin \in [Admins -> {IdleAdmin} \cup [pc: {"insert"}, merchant: Merchants, shard: Logical(L)]]
      BY Zenon DEF MerchantInv
    <3>4. \A a \in Admins : admin[a] = IdleAdmin
      BY <3>2, <3>3, Zenon
    <3>5. caller = [c \in Callers |-> caller[c]]
      BY Zenon DEF CallerInv
    <3> QED BY <3>1, <3>2, <3>3, <3>4, <3>5, Zenon
  <2> QED BY <2>1, <2>2, Zenon
<1>4. BootInv'
  BY <1>1, <1>2, <1>3, Zenon DEF BootInv
<1>5. OpenInv'
  <2>1. CASE Load
    BY <2>1, LoadStep, Zenon DEF Load, OpenInv, Up
  <2>2. CASE CheckShards
    <3>1. boot.pc = "check" /\ Booted
      BY <2>2, Zenon DEF CheckShards, BootInv
    <3>2. Shape(L, n) /\ openable(L, boot.shards)
      BY <1>1, <3>1, BootedShape, Zenon
    <3>3. boot' = [boot EXCEPT !.pc = "opening"] /\ open' = {}
      BY <2>2, <3>2, Zenon DEF CheckShards, OpenInv
    <3>4. boot'.pc = "opening" /\ n' = n
      BY <1>1, <3>3, Zenon DEF BootRec, n
    <3>5. 0 \in 0..(n - 1) /\ {} = 0..(0 - 1)
      BY <3>2 DEF Shape
    <3> QED BY <3>3, <3>4, <3>5, Zenon DEF OpenInv, Up
  <2>3. CASE OpenPool
    <3>1. PICK k \in 0..(n - 1) : open = 0..(k - 1)
      BY <2>3, Zenon DEF OpenPool, OpenInv
    <3>2. n \in Int
      BY <1>1, Zenon DEF BootRec, n
    <3>3. Cardinality(open) = k
      BY <3>1, <3>2, FS_Interval
    <3>4. open' = 0..k
      BY <2>3, <3>1, <3>2, <3>3 DEF OpenPool
    <3>5. boot'.pc = (IF 0..k = Pools(n) THEN "up" ELSE "opening") /\ n' = n
      BY <1>1, <2>3, <3>4, Zenon DEF OpenPool, BootRec, n
    <3>6. CASE 0..k = Pools(n)
      BY <3>4, <3>5, <3>6, Zenon DEF OpenInv, Up, Pools
    <3>7. CASE 0..k # Pools(n)
      <4>1. k # n - 1
        BY <3>2, <3>7, Zenon DEF Pools
      <4>2. k + 1 \in 0..(n - 1) /\ 0..k = 0..((k + 1) - 1)
        BY <3>2, <4>1
      <4> QED BY <3>4, <3>5, <3>7, <4>2, Zenon DEF OpenInv, Up
    <3> QED BY <3>6, <3>7, Zenon
  <2>4. CASE OpenPoolFails \/ Restart
    BY <1>1, <2>4, Zenon DEF OpenPoolFails, Restart, BootRec, OpenInv, Up
  <2> QED BY <2>1, <2>2, <2>3, <2>4, Zenon
<1>6. MerchantInv'
  <2>1. shardOf' \in [Merchants -> Logical(L') \cup {None}]
    <3>1. CASE Booted
      BY <1>1, <1>2, <3>1, Zenon DEF MerchantInv, L
    <3>2. CASE ~ Booted
      BY <1>1, <3>2, Zenon DEF BootInv, MerchantInv
    <3> QED BY <3>1, <3>2, Zenon
  <2> QED BY <1>3, <2>1, Zenon DEF MerchantInv
<1>7. RowInv'
  <2>1. CASE Booted
    BY <1>1, <1>2, <2>1, Zenon DEF RowInv, RowsAtHome, OneRowPerOrder, L, n
  <2>2. CASE ~ Booted
    <3>1. rows' = {}
      BY <1>1, <2>2, Zenon DEF BootInv
    <3> QED BY <3>1, FS_EmptySet, Zenon DEF RowInv, RowsAtHome, OneRowPerOrder
  <2> QED BY <2>1, <2>2, Zenon
<1>8. CallerInv'
  <2>1. IdleCaller \in CallerRec'
    <3>1. <<>> \in Seq(Stored')
      OBVIOUS
    <3> QED BY <3>1, Zenon DEF IdleCaller, CallerRec, CallerPC
  <2> QED BY <1>3, <2>1, Zenon DEF CallerInv, Covered, IdleCaller
<1>9. clock' = clock
  BY Zenon DEF Load, CheckShards, OpenPool, OpenPoolFails, Restart
<1> QED BY <1>4, <1>5, <1>6, <1>7, <1>8, <1>9, Zenon
\* The creation of merchants preserves the invariant: a shard that was written
\* stays.
LEMMA MerchantStep ==
  ASSUME IInv, NEW a \in Admins, InsertMerchant(a) \/ \E m \in Merchants : Create(a, m)
  PROVE  IInv'
<1> USE DEF IInv
<1>1. UNCHANGED <<boot, open, rows, caller, clock>> /\ L' = L /\ n' = n
  BY Zenon DEF InsertMerchant, Create, L, n
<1>2. Up /\ Booted /\ Shape(L, n)
  <2>1. Up
    BY Zenon DEF Up, InsertMerchant, Create, BootInv
  <2>2. Booted /\ boot \in BootRec
    BY <2>1, Zenon DEF BootInv, Up
  <2> QED BY <2>1, <2>2, BootedShape, Zenon
<1>3. MerchantInv' /\ \A m \in Merchants : shardOf[m] # None => shardOf'[m] = shardOf[m]
  <2>1. ASSUME NEW m \in Merchants, Create(a, m)
        PROVE  MerchantInv' /\ shardOf' = shardOf
    <3>1. pickLeastLoadedShard \in Logical(L)
      BY <1>2, PickInRange, Zenon DEF Shape
    <3> QED BY <1>1, <2>1, <3>1, Zenon DEF MerchantInv, Create
  <2>2. ASSUME InsertMerchant(a)
        PROVE  MerchantInv' /\ \A m \in Merchants : shardOf[m] # None => shardOf'[m] = shardOf[m]
    <3>1. admin[a] \in [pc: {"insert"}, merchant: Merchants, shard: Logical(L)]
      BY <2>2 DEF InsertMerchant, MerchantInv, IdleAdmin
    <3>2. admin' \in [Admins -> {IdleAdmin} \cup [pc: {"insert"}, merchant: Merchants, shard: Logical(L)]]
      BY <2>2, Zenon DEF InsertMerchant, MerchantInv
    <3>3. shardOf' \in [Merchants -> Logical(L) \cup {None}]
      BY <2>2, <3>1, Zenon DEF InsertMerchant, MerchantInv
    <3>4. \A m \in Merchants : shardOf[m] # None => shardOf'[m] = shardOf[m]
      BY <2>2, <3>1, Zenon DEF InsertMerchant, MerchantInv
    <3> QED BY <1>1, <3>2, <3>3, <3>4, Zenon DEF MerchantInv
  <2> QED BY <2>1, <2>2, Zenon
<1>4. BootInv'
  BY <1>1, <1>2, Zenon DEF BootInv, Up, Booted
<1>5. OpenInv'
  BY <1>1, Zenon DEF OpenInv, Up
<1>6. RowInv'
  <2>1. RowsAtHome'
    BY <1>1, <1>3, Zenon DEF RowInv, RowsAtHome, Row
  <2> QED BY <1>1, <2>1, Zenon DEF RowInv, OneRowPerOrder
<1>7. CallerInv'
  <2>1. KeysKept
    BY <1>1, Zenon DEF KeysKept
  <2> QED BY <1>1, <2>1, CallerKept, Zenon DEF CallerInv
<1> QED BY <1>1, <1>3, <1>4, <1>5, <1>6, <1>7, Zenon

\* A request that changes rows only preserves the invariant if it keeps the
\* rows' own part of it and their keys.
LEMMA RowFrame ==
  ASSUME IInv, Up, UNCHANGED <<boot, open, shardOf, admin, caller, clock>>, RowInv', KeysKept
  PROVE  IInv'
<1> USE DEF IInv
<1>1. L' = L /\ n' = n
  BY Zenon DEF L, n
<1>2. BootInv'
  BY Zenon DEF BootInv, Up, Booted
<1>3. OpenInv' /\ MerchantInv'
  BY <1>1, Zenon DEF OpenInv, MerchantInv, Up
<1>4. CallerInv'
  BY <1>1, CallerKept, Zenon DEF CallerInv
<1> QED BY <1>2, <1>3, <1>4, Zenon

\* The codes are numbers.
LEMMA Codes ==
  ASSUME NEW s
  PROVE  encodeCurrency(s) \in Int /\ encodeMethod(s) \in Int
<1>1. encodeCurrency(s) \in Int
  <2>1. CASE Fold(s) \in Currencies
    <3>1. ASSUME NEW c \in Currencies PROVE currencyToCode[c] \in Int
      BY DEF Currencies, currencyToCode
    <3> QED BY <2>1, <3>1, Zenon DEF encodeCurrency
  <2>2. CASE Fold(s) \notin Currencies
    BY <2>2 DEF encodeCurrency, Err
  <2> QED BY <2>1, <2>2, Zenon
<1>2. encodeMethod(s) \in Int
  <2>1. CASE Fold(s) \in DOMAIN methodToCode
    <3>1. ASSUME NEW c \in DOMAIN methodToCode PROVE methodToCode[c] \in Int
      BY DEF methodToCode
    <3> QED BY <2>1, <3>1, Zenon DEF encodeMethod
  <2>2. CASE Fold(s) \notin DOMAIN methodToCode
    BY <2>2 DEF encodeMethod, methodUnknown
  <2> QED BY <2>1, <2>2, Zenon
<1> QED BY <1>1, <1>2, Zenon

\* A status has a number, or the error's.
LEMMA StatusInt ==
  ASSUME NEW s
  PROVE  encodeStatus(s) \in Int
<1>1. ASSUME NEW c \in DOMAIN statusCode PROVE statusCode[c] \in Int
  BY DEF statusCode
<1> QED BY <1>1 DEF encodeStatus, Err

\* UpdateStatus leaves a row's key and keeps its payment intent.
LEMMA WrittenRow ==
  ASSUME NEW r \in Row, NEW s, NEW pi \in BOOLEAN
  PROVE  /\ Written(r, s, pi) \in Row
         /\ Written(r, s, pi).pool = r.pool /\ Written(r, s, pi).merchant = r.merchant
         /\ Written(r, s, pi).order = r.order /\ (r.pi => Written(r, s, pi).pi)
<1> DEFINE b == r.pi \/ pi
<1> DEFINE v == encodeStatus(s)
<1>1. b \in BOOLEAN
  BY Zenon
<1>2. r.pi => b
  BY Zenon
<1>3. v \in Int
  BY StatusInt, Zenon
<1>4. Written(r, s, pi) = [r EXCEPT !.status = v, !.pi = b]
  BY Zenon DEF Written
<1> HIDE DEF b, v
<1> QED BY <1>1, <1>2, <1>3, <1>4, Zenon DEF Row

\* A transaction's INSERT goes to its merchant's pool.
LEMMA InsertStep ==
  ASSUME IInv, NEW m \in Merchants, NEW o \in Orders, Insert(m, o)
  PROVE  IInv'
<1> USE DEF IInv
<1> DEFINE p == For(L, n, shardOf[m])
<1>1. Up /\ Booted /\ Shape(L, n)
  <2>1. Up /\ Booted /\ boot \in BootRec
    BY Zenon DEF Insert, BootInv, Up
  <2> QED BY <2>1, BootedShape, Zenon
<1>2. shardOf[m] \in Logical(L) /\ shardOf[m] # None
  BY Zenon DEF MerchantInv, Insert
<1>3. p \in Pools(n)
  BY <1>1, <1>2, ForInRange, Zenon
<1>4. p \in Nat
  BY <1>1, <1>3 DEF Pools, Shape
<1> HIDE DEF p
<1> DEFINE r0 == [pool |-> p, merchant |-> m, order |-> o,
                  cur |-> encodeCurrency(Material[o].currency),
                  method |-> encodeMethod(Material[o].method),
                  status |-> encodeStatus("created"), pi |-> FALSE, created |-> clock]
<1>5. rows' = rows \cup {r0} /\ At(p, m, o) = {} /\ UNCHANGED <<boot, open, shardOf, admin, caller, clock>>
  BY Zenon DEF Insert, p
<1>6. KeysKept
  BY <1>5, Zenon DEF KeysKept
<1>7. r0 \in Row
  <2>1. encodeStatus("created") \in Int
    BY DEF encodeStatus, statusCode
  <2>2. clock \in Nat
    BY Zenon
  <2> QED BY <1>4, <2>1, <2>2, Codes, Zenon DEF Row
<1>8. r0.pool = p /\ r0.merchant = m /\ r0.order = o
  BY Zenon
<1> HIDE DEF r0
<1>9. RowsAtHome'
  <2> SUFFICES ASSUME NEW r \in rows'
               PROVE  shardOf[r.merchant] # None /\ r.pool = For(L, n, shardOf[r.merchant])
    BY <1>5, Zenon DEF RowsAtHome, L, n
  <2> QED BY <1>2, <1>5, <1>8, Zenon DEF RowInv, RowsAtHome, p
<1>10. OneRowPerOrder'
  <2>1. ASSUME NEW r \in rows, r.merchant = m, r.order = o PROVE FALSE
    <3>1. r.pool = p
      BY <2>1, Zenon DEF RowInv, RowsAtHome, p
    <3> QED BY <1>5, <2>1, <3>1, Zenon DEF At
  <2> QED BY <1>5, <1>8, <2>1, Zenon DEF RowInv, OneRowPerOrder
<1>11. RowInv'
  <2>1. IsFiniteSet(rows')
    BY <1>5, FS_AddElement, Zenon DEF RowInv
  <2> QED BY <1>5, <1>7, <1>9, <1>10, <2>1, Zenon DEF RowInv
<1> QED BY <1>1, <1>5, <1>6, <1>11, RowFrame, Zenon

\* An UPDATE of a status, or of the checkout's columns, keeps the invariant.
LEMMA UpdateStep ==
  ASSUME IInv, NEW m \in Merchants, NEW o \in Orders,
         UpdateCheckout(m, o) \/ \E s \in Outcomes, pi \in BOOLEAN : UpdateStatus(m, o, s, pi)
  PROVE  IInv'
<1> USE DEF IInv
<1> DEFINE A == Affected(shardOf[m], m, o)
<1>1. A \in SUBSET rows /\ rows \subseteq Row
  BY Zenon DEF Affected, At, RowInv
<1> HIDE DEF A
<1>2. CASE UpdateCheckout(m, o)
  <2> DEFINE h == [r \in A |-> [r EXCEPT !.pi = TRUE]]
  <2>1. h \in [A -> Row]
    <3>1. \A r \in Row : [r EXCEPT !.pi = TRUE] \in Row
      BY Zenon DEF Row
    <3> QED BY <1>1, <3>1, Zenon
  <2>2. \A r \in A : h[r].pool = r.pool /\ h[r].merchant = r.merchant /\ h[r].order = r.order
                     /\ (r.pi => h[r].pi)
    BY <1>1, Zenon DEF Row
  <2>3. rows' = (rows \ A) \cup {h[r] : r \in A}
    BY <1>2, Zenon DEF UpdateCheckout, Set, A
  <2>4. Up /\ UNCHANGED <<boot, open, shardOf, admin, caller, clock>>
    BY <1>2, Zenon DEF UpdateCheckout
  <2> HIDE DEF h
  <2>5. RowInv' /\ KeysKept
    BY <1>1, <2>1, <2>2, <2>3, <2>4, RowsWritten, ZenonT(30)
  <2> QED BY <2>4, <2>5, RowFrame, Zenon
<1>3. ASSUME NEW s \in Outcomes, NEW pi \in BOOLEAN, UpdateStatus(m, o, s, pi)
      PROVE  IInv'
  <2> DEFINE h == [r \in A |-> Written(r, s, pi)]
  <2>1. h \in [A -> Row]
    BY <1>1, WrittenRow, Zenon
  <2>2. \A r \in A : h[r].pool = r.pool /\ h[r].merchant = r.merchant /\ h[r].order = r.order
                     /\ (r.pi => h[r].pi)
    BY <1>1, WrittenRow
  <2>3. rows' = (rows \ A) \cup {h[r] : r \in A}
    BY <1>3, Zenon DEF UpdateStatus, Set, A
  <2>4. Up /\ UNCHANGED <<boot, open, shardOf, admin, caller, clock>>
    BY <1>3, Zenon DEF UpdateStatus
  <2> HIDE DEF h
  <2>5. RowInv' /\ KeysKept
    BY <1>1, <2>1, <2>2, <2>3, <2>4, RowsWritten, ZenonT(30)
  <2> QED BY <2>4, <2>5, RowFrame, Zenon
<1> QED BY <1>2, <1>3, Zenon
----------------------------------------------------------------------------
\* A caller's step preserves the invariant if what it leaves in the caller is
\* right and it keeps the rows.
LEMMA CallerWrites ==
  ASSUME IInv, Up, UNCHANGED <<boot, open, shardOf, admin>>, clock' \in Nat, RowInv', KeysKept,
         NEW c \in Callers, NEW x \in CallerRec, caller' = [caller EXCEPT ![c] = x],
         Covered(x), x.pc = "missed" => x.due = {}
  PROVE  IInv'
<1> USE DEF IInv
<1>1. L' = L /\ n' = n
  BY Zenon DEF L, n
<1>2. BootInv'
  BY Zenon DEF BootInv, Up, Booted
<1>3. OpenInv' /\ MerchantInv'
  BY <1>1, Zenon DEF OpenInv, MerchantInv, Up
<1>5. caller' \in [Callers -> CallerRec]
  BY Zenon DEF CallerInv
<1>6. caller' \in [Callers -> CallerRec']
  BY <1>1, <1>5, CallerKept, Zenon
<1>7. \A d \in Callers : Covered(caller'[d]) /\ (caller'[d].pc = "missed" => caller'[d].due = {})
  BY Zenon DEF CallerInv
<1>8. \A y \in CallerRec : Covered(y) => Covered(y)'
  BY <1>1, CallerKept, Zenon
<1>9. CallerInv'
  <2>1. \A d \in Callers : Covered(caller[d])'
    <3> SUFFICES ASSUME NEW d \in Callers PROVE Covered(caller[d])'
      BY Zenon
    <3>1. PICK y \in CallerRec : y = caller'[d]
      BY <1>5, Zenon
    <3>2. Covered(y)'
      BY <1>7, <1>8, <3>1, Zenon
    <3> QED BY <3>1, <3>2, ZenonT(30) DEF Covered, Selected
  <2> QED BY <1>6, <1>7, <2>1, Zenon DEF CallerInv
<1> QED BY <1>2, <1>3, <1>9, Zenon

\* The same for a step that writes no row.
LEMMA CallerFrame ==
  ASSUME IInv, Up, UNCHANGED <<boot, open, shardOf, admin, rows>>, clock' \in Nat,
         NEW c \in Callers, NEW x \in CallerRec, caller' = [caller EXCEPT ![c] = x],
         Covered(x), x.pc = "missed" => x.due = {}
  PROVE  IInv'
<1>1. RowInv'
  BY Zenon DEF IInv, RowInv, RowsAtHome, OneRowPerOrder, L, n
<1>2. KeysKept
  BY Zenon DEF KeysKept
<1> QED BY <1>1, <1>2, CallerWrites, Zenon

\* A caller that is busy runs in a process that is up, over a router in shape.
LEMMA Busy ==
  ASSUME IInv, NEW c \in Callers, caller[c].pc # "idle"
  PROVE  Up /\ Shape(L, n) /\ caller[c] \in CallerRec
<1>1. Up
  BY DEF IInv, BootInv, IdleCaller, Up
<1>2. Booted /\ boot \in BootRec
  BY <1>1, Zenon DEF IInv, BootInv, Up
<1>3. caller[c] \in CallerRec
  BY Zenon DEF IInv, CallerInv
<1> QED BY <1>1, <1>2, <1>3, BootedShape, Zenon

\* The key of a row.
LEMMA KeyType ==
  ASSUME NEW r \in Row
  PROVE  Key(r) \in Nat \X Merchants \X Orders /\ Key(r)[1] = r.pool
BY Zenon DEF Key, Row

\* What a pool's row reads as, stamped with the pool's first logical shard, is
\* a transaction that the stamp leads back to.
LEMMA ScanStored ==
  ASSUME Shape(L, n), rows \subseteq Row, NEW p \in Pools(n), NEW r \in rows, r.pool = p
  PROVE  scanTransaction(r, physicalToFirstLogical(L, n, p)) \in Stored
<1> DEFINE i == physicalToFirstLogical(L, n, p)
<1> DEFINE t == scanTransaction(r, i)
<1>1. i \in 0..255
  <2>1. i \in Logical(L)
    BY FirstLogical, Zenon
  <2> QED BY <2>1 DEF Shape, Logical
<1>2. For(L, n, i) = p
  BY ShardInverse, Zenon
<1> HIDE DEF i
<1>3. t \in Reads
  BY <1>1 DEF Reads
<1>4. t.shard = i /\ t.merchant = r.merchant /\ t.order = r.order
  BY Zenon DEF scanTransaction
<1> HIDE DEF t
<1>5. HasRow(t)
  BY <1>2, <1>4, Zenon DEF HasRow
<1>6. t \in Stored
  BY <1>3, <1>5, Zenon DEF Stored
<1> QED BY <1>6, Zenon DEF t, i

\* The start of a lookup.
LEMMA AskStep ==
  ASSUME IInv, NEW c \in Callers, NEW q \in Queries, Ask(c, q)
  PROVE  IInv'
<1> DEFINE x == [pc |-> "wait", query |-> q, waiting |-> Pools(n), err |-> FALSE, got |-> <<>>,
                 due |-> {Key(r) : r \in Selected(q)}]
<1>1. Up /\ UNCHANGED <<boot, open, shardOf, admin, rows>> /\ caller' = [caller EXCEPT ![c] = x]
  BY Zenon DEF Ask
<1>2. rows \subseteq Row /\ Shape(L, n) /\ RowsAtHome /\ shardOf \in [Merchants -> Logical(L) \cup {None}]
  <2>1. Booted /\ boot \in BootRec
    BY <1>1, Zenon DEF IInv, BootInv, Up
  <2> QED BY <2>1, BootedShape, Zenon DEF IInv, RowInv, MerchantInv
<1>3. clock' \in Nat
  <2>1. clock \in Nat
    BY Zenon DEF IInv
  <2>2. q.kind = "pending" => q.before \in Nat
    BY RoutingAssumption DEF Queries
  <2> QED BY <2>1, <2>2, Zenon DEF Ask
<1>4. \A r \in rows : r.pool \in Pools(n)
  <2> SUFFICES ASSUME NEW r \in rows PROVE r.pool \in Pools(n)
    BY Zenon
  <2>1. r.merchant \in Merchants /\ shardOf[r.merchant] # None /\ r.pool = For(L, n, shardOf[r.merchant])
    BY <1>2, Zenon DEF Row, RowsAtHome
  <2>2. shardOf[r.merchant] \in Logical(L)
    BY <1>2, <2>1, Zenon
  <2> QED BY <1>2, <2>1, <2>2, ForInRange, Zenon
<1>5. Selected(q) \subseteq rows
  BY Zenon DEF Selected, Queries
<1>6. x.due \in SUBSET (Nat \X Merchants \X Orders)
  BY <1>2, <1>5, KeyType, Zenon
<1>7. <<>> \in Seq(Stored)
  OBVIOUS
<1>8. x \in CallerRec
  BY <1>6, <1>7, Zenon DEF CallerRec, CallerPC
<1>9. Covered(x)
  <2> SUFFICES ASSUME NEW k \in x.due
               PROVE  k[1] \in Pools(n) /\ \E r \in Selected(q) : Key(r) = k
    BY Zenon DEF Covered
  <2>1. PICK r \in Selected(q) : Key(r) = k
    BY Zenon
  <2> QED BY <1>2, <1>4, <1>5, <2>1, KeyType, Zenon
<1> HIDE DEF x
<1>10. x.pc # "missed"
  BY Zenon DEF x
<1> QED BY <1>1, <1>3, <1>8, <1>9, <1>10, CallerFrame, Zenon

\* One pool's answer is taken off the list of those awaited.
LEMMA AnsweredType ==
  ASSUME NEW c \in Callers, NEW p, NEW x \in CallerRec, caller[c] \in CallerRec,
         NEW y, y = Answered(c, p, x)
  PROVE  /\ y \in CallerRec
         /\ y.query = x.query /\ y.err = x.err /\ y.got = x.got /\ y.due = x.due
         /\ y.waiting = caller[c].waiting \ {p}
         /\ y.pc = IF y.waiting # {} THEN "wait" ELSE IF x.err THEN "failed" ELSE "missed"
<1> DEFINE w == caller[c].waiting \ {p}
<1> DEFINE pc == IF w # {} THEN "wait" ELSE IF x.err THEN "failed" ELSE "missed"
<1>1. w \in SUBSET Pools(n)
  BY Zenon DEF CallerRec
<1>2. pc \in CallerPC
  BY Zenon DEF CallerPC
<1>3. y = [x EXCEPT !.waiting = w, !.pc = pc]
  BY Zenon DEF Answered
<1> HIDE DEF w, pc
<1>4. /\ y \in CallerRec
      /\ y.query = x.query /\ y.err = x.err /\ y.got = x.got /\ y.due = x.due
      /\ y.waiting = w /\ y.pc = pc
  BY <1>1, <1>2, <1>3, Zenon DEF CallerRec
<1> QED BY <1>4, Zenon DEF w, pc

\* A failed pool: the lookup can no longer end as a miss.
LEMMA ErrorStep ==
  ASSUME IInv, NEW c \in Callers, NEW p, caller[c].pc = "wait",
         UNCHANGED <<boot, open, shardOf, admin, rows, clock>>,
         caller' = [caller EXCEPT ![c] = Answered(c, p, [caller[c] EXCEPT !.err = TRUE])]
  PROVE  IInv'
<1>1. Up /\ caller[c] \in CallerRec
  BY Busy, Zenon
<1> DEFINE x == [caller[c] EXCEPT !.err = TRUE]
<1>2. x \in CallerRec /\ x.err = TRUE
  BY <1>1, Zenon DEF CallerRec
<1> DEFINE y == Answered(c, p, x)
<1> HIDE DEF x
<1>3. y \in CallerRec /\ y.err = TRUE
      /\ y.pc = IF y.waiting # {} THEN "wait" ELSE IF x.err THEN "failed" ELSE "missed"
  BY <1>1, <1>2, AnsweredType
<1>4. caller' = [caller EXCEPT ![c] = y]
  BY Zenon DEF x
<1> HIDE DEF y
<1>5. Covered(y) /\ y.pc # "missed"
  BY <1>2, <1>3, Zenon DEF Covered
<1>6. clock' \in Nat
  BY Zenon DEF IInv
<1> QED BY <1>1, <1>3, <1>4, <1>5, <1>6, CallerFrame, Zenon

\* scatterFirst: a pool without the row is struck off, a row that is found is
\* stamped with a shard that leads back to it.
LEMMA ScatterStep ==
  ASSUME IInv, NEW c \in Callers, NEW p \in Pools(n), scatterFirst(c, p)
  PROVE  IInv'
<1> DEFINE q == caller[c].query
<1> DEFINE hits == On(p, Selected(q))
<1>1. /\ caller[c].pc = "wait" /\ q.kind \in {"order", "intent"} /\ p \in caller[c].waiting
      /\ UNCHANGED <<boot, open, shardOf, admin, rows, clock>>
  BY Zenon DEF scatterFirst
<1>2. Up /\ Shape(L, n) /\ caller[c] \in CallerRec
  BY <1>1, Busy, Zenon
<1>3. clock' \in Nat /\ rows \subseteq Row /\ Covered(caller[c])
  BY <1>1, Zenon DEF IInv, RowInv, CallerInv
<1>4. CASE hits = {} /\ caller' = [caller EXCEPT ![c] = Answered(c, p, caller[c])]
  <2> DEFINE y == Answered(c, p, caller[c])
  <2>1. /\ y \in CallerRec /\ y.query = q /\ y.err = caller[c].err /\ y.due = caller[c].due
        /\ y.waiting = caller[c].waiting \ {p}
        /\ y.pc = IF y.waiting # {} THEN "wait" ELSE IF caller[c].err THEN "failed" ELSE "missed"
    <3>1. y = Answered(c, p, caller[c])
      BY Zenon
    <3> HIDE DEF y
    <3> QED BY <1>2, <3>1, AnsweredType
  <2> HIDE DEF y
  <2>2. ASSUME ~ y.err, NEW k \in y.due
        PROVE  k[1] \in y.waiting /\ \E r \in Selected(q) : Key(r) = k
    <3>1. k[1] \in caller[c].waiting /\ \E r \in Selected(q) : Key(r) = k
      BY <1>1, <1>3, <2>1, <2>2, Zenon DEF Covered
    <3>2. PICK r \in Selected(q) : Key(r) = k
      BY <3>1, Zenon
    <3>3. k[1] # p
      BY <1>4, <3>2, Zenon DEF On, Key
    <3> QED BY <2>1, <3>1, <3>3, Zenon
  <2>3. Covered(y)
    BY <2>1, <2>2, Zenon DEF Covered
  <2>4. y.pc = "missed" => y.due = {}
    BY <2>1, <2>2, Zenon
  <2>5. caller' = [caller EXCEPT ![c] = y]
    BY <1>4, Zenon DEF y
  <2> QED BY <1>1, <1>2, <1>3, <2>1, <2>3, <2>4, <2>5, CallerFrame, Zenon
<1>5. ASSUME NEW r \in hits, Decodable(r),
             caller' = [caller EXCEPT ![c] =
               [@ EXCEPT !.pc = "found", !.waiting = {},
                  !.got = <<scanTransaction(r, physicalToFirstLogical(L, n, p))>>]]
      PROVE  IInv'
  <2> DEFINE t == scanTransaction(r, physicalToFirstLogical(L, n, p))
  <2>1. r \in rows /\ r.pool = p
    BY <1>1, Zenon DEF On, Selected
  <2>2. t \in Stored
    BY <1>2, <1>3, <2>1, ScanStored, Zenon
  <2> HIDE DEF t
  <2>3. <<t>> \in Seq(Stored)
    BY <2>2
  <2> DEFINE y == [caller[c] EXCEPT !.pc = "found", !.waiting = {}, !.got = <<t>>]
  <2>4. y \in CallerRec /\ y.pc = "found"
    BY <1>2, <2>3, Zenon DEF CallerRec, CallerPC
  <2>5. caller' = [caller EXCEPT ![c] = y]
    BY <1>5, Zenon DEF t
  <2> HIDE DEF y
  <2>6. Covered(y) /\ y.pc # "missed"
    BY <2>4, Zenon DEF Covered
  <2> QED BY <1>1, <1>2, <1>3, <2>4, <2>5, <2>6, CallerFrame, Zenon
<1>6. ASSUME caller' = [caller EXCEPT ![c] = Answered(c, p, [caller[c] EXCEPT !.err = TRUE])]
      PROVE  IInv'
  BY <1>1, <1>6, ErrorStep, Zenon
<1>7. QED
  <2>1. \/ hits = {} /\ caller' = [caller EXCEPT ![c] = Answered(c, p, caller[c])]
        \/ \E r \in hits :
             caller' = [caller EXCEPT ![c] =
               IF Decodable(r)
                 THEN [@ EXCEPT !.pc = "found", !.waiting = {},
                        !.got = <<scanTransaction(r, physicalToFirstLogical(L, n, p))>>]
                 ELSE Answered(c, p, [caller[c] EXCEPT !.err = TRUE])]
    BY Zenon DEF scatterFirst
  <2> QED BY <1>4, <1>5, <1>6, <2>1, Zenon

\* The cut to the batch size.
LEMMA TruncateSeq ==
  ASSUME NEW S, NEW s \in Seq(S)
  PROVE  Truncate(s) \in Seq(S)
<1>1. Least(Limit, Len(s)) \in 0..Len(s)
  <2>1. Limit \in Nat /\ Len(s) \in Nat
    <3>1. Limit \in Nat \ {0} BY RoutingAssumption, Zenon
    <3> QED BY <3>1
  <2> QED BY <2>1 DEF Least
<1> DEFINE k == Least(Limit, Len(s))
<1> HIDE DEF k
<1>2. SubSeq(s, 1, k) \in Seq(S)
  BY <1>1 DEF k
<1> QED BY <1>2, Zenon DEF Truncate, k

\* A pool's answer as the scan reads it, and the list it is added to.
Unreadable(s) == \E i \in DOMAIN s : ~ Decodable(s[i])

ReadAs(s, i) == [k \in DOMAIN s |-> scanTransaction(s[k], i)]

Merged(c, p, s) ==
  IF Unreadable(s) THEN caller[c].got ELSE caller[c].got \o ReadAs(s, physicalToFirstLogical(L, n, p))

\* The next record y of a scan c that has collected s from pool p.
Collected(c, p, s, y) ==
  /\ y.query = caller[c].query /\ y.due = caller[c].due /\ y.waiting = caller[c].waiting \ {p}
  /\ \/ y.pc = "wait" /\ y.got = Merged(c, p, s) /\ (y.err <=> caller[c].err \/ Unreadable(s))
     \/ y.pc = "failed" /\ y.got = Merged(c, p, s)
     \/ /\ y.pc = "listed" /\ y.waiting = {} /\ ~ caller[c].err /\ ~ Unreadable(s)
        /\ y.got = Truncate(sortTransactionsByCreatedAt(Merged(c, p, s)))

\* A pool's answer is a list of its rows.
LEMMA OldestSeq ==
  ASSUME NEW S, IsFiniteSet(S), NEW s \in OldestOf(S)
  PROVE  \E k \in Nat : k = Least(Limit, Cardinality(S)) /\ s \in [1..k -> S] /\ DOMAIN s = 1..k
<1>1. Cardinality(S) \in Nat /\ Limit \in Nat
  BY FS_CardinalityType, RoutingAssumption, Zenon
<1>2. PICK k : k = Least(Limit, Cardinality(S))
  BY Zenon
<1>3. k \in Nat
  BY <1>1, <1>2, Zenon DEF Least
<1>4. s \in [1..k -> S]
  BY <1>2, Zenon DEF OldestOf
<1> QED BY <1>2, <1>3, <1>4, Zenon

\* GetPendingBefore: each pool's rows are stamped with the pool's shard, and
\* the sort and the cut keep no other.
LEMMA PendingShape ==
  ASSUME IInv, NEW c \in Callers, NEW p \in Pools(n), GetPendingBefore(c, p)
  PROVE  \E s \in OldestOf(On(p, Selected(caller[c].query))), y \in CallerRec :
           /\ caller' = [caller EXCEPT ![c] = y]
           /\ Merged(c, p, s) \in Seq(Stored) /\ Collected(c, p, s, y)
<1> DEFINE q == caller[c].query
<1> DEFINE S == On(p, Selected(q))
<1> DEFINE i0 == physicalToFirstLogical(L, n, p)
<1>1. caller[c].pc = "wait" /\ q.kind = "pending" /\ p \in caller[c].waiting
  BY Zenon DEF GetPendingBefore
<1>2. Up /\ Shape(L, n) /\ caller[c] \in CallerRec
  BY <1>1, Busy, Zenon
<1>3. rows \subseteq Row /\ IsFiniteSet(rows)
  BY Zenon DEF IInv, RowInv
<1>4. S \subseteq rows /\ \A r \in S : scanTransaction(r, i0) \in Stored
  <2>1. \A r \in S : r \in rows /\ r.pool = p
    BY <1>1, Zenon DEF On, Selected
  <2> QED BY <1>2, <1>3, <2>1, ScanStored, Zenon
<1>5. IsFiniteSet(S)
  BY <1>3, <1>4, FS_Subset, Zenon
<1> HIDE DEF S
<1> DEFINE e(s)  == caller[c].err \/ Unreadable(s)
<1> DEFINE x0(s) == [caller[c] EXCEPT !.err = e(s), !.got = Merged(c, p, s)]
<1> DEFINE x(s)  == Answered(c, p, x0(s))
<1>6. PICK s \in OldestOf(S) :
        caller' = [caller EXCEPT ![c] =
          IF x(s).pc = "missed"
            THEN [x(s) EXCEPT !.pc = "listed", !.got = Truncate(sortTransactionsByCreatedAt(Merged(c, p, s)))]
            ELSE x(s)]
  BY Zenon DEF GetPendingBefore, S, Merged, ReadAs, Unreadable
<1>7. PICK k \in Nat : s \in [1..k -> S]
  BY <1>5, OldestSeq, Zenon
<1>8. ReadAs(s, i0) \in Seq(Stored)
  <2>1. ReadAs(s, i0) \in [1..k -> Stored]
    BY <1>4, <1>7, Zenon DEF ReadAs
  <2> QED BY <2>1
<1>9. Merged(c, p, s) \in Seq(Stored)
  <2>1. caller[c].got \in Seq(Stored)
    BY <1>2, Zenon DEF CallerRec
  <2>2. caller[c].got \o ReadAs(s, i0) \in Seq(Stored)
    BY <1>8, <2>1
  <2> QED BY <2>1, <2>2, Zenon DEF Merged
<1>10. PICK b \in BOOLEAN : b = e(s)
  BY Zenon
<1>11. PICK w : w = x0(s)
  BY Zenon
<1>12. w = [caller[c] EXCEPT !.err = b, !.got = Merged(c, p, s)]
  BY <1>10, <1>11, Zenon
<1>13. w \in CallerRec /\ w.query = q /\ w.due = caller[c].due /\ w.err = b /\ w.got = Merged(c, p, s)
  BY <1>2, <1>9, <1>12, Zenon DEF CallerRec
<1>14. PICK y : y = Answered(c, p, w)
  BY Zenon
<1>15. /\ y \in CallerRec
       /\ y.query = q /\ y.err = b /\ y.got = Merged(c, p, s) /\ y.due = caller[c].due
       /\ y.waiting = caller[c].waiting \ {p}
       /\ y.pc = IF y.waiting # {} THEN "wait" ELSE IF w.err THEN "failed" ELSE "missed"
  BY <1>2, <1>13, <1>14, AnsweredType
<1>16. x(s) = y
  BY <1>11, <1>14, Zenon
<1>17. b <=> caller[c].err \/ Unreadable(s)
  BY <1>10, Zenon
<1> HIDE DEF x, x0, e, q
<1>18. CASE y.pc = "missed"
  <2>1. PICK g : g = Truncate(sortTransactionsByCreatedAt(Merged(c, p, s)))
    BY Zenon
  <2>2. g \in Seq(Stored)
    BY <1>9, <2>1, SortSeq_, TruncateSeq, Zenon
  <2>3. PICK z : z = [y EXCEPT !.pc = "listed", !.got = g]
    BY Zenon
  <2>4. z \in CallerRec /\ z.pc = "listed" /\ z.got = g /\ z.query = q /\ z.due = caller[c].due
        /\ z.waiting = caller[c].waiting \ {p}
    BY <1>15, <2>2, <2>3, Zenon DEF CallerRec, CallerPC
  <2>5. caller' = [caller EXCEPT ![c] = z]
    BY <1>6, <1>16, <1>18, <2>1, <2>3, Zenon
  <2>6. z.waiting = {} /\ ~ caller[c].err /\ ~ Unreadable(s)
    BY <1>13, <1>15, <1>17, <1>18, <2>4, Zenon
  <2>7. Collected(c, p, s, z)
    BY <2>1, <2>4, <2>6, Zenon DEF Collected, q
  <2> QED BY <1>9, <2>4, <2>5, <2>7, Zenon DEF S, q
<1>19. CASE y.pc # "missed"
  <2>1. caller' = [caller EXCEPT ![c] = y]
    BY <1>6, <1>16, <1>19, Zenon
  <2>2. y.pc \in {"wait", "failed"}
    BY <1>15, <1>19, Zenon
  <2>3. Collected(c, p, s, y)
    BY <1>15, <1>17, <2>2, Zenon DEF Collected, q
  <2> QED BY <1>9, <1>15, <2>1, <2>3, Zenon DEF S, q
<1> QED BY <1>18, <1>19, Zenon

\* A pool's answer to a scan keeps the invariant.
LEMMA PendingStep ==
  ASSUME IInv, NEW c \in Callers, NEW p \in Pools(n), GetPendingBefore(c, p)
  PROVE  IInv'
<1>1. /\ caller[c].pc = "wait" /\ caller[c].query.kind = "pending"
      /\ UNCHANGED <<boot, open, shardOf, admin, rows, clock>>
  BY Zenon DEF GetPendingBefore
<1>2. Up /\ clock' \in Nat
  BY <1>1, Busy, Zenon DEF IInv
<1>3. PICK s \in OldestOf(On(p, Selected(caller[c].query))), y \in CallerRec :
        caller' = [caller EXCEPT ![c] = y] /\ Collected(c, p, s, y)
  BY PendingShape, Zenon
<1>4. Covered(y) /\ y.pc # "missed"
  BY <1>1, <1>3, Zenon DEF Covered, Collected
<1> QED BY <1>1, <1>2, <1>3, <1>4, CallerFrame, Zenon
\* The follow-up write: the shard stamped on the row leads to it.
LEMMA FollowUpStep ==
  ASSUME IInv, NEW c \in Callers, FollowUp(c)
  PROVE  IInv'
<1> DEFINE t == Head(caller[c].got)
<1> DEFINE A == Affected(t.shard, t.merchant, t.order)
<1> DEFINE x == [caller[c] EXCEPT !.pc = "writing", !.got = Tail(caller[c].got)]
<1>1. /\ caller[c].pc # "idle" /\ caller[c].got # <<>>
      /\ UNCHANGED <<boot, open, shardOf, admin, clock>>
  BY Zenon DEF FollowUp
<1>2. Up /\ Shape(L, n) /\ caller[c] \in CallerRec
  BY <1>1, Busy, Zenon
<1>3. clock' \in Nat /\ RowInv
  BY <1>1, Zenon DEF IInv
<1>4. t \in Stored /\ Tail(caller[c].got) \in Seq(Stored)
  <2>1. caller[c].got \in Seq(Stored)
    BY <1>2, Zenon DEF CallerRec
  <2> QED BY <1>1, <2>1
<1>5. A # {} /\ A \in SUBSET rows
  <2>1. PICK r \in rows : r.pool = For(L, n, t.shard) /\ r.merchant = t.merchant /\ r.order = t.order
    BY <1>4, Zenon DEF Stored, HasRow
  <2>2. r.pool \in Nat
    BY <1>3, Zenon DEF RowInv, Row
  <2>3. For(L, n, t.shard) # Unknown
    BY <2>1, <2>2 DEF Unknown
  <2>4. A = At(For(L, n, t.shard), t.merchant, t.order)
    BY <2>3, Zenon DEF Affected
  <2> QED BY <2>1, <2>4, Zenon DEF At
<1>6. /\ Finish(x) \in CallerRec
      /\ Covered(Finish(x)) /\ Finish(x).pc # "missed"
  <2>1. x \in CallerRec /\ x.pc = "writing"
    BY <1>2, <1>4, Zenon DEF CallerRec, CallerPC
  <2> HIDE DEF x
  <2>2. <<>> \in Seq(Stored)
    OBVIOUS
  <2>3. IdleCaller \in CallerRec /\ IdleCaller.pc = "idle"
    BY <2>2, Zenon DEF IdleCaller, CallerRec, CallerPC
  <2>4. Finish(x) \in CallerRec /\ Finish(x).pc \in {"idle", "writing"}
    BY <2>1, <2>3, Zenon DEF Finish
  <2> QED BY <2>4, Zenon DEF Covered
<1>7. ASSUME NEW s \in Outcomes, rows' = Set(A, LAMBDA r : Written(r, s, FALSE)),
             caller' = [caller EXCEPT ![c] = Finish(x)]
      PROVE  IInv'
  <2> HIDE DEF A, x, t
  <2> DEFINE h == [r \in A |-> Written(r, s, FALSE)]
  <2>1. \A r \in A : r \in Row
    BY <1>3, <1>5, Zenon DEF RowInv
  <2>2. h \in [A -> Row]
    BY <2>1, WrittenRow, Zenon
  <2>3. \A r \in A : h[r].pool = r.pool /\ h[r].merchant = r.merchant /\ h[r].order = r.order
                     /\ (r.pi => h[r].pi)
    BY <2>1, WrittenRow, Zenon
  <2>4. rows' = (rows \ A) \cup {h[r] : r \in A}
    BY <1>7, Zenon DEF Set
  <2> HIDE DEF h
  <2>5. RowInv' /\ KeysKept
    BY <1>1, <1>3, <1>5, <2>2, <2>3, <2>4, RowsWritten, ZenonT(30)
  <2> QED BY <1>1, <1>2, <1>3, <1>6, <1>7, <2>5, CallerWrites, Zenon
<1>8. ASSUME rows' = rows, caller' = [caller EXCEPT ![c] = Finish(x)]
      PROVE  IInv'
  BY <1>1, <1>2, <1>3, <1>6, <1>8, CallerFrame, Zenon
<1>9. \/ /\ \E s \in Outcomes : rows' = Set(A, LAMBDA r : Written(r, s, FALSE))
         /\ caller' = [caller EXCEPT ![c] = IF A = {} THEN [x EXCEPT !.pc = "norow"] ELSE Finish(x)]
      \/ rows' = rows /\ caller' = [caller EXCEPT ![c] = Finish(x)]
  BY Zenon DEF FollowUp
<1> QED BY <1>5, <1>7, <1>8, <1>9, Zenon

\* A caller returns.
LEMMA ReturnStep ==
  ASSUME IInv, NEW c \in Callers, Return(c)
  PROVE  IInv'
<1>1. caller[c].pc # "idle" /\ UNCHANGED <<boot, open, shardOf, admin, rows, clock>>
      /\ caller' = [caller EXCEPT ![c] = IdleCaller]
  BY Zenon DEF Return
<1>2. Up /\ clock' \in Nat
  BY <1>1, Busy, Zenon DEF IInv
<1>3. <<>> \in Seq(Stored)
  OBVIOUS
<1>4. IdleCaller \in CallerRec /\ Covered(IdleCaller) /\ IdleCaller.pc # "missed"
  BY <1>3, Zenon DEF IdleCaller, CallerRec, CallerPC, Covered
<1> QED BY <1>1, <1>2, <1>4, CallerFrame, Zenon

\* Every step preserves the invariant.
LEMMA NextIInv == IInv /\ [Next]_vars => IInv'
<1> SUFFICES ASSUME IInv, [Next]_vars PROVE IInv'
  BY Zenon
<1>1. CASE Load \/ CheckShards \/ OpenPool \/ OpenPoolFails \/ Restart
  BY <1>1, BootStep, Zenon
<1>2. ASSUME NEW a \in Admins, InsertMerchant(a) \/ \E m \in Merchants : Create(a, m)
      PROVE  IInv'
  BY <1>2, MerchantStep, Zenon
<1>3. ASSUME NEW m \in Merchants, NEW o \in Orders,
             \/ Insert(m, o) \/ UpdateCheckout(m, o)
             \/ \E s \in Outcomes, pi \in BOOLEAN : UpdateStatus(m, o, s, pi)
      PROVE  IInv'
  BY <1>3, InsertStep, UpdateStep, Zenon
<1>4. ASSUME NEW c \in Callers, NEW q \in Queries, Ask(c, q)
      PROVE  IInv'
  BY <1>4, AskStep, Zenon
<1>5. ASSUME NEW c \in Callers, NEW p \in Pools(n),
             scatterFirst(c, p) \/ GetPendingBefore(c, p)
      PROVE  IInv'
  BY <1>5, ScatterStep, PendingStep, Zenon
<1>6. ASSUME NEW c \in Callers, NEW p \in Pools(n), PoolFails(c, p)
      PROVE  IInv'
  BY <1>6, ErrorStep, Zenon DEF PoolFails
<1>7. ASSUME NEW c \in Callers, FollowUp(c) \/ Return(c)
      PROVE  IInv'
  BY <1>7, FollowUpStep, ReturnStep, Zenon
<1>8. CASE UNCHANGED vars
  <2>1. L' = L /\ n' = n /\ UNCHANGED <<boot, open, shardOf, admin, rows, caller, clock>>
    BY <1>8, Zenon DEF vars, L, n
  <2>2. BootInv' /\ OpenInv' /\ MerchantInv' /\ RowInv'
    BY <2>1, Zenon DEF IInv, BootInv, OpenInv, MerchantInv, RowInv, RowsAtHome, OneRowPerOrder, Up, Booted
  <2>3. KeysKept
    BY <2>1, Zenon DEF KeysKept
  <2>4. CallerInv'
    BY <2>1, <2>3, CallerKept, Zenon DEF IInv, CallerInv
  <2> QED BY <2>1, <2>2, <2>4, Zenon DEF IInv
<1> QED BY <1>1, <1>2, <1>3, <1>4, <1>5, <1>6, <1>7, <1>8, Zenon DEF Next

\* The invariant holds in every reachable state.
THEOREM Invariance == Spec => []IInv
BY InitIInv, NextIInv, PTL DEF Spec

\* Every transaction is on its merchant's pool, through concurrent creations,
\* global lookups and restarts, for every configuration that is accepted.
THEOREM RowsStayHome == Spec => []RowsAtHome
<1>1. IInv => RowsAtHome
  BY Zenon DEF IInv, RowInv
<1> QED BY <1>1, Invariance, PTL

\* One row per merchant and order over all pools.
THEOREM OneRow == Spec => []OneRowPerOrder
<1>1. IInv => OneRowPerOrder
  BY Zenon DEF IInv, RowInv
<1> QED BY <1>1, Invariance, PTL

\* The write that follows a global lookup, by webhook, cron or confirmation,
\* finds its row: for every number of shards and pools.
THEOREM FollowUpLands == Spec => []FollowUpFindsRow
<1>1. IInv => FollowUpFindsRow
  BY Zenon DEF IInv, CallerInv, CallerRec, CallerPC, FollowUpFindsRow
<1> QED BY <1>1, Invariance, PTL

\* ErrNotFound means that no pool had the row when the lookup began.
THEOREM HonestMiss == Spec => []MissIsHonest
<1>1. IInv => MissIsHonest
  BY Zenon DEF IInv, CallerInv, MissIsHonest
<1> QED BY <1>1, Invariance, PTL

\* OpenShards never refuses what config.validate accepted, and a start that
\* fails half way leaves no pool open.
THEOREM WholeStart == Spec => []StartsWhole
<1>1. IInv => StartsWhole
  BY Zenon DEF IInv, BootInv, BootRec, OpenInv, StartsWhole
<1> QED BY <1>1, Invariance, PTL
----------------------------------------------------------------------------
(* The spread of merchants. *)

\* The merchants that take no part are no further apart than the creations, over
\* every shard that some configuration has: a restart may bring another one.
Balanced == \A i, j \in 0..254 : Earlier[i] <= Earlier[j] + Cardinality(Admins)

\* At most every admin is on the way to one shard.
LEMMA PickedNat ==
  ASSUME NEW f, NEW i
  PROVE  /\ Cardinality({a \in Admins : f[a].pc = "insert" /\ f[a].shard = i}) \in 0..Cardinality(Admins)
         /\ Cardinality(Admins) \in Nat
<1> DEFINE P == {a \in Admins : f[a].pc = "insert" /\ f[a].shard = i}
<1>1. P \in SUBSET Admins /\ IsFiniteSet(Admins)
  BY RoutingAssumption, Zenon
<1> HIDE DEF P
<1>2. Cardinality(P) <= Cardinality(Admins) /\ IsFiniteSet(P)
  BY <1>1, FS_Subset, Zenon
<1>3. Cardinality(P) \in Nat /\ Cardinality(Admins) \in Nat
  BY <1>1, <1>2, FS_CardinalityType, Zenon
<1>4. Cardinality(P) \in 0..Cardinality(Admins)
  BY <1>2, <1>3
<1> QED BY <1>3, <1>4, Zenon DEF P

\* A creation that has counted: one more on its way to the emptiest shard.
LEMMA CreateSpread ==
  ASSUME IInv, SpreadBounded, NEW a \in Admins, NEW m \in Merchants, Create(a, m)
  PROVE  SpreadBounded'
<1> DEFINE k == pickLeastLoadedShard
<1>1. Up /\ admin[a].pc = "idle" /\ UNCHANGED <<boot, shardOf>>
      /\ admin' = [admin EXCEPT ![a] = [pc |-> "insert", merchant |-> m, shard |-> k]]
  BY Zenon DEF Create
<1>2. L \in 1..255
  BY <1>1, BootedShape, Zenon DEF IInv, BootInv, Up, Shape
<1>3. k \in Logical(L) /\ \A j \in Logical(L) : MerchantsOn(k) <= MerchantsOn(j)
  BY <1>2, PickInRange, Zenon
<1> HIDE DEF k
<1>4. L' = L /\ \A i : MerchantsOn(i)' = MerchantsOn(i)
  BY <1>1, Zenon DEF L, MerchantsOn
<1>5. ASSUME NEW i, i # k PROVE Picked(i)' = Picked(i)
  <2>1. ASSUME NEW b \in Admins
        PROVE  (admin'[b].pc = "insert" /\ admin'[b].shard = i) <=> (admin[b].pc = "insert" /\ admin[b].shard = i)
    BY <1>1, <1>5, Zenon DEF IInv, MerchantInv
  <2> QED BY <2>1, Zenon DEF Picked
<1>6. \A i \in Logical(L) : MerchantsOn(i) \in Nat
  BY <1>2, LoadNat DEF Logical
<1>7. \A i : Picked(i)' \in 0..Cardinality(Admins) /\ Cardinality(Admins) \in Nat
  BY PickedNat, Zenon DEF Picked
<1> SUFFICES ASSUME NEW i \in Logical(L), NEW j \in Logical(L)
             PROVE  MerchantsOn(i) + Picked(i)' <= MerchantsOn(j) + Cardinality(Admins)
  BY <1>4, Zenon DEF SpreadBounded
<1>8. CASE i = k
  BY <1>3, <1>6, <1>7, <1>8
<1>9. CASE i # k
  BY <1>5, <1>9, Zenon DEF SpreadBounded
<1> QED BY <1>8, <1>9, Zenon

\* A creation that inserts: the merchant on its way has arrived, or was there.
LEMMA InsertSpread ==
  ASSUME IInv, SpreadBounded, NEW a \in Admins, InsertMerchant(a)
  PROVE  SpreadBounded'
<1> DEFINE m == admin[a].merchant
<1> DEFINE k == admin[a].shard
<1>1. /\ admin[a].pc = "insert" /\ UNCHANGED boot
      /\ shardOf' = IF shardOf[m] = None THEN [shardOf EXCEPT ![m] = k] ELSE shardOf
      /\ admin' = [admin EXCEPT ![a] = IdleAdmin]
  BY Zenon DEF InsertMerchant
<1>2. admin[a] \in [pc: {"insert"}, merchant: Merchants, shard: Logical(L)]
  BY <1>1 DEF IInv, MerchantInv, IdleAdmin
<1>3. L \in 1..255 /\ L' = L
  BY <1>1, BootedShape, Zenon DEF IInv, BootInv, Up, Shape, L
<1>4. m \in Merchants /\ k \in Logical(L) /\ k # None
  BY <1>2, <1>3, RoutingAssumption DEF Logical
<1> HIDE DEF m, k
<1>5. shardOf \in [Merchants -> Logical(L) \cup {None}] /\ IsFiniteSet(Merchants)
  BY RoutingAssumption, Zenon DEF IInv, MerchantInv
<1>6. ASSUME NEW i \in Logical(L)
      PROVE  /\ MerchantsOn(i) \in Nat /\ MerchantsOn(i)' \in Nat /\ MerchantsOn(i) <= MerchantsOn(i)'
             /\ MerchantsOn(i)' <= MerchantsOn(i) + (IF i = k THEN 1 ELSE 0)
  <2> DEFINE S == {x \in Merchants : shardOf[x] = i}
  <2> DEFINE T == {x \in Merchants : shardOf'[x] = i}
  <2>1. T = S \/ (i = k /\ T = S \cup {m})
    <3>1. CASE shardOf[m] # None
      BY <1>1, <3>1, Zenon
    <3>2. CASE shardOf[m] = None
      <4>1. \A x \in Merchants : shardOf'[x] = IF x = m THEN k ELSE shardOf[x]
        BY <1>1, <1>4, <1>5, <3>2, Zenon
      <4>2. i # None
        BY <1>3, <1>6, RoutingAssumption DEF Logical
      <4> QED BY <1>4, <3>2, <4>1, <4>2, Zenon
    <3> QED BY <3>1, <3>2, Zenon
  <2>2. IsFiniteSet(S)
    BY <1>5, FS_Subset, Zenon
  <2>3. Earlier[i] \in Nat
    BY <1>3, <1>6, RoutingAssumption DEF Logical
  <2>4. MerchantsOn(i) = Earlier[i] + Cardinality(S) /\ MerchantsOn(i)' = Earlier[i] + Cardinality(T)
    BY Zenon DEF MerchantsOn
  <2> HIDE DEF S, T
  <2>5. Cardinality(S) \in Nat
    BY <2>2, FS_CardinalityType, Zenon
  <2>6. Cardinality(S \cup {m}) = IF m \in S THEN Cardinality(S) ELSE Cardinality(S) + 1
    BY <2>2, FS_AddElement, Zenon
  <2>7. CASE T = S
    BY <2>3, <2>4, <2>5, <2>7
  <2>8. CASE i = k /\ T = S \cup {m}
    BY <2>3, <2>4, <2>5, <2>6, <2>8
  <2> QED BY <2>1, <2>7, <2>8, Zenon
<1>7. ASSUME NEW i \in Logical(L)
      PROVE  /\ Picked(i) \in Nat /\ Picked(i)' \in Nat /\ Cardinality(Admins) \in Nat
             /\ Picked(i)' + (IF i = k THEN 1 ELSE 0) <= Picked(i)
  <2> DEFINE P == {b \in Admins : admin[b].pc = "insert" /\ admin[b].shard = i}
  <2> DEFINE Q == {b \in Admins : admin'[b].pc = "insert" /\ admin'[b].shard = i}
  <2>1. Q = P \ {a} /\ (i = k => a \in P)
    <3>1. \A b \in Admins : admin'[b] = IF b = a THEN IdleAdmin ELSE admin[b]
      BY <1>1, Zenon DEF IInv, MerchantInv
    <3> QED BY <1>1, <3>1 DEF IdleAdmin, k
  <2>2. IsFiniteSet(P)
    BY RoutingAssumption, FS_Subset, Zenon
  <2>3. Picked(i) = Cardinality(P) /\ Picked(i)' = Cardinality(Q)
    BY Zenon DEF Picked
  <2>4. Picked(i) \in 0..Cardinality(Admins) /\ Picked(i)' \in 0..Cardinality(Admins) /\ Cardinality(Admins) \in Nat
    BY PickedNat, Zenon DEF Picked
  <2> HIDE DEF P, Q
  <2>5. Cardinality(P \ {a}) = IF a \in P THEN Cardinality(P) - 1 ELSE Cardinality(P)
    BY <2>2, FS_RemoveElement, Zenon
  <2> QED BY <2>1, <2>3, <2>4, <2>5
<1> SUFFICES ASSUME NEW i \in Logical(L), NEW j \in Logical(L)
             PROVE  MerchantsOn(i)' + Picked(i)' <= MerchantsOn(j)' + Cardinality(Admins)
  BY <1>3, Zenon DEF SpreadBounded
<1>8. MerchantsOn(i) + Picked(i) <= MerchantsOn(j) + Cardinality(Admins)
  BY Zenon DEF SpreadBounded
<1>9. MerchantsOn(i)' + Picked(i)' <= MerchantsOn(i) + Picked(i)
  BY <1>6, <1>7
<1>10. MerchantsOn(j) <= MerchantsOn(j)' /\ MerchantsOn(j) \in Nat /\ MerchantsOn(j)' \in Nat
  BY <1>6, Zenon
<1>11. MerchantsOn(i) \in Nat /\ MerchantsOn(i)' \in Nat /\ Picked(i) \in Nat /\ Picked(i)' \in Nat
       /\ Cardinality(Admins) \in Nat
  BY <1>6, <1>7, Zenon
<1> HIDE DEF m, k
<1> QED BY <1>8, <1>9, <1>10, <1>11

\* A start: no creation is on its way, and the table is as it was or empty.
LEMMA BootSpread ==
  ASSUME IInv, IInv', Balanced, SpreadBounded, Load \/ Restart
  PROVE  SpreadBounded'
<1>1. UNCHANGED shardOf /\ \A a \in Admins : admin'[a].pc = "idle"
  BY DEF Load, Restart, IInv, BootInv, IdleAdmin
<1>2. \A i : Picked(i)' = 0
  <2> SUFFICES ASSUME NEW i PROVE Picked(i)' = 0
    BY Zenon
  <2>1. {b \in Admins : admin'[b].pc = "insert" /\ admin'[b].shard = i} = {}
    BY <1>1, Zenon
  <2> QED BY <2>1, FS_EmptySet, Zenon DEF Picked
<1>3. \A i : MerchantsOn(i)' = MerchantsOn(i)
  BY <1>1, Zenon DEF MerchantsOn
<1>4. \A i : Picked(i) \in Nat /\ Cardinality(Admins) \in Nat
  <2>1. \A i : Picked(i) \in 0..Cardinality(Admins) /\ Cardinality(Admins) \in Nat
    BY PickedNat, Zenon DEF Picked
  <2> QED BY <2>1
<1> SUFFICES ASSUME NEW i \in Logical(L)', NEW j \in Logical(L)'
             PROVE  MerchantsOn(i) + 0 <= MerchantsOn(j) + Cardinality(Admins)
  BY <1>2, <1>3, Zenon DEF SpreadBounded
<1>5. boot \in BootRec /\ boot' \in BootRec
  BY Zenon DEF IInv, BootInv
<1>6. CASE Booted
  <2>1. L' = L /\ L \in 1..255
    BY <1>5, <1>6, BootedShape, LoadStep, Zenon DEF L, Restart, Shape, BootRec
  <2>2. MerchantsOn(i) \in Nat /\ MerchantsOn(j) \in Nat /\ i \in Logical(L) /\ j \in Logical(L)
    BY <2>1, LoadNat DEF Logical
  <2>3. MerchantsOn(i) + Picked(i) <= MerchantsOn(j) + Cardinality(Admins)
    BY <2>2, Zenon DEF SpreadBounded
  <2> QED BY <1>4, <2>2, <2>3
<1>7. CASE ~ Booted
  <2>1. Load /\ \A m \in Merchants : shardOf[m] = None
    BY <1>7, Zenon DEF IInv, BootInv, Restart
  <2>2. ASSUME NEW x \in 0..254 PROVE MerchantsOn(x) = Earlier[x] /\ Earlier[x] \in Nat
    <3>1. {m \in Merchants : shardOf[m] = x} = {} /\ Earlier[x] \in Nat
      BY <2>1, RoutingAssumption
    <3> QED BY <3>1, FS_EmptySet DEF MerchantsOn
  <2>3. CASE boot'.pc = "check"
    <3>1. L' \in 1..255
      <4>1. Booted' /\ boot'.raw \in Int /\ boot'.shards \in Nat /\ boot'.dsn \in BOOLEAN
        BY <1>5, <2>3, RoutingAssumption, Zenon DEF IInv, BootInv, BootRec
      <4>2. validate(shardCount(boot'.raw), boot'.shards, boot'.dsn) /\ L' = shardCount(boot'.raw)
        BY <4>1, Zenon DEF Booted, L
      <4>3. Shape(shardCount(boot'.raw), poolCount(boot'.shards))
        BY <4>1, <4>2, ValidatedOpens, Zenon
      <4> QED BY <4>2, <4>3, Zenon DEF Shape
    <3>2. i \in 0..254 /\ j \in 0..254
      <4>1. PICK l : l = L'
        BY Zenon
      <4>2. i \in 0..l-1 /\ j \in 0..l-1
        BY <4>1, Zenon DEF Logical
      <4>3. l \in 1..255
        BY <3>1, <4>1, Zenon
      <4>4. \A x, y : y \in 1..255 /\ x \in 0..y-1 => x \in 0..254
        OBVIOUS
      <4> QED BY <4>2, <4>3, <4>4, ZenonT(30)
    <3>3. Earlier[i] <= Earlier[j] + Cardinality(Admins)
      BY <3>2, Zenon DEF Balanced
    <3>4. MerchantsOn(i) = Earlier[i] /\ MerchantsOn(j) = Earlier[j] /\ Earlier[i] \in Nat
      BY <2>2, <3>2, Zenon
    <3> QED BY <3>3, <3>4
  <2>4. CASE boot'.pc # "check"
    <3>1. L' = L /\ Picked(i) = 0
      <4>1. boot' = [boot EXCEPT !.pc = "refused"] /\ UNCHANGED admin
        BY <1>5, <2>1, <2>4, Zenon DEF Load, BootRec
      <4> QED BY <1>2, <1>5, <4>1, ZenonT(30) DEF Picked, L, BootRec
    <3> QED BY <3>1, Zenon DEF SpreadBounded
  <2> QED BY <2>3, <2>4, Zenon
<1> QED BY <1>6, <1>7, Zenon

\* Every step keeps the spread.
LEMMA SpreadStep ==
  ASSUME IInv, IInv', Balanced, SpreadBounded, [Next]_vars
  PROVE  SpreadBounded'
<1>1. ASSUME UNCHANGED <<shardOf, admin>>, L' = L PROVE SpreadBounded'
  BY <1>1, ZenonT(30) DEF SpreadBounded, MerchantsOn, Picked
<1>2. CASE CheckShards \/ OpenPool \/ OpenPoolFails
  BY <1>1, <1>2, Zenon DEF CheckShards, OpenPool, OpenPoolFails, L, IInv, BootInv, BootRec
<1>3. ASSUME NEW m \in Merchants, NEW o \in Orders,
             \/ Insert(m, o) \/ UpdateCheckout(m, o)
             \/ \E s \in Outcomes, pi \in BOOLEAN : UpdateStatus(m, o, s, pi)
      PROVE  SpreadBounded'
  BY <1>1, <1>3, Zenon DEF Insert, UpdateCheckout, UpdateStatus, L
<1>4. ASSUME NEW c \in Callers, NEW q \in Queries, Ask(c, q)
      PROVE  SpreadBounded'
  BY <1>1, <1>4, Zenon DEF Ask, L
<1>5. ASSUME NEW c \in Callers, NEW p \in Pools(n),
             scatterFirst(c, p) \/ GetPendingBefore(c, p) \/ PoolFails(c, p)
      PROVE  SpreadBounded'
  BY <1>1, <1>5, Zenon DEF scatterFirst, GetPendingBefore, PoolFails, L
<1>6. ASSUME NEW c \in Callers, FollowUp(c) \/ Return(c)
      PROVE  SpreadBounded'
  BY <1>1, <1>6, Zenon DEF FollowUp, Return, L
<1>7. CASE UNCHANGED vars
  BY <1>1, <1>7, Zenon DEF vars, L
<1>8. CASE Load \/ Restart
  BY <1>8, BootSpread, Zenon
<1>9. ASSUME NEW a \in Admins, InsertMerchant(a) \/ \E m \in Merchants : Create(a, m)
      PROVE  SpreadBounded'
  BY <1>9, InsertSpread, CreateSpread, Zenon
<1> QED BY <1>2, <1>3, <1>4, <1>5, <1>6, <1>7, <1>8, <1>9, Zenon DEF Next

\* Concurrent creations, each a count and an INSERT of its own, never put the
\* fullest shard ahead of the emptiest by more than their number, if no
\* two shards of any configuration were so from the start: for every number of creators and shards, through
\* failed creations and restarts.
THEOREM SpreadStaysBounded == Balanced => (Spec => []SpreadBounded)
<1> SUFFICES ASSUME Balanced PROVE Spec => []SpreadBounded
  BY Zenon
<1>1. Init => SpreadBounded
  BY DEF Init, SpreadBounded, L, Logical
<1>2. IInv /\ IInv' /\ SpreadBounded /\ [Next]_vars => SpreadBounded'
  BY SpreadStep, Zenon
<1> QED BY <1>1, <1>2, Invariance, PTL DEF Spec

----------------------------------------------------------------------------
(* The merged list of the cron's scan. *)

Ordered(s) == \A i, j \in 1..Len(s) : i < j => s[i].created <= s[j].created

\* f finds the first k entries of s in r, each in a place of its own.
Places(f, k, s, r) ==
  /\ f \in [1..k -> 1..Len(r)]
  /\ \A i \in 1..k : r[f[i]] = s[i]
  /\ \A i, j \in 1..k : f[i] = f[j] => i = j

\* What the comparison of the insertion sort says of the ages.
LEMMA StaysOlder ==
  ASSUME NEW a, NEW b, a.created \in Nat, b.created \in Nat
  PROVE  /\ Stays(a, b) => a.created <= b.created
         /\ ~ Stays(a, b) => b.created <= a.created
<1>1. /\ Stays(a, b) => a.created < b.created \/ a.created = b.created
      /\ ~ Stays(a, b) => ~ (a.created < b.created)
  BY Zenon DEF Stays
<1> QED BY <1>1

\* An entry that sinks into an ordered list leaves it ordered.
LEMMA SinkOrdered ==
  ASSUME NEW S, \A t \in S : t.created \in Nat, NEW s \in Seq(S), NEW x \in S, Ordered(s)
  PROVE  Ordered(Sink(s, x))
<1>1. PICK d \in Seq(S), k \in 0..Len(s) : d = Sink(s, x) /\ SunkAt(s, x, k, d)
  BY SinkAt, Zenon
<1>2. /\ k > 0 => Stays(s[k], x)
      /\ \A j \in (k + 1)..Len(s) : ~ Stays(s[j], x)
      /\ Len(d) = Len(s) + 1
      /\ \A j \in 1..(Len(s) + 1) :
           d[j] = IF j <= k THEN s[j] ELSE IF j = k + 1 THEN x ELSE s[j - 1]
  BY <1>1, Zenon DEF SunkAt
<1>3. Len(s) \in Nat /\ k \in Nat /\ x.created \in Nat /\ \A i \in 1..Len(s) : s[i].created \in Nat
  OBVIOUS
<1>4. \A i \in 1..k : s[i].created <= x.created
  <2> SUFFICES ASSUME NEW i \in 1..k PROVE s[i].created <= x.created
    BY Zenon
  <2>1. k > 0 /\ k \in 1..Len(s) /\ i \in 1..Len(s)
    BY <1>3
  <2>2. s[k].created <= x.created
    BY <1>2, <1>3, <2>1, StaysOlder, Zenon
  <2>3. s[i].created <= s[k].created
    BY <1>3, <2>1 DEF Ordered
  <2> QED BY <1>3, <2>1, <2>2, <2>3
<1>5. \A i \in (k + 1)..Len(s) : x.created <= s[i].created
  <2> SUFFICES ASSUME NEW i \in (k + 1)..Len(s) PROVE x.created <= s[i].created
    BY Zenon
  <2>1. ~ Stays(s[i], x) /\ i \in 1..Len(s)
    BY <1>2, <1>3
  <2> QED BY <1>3, <2>1, StaysOlder, Zenon
<1>6. ASSUME NEW i \in 1..(Len(s) + 1), NEW j \in 1..(Len(s) + 1), i < j
      PROVE  d[i].created <= d[j].created
  <2>1. /\ d[i] = IF i <= k THEN s[i] ELSE IF i = k + 1 THEN x ELSE s[i - 1]
        /\ d[j] = IF j <= k THEN s[j] ELSE IF j = k + 1 THEN x ELSE s[j - 1]
    BY <1>2, Zenon
  <2>2. \A g, h \in 1..Len(s) : g < h => s[g].created <= s[h].created
    BY Zenon DEF Ordered
  <2>3. CASE j <= k
    <3>1. i \in 1..Len(s) /\ j \in 1..Len(s) /\ d[i] = s[i] /\ d[j] = s[j]
      BY <1>3, <1>6, <2>1, <2>3
    <3> QED BY <1>6, <2>2, <3>1, Zenon
  <2>4. CASE j = k + 1
    BY <1>3, <1>4, <1>6, <2>1, <2>4
  <2>5. CASE j > k + 1 /\ i <= k
    <3>1. i \in 1..Len(s) /\ j - 1 \in 1..Len(s) /\ i < j - 1 /\ d[i] = s[i] /\ d[j] = s[j - 1]
      BY <1>3, <2>1, <2>5
    <3> QED BY <2>2, <3>1, Zenon
  <2>6. CASE j > k + 1 /\ i = k + 1
    <3>1. j - 1 \in (k + 1)..Len(s) /\ d[i] = x /\ d[j] = s[j - 1]
      BY <1>3, <2>1, <2>6
    <3> QED BY <1>5, <3>1, Zenon
  <2>7. CASE j > k + 1 /\ i > k + 1
    <3>1. i - 1 \in 1..Len(s) /\ j - 1 \in 1..Len(s) /\ i - 1 < j - 1 /\ d[i] = s[i - 1] /\ d[j] = s[j - 1]
      BY <1>3, <1>6, <2>1, <2>7
    <3> QED BY <2>2, <3>1, Zenon
  <2>8. j <= k \/ j = k + 1 \/ (j > k + 1 /\ (i <= k \/ i = k + 1 \/ i > k + 1))
    BY <1>3
  <2> QED BY <2>3, <2>4, <2>5, <2>6, <2>7, <2>8, Zenon
<1> QED BY <1>1, <1>2, <1>6, Zenon DEF Ordered

\* Where an entry is after one has come in behind place k.
Pushed(k, a) == IF a <= k THEN a ELSE a + 1

\* The place behind k is free.
LEMMA PushedFree ==
  ASSUME NEW k \in Nat, NEW a \in Nat
  PROVE  Pushed(k, a) # k + 1 /\ ~ (k + 1 <= k)
BY DEF Pushed

\* Entries that were apart stay apart.
LEMMA PushedApart ==
  ASSUME NEW k \in Nat, NEW a \in Nat, NEW b \in Nat, Pushed(k, a) = Pushed(k, b)
  PROVE  a = b
BY DEF Pushed

\* An entry behind place k moves one place on.
LEMMA PushedOn ==
  ASSUME NEW k \in Nat, NEW a \in Nat, NEW c, ~ (a <= k), c = a + 1
  PROVE  ~ (c <= k) /\ c # k + 1 /\ c - 1 = a
OBVIOUS

\* The places of the entries, after one more has been sunk.
LEMMA SinkPlaces ==
  ASSUME NEW S, NEW s \in Seq(S), NEW r \in Seq(S), NEW e \in 1..Len(s),
         NEW f, Places(f, e - 1, s, r)
  PROVE  \E g : Places(g, e, s, Sink(r, s[e]))
<1>0. s[e] \in S /\ Len(s) \in Nat /\ Len(r) \in Nat /\ e \in Nat
  OBVIOUS
<1>1. PICK d \in Seq(S), k \in 0..Len(r) : d = Sink(r, s[e]) /\ SunkAt(r, s[e], k, d)
  BY <1>0, SinkAt, Zenon
<1>2. /\ Len(d) = Len(r) + 1
      /\ \A j \in 1..(Len(r) + 1) :
           d[j] = IF j <= k THEN r[j] ELSE IF j = k + 1 THEN s[e] ELSE r[j - 1]
  BY <1>1, Zenon DEF SunkAt
<1>3. k \in Nat /\ \A i \in 1..e : i # e =>
        i \in 1..(e - 1) /\ f[i] \in 1..Len(r) /\ f[i] \in Nat /\ r[f[i]] = s[i]
  BY <1>0 DEF Places
<1>4. PICK g \in [1..e -> 1..(Len(r) + 1)] :
        \A i \in 1..e : g[i] = IF i = e THEN k + 1 ELSE Pushed(k, f[i])
  <2>1. ASSUME NEW i \in 1..e
        PROVE  (IF i = e THEN k + 1 ELSE Pushed(k, f[i])) \in 1..(Len(r) + 1)
    <3>1. CASE i = e BY <1>0, <3>1
    <3>2. CASE i # e
      <4>1. f[i] \in 1..Len(r) BY <1>3, <3>2, Zenon
      <4> QED BY <1>0, <3>2, <4>1 DEF Pushed
    <3> QED BY <3>1, <3>2, Zenon
  <2> DEFINE h == [i \in 1..e |-> IF i = e THEN k + 1 ELSE Pushed(k, f[i])]
  <2>2. h \in [1..e -> 1..(Len(r) + 1)] BY <2>1, Zenon
  <2>3. \A i \in 1..e : h[i] = IF i = e THEN k + 1 ELSE Pushed(k, f[i]) BY Zenon
  <2> HIDE DEF h
  <2> QED BY <2>2, <2>3, Zenon
<1>5. ASSUME NEW i \in 1..e PROVE d[g[i]] = s[i]
  <2>1. d[g[i]] = IF g[i] <= k THEN r[g[i]] ELSE IF g[i] = k + 1 THEN s[e] ELSE r[g[i] - 1]
    BY <1>2, <1>4, Zenon
  <2>2. CASE i = e
    <3>1. g[i] = k + 1 /\ ~ (g[i] <= k) BY <1>3, <1>4, <2>2, PushedFree, Zenon
    <3> QED BY <2>1, <2>2, <3>1, Zenon
  <2>3. CASE i # e /\ f[i] <= k
    <3>1. g[i] = f[i] /\ g[i] <= k
      BY <1>4, <2>3, Zenon DEF Pushed
    <3> QED BY <1>3, <2>1, <2>3, <3>1, Zenon
  <2>4. CASE i # e /\ ~(f[i] <= k)
    <3>1. g[i] = f[i] + 1 /\ f[i] \in Nat
      BY <1>3, <1>4, <2>4, Zenon DEF Pushed
    <3>2. ~ (g[i] <= k) /\ g[i] # k + 1 /\ g[i] - 1 = f[i]
      BY <1>3, <2>4, <3>1, PushedOn, Zenon
    <3> QED BY <1>3, <2>1, <2>4, <3>2, Zenon
  <2> QED BY <2>2, <2>3, <2>4, Zenon
<1>6. ASSUME NEW i \in 1..e, NEW j \in 1..e, g[i] = g[j] PROVE i = j
  <2>1. \A a \in 1..e : a # e => g[a] = Pushed(k, f[a]) /\ f[a] \in Nat /\ g[a] # k + 1
    <3> SUFFICES ASSUME NEW a \in 1..e, a # e
                 PROVE  g[a] = Pushed(k, f[a]) /\ f[a] \in Nat /\ g[a] # k + 1
      OBVIOUS
    <3>1. g[a] = Pushed(k, f[a]) /\ f[a] \in Nat BY <1>3, <1>4, Zenon
    <3>2. Pushed(k, f[a]) # k + 1 BY <1>3, <3>1, PushedFree, Zenon
    <3> QED BY <3>1, <3>2, Zenon
  <2>2. CASE i # e /\ j # e
    <3>1. f[i] \in Nat /\ f[j] \in Nat /\ Pushed(k, f[i]) = Pushed(k, f[j])
      BY <1>6, <2>1, <2>2, Zenon
    <3>2. f[i] = f[j] BY <1>3, <3>1, PushedApart, ZenonT(30)
    <3> QED BY <1>3, <2>2, <3>2, Zenon DEF Places
  <2>3. g[e] = k + 1 BY <1>0, <1>4
  <2> QED BY <1>6, <2>1, <2>2, <2>3, Zenon
<1>7. Len(d) = Len(r) + 1
  BY <1>2, Zenon
<1>8. Places(g, e, s, d)
  BY <1>4, <1>5, <1>6, <1>7, Zenon DEF Places
<1> QED BY <1>1, <1>8, Zenon

\* sortTransactionsByCreatedAt returns its argument's entries, oldest first,
\* and loses none.
THEOREM SortSorts ==
  ASSUME NEW S, \A t \in S : t.created \in Nat, NEW s \in Seq(S)
  PROVE  /\ Ordered(sortTransactionsByCreatedAt(s))
         /\ \E f : Places(f, Len(s), s, sortTransactionsByCreatedAt(s))
<1>1. PICK r \in [0..Len(s) -> Seq(S)] :
           /\ r[0] = <<>> /\ \A i \in 1..Len(s) : r[i] = Sink(r[i - 1], s[i])
           /\ sortTransactionsByCreatedAt(s) = r[Len(s)]
  BY SortSteps, Zenon
<1>2. Len(s) \in Nat /\ \A i \in 1..Len(s) : s[i] \in S
  OBVIOUS
<1> DEFINE Q(e) == Ordered(r[e]) /\ \E f : Places(f, e, s, r[e])
<1>3. Q(0)
  <2>1. Ordered(r[0])
    BY <1>1 DEF Ordered
  <2> DEFINE f == [i \in 1..0 |-> i]
  <2>2. Places(f, 0, s, r[0])
    BY <1>1 DEF Places
  <2> QED BY <2>1, <2>2, Zenon
<1>4. ASSUME NEW e \in 1..Len(s), Q(e - 1) PROVE Q(e)
  <2>0. e - 1 \in 0..Len(s)
    BY <1>2
  <2>1. r[e] = Sink(r[e - 1], s[e]) /\ r[e - 1] \in Seq(S) /\ s[e] \in S
    BY <1>1, <1>2, <2>0, Zenon
  <2>2. PICK f : Places(f, e - 1, s, r[e - 1])
    BY <1>4, Zenon
  <2>3. Ordered(r[e])
    BY <1>4, <2>1, SinkOrdered, Zenon
  <2>4. \E g : Places(g, e, s, r[e])
    BY <2>1, <2>2, SinkPlaces, Zenon
  <2> QED BY <2>3, <2>4, Zenon
<1> HIDE DEF Q
<1>5. Q(Len(s))
  <2> SUFFICES ASSUME ~ Q(Len(s)) PROVE FALSE
    BY Zenon
  <2> DEFINE T == {i \in 0..Len(s) : ~ Q(i)}
  <2>1. T \subseteq Nat /\ T # {}
    BY <1>2
  <2>2. PICK e \in T : \A y \in T : e <= y
    <3> HIDE DEF T
    <3> QED BY <2>1, LeastNat, Zenon
  <2>3. e \in 1..Len(s) /\ ~ Q(e)
    BY <1>2, <1>3, <2>2
  <2>4. e - 1 \in 0..Len(s) /\ ~ (e <= e - 1)
    BY <1>2, <2>3
  <2>5. Q(e - 1)
    BY <2>2, <2>4, Zenon
  <2> QED BY <1>4, <2>3, <2>5, Zenon
<1> QED BY <1>1, <1>5, Zenon DEF Q

\* The list holds the row, or Limit others that are as old.
Holds(g, r) == \E i \in 1..Len(g) :
  g[i].merchant = r.merchant /\ g[i].order = r.order /\ g[i].created = r.created

Enough(g, t) == \E f \in [1..Limit -> 1..Len(g)] :
  /\ \A i \in 1..Limit : g[f[i]].created <= t
  /\ \A i, j \in 1..Limit : f[i] = f[j] => i = j

Accounted(g, r) == Holds(g, r) \/ Enough(g, r.created)

\* A list that grows at its end still accounts for a row.
LEMMA AccountedGrows ==
  ASSUME NEW S, NEW g \in Seq(S), NEW h \in Seq(S), NEW r, Accounted(g, r)
  PROVE  Accounted(g \o h, r)
<1>1. PICK d : d = g \o h
  BY Zenon
<1>2. Len(g) \in Nat /\ Len(h) \in Nat
  OBVIOUS
<1>3. Len(d) = Len(g) + Len(h) /\ \A j \in 1..Len(g) : d[j] = g[j]
  BY <1>1, ConcatAt, Zenon
<1>4. \A j \in 1..Len(g) : j \in 1..Len(d)
  BY <1>2, <1>3
<1>5. CASE Holds(g, r)
  <2>1. Holds(d, r)
    BY <1>3, <1>4, <1>5, Zenon DEF Holds
  <2> QED BY <1>1, <2>1, Zenon DEF Accounted
<1>6. CASE Enough(g, r.created)
  <2>1. PICK f \in [1..Limit -> 1..Len(g)] :
          /\ \A i \in 1..Limit : g[f[i]].created <= r.created
          /\ \A i, j \in 1..Limit : f[i] = f[j] => i = j
    BY <1>6, Zenon DEF Enough
  <2>2. f \in [1..Limit -> 1..Len(d)] /\ \A i \in 1..Limit : d[f[i]].created <= r.created
    BY <1>3, <1>4, <2>1, Zenon
  <2>3. Enough(d, r.created)
    BY <2>1, <2>2, Zenon DEF Enough
  <2> QED BY <1>1, <2>3, Zenon DEF Accounted
<1> QED BY <1>5, <1>6, Zenon DEF Accounted

\* A list that is sorted still accounts for a row.
LEMMA AccountedSorted ==
  ASSUME NEW s, NEW d, NEW p, Places(p, Len(s), s, d), Len(s) \in Nat, NEW r, Accounted(s, r)
  PROVE  Accounted(d, r)
<1>1. p \in [1..Len(s) -> 1..Len(d)] /\ (\A i \in 1..Len(s) : d[p[i]] = s[i])
      /\ \A i, j \in 1..Len(s) : p[i] = p[j] => i = j
  BY Zenon DEF Places
<1>2. CASE Holds(s, r)
  <2>1. PICK i \in 1..Len(s) : s[i].merchant = r.merchant /\ s[i].order = r.order /\ s[i].created = r.created
    BY <1>2, Zenon DEF Holds
  <2>2. p[i] \in 1..Len(d) /\ d[p[i]] = s[i]
    BY <1>1, Zenon
  <2> QED BY <2>1, <2>2, Zenon DEF Accounted, Holds
<1>3. CASE Enough(s, r.created)
  <2>1. PICK f \in [1..Limit -> 1..Len(s)] :
          /\ \A i \in 1..Limit : s[f[i]].created <= r.created
          /\ \A i, j \in 1..Limit : f[i] = f[j] => i = j
    BY <1>3, Zenon DEF Enough
  <2> DEFINE h == [i \in 1..Limit |-> p[f[i]]]
  <2>2. h \in [1..Limit -> 1..Len(d)]
    BY <1>1, <2>1, Zenon
  <2>3. \A i \in 1..Limit : d[h[i]].created <= r.created
    BY <1>1, <2>1, Zenon
  <2>4. \A i, j \in 1..Limit : h[i] = h[j] => i = j
    BY <1>1, <2>1, Zenon
  <2> HIDE DEF h
  <2> QED BY <2>2, <2>3, <2>4, Zenon DEF Accounted, Enough
<1> QED BY <1>2, <1>3, Zenon DEF Accounted

\* The batch size is not zero.
LEMMA LimitPositive == Limit \in Nat /\ Limit > 0
<1>1. Limit \in Nat \ {0}
  BY RoutingAssumption, Zenon
<1> QED BY <1>1

\* An ordered list with Limit entries up to an age begins with such entries.
LEMMA EnoughFirst ==
  ASSUME NEW S, \A t \in S : t.created \in Nat, NEW g \in Seq(S), Ordered(g),
         NEW t \in Nat, Enough(g, t)
  PROVE  Limit <= Len(g) /\ \A i \in 1..Limit : g[i].created <= t
<1>0. Limit \in Nat /\ Limit > 0 /\ Len(g) \in Nat /\ \A i \in 1..Len(g) : g[i].created \in Nat
  BY LimitPositive
<1>1. PICK f \in [1..Limit -> 1..Len(g)] :
          /\ \A i \in 1..Limit : g[f[i]].created <= t
          /\ \A i, j \in 1..Limit : f[i] = f[j] => i = j
  BY Zenon DEF Enough
<1>2. ASSUME NEW m \in Nat, m < Limit, f \in [1..Limit -> 1..m] PROVE FALSE
  <2>1. IsFiniteSet(1..Limit) /\ Cardinality(1..Limit) = Limit
    BY <1>0, FS_Interval
  <2>2. IsFiniteSet(1..m) /\ Cardinality(1..m) = m
    BY <1>2, FS_Interval
  <2>3. \E x, y \in 1..Limit : x # y /\ f[x] = f[y]
    BY <1>2, <2>1, <2>2, FS_PigeonHole, Zenon
  <2> QED BY <1>1, <2>3, Zenon
<1>3. Limit <= Len(g)
  <2> SUFFICES ASSUME Len(g) < Limit PROVE FALSE
    BY <1>0
  <2> QED BY <1>0, <1>1, <1>2, Zenon
<1>4. g[Limit].created <= t
  <2> SUFFICES ASSUME ~ (g[Limit].created <= t) PROVE FALSE
    BY Zenon
  <2>1. Limit \in 1..Len(g)
    BY <1>0, <1>3
  <2>2. ASSUME NEW i \in 1..Limit PROVE f[i] \in 1..(Limit - 1)
    <3>1. f[i] \in 1..Len(g) /\ g[f[i]].created <= t
      BY <1>1, Zenon
    <3>2. ~ (Limit < f[i]) /\ f[i] # Limit
      <4>1. Limit < f[i] => g[Limit].created <= g[f[i]].created BY <2>1, <3>1, Zenon DEF Ordered
      <4>2. g[Limit].created \in Nat /\ g[f[i]].created \in Nat BY <1>0, <2>1, <3>1, Zenon
      <4> QED BY <3>1, <4>1, <4>2
    <3> QED BY <1>0, <3>1, <3>2
  <2>3. f \in [1..Limit -> 1..(Limit - 1)]
    BY <1>1, <2>2, Zenon
  <2>4. Limit - 1 \in Nat /\ Limit - 1 < Limit
    BY <1>0
  <2> QED BY <1>2, <2>3, <2>4, Zenon
<1>5. ASSUME NEW i \in 1..Limit PROVE g[i].created <= t
  <2>1. i \in 1..Len(g) /\ Limit \in 1..Len(g)
    BY <1>0, <1>3
  <2>2. i = Limit \/ g[i].created <= g[Limit].created
    BY <1>0, <2>1 DEF Ordered
  <2> QED BY <1>0, <1>4, <2>1, <2>2
<1> QED BY <1>3, <1>5, Zenon

\* The cut to the batch size: a row that is left out is left out for Limit
\* others that are as old.
LEMMA CutKeepsOldest ==
  ASSUME NEW S, \A t \in S : t.created \in Nat, NEW g \in Seq(S), Ordered(g)
  PROVE  /\ Ordered(Truncate(g))
         /\ \A r : /\ r.created \in Nat /\ Accounted(g, r)
                   /\ \A i \in 1..Len(Truncate(g)) :
                        ~ (Truncate(g)[i].merchant = r.merchant /\ Truncate(g)[i].order = r.order)
                   => /\ Len(Truncate(g)) = Limit
                      /\ \A i \in 1..Len(Truncate(g)) : Truncate(g)[i].created <= r.created
<1>0. Limit \in Nat /\ Limit > 0 /\ Len(g) \in Nat
  BY LimitPositive
<1>1. PICK k : k = Least(Limit, Len(g))
  BY Zenon
<1>2. k \in Nat /\ k <= Len(g) /\ k <= Limit /\ (k < Len(g) => k = Limit) /\ (Limit <= Len(g) => k = Limit)
  BY <1>0, <1>1 DEF Least
<1>3. PICK c : c = Truncate(g)
  BY Zenon
<1>4. Len(c) = k /\ \A i \in 1..k : c[i] = g[i]
  BY <1>0, <1>1, <1>2, <1>3 DEF Truncate
<1>5. Ordered(c)
  <2>1. ASSUME NEW i \in 1..k, NEW j \in 1..k, i < j PROVE c[i].created <= c[j].created
    <3>1. i \in 1..Len(g) /\ j \in 1..Len(g) BY <1>0, <1>2
    <3> QED BY <1>4, <2>1, <3>1, Zenon DEF Ordered
  <2> QED BY <1>4, <2>1, Zenon DEF Ordered
<1>6. ASSUME NEW r, r.created \in Nat, Accounted(g, r),
             \A i \in 1..k : ~ (c[i].merchant = r.merchant /\ c[i].order = r.order)
      PROVE  k = Limit /\ \A i \in 1..k : c[i].created <= r.created
  <2>1. CASE Holds(g, r)
    <3>1. PICK j \in 1..Len(g) : g[j].merchant = r.merchant /\ g[j].order = r.order /\ g[j].created = r.created
      BY <2>1, Zenon DEF Holds
    <3>2. j \notin 1..k
      BY <1>4, <1>6, <3>1, Zenon
    <3>3. k < j /\ k = Limit
      BY <1>0, <1>2, <3>2
    <3>4. ASSUME NEW i \in 1..k PROVE g[i].created <= g[j].created
      BY <1>0, <1>2, <3>3 DEF Ordered
    <3> QED BY <1>4, <3>1, <3>3, <3>4, Zenon
  <2>2. CASE Enough(g, r.created)
    <3>1. Limit <= Len(g) /\ \A i \in 1..Limit : g[i].created <= r.created
      BY <1>6, <2>2, EnoughFirst, Zenon
    <3> QED BY <1>2, <1>4, <3>1, Zenon
  <2> QED BY <1>6, <2>1, <2>2, Zenon DEF Accounted
<1> QED BY <1>3, <1>4, <1>5, <1>6, Zenon

----------------------------------------------------------------------------
(***************************************************************************)
(* What a lookup has collected, on top of IInv.  Every row holds the codes *)
(* of its order's material; a scan in progress has still to hear from the  *)
(* pool of a row that was due when it began and still is, or accounts for  *)
(* it.                                                                     *)
(***************************************************************************)
ReadsBack(t) ==
  /\ t.currency = Fold(Material[t.order].currency)
  /\ t.method = IF Fold(Material[t.order].method) \in DOMAIN methodToCode
                  THEN Fold(Material[t.order].method) ELSE "unknown"

Good == {t \in Reads : ReadsBack(t)}

Coded(r) ==
  /\ Fold(Material[r.order].currency) \in Currencies
  /\ r.cur = encodeCurrency(Material[r.order].currency)
  /\ r.method = encodeMethod(Material[r.order].method)

Due(x, r) == Key(r) \in x.due /\ Pending(r, x.query.before)

\* What OldestFirst says of one caller's list.
Fair(x) ==
  /\ Ordered(x.got)
  /\ \A r \in rows :
       Due(x, r) /\ (\A i \in 1..Len(x.got) : ~ (x.got[i].merchant = r.merchant /\ x.got[i].order = r.order))
       => Len(x.got) = Limit /\ \A i \in 1..Len(x.got) : x.got[i].created <= r.created

Scanning(x) == x.pc = "wait" /\ x.query.kind = "pending" /\ ~ x.err

ScanInv(x) ==
  /\ x.got \in Seq(Good)
  /\ \A k \in x.due : \E r \in rows : Key(r) = k
  /\ Scanning(x) => \A r \in rows : Due(x, r) => r.pool \in x.waiting \/ Accounted(x.got, r)
  /\ x.pc = "listed" => Fair(x)

ListInv == (\A r \in rows : Coded(r)) /\ \A c \in Callers : ScanInv(caller[c])

\* q is what the row r was: a step neither moves nor recodes a row, and makes
\* none due that was not.
Kin(q, r) ==
  /\ q.pool = r.pool /\ q.merchant = r.merchant /\ q.order = r.order
  /\ q.cur = r.cur /\ q.method = r.method /\ q.created = r.created
  /\ \A b : Pending(r, b) => Pending(q, b)

RowsBack == \A r \in rows' :
  (\E q \in rows : Kin(q, r)) \/ (Coded(r) /\ \A q \in rows : Key(q) # Key(r))

\* A row that is read shows the material of its order.
LEMMA ScanGood ==
  ASSUME NEW r \in Row, Coded(r), NEW i \in 0..255
  PROVE  scanTransaction(r, i) \in Good
<1>1. scanTransaction(r, i) \in Reads
  BY DEF Reads
<1>2. PICK t : t = scanTransaction(r, i)
  BY Zenon
<1>3. t.currency = decodeCurrency(r.cur) /\ t.method = decodeMethod(r.method) /\ t.order = r.order
  BY <1>2, Zenon DEF scanTransaction
<1>4. t.currency = Fold(Material[t.order].currency)
  BY <1>3, CurrencyRoundTrip, Zenon DEF Coded
<1>5. t.method = IF Fold(Material[t.order].method) \in DOMAIN methodToCode
                  THEN Fold(Material[t.order].method) ELSE "unknown"
  BY <1>3, MethodRoundTrip, ZenonT(30) DEF Coded
<1> QED BY <1>1, <1>2, <1>4, <1>5, Zenon DEF Good, ReadsBack

\* A row's age is a number.
LEMMA GoodAge == \A t \in Good : t.created \in Nat
BY DEF Good, Reads, scanTransaction, Row

\* A status that a writer sets is not one the cron looks for.
LEMMA WrittenKin ==
  ASSUME NEW r \in Row, NEW s \in Outcomes, NEW pi \in BOOLEAN
  PROVE  Kin(r, Written(r, s, pi))
<1>1. encodeStatus(s) \notin {encodeStatus("created"), encodeStatus("pending")}
  <2>1. s # "created" /\ s # "pending"
    BY OutcomesAssumption, Zenon
  <2>2. CASE s \in DOMAIN statusCode
    <3>1. s \in {"paid", "failed", "expired", "refunded"}
      BY <2>1, <2>2, Zenon DEF statusCode
    <3> QED BY <3>1 DEF encodeStatus, statusCode
  <2>3. CASE s \notin DOMAIN statusCode
    BY <2>3 DEF encodeStatus, statusCode, Err
  <2> QED BY <2>2, <2>3, Zenon
<1> DEFINE b == r.pi \/ pi
<1> DEFINE v == encodeStatus(s)
<1>2. PICK w : w = Written(r, s, pi)
  BY Zenon
<1>3. w = [r EXCEPT !.status = v, !.pi = b]
  BY <1>2, Zenon DEF Written
<1> HIDE DEF b, v
<1>4. w.status = v /\ r.pool = w.pool /\ r.merchant = w.merchant /\ r.order = w.order
      /\ r.cur = w.cur /\ r.method = w.method /\ r.created = w.created
  BY <1>3, Zenon DEF Row
<1>5. \A d : ~ Pending(w, d)
  BY <1>1, <1>4, Zenon DEF Pending, v
<1>6. Kin(r, w)
  BY <1>4, <1>5, Zenon DEF Kin
<1> QED BY <1>2, <1>6, Zenon

\* An UPDATE, seen from the rows it leaves.
LEMMA WriteBack ==
  ASSUME NEW A \in SUBSET rows, NEW h \in [A -> Row],
         \A r \in A : Kin(r, h[r]) /\ (r.pi => h[r].pi),
         rows' = (rows \ A) \cup {h[r] : r \in A}
  PROVE  RowsBack /\ KeysKept
<1>1. \A r : Kin(r, r)
  BY Zenon DEF Kin
<1>2. ASSUME NEW r \in rows' PROVE \E q \in rows : Kin(q, r)
  <2>1. CASE r \in rows
    BY <1>1, <2>1, Zenon
  <2>2. CASE r \notin rows
    <3>1. PICK q \in A : r = h[q]
      BY <1>2, <2>2, Zenon
    <3> QED BY <3>1, Zenon
  <2> QED BY <2>1, <2>2, Zenon
<1>3. ASSUME NEW r \in rows
      PROVE  \E q \in rows' : q.pool = r.pool /\ q.merchant = r.merchant /\ q.order = r.order
                              /\ (r.pi => q.pi)
  <2>1. CASE r \in A
    <3>1. PICK q \in rows' : q = h[r]
      BY <2>1, Zenon
    <3> QED BY <2>1, <3>1, Zenon DEF Kin
  <2>2. CASE r \notin A
    <3>1. r \in rows'
      BY <2>2, Zenon
    <3> QED BY <3>1, Zenon
  <2> QED BY <2>1, <2>2, Zenon
<1> QED BY <1>2, <1>3, Zenon DEF RowsBack, KeysKept

\* A step that writes no row.
LEMMA RowsStay ==
  ASSUME rows' = rows
  PROVE  RowsBack /\ KeysKept
<1>1. \A r : Kin(r, r)
  BY Zenon DEF Kin
<1> QED BY <1>1, Zenon DEF RowsBack, KeysKept

\* The requests with a merchant in hand.
LEMMA RequestBack ==
  ASSUME IInv, NEW m \in Merchants, NEW o \in Orders,
         \/ Insert(m, o) \/ UpdateCheckout(m, o)
         \/ \E s \in Outcomes, pi \in BOOLEAN : UpdateStatus(m, o, s, pi)
  PROVE  RowsBack /\ KeysKept /\ caller' = caller
<1>1. rows \subseteq Row /\ RowsAtHome
  BY Zenon DEF IInv, RowInv
<1>2. CASE Insert(m, o)
  <2> DEFINE p == For(L, n, shardOf[m])
  <2> DEFINE r0 == [pool |-> p, merchant |-> m, order |-> o,
                    cur |-> encodeCurrency(Material[o].currency),
                    method |-> encodeMethod(Material[o].method),
                    status |-> encodeStatus("created"), pi |-> FALSE, created |-> clock]
  <2>1. rows' = rows \cup {r0} /\ At(p, m, o) = {} /\ encodeCurrency(Material[o].currency) # Err
    BY <1>2, Zenon DEF Insert
  <2>2. r0.pool = p /\ r0.merchant = m /\ r0.order = o /\ r0.cur = encodeCurrency(Material[o].currency)
        /\ r0.method = encodeMethod(Material[o].method)
    BY Zenon
  <2> HIDE DEF p, r0
  <2>3. Coded(r0)
    BY <2>1, <2>2, Zenon DEF Coded, encodeCurrency
  <2>4. \A q \in rows : Key(q) # Key(r0)
    BY <2>1, <2>2, Zenon DEF Key, At
  <2>5. \A r : Kin(r, r)
    BY Zenon DEF Kin
  <2>6. RowsBack
    BY <2>1, <2>3, <2>4, <2>5, Zenon DEF RowsBack
  <2>7. KeysKept /\ caller' = caller
    BY <1>2, <2>1, Zenon DEF KeysKept, Insert
  <2> QED BY <2>6, <2>7, Zenon
<1>3. CASE UpdateCheckout(m, o)
  <2> DEFINE A == Affected(shardOf[m], m, o)
  <2>1. A \in SUBSET rows
    BY Zenon DEF Affected, At
  <2>2. rows' = Set(A, LAMBDA r : [r EXCEPT !.pi = TRUE])
    BY <1>3, Zenon DEF UpdateCheckout
  <2>6. caller' = caller
    BY <1>3, Zenon DEF UpdateCheckout
  <2> HIDE DEF A
  <2> DEFINE h == [r \in A |-> [r EXCEPT !.pi = TRUE]]
  <2>3. ASSUME NEW r \in Row PROVE [r EXCEPT !.pi = TRUE] \in Row /\ Kin(r, [r EXCEPT !.pi = TRUE])
                                  /\ [r EXCEPT !.pi = TRUE].pi
    <3>1. PICK w : w = [r EXCEPT !.pi = TRUE]
      BY Zenon
    <3>2. w \in Row
      BY <3>1, Zenon DEF Row
    <3>3. w.status = r.status /\ r.pool = w.pool /\ r.merchant = w.merchant /\ r.order = w.order
          /\ r.cur = w.cur /\ r.method = w.method /\ r.created = w.created /\ w.pi
      BY <3>1, Zenon DEF Row
    <3>4. Kin(r, w)
      BY <3>3, Zenon DEF Kin, Pending
    <3> QED BY <3>1, <3>2, <3>3, <3>4, Zenon
  <2>4. h \in [A -> Row] /\ \A r \in A : Kin(r, h[r]) /\ (r.pi => h[r].pi)
    <3>1. \A r \in A : h[r] = [r EXCEPT !.pi = TRUE] /\ r \in Row
      BY <1>1, <2>1, Zenon
    <3>2. \A r \in A : h[r] \in Row /\ Kin(r, h[r]) /\ h[r].pi
      BY <2>3, <3>1, Zenon
    <3>3. h = [r \in A |-> h[r]]
      BY Zenon
    <3> HIDE DEF h
    <3> QED BY <3>2, <3>3, Zenon
  <2>5. rows' = (rows \ A) \cup {h[r] : r \in A}
    BY <2>2, Zenon DEF Set
  <2> HIDE DEF h
  <2> QED BY <2>1, <2>4, <2>5, <2>6, WriteBack, Zenon
<1>4. ASSUME NEW s \in Outcomes, NEW pi \in BOOLEAN, UpdateStatus(m, o, s, pi)
      PROVE  RowsBack /\ KeysKept /\ caller' = caller
  <2> DEFINE A == Affected(shardOf[m], m, o)
  <2>1. A \in SUBSET rows
    BY Zenon DEF Affected, At
  <2>2. rows' = Set(A, LAMBDA r : Written(r, s, pi))
    BY <1>4, Zenon DEF UpdateStatus
  <2>6. caller' = caller
    BY <1>4, Zenon DEF UpdateStatus
  <2> HIDE DEF A
  <2> DEFINE h == [r \in A |-> Written(r, s, pi)]
  <2>4. h \in [A -> Row] /\ \A r \in A : Kin(r, h[r]) /\ (r.pi => h[r].pi)
    BY <1>1, <2>1, WrittenKin, WrittenRow, Zenon
  <2>5. rows' = (rows \ A) \cup {h[r] : r \in A}
    BY <2>2, Zenon DEF Set
  <2> HIDE DEF h
  <2> QED BY <2>1, <2>4, <2>5, <2>6, WriteBack, Zenon
<1> QED BY <1>2, <1>3, <1>4, Zenon

\* What a lookup has collected stays true while rows are added or rewritten.
LEMMA ScanKept ==
  ASSUME RowsBack, KeysKept, NEW x, ScanInv(x)
  PROVE  ScanInv(x)'
<1>1. ASSUME NEW k \in x.due PROVE \E r \in rows' : Key(r) = k
  <2>1. PICK r \in rows : Key(r) = k
    BY <1>1, Zenon DEF ScanInv
  <2>2. PICK q \in rows' : q.pool = r.pool /\ q.merchant = r.merchant /\ q.order = r.order
    BY Zenon DEF KeysKept
  <2> QED BY <2>1, <2>2, Zenon DEF Key
<1>2. ASSUME NEW r \in rows', Due(x, r)
      PROVE  \E q \in rows : Kin(q, r) /\ Due(x, q)
  <2>1. PICK q \in rows : Key(q) = Key(r)
    BY <1>2, Zenon DEF ScanInv, Due
  <2>2. PICK z \in rows : Kin(z, r)
    BY <2>1, Zenon DEF RowsBack
  <2> QED BY <1>2, <2>2, Zenon DEF Kin, Due, Key
<1>3. ASSUME Scanning(x), NEW r \in rows', Due(x, r)
      PROVE  r.pool \in x.waiting \/ Accounted(x.got, r)
  <2>1. PICK q \in rows : Kin(q, r) /\ Due(x, q)
    BY <1>2, <1>3, Zenon
  <2>2. q.pool \in x.waiting \/ Accounted(x.got, q)
    BY <1>3, <2>1, Zenon DEF ScanInv
  <2> QED BY <2>1, <2>2, Zenon DEF Kin, Accounted, Holds
<1>4. ASSUME x.pc = "listed" PROVE Fair(x)'
  <2>1. Fair(x)
    BY <1>4, Zenon DEF ScanInv
  <2> SUFFICES ASSUME NEW r \in rows', Due(x, r),
                      \A i \in 1..Len(x.got) : ~ (x.got[i].merchant = r.merchant /\ x.got[i].order = r.order)
               PROVE  Len(x.got) = Limit /\ \A i \in 1..Len(x.got) : x.got[i].created <= r.created
    BY <2>1, Zenon DEF Fair
  <2>2. PICK q \in rows : Kin(q, r) /\ Due(x, q)
    BY <1>2, Zenon
  <2>3. q.merchant = r.merchant /\ q.order = r.order /\ q.created = r.created
    BY <2>2, Zenon DEF Kin
  <2> QED BY <2>1, <2>2, <2>3, Zenon DEF Fair
<1> QED BY <1>1, <1>3, <1>4, Zenon DEF ScanInv

\* A step that gives one caller a right record, or none, keeps ListInv.
LEMMA ListFrame ==
  ASSUME ListInv, RowsBack, KeysKept, NEW C, C \subseteq Callers,
         \A c \in Callers \ C : caller'[c] = caller[c],
         \A c \in C : ScanInv(caller'[c])
  PROVE  ListInv'
<1>1. ASSUME NEW r \in rows' PROVE Coded(r)
  BY DEF ListInv, RowsBack, Kin, Coded
<1>2. ASSUME NEW c \in Callers PROVE ScanInv(caller[c])'
  <2>1. PICK x : x = caller'[c]
    BY Zenon
  <2>2. ScanInv(x)
    BY <2>1, Zenon DEF ListInv
  <2>3. ScanInv(x)'
    BY <2>2, ScanKept, Zenon
  <2> QED BY <2>1, <2>3, Zenon DEF ScanInv, Scanning, Due, Fair
<1> QED BY <1>1, <1>2, Zenon DEF ListInv

\* The same for a step of one caller.
LEMMA OneCaller ==
  ASSUME IInv, ListInv, RowsBack, KeysKept, NEW c \in Callers, NEW y,
         caller' = [caller EXCEPT ![c] = y], ScanInv(y)
  PROVE  ListInv'
<1>1. PICK C : C = {c}
  BY Zenon
<1>2. C \subseteq Callers /\ \A d \in Callers \ C : caller'[d] = caller[d]
  BY <1>1, Zenon DEF IInv, CallerInv
<1>3. \A d \in C : ScanInv(caller'[d])
  <2>1. caller'[c] = y
    BY Zenon DEF IInv, CallerInv
  <2> QED BY <1>1, <2>1, Zenon
<1> QED BY <1>2, <1>3, ListFrame, Zenon

\* A caller at rest.
LEMMA IdleScan == ScanInv(IdleCaller)
<1>1. <<>> \in Seq(Good)
  OBVIOUS
<1> QED BY <1>1, Zenon DEF ScanInv, IdleCaller, Scanning

\* A lookup begins: every row it is to find is on a pool it waits for.
LEMMA AskList ==
  ASSUME IInv, ListInv, NEW c \in Callers, NEW q \in Queries, Ask(c, q)
  PROVE  ListInv'
<1>1. PICK y : y = [pc |-> "wait", query |-> q, waiting |-> Pools(n), err |-> FALSE, got |-> <<>>,
                    due |-> {Key(r) : r \in Selected(q)}]
  BY Zenon
<1>2. Up /\ rows' = rows /\ caller' = [caller EXCEPT ![c] = y]
  BY <1>1, Zenon DEF Ask
<1>3. Shape(L, n)
  BY <1>2, BootedShape, Zenon DEF IInv, BootInv, Up
<1>4. ASSUME NEW r \in rows PROVE r.pool \in Pools(n)
  <2>1. r.merchant \in Merchants /\ shardOf[r.merchant] # None /\ r.pool = For(L, n, shardOf[r.merchant])
    BY Zenon DEF IInv, RowInv, Row, RowsAtHome
  <2>2. shardOf[r.merchant] \in Logical(L)
    BY <2>1, Zenon DEF IInv, MerchantInv
  <2> QED BY <1>3, <2>1, <2>2, ForInRange, Zenon
<1>5. y.pc = "wait" /\ y.got = <<>> /\ y.waiting = Pools(n) /\ y.due = {Key(r) : r \in Selected(q)}
  BY <1>1, Zenon
<1>6. Selected(q) \subseteq rows
  BY Zenon DEF Selected, Queries
<1>7. y.got \in Seq(Good)
  BY <1>5
<1>8. ScanInv(y)
  BY <1>4, <1>5, <1>6, <1>7, Zenon DEF ScanInv
<1> QED BY <1>2, <1>8, OneCaller, RowsStay, Zenon

\* A pool's answer that ends in an error, or in a lookup of one row.
LEMMA AnswerList ==
  ASSUME IInv, ListInv, NEW c \in Callers, rows' = rows, NEW y, caller' = [caller EXCEPT ![c] = y],
         y.got \in Seq(Good), y.due = caller[c].due, y.pc # "listed", ~ Scanning(y)
  PROVE  ListInv'
<1>1. \A k \in y.due : \E r \in rows : Key(r) = k
  BY Zenon DEF ListInv, ScanInv
<1>2. ScanInv(y)
  BY <1>1, Zenon DEF ScanInv
<1> QED BY <1>2, OneCaller, RowsStay, Zenon

\* A failed pool.
LEMMA FailList ==
  ASSUME IInv, ListInv, NEW c \in Callers, NEW p, caller[c].pc = "wait", rows' = rows,
         caller' = [caller EXCEPT ![c] = Answered(c, p, [caller[c] EXCEPT !.err = TRUE])]
  PROVE  ListInv'
<1>1. caller[c] \in CallerRec
  BY Busy, Zenon
<1>2. PICK x : x = [caller[c] EXCEPT !.err = TRUE]
  BY Zenon
<1>3. x \in CallerRec /\ x.err = TRUE /\ x.got = caller[c].got /\ x.due = caller[c].due
  BY <1>1, <1>2, Zenon DEF CallerRec
<1>4. PICK y : y = Answered(c, p, x)
  BY Zenon
<1>5. y.err = TRUE /\ y.got = caller[c].got /\ y.due = caller[c].due
      /\ y.pc = IF y.waiting # {} THEN "wait" ELSE IF x.err THEN "failed" ELSE "missed"
  BY <1>1, <1>3, <1>4, AnsweredType
<1>6. y.pc # "listed" /\ ~ Scanning(y)
  BY <1>5, Zenon DEF Scanning
<1>7. y.got \in Seq(Good)
  BY <1>5, Zenon DEF ListInv, ScanInv
<1>8. caller' = [caller EXCEPT ![c] = y]
  BY <1>2, <1>4, Zenon
<1> QED BY <1>5, <1>6, <1>7, <1>8, AnswerList, Zenon

\* The shard a pool's rows are stamped with is a byte.
LEMMA StampByte ==
  ASSUME Shape(L, n), NEW p \in Pools(n)
  PROVE  physicalToFirstLogical(L, n, p) \in 0..255
<1>1. physicalToFirstLogical(L, n, p) \in Logical(L)
  BY FirstLogical, Zenon
<1> QED BY <1>1 DEF Shape, Logical

\* scatterFirst.
LEMMA ScatterList ==
  ASSUME IInv, ListInv, NEW c \in Callers, NEW p \in Pools(n), scatterFirst(c, p)
  PROVE  ListInv'
<1> DEFINE q == caller[c].query
<1> DEFINE hits == On(p, Selected(q))
<1>1. caller[c].pc = "wait" /\ q.kind \in {"order", "intent"} /\ rows' = rows
  BY Zenon DEF scatterFirst
<1>2. Shape(L, n) /\ caller[c] \in CallerRec /\ rows \subseteq Row
  BY <1>1, Busy, Zenon DEF IInv, RowInv
<1>3. CASE caller' = [caller EXCEPT ![c] = Answered(c, p, caller[c])]
  <2>1. PICK y : y = Answered(c, p, caller[c])
    BY Zenon
  <2>2. /\ y.query = q /\ y.got = caller[c].got /\ y.due = caller[c].due
        /\ y.pc = IF y.waiting # {} THEN "wait" ELSE IF caller[c].err THEN "failed" ELSE "missed"
    BY <1>2, <2>1, AnsweredType
  <2>3. y.pc # "listed" /\ ~ Scanning(y)
    BY <1>1, <2>2, Zenon DEF Scanning
  <2>4. y.got \in Seq(Good)
    BY <2>2, Zenon DEF ListInv, ScanInv
  <2> QED BY <1>1, <1>3, <2>1, <2>2, <2>3, <2>4, AnswerList, Zenon
<1>4. ASSUME NEW r \in hits,
             caller' = [caller EXCEPT ![c] =
               [@ EXCEPT !.pc = "found", !.waiting = {},
                  !.got = <<scanTransaction(r, physicalToFirstLogical(L, n, p))>>]]
      PROVE  ListInv'
  <2>1. r \in rows
    BY <1>1, Zenon DEF On, Selected
  <2>2. PICK t \in Good : t = scanTransaction(r, physicalToFirstLogical(L, n, p))
    BY <1>2, <2>1, ScanGood, StampByte, Zenon DEF ListInv
  <2>3. PICK y : y = [caller[c] EXCEPT !.pc = "found", !.waiting = {}, !.got = <<t>>]
    BY Zenon
  <2>4. y.pc = "found" /\ y.got = <<t>> /\ y.due = caller[c].due
    BY <1>2, <2>3, Zenon DEF CallerRec
  <2>5. y.got \in Seq(Good) /\ y.pc # "listed" /\ ~ Scanning(y)
    BY <2>2, <2>4 DEF Scanning
  <2>6. caller' = [caller EXCEPT ![c] = y]
    BY <1>4, <2>2, <2>3, Zenon
  <2> QED BY <1>1, <2>4, <2>5, <2>6, AnswerList, Zenon
<1>5. ASSUME caller' = [caller EXCEPT ![c] = Answered(c, p, [caller[c] EXCEPT !.err = TRUE])]
      PROVE  ListInv'
  BY <1>1, <1>5, FailList, Zenon
<1>6. \/ hits = {} /\ caller' = [caller EXCEPT ![c] = Answered(c, p, caller[c])]
      \/ \E r \in hits :
           caller' = [caller EXCEPT ![c] =
             IF Decodable(r)
               THEN [@ EXCEPT !.pc = "found", !.waiting = {},
                      !.got = <<scanTransaction(r, physicalToFirstLogical(L, n, p))>>]
               ELSE Answered(c, p, [caller[c] EXCEPT !.err = TRUE])]
  BY Zenon DEF scatterFirst
<1> QED BY <1>3, <1>4, <1>5, <1>6, Zenon

\* A pool's answer accounts for every row it was asked for.
LEMMA AnswerAccounts ==
  ASSUME NEW S, S \subseteq Row, IsFiniteSet(S), NEW s \in OldestOf(S), NEW r \in S, NEW i
  PROVE  Accounted(ReadAs(s, i), r)
<1>1. PICK k \in Nat : k = Least(Limit, Cardinality(S)) /\ s \in [1..k -> S] /\ DOMAIN s = 1..k
  BY OldestSeq, Zenon
<1>2. /\ \A a, b \in 1..k : a < b => s[a] # s[b]
      /\ \A q \in S \ {s[a] : a \in 1..k} : \A a \in 1..k : s[a].created <= q.created
  BY <1>1, Zenon DEF OldestOf
<1>3. PICK g : g = ReadAs(s, i)
  BY Zenon
<1>4. g = [a \in 1..k |-> scanTransaction(s[a], i)]
  BY <1>1, <1>3, ZenonT(30) DEF ReadAs
<1>5. Len(g) = k /\ \A a \in 1..k : g[a].merchant = s[a].merchant /\ g[a].order = s[a].order
                                    /\ g[a].created = s[a].created
  <2>1. \A a \in 1..k : g[a] = scanTransaction(s[a], i)
    BY <1>4, Zenon
  <2>2. g \in Seq({scanTransaction(s[a], i) : a \in 1..k}) /\ Len(g) = k
    BY <1>4
  <2> QED BY <2>1, <2>2 DEF scanTransaction
<1>6. CASE \E a \in 1..k : s[a] = r
  <2>1. Holds(g, r)
    BY <1>5, <1>6, Zenon DEF Holds
  <2> QED BY <1>3, <2>1, Zenon DEF Accounted
<1>7. CASE ~ \E a \in 1..k : s[a] = r
  <2>1. \A a, b \in 1..k : s[a] = s[b] => a = b
    BY <1>2
  <2>2. \A a \in 1..k : s[a].created <= r.created
    BY <1>2, <1>7, Zenon
  <2>3. k = Limit
    <3> SUFFICES ASSUME k # Limit PROVE FALSE
      BY Zenon
    <3>1. k = Cardinality(S)
      BY <1>1, Zenon DEF Least
    <3>2. PICK T : T = S \ {r}
      BY Zenon
    <3>3. IsFiniteSet(T) /\ Cardinality(T) = k - 1
      BY <3>1, <3>2, FS_RemoveElement, Zenon
    <3>4. IsFiniteSet(1..k) /\ Cardinality(1..k) = k
      BY FS_Interval
    <3>5. s \in [1..k -> T]
      BY <1>1, <1>7, <3>2, Zenon
    <3>6. Cardinality(T) < Cardinality(1..k)
      BY <3>3, <3>4
    <3>7. \E a, b \in 1..k : a # b /\ s[a] = s[b]
      BY <3>3, <3>4, <3>5, <3>6, FS_PigeonHole, Zenon
    <3> QED BY <2>1, <3>7, Zenon
  <2> DEFINE f == [a \in 1..Limit |-> a]
  <2>4. f \in [1..Limit -> 1..Len(g)] /\ (\A a \in 1..Limit : g[f[a]].created <= r.created)
        /\ \A a, b \in 1..Limit : f[a] = f[b] => a = b
    BY <1>5, <2>2, <2>3, Zenon
  <2> HIDE DEF f
  <2>5. Enough(g, r.created)
    BY <2>4, Zenon DEF Enough
  <2> QED BY <1>3, <2>5, Zenon DEF Accounted
<1> QED BY <1>6, <1>7, Zenon

\* A list that grows at its front still accounts for a row.
LEMMA AccountedBehind ==
  ASSUME NEW S, NEW g \in Seq(S), NEW h \in Seq(S), NEW r, Accounted(h, r)
  PROVE  Accounted(g \o h, r)
<1>1. PICK d : d = g \o h
  BY Zenon
<1>2. Len(g) \in Nat /\ Len(h) \in Nat
  OBVIOUS
<1>3. Len(d) = Len(g) + Len(h) /\ \A j \in 1..Len(h) : d[Len(g) + j] = h[j]
  BY <1>1, ConcatAt
<1>4. \A j \in 1..Len(h) : Len(g) + j \in 1..Len(d)
  BY <1>2, <1>3
<1>5. CASE Holds(h, r)
  <2>1. PICK j \in 1..Len(h) : h[j].merchant = r.merchant /\ h[j].order = r.order /\ h[j].created = r.created
    BY <1>5, Zenon DEF Holds
  <2>2. PICK a \in 1..Len(d) : a = Len(g) + j
    BY <1>4, Zenon
  <2>3. d[a] = h[j]
    BY <1>3, <2>2, Zenon
  <2>4. Holds(d, r)
    BY <2>1, <2>3, Zenon DEF Holds
  <2> QED BY <1>1, <2>4, Zenon DEF Accounted
<1>6. CASE Enough(h, r.created)
  <2>1. PICK f \in [1..Limit -> 1..Len(h)] :
          /\ \A i \in 1..Limit : h[f[i]].created <= r.created
          /\ \A i, j \in 1..Limit : f[i] = f[j] => i = j
    BY <1>6, Zenon DEF Enough
  <2> DEFINE e == [i \in 1..Limit |-> Len(g) + f[i]]
  <2>2. e \in [1..Limit -> 1..Len(d)]
    BY <1>4, <2>1, Zenon
  <2>3. \A i \in 1..Limit : d[e[i]] = h[f[i]]
    BY <1>3, <2>1, Zenon
  <2>4. \A i, j \in 1..Limit : e[i] = e[j] => i = j
    <3>1. \A i \in 1..Limit : f[i] \in Int
      BY <2>1
    <3> QED BY <1>2, <2>1, <3>1
  <2> HIDE DEF e
  <2>5. \A i \in 1..Limit : d[e[i]].created <= r.created
    BY <2>1, <2>3, Zenon
  <2>6. Enough(d, r.created)
    BY <2>2, <2>4, <2>5, Zenon DEF Enough
  <2> QED BY <1>1, <2>6, Zenon DEF Accounted
<1> QED BY <1>5, <1>6, Zenon DEF Accounted

\* GetPendingBefore: a pool's answer accounts for its rows, and the list that
\* is sorted and cut after the last one leaves a row out only for older ones.
LEMMA PendingList ==
  ASSUME IInv, ListInv, NEW c \in Callers, NEW p \in Pools(n), GetPendingBefore(c, p)
  PROVE  ListInv'
<1> DEFINE q == caller[c].query
<1> DEFINE S == On(p, Selected(q))
<1> DEFINE i0 == physicalToFirstLogical(L, n, p)
<1>1. caller[c].pc = "wait" /\ q.kind = "pending" /\ p \in caller[c].waiting /\ rows' = rows
  BY Zenon DEF GetPendingBefore
<1>2. Shape(L, n) /\ caller[c] \in CallerRec /\ rows \subseteq Row /\ IsFiniteSet(rows) /\ i0 \in 0..255
  BY <1>1, Busy, StampByte, Zenon DEF IInv, RowInv
<1>3. \A r : r \in S <=> r \in rows /\ r.pool = p /\ Pending(r, q.before)
  BY <1>1, Zenon DEF On, Selected
<1>4. PICK s \in OldestOf(S), y \in CallerRec :
        caller' = [caller EXCEPT ![c] = y] /\ Collected(c, p, s, y)
  BY PendingShape, Zenon
<1> HIDE DEF S
<1>5. S \subseteq rows /\ S \subseteq Row /\ IsFiniteSet(S)
  BY <1>2, <1>3, FS_Subset, Zenon
<1>6. PICK k \in Nat : s \in [1..k -> S] /\ DOMAIN s = 1..k
  BY <1>5, OldestSeq, Zenon
<1>7. ReadAs(s, i0) \in Seq(Good)
  <2>1. \A r \in S : scanTransaction(r, i0) \in Good
    BY <1>2, <1>5, ScanGood, Zenon DEF ListInv
  <2>2. ReadAs(s, i0) \in [1..k -> Good]
    BY <1>6, <2>1, Zenon DEF ReadAs
  <2> QED BY <2>2
<1>8. caller[c].got \in Seq(Good)
  BY Zenon DEF ListInv, ScanInv
<1>9. PICK m : m = Merged(c, p, s)
  BY Zenon
<1>10. m \in Seq(Good)
  <2>1. caller[c].got \o ReadAs(s, i0) \in Seq(Good)
    BY <1>7, <1>8
  <2> QED BY <1>8, <1>9, <2>1, Zenon DEF Merged
<1>11. y.query = q /\ y.due = caller[c].due /\ y.waiting = caller[c].waiting \ {p}
  BY <1>4, Zenon DEF Collected
<1>12. \A w \in y.due : \E r \in rows : Key(r) = w
  BY <1>11, Zenon DEF ListInv, ScanInv
<1>13. ASSUME ~ caller[c].err, ~ Unreadable(s), NEW r \in rows, Due(y, r)
       PROVE  r.pool \in y.waiting \/ Accounted(m, r)
  <2>1. m = caller[c].got \o ReadAs(s, i0)
    BY <1>9, <1>13, Zenon DEF Merged
  <2>2. Due(caller[c], r) /\ Pending(r, q.before)
    BY <1>11, <1>13, Zenon DEF Due
  <2>3. r.pool \in caller[c].waiting \/ Accounted(caller[c].got, r)
    BY <1>1, <1>13, <2>2, Zenon DEF ListInv, ScanInv, Scanning
  <2>4. CASE r.pool = p
    <3>1. r \in S
      BY <1>3, <2>2, <2>4, Zenon
    <3>2. Accounted(ReadAs(s, i0), r)
      BY <1>5, <3>1, AnswerAccounts, Zenon
    <3> QED BY <1>7, <1>8, <2>1, <3>2, AccountedBehind, Zenon
  <2>5. CASE r.pool # p /\ r.pool \in caller[c].waiting
    BY <1>11, <2>5, Zenon
  <2>6. CASE Accounted(caller[c].got, r)
    BY <1>7, <1>8, <2>1, <2>6, AccountedGrows, Zenon
  <2> QED BY <2>3, <2>4, <2>5, <2>6, Zenon
<1>14. CASE y.pc = "failed" /\ y.got = m
  <2>1. y.pc # "listed" /\ ~ Scanning(y) /\ y.got \in Seq(Good)
    BY <1>10, <1>14, Zenon DEF Scanning
  <2> QED BY <1>1, <1>4, <1>11, <2>1, AnswerList, Zenon
<1>15. CASE y.pc = "wait" /\ y.got = m /\ (y.err <=> caller[c].err \/ Unreadable(s))
  <2>1. Scanning(y) => ~ caller[c].err /\ ~ Unreadable(s)
    BY <1>15, Zenon DEF Scanning
  <2>2. Scanning(y) => \A r \in rows : Due(y, r) => r.pool \in y.waiting \/ Accounted(y.got, r)
    BY <1>13, <1>15, <2>1, Zenon
  <2>3. ScanInv(y)
    BY <1>10, <1>12, <1>15, <2>2, ZenonT(30) DEF ScanInv
  <2> QED BY <1>1, <1>4, <2>3, OneCaller, RowsStay, Zenon
<1>16. CASE /\ y.pc = "listed" /\ y.waiting = {} /\ ~ caller[c].err /\ ~ Unreadable(s)
            /\ y.got = Truncate(sortTransactionsByCreatedAt(m))
  <2>1. PICK d : d = sortTransactionsByCreatedAt(m)
    BY Zenon
  <2>2. d \in Seq(Good) /\ Ordered(d) /\ \E f : Places(f, Len(m), m, d)
    BY <1>10, <2>1, SortSeq_, SortSorts, GoodAge, Zenon
  <2>3. y.got = Truncate(d) /\ y.got \in Seq(Good)
    BY <1>16, <2>1, <2>2, TruncateSeq, Zenon
  <2>4. ASSUME NEW r \in rows, Due(y, r) PROVE Accounted(d, r)
    <3>1. Accounted(m, r)
      BY <1>13, <1>16, <2>4, Zenon
    <3>2. PICK f : Places(f, Len(m), m, d)
      BY <2>2, Zenon
    <3>3. Len(m) \in Nat
      BY <1>10
    <3> QED BY <3>1, <3>2, <3>3, AccountedSorted, Zenon
  <2>5. \A r \in rows : r.created \in Nat
    BY <1>2, Zenon DEF Row
  <2>6. Fair(y)
    BY <2>2, <2>3, <2>4, <2>5, GoodAge, CutKeepsOldest, ZenonT(30) DEF Fair
  <2>7. ScanInv(y)
    BY <1>12, <1>16, <2>3, <2>6, Zenon DEF ScanInv, Scanning
  <2> QED BY <1>1, <1>4, <2>7, OneCaller, RowsStay, Zenon
<1> QED BY <1>4, <1>9, <1>14, <1>15, <1>16, Zenon DEF Collected

\* A step of no caller.
LEMMA SameCallers ==
  ASSUME ListInv, RowsBack, KeysKept, caller' = caller
  PROVE  ListInv'
<1>1. PICK C : C = {}
  BY Zenon
<1>2. C \subseteq Callers /\ (\A d \in Callers \ C : caller'[d] = caller[d])
      /\ \A d \in C : ScanInv(caller'[d])
  BY <1>1, Zenon
<1> QED BY <1>2, ListFrame, Zenon

\* The process starts again: no caller is left.
LEMMA BootList ==
  ASSUME ListInv, Load \/ CheckShards \/ OpenPool \/ OpenPoolFails \/ Restart
  PROVE  ListInv'
<1>1. rows' = rows
  BY Zenon DEF Load, CheckShards, OpenPool, OpenPoolFails, Restart
<1>2. CASE Load \/ CheckShards \/ OpenPool \/ OpenPoolFails
  <2>1. caller' = caller
    BY <1>2, Zenon DEF Load, CheckShards, OpenPool, OpenPoolFails
  <2> QED BY <1>1, <2>1, SameCallers, RowsStay, Zenon
<1>3. CASE Restart
  <2>1. PICK C : C = Callers
    BY Zenon
  <2>2. caller' = [d \in Callers |-> IdleCaller]
    BY <1>3, Zenon DEF Restart
  <2>3. C \subseteq Callers /\ (\A d \in Callers \ C : caller'[d] = caller[d])
        /\ \A d \in C : ScanInv(caller'[d])
    BY <2>1, <2>2, IdleScan, Zenon
  <2> QED BY <1>1, <2>3, ListFrame, RowsStay, Zenon
<1> QED BY <1>2, <1>3, Zenon

\* The follow-up write takes the first row off the list.
LEMMA FollowUpList ==
  ASSUME IInv, ListInv, NEW c \in Callers, FollowUp(c)
  PROVE  ListInv'
<1> DEFINE t == Head(caller[c].got)
<1> DEFINE A == Affected(t.shard, t.merchant, t.order)
<1> DEFINE x == [caller[c] EXCEPT !.pc = "writing", !.got = Tail(caller[c].got)]
<1>1. caller[c].pc # "idle" /\ caller[c].got # <<>>
  BY Zenon DEF FollowUp
<1>2. caller[c] \in CallerRec /\ rows \subseteq Row
  BY <1>1, Busy, Zenon DEF IInv, RowInv
<1>3. A \in SUBSET rows
  BY Zenon DEF Affected, At
<1>4. \/ /\ \E s \in Outcomes : rows' = Set(A, LAMBDA r : Written(r, s, FALSE))
         /\ caller' = [caller EXCEPT ![c] = IF A = {} THEN [x EXCEPT !.pc = "norow"] ELSE Finish(x)]
      \/ rows' = rows /\ caller' = [caller EXCEPT ![c] = Finish(x)]
  BY Zenon DEF FollowUp
<1>5. PICK z : z = x
  BY Zenon
<1>6. /\ z.pc = "writing" /\ z.got \in Seq(Good)
      /\ \A k \in z.due : \E r \in rows : Key(r) = k
  <2>1. z.pc = "writing" /\ z.got = Tail(caller[c].got) /\ z.due = caller[c].due
    BY <1>2, <1>5, Zenon DEF CallerRec
  <2>2. Tail(caller[c].got) \in Seq(Good)
    BY <1>1 DEF ListInv, ScanInv
  <2> QED BY <2>1, <2>2, Zenon DEF ListInv, ScanInv
<1>7. ScanInv(z)
  BY <1>6, Zenon DEF ScanInv, Scanning
<1>8. ScanInv(Finish(x))
  BY <1>5, <1>7, IdleScan, Zenon DEF Finish
<1>9. ScanInv([x EXCEPT !.pc = "norow"])
  <2>1. PICK y : y = [x EXCEPT !.pc = "norow"]
    BY Zenon
  <2>2. y.pc = "norow" /\ y.got = z.got /\ y.due = z.due
    BY <1>2, <1>5, <2>1, Zenon DEF CallerRec
  <2>3. ScanInv(y)
    BY <1>6, <2>2, Zenon DEF ScanInv, Scanning
  <2> QED BY <2>1, <2>3, Zenon
<1> HIDE DEF x, A, t
<1>10. PICK y : caller' = [caller EXCEPT ![c] = y] /\ ScanInv(y)
  BY <1>4, <1>8, <1>9, Zenon
<1>11. RowsBack /\ KeysKept
  <2>1. CASE rows' = rows
    BY <2>1, RowsStay, Zenon
  <2>2. ASSUME NEW s \in Outcomes, rows' = Set(A, LAMBDA r : Written(r, s, FALSE))
        PROVE  RowsBack /\ KeysKept
    <3> DEFINE h == [r \in A |-> Written(r, s, FALSE)]
    <3>1. h \in [A -> Row] /\ \A r \in A : Kin(r, h[r]) /\ (r.pi => h[r].pi)
      BY <1>2, <1>3, WrittenKin, WrittenRow, Zenon
    <3>2. rows' = (rows \ A) \cup {h[r] : r \in A}
      BY <2>2, Zenon DEF Set
    <3> HIDE DEF h
    <3> QED BY <1>3, <3>1, <3>2, WriteBack, Zenon
  <2> QED BY <1>4, <2>1, <2>2, Zenon
<1> QED BY <1>10, <1>11, OneCaller, Zenon

\* Every step keeps what the lookups have collected right.
LEMMA NextList == IInv /\ ListInv /\ [Next]_vars => ListInv'
<1> SUFFICES ASSUME IInv, ListInv, [Next]_vars PROVE ListInv'
  BY Zenon
<1>1. CASE Load \/ CheckShards \/ OpenPool \/ OpenPoolFails \/ Restart
  BY <1>1, BootList, Zenon
<1>2. ASSUME NEW a \in Admins, InsertMerchant(a) \/ \E m \in Merchants : Create(a, m)
      PROVE  ListInv'
  <2>1. rows' = rows /\ caller' = caller
    BY <1>2, Zenon DEF InsertMerchant, Create
  <2> QED BY <2>1, SameCallers, RowsStay, Zenon
<1>3. ASSUME NEW m \in Merchants, NEW o \in Orders,
             \/ Insert(m, o) \/ UpdateCheckout(m, o)
             \/ \E s \in Outcomes, pi \in BOOLEAN : UpdateStatus(m, o, s, pi)
      PROVE  ListInv'
  BY <1>3, RequestBack, SameCallers, Zenon
<1>4. ASSUME NEW c \in Callers, NEW q \in Queries, Ask(c, q)
      PROVE  ListInv'
  BY <1>4, AskList, Zenon
<1>5. ASSUME NEW c \in Callers, NEW p \in Pools(n),
             scatterFirst(c, p) \/ GetPendingBefore(c, p)
      PROVE  ListInv'
  BY <1>5, ScatterList, PendingList, Zenon
<1>6. ASSUME NEW c \in Callers, NEW p \in Pools(n), PoolFails(c, p)
      PROVE  ListInv'
  BY <1>6, FailList, Zenon DEF PoolFails
<1>7. ASSUME NEW c \in Callers, FollowUp(c)
      PROVE  ListInv'
  BY <1>7, FollowUpList, Zenon
<1>8. ASSUME NEW c \in Callers, Return(c)
      PROVE  ListInv'
  <2>1. rows' = rows /\ caller' = [caller EXCEPT ![c] = IdleCaller]
    BY <1>8, Zenon DEF Return
  <2> QED BY <2>1, IdleScan, OneCaller, RowsStay, Zenon
<1>9. CASE UNCHANGED vars
  <2>1. rows' = rows /\ caller' = caller
    BY <1>9, Zenon DEF vars
  <2> QED BY <2>1, SameCallers, RowsStay, Zenon
<1> QED BY <1>1, <1>2, <1>3, <1>4, <1>5, <1>6, <1>7, <1>8, <1>9, ZenonT(30) DEF Next

\* What every lookup has collected is right in every reachable state.
THEOREM ListsAreRight == Spec => []ListInv
<1>1. Init => ListInv
  <2> SUFFICES ASSUME Init PROVE ListInv
    BY Zenon
  <2>1. rows = {} /\ \A c \in Callers : caller[c] = IdleCaller
    BY Zenon DEF Init
  <2> QED BY <2>1, IdleScan, Zenon DEF ListInv
<1>2. QED BY <1>1, NextList, Invariance, PTL DEF Spec

\* A row that a lookup returns, by webhook, cron or confirmation, carries the
\* currency and the method its client sent: for every table of orders.
THEOREM RowsReadBack == Spec => []ReadBack
<1>1. ListInv => ReadBack
  <2> SUFFICES ASSUME ListInv, NEW c \in Callers, NEW i \in DOMAIN caller[c].got
               PROVE  ReadsBack(caller[c].got[i])
    BY Zenon DEF ReadBack, ReadsBack
  <2>1. caller[c].got \in Seq(Good)
    BY Zenon DEF ListInv, ScanInv
  <2>2. caller[c].got[i] \in Good
    BY <2>1
  <2> QED BY <2>2, Zenon DEF Good
<1> QED BY <1>1, ListsAreRight, PTL

\* The cron's list leaves a stuck transaction out only for Limit that are at
\* least as old: for every number of pools, whatever order they answer in.
THEOREM OldestAreListed == Spec => []OldestFirst
<1>1. ListInv => OldestFirst
  <2> SUFFICES ASSUME ListInv, NEW c \in Callers, caller[c].pc = "listed"
               PROVE  LET g == caller[c].got IN
                      /\ \A i, j \in DOMAIN g : i < j => g[i].created <= g[j].created
                      /\ \A r \in rows :
                           /\ Key(r) \in caller[c].due
                           /\ Pending(r, caller[c].query.before)
                           /\ \A i \in DOMAIN g : <<g[i].merchant, g[i].order>> # <<r.merchant, r.order>>
                           => Len(g) = Limit /\ \A i \in DOMAIN g : g[i].created <= r.created
    BY Zenon DEF OldestFirst
  <2>1. PICK g : g = caller[c].got
    BY Zenon
  <2>2. g \in Seq(Good) /\ Fair(caller[c])
    BY <2>1, Zenon DEF ListInv, ScanInv
  <2>3. DOMAIN g = 1..Len(g)
    BY <2>2
  <2>4. \A i, j \in DOMAIN g : i < j => g[i].created <= g[j].created
    BY <2>1, <2>2, <2>3, Zenon DEF Fair, Ordered
  <2>5. ASSUME NEW r \in rows, Key(r) \in caller[c].due, Pending(r, caller[c].query.before),
               \A i \in DOMAIN g : <<g[i].merchant, g[i].order>> # <<r.merchant, r.order>>
        PROVE  Len(g) = Limit /\ \A i \in DOMAIN g : g[i].created <= r.created
    <3>1. Due(caller[c], r)
      BY <2>5, Zenon DEF Due
    <3>2. \A i \in 1..Len(g) : ~ (g[i].merchant = r.merchant /\ g[i].order = r.order)
      BY <2>3, <2>5, Zenon
    <3> QED BY <2>1, <2>2, <2>3, <3>1, <3>2, Zenon DEF Fair
  <2> QED BY <2>1, <2>4, <2>5, Zenon
<1> QED BY <1>1, ListsAreRight, PTL

----------------------------------------------------------------------------
(***************************************************************************)
(* Types.  On top of IInv and ListInv: the numbers of the configuration,   *)
(* the codes of the statuses and the bounds.                               *)
(***************************************************************************)
Sized == Booted \/ (boot.L = 0 /\ boot.n = 0)

StatusesKnown == \A r \in rows : r.status \in 0..5

Bounds == clock <= MaxClock /\ faults \in 0..MaxFaults

\* A writer's status has a code.
LEMMA OutcomeCode ==
  ASSUME NEW s \in Outcomes \cup {"created"}
  PROVE  encodeStatus(s) \in 0..5
<1>1. s \in {"created", "paid", "failed", "expired", "refunded"}
  BY OutcomesAssumption, Zenon DEF statusCode
<1> QED BY <1>1 DEF encodeStatus, statusCode

\* An UPDATE of the status leaves known codes.
LEMMA WrittenKnown ==
  ASSUME rows \subseteq Row, StatusesKnown, NEW A \in SUBSET rows, NEW s \in Outcomes, NEW pi \in BOOLEAN,
         rows' = Set(A, LAMBDA r : Written(r, s, pi))
  PROVE  StatusesKnown'
<1> SUFFICES ASSUME NEW w \in rows' PROVE w.status \in 0..5
  BY Zenon DEF StatusesKnown
<1>1. CASE w \in rows BY <1>1, Zenon DEF StatusesKnown
<1>2. CASE w \notin rows
  <2>1. PICK q \in A : w = Written(q, s, pi) BY <1>2, Zenon DEF Set
  <2> DEFINE v == encodeStatus(s)
  <2>2. w = [q EXCEPT !.status = v, !.pi = q.pi \/ pi] /\ q \in Row BY <2>1, Zenon DEF Written
  <2> HIDE DEF v
  <2>3. w.status = v BY <2>2, Zenon DEF Row
  <2> QED BY <2>3, OutcomeCode, Zenon DEF v
<1> QED BY <1>1, <1>2, Zenon

\* The rows an UPDATE meets are rows.
LEMMA AffectedRows == \A i, m, o : Affected(i, m, o) \in SUBSET rows
BY Zenon DEF Affected, At

\* Every step leaves known codes in the rows.
LEMMA StatusStep == IInv /\ StatusesKnown /\ [Next]_vars => StatusesKnown'
<1> SUFFICES ASSUME IInv, StatusesKnown, [Next]_vars PROVE StatusesKnown'
  BY Zenon
<1>0. rows \subseteq Row BY Zenon DEF IInv, RowInv
<1>1. CASE rows' = rows BY <1>1, Zenon DEF StatusesKnown
<1>2. ASSUME NEW m \in Merchants, NEW o \in Orders, Insert(m, o) PROVE StatusesKnown'
  <2>1. PICK v : v = encodeStatus("created") BY Zenon
  <2> DEFINE r0 == [pool |-> For(L, n, shardOf[m]), merchant |-> m, order |-> o,
                    cur |-> encodeCurrency(Material[o].currency),
                    method |-> encodeMethod(Material[o].method),
                    status |-> v, pi |-> FALSE, created |-> clock]
  <2>2. rows' = rows \cup {r0} BY <1>2, <2>1, Zenon DEF Insert
  <2>3. r0.status = v BY Zenon
  <2> HIDE DEF r0
  <2>4. v \in 0..5 BY <2>1, OutcomeCode, Zenon
  <2> QED BY <2>2, <2>3, <2>4, Zenon DEF StatusesKnown
<1>3. ASSUME NEW m \in Merchants, NEW o \in Orders, UpdateCheckout(m, o) PROVE StatusesKnown'
  <2>1. PICK A \in SUBSET rows : rows' = Set(A, LAMBDA r : [r EXCEPT !.pi = TRUE])
    BY <1>3, AffectedRows, Zenon DEF UpdateCheckout
  <2>2. \A w \in rows' : w \in rows \/ \E q \in A : w = [q EXCEPT !.pi = TRUE]
    BY <2>1, Zenon DEF Set
  <2>3. \A q \in Row : [q EXCEPT !.pi = TRUE].status = q.status BY Zenon DEF Row
  <2> QED BY <1>0, <2>2, <2>3, ZenonT(30) DEF StatusesKnown
<1>4. ASSUME NEW m \in Merchants, NEW o \in Orders, NEW s \in Outcomes, NEW pi \in BOOLEAN,
             UpdateStatus(m, o, s, pi)
      PROVE  StatusesKnown'
  BY <1>0, <1>4, AffectedRows, WrittenKnown, Zenon DEF UpdateStatus
<1>5. ASSUME NEW c \in Callers, FollowUp(c) PROVE StatusesKnown'
  <2>1. \/ rows' = rows
        \/ \E s \in Outcomes : \E A \in SUBSET rows : rows' = Set(A, LAMBDA r : Written(r, s, FALSE))
    BY <1>5, AffectedRows, Zenon DEF FollowUp
  <2>2. ASSUME NEW s \in Outcomes, NEW A \in SUBSET rows, rows' = Set(A, LAMBDA r : Written(r, s, FALSE))
        PROVE  StatusesKnown'
    BY <1>0, <2>2, WrittenKnown, Zenon
  <2> QED BY <1>1, <2>1, <2>2, Zenon
<1>6. CASE \/ Load \/ CheckShards \/ OpenPool \/ OpenPoolFails \/ Restart \/ UNCHANGED vars
           \/ \E a \in Admins : InsertMerchant(a) \/ \E m \in Merchants : Create(a, m)
           \/ \E c \in Callers :
                \/ \E q \in Queries : Ask(c, q)
                \/ \E p \in Pools(n) : scatterFirst(c, p) \/ GetPendingBefore(c, p) \/ PoolFails(c, p)
                \/ Return(c)
  BY <1>1, <1>6, ZenonT(30) DEF Load, CheckShards, OpenPool, OpenPoolFails, Restart, InsertMerchant, Create,
     Ask, scatterFirst, GetPendingBefore, PoolFails, Return, vars
<1> QED BY <1>2, <1>3, <1>4, <1>5, <1>6, ZenonT(30) DEF Next

\* The start-up settles the numbers of shards and pools once.
LEMMA SizedStep == IInv /\ Sized /\ [Next]_vars => Sized'
<1> SUFFICES ASSUME IInv, Sized, [Next]_vars PROVE Sized'
  BY Zenon
<1>1. boot \in BootRec BY Zenon DEF IInv, BootInv
<1>2. CASE Load
  <2>1. CASE boot'.L = boot.L /\ boot'.n = boot.n /\ ~ Booted BY <2>1, Zenon DEF Sized
  <2>2. CASE Booted BY <1>2, <2>2, LoadStep, Zenon DEF Sized
  <2>3. CASE boot'.pc = "check" BY <1>2, <2>3, LoadStep, Zenon DEF Sized
  <2>4. boot'.pc # "check" => boot'.L = boot.L /\ boot'.n = boot.n
    BY <1>1, <1>2, Zenon DEF Load, BootRec
  <2> QED BY <2>1, <2>2, <2>3, <2>4, Zenon
<1>3. ASSUME NEW pc, boot' = [boot EXCEPT !.pc = pc] PROVE Sized'
  <2>1. /\ boot'.L = boot.L /\ boot'.n = boot.n /\ boot'.raw = boot.raw
        /\ boot'.shards = boot.shards /\ boot'.dsn = boot.dsn
    BY <1>1, <1>3, Zenon DEF BootRec
  <2> QED BY <2>1, Zenon DEF Sized, Booted
<1>4. CASE CheckShards \/ OpenPool \/ OpenPoolFails \/ Restart
  <2>1. \E pc : boot' = [boot EXCEPT !.pc = pc]
    BY <1>4, Zenon DEF CheckShards, OpenPool, OpenPoolFails, Restart
  <2> QED BY <1>3, <2>1, Zenon
<1>5. CASE boot' = boot BY <1>5, Zenon DEF Sized, Booted
<1>6. CASE \/ UNCHANGED vars
           \/ \E a \in Admins : InsertMerchant(a) \/ \E m \in Merchants : Create(a, m)
           \/ \E m \in Merchants, o \in Orders :
                \/ Insert(m, o) \/ UpdateCheckout(m, o)
                \/ \E s \in Outcomes, pi \in BOOLEAN : UpdateStatus(m, o, s, pi)
           \/ \E c \in Callers :
                \/ \E q \in Queries : Ask(c, q)
                \/ \E p \in Pools(n) : scatterFirst(c, p) \/ GetPendingBefore(c, p) \/ PoolFails(c, p)
                \/ FollowUp(c) \/ Return(c)
  BY <1>5, <1>6, ZenonT(30) DEF InsertMerchant, Create, Insert, UpdateCheckout, UpdateStatus, Ask, scatterFirst,
     GetPendingBefore, PoolFails, FollowUp, Return, vars
<1> QED BY <1>2, <1>4, <1>6, ZenonT(30) DEF Next

\* The clock and the count of faults stay within their bounds.
LEMMA BoundsStep == IInv /\ Bounds /\ [Next]_vars => Bounds'
<1> SUFFICES ASSUME IInv, Bounds, [Next]_vars PROVE Bounds'
  BY Zenon
<1>1. clock \in Nat BY Zenon DEF IInv
<1>2. CASE Fault /\ clock' = clock BY <1>2, RoutingAssumption DEF Bounds, Fault
<1>3. CASE faults' = faults /\ clock' = clock BY <1>3, Zenon DEF Bounds
<1>4. ASSUME NEW c \in Callers, NEW q \in Queries, Ask(c, q) PROVE Bounds'
  <2>1. q.kind = "pending" => q.before <= MaxClock
    <3>1. CASE q \in [kind: {"pending"}, before: 1..MaxClock] BY <3>1, RoutingAssumption
    <3>2. CASE q \notin [kind: {"pending"}, before: 1..MaxClock] BY <3>2 DEF Queries
    <3> QED BY <3>1, <3>2, Zenon
  <2>2. faults' = faults /\ (clock' = clock \/ (q.kind = "pending" /\ clock' = q.before))
    BY <1>4, Zenon DEF Ask
  <2> QED BY <2>1, <2>2, Zenon DEF Bounds
<1>5. CASE Load \/ CheckShards \/ OpenPool \/ OpenPoolFails \/ Restart \/ UNCHANGED vars
  <2>1. (Fault \/ faults' = faults) /\ clock' = clock
    BY <1>5, Zenon DEF Load, CheckShards, OpenPool, OpenPoolFails, Restart, vars
  <2> QED BY <1>2, <1>3, <2>1, Zenon
<1>6. CASE \/ \E a \in Admins : InsertMerchant(a) \/ \E m \in Merchants : Create(a, m)
           \/ \E m \in Merchants, o \in Orders :
                \/ Insert(m, o) \/ UpdateCheckout(m, o)
                \/ \E s \in Outcomes, pi \in BOOLEAN : UpdateStatus(m, o, s, pi)
           \/ \E c \in Callers :
                \/ \E p \in Pools(n) : scatterFirst(c, p) \/ GetPendingBefore(c, p) \/ PoolFails(c, p)
                \/ FollowUp(c) \/ Return(c)
  BY <1>2, <1>3, <1>6, ZenonT(30) DEF InsertMerchant, Create, Insert, UpdateCheckout, UpdateStatus, scatterFirst,
     GetPendingBefore, PoolFails, FollowUp, Return
<1> QED BY <1>4, <1>5, <1>6, ZenonT(30) DEF Next

\* Whatever is stored, a decoder returns a name of its table or its error.
LEMMA Decoded ==
  ASSUME NEW v \in Int
  PROVE  /\ decodeMethod(v) \in DOMAIN methodToCode \cup {"unknown"}
         /\ decodeStatus(v) \in DOMAIN statusCode \cup {"decode_error"}
         /\ decodeCurrency(v) \in Currencies \cup {"decode_error"}
<1>1. decodeMethod(v) \in {"card", "crypto_eth", "wallet", "bank_transfer", "klarna", "afterpay", "affirm",
                           "sepa_debit", "us_bank_account", "unknown"}
  BY DEF decodeMethod, codeToMethod
<1>2. decodeStatus(v) \in {"created", "pending", "paid", "failed", "expired", "refunded", "decode_error"}
  BY DEF decodeStatus
<1>3. decodeCurrency(v) \in Currencies \cup {"decode_error"}
  BY Zenon DEF decodeCurrency, codeToCurrency
<1>4. DOMAIN methodToCode = {"card", "crypto_eth", "wallet", "bank_transfer", "klarna", "afterpay", "affirm",
                             "sepa_debit", "us_bank_account"}
  BY Zenon DEF methodToCode
<1>5. DOMAIN statusCode = {"created", "pending", "paid", "failed", "expired", "refunded"}
  BY Zenon DEF statusCode
<1> QED BY <1>1, <1>2, <1>3, <1>4, <1>5, Zenon

\* What a scan returns has the types of its columns.
LEMMA ReadsFound == Reads \subseteq Found
<1> SUFFICES ASSUME NEW r \in Row, NEW i \in 0..255 PROVE scanTransaction(r, i) \in Found
  BY DEF Reads
<1>1. r.cur \in Int /\ r.method \in Int /\ r.status \in Int BY Zenon DEF Row
<1>2. /\ decodeCurrency(r.cur) \in Currencies \cup {"decode_error"}
      /\ decodeMethod(r.method) \in DOMAIN methodToCode \cup {"unknown"}
      /\ decodeStatus(r.status) \in DOMAIN statusCode \cup {"decode_error"}
  BY <1>1, Decoded, Zenon
<1> QED BY <1>2, Zenon DEF scanTransaction, Found, Row

\* The codes that an INSERT stores are ones the decoders know.
LEMMA CodedKnown ==
  ASSUME NEW r, Coded(r)
  PROVE  r.method \in 0..9 /\ \E c \in Currencies : currencyToCode[c] = r.cur
<1>1. \E c \in Currencies : currencyToCode[c] = r.cur
  BY Zenon DEF Coded, encodeCurrency
<1>2. \A x \in DOMAIN methodToCode : methodToCode[x] \in 0..9
  BY DEF methodToCode
<1>3. methodUnknown \in 0..9 BY DEF methodUnknown
<1> QED BY <1>1, <1>2, <1>3, Zenon DEF Coded, encodeMethod

\* The numbers of a router fit a uint8.
LEMMA ShapeBytes ==
  ASSUME NEW l, NEW k, Shape(l, k)
  PROVE  l \in 0..255 /\ k \in 0..255
BY DEF Shape

\* The first pools are pools.
LEMMA FirstPools ==
  ASSUME NEW l \in 0..255, NEW k \in 0..(l - 1)
  PROVE  0..(k - 1) \subseteq Pools(l)
BY DEF Pools

\* Every number of a shard or a pool is in the range its uint8 and its router
\* can hold, every stored code is one the decoders know, and every lookup holds
\* well-formed rows: for every configuration.
THEOREM TypeCorrect == Spec => []TypeOK
<1>1. Init => Sized /\ StatusesKnown /\ Bounds
  BY RoutingAssumption DEF Init, Sized, StatusesKnown, Bounds
<1>2. IInv /\ ListInv /\ Sized /\ StatusesKnown /\ Bounds => TypeOK
  <2> SUFFICES ASSUME IInv, ListInv, Sized, StatusesKnown, Bounds PROVE TypeOK
    BY Zenon
  <2>1. boot \in BootRec BY Zenon DEF IInv, BootInv
  <2>2. boot.L \in 0..255 /\ boot.n \in 0..255
    <3>1. CASE Booted
      <4>1. Shape(boot.L, boot.n) BY <2>1, <3>1, BootedShape, Zenon DEF L, n
      <4> QED BY <4>1, ShapeBytes, Zenon
    <3>2. CASE boot.L = 0 /\ boot.n = 0 BY <3>2
    <3> QED BY <3>1, <3>2, Zenon DEF Sized
  <2>3. open \subseteq Pools(n)
    <3>1. CASE boot.pc = "opening"
      <4>1. PICK k \in 0..(n - 1) : open = 0..(k - 1) BY <3>1, Zenon DEF IInv, OpenInv
      <4> QED BY <2>2, <4>1, FirstPools, Zenon DEF n
    <3>2. CASE boot.pc # "opening"
      <4>1. boot.pc \in {"load", "check", "failed", "refused", "up"} BY <2>1, <3>2, Zenon DEF BootRec
      <4> QED BY <4>1, Zenon DEF IInv, OpenInv, Up
    <3> QED BY <3>1, <3>2, Zenon
  <2>4. ASSUME NEW r \in rows
        PROVE  /\ r.pool \in Pools(n) /\ r.status \in 0..5 /\ r.method \in 0..9
               /\ \E c \in Currencies : currencyToCode[c] = r.cur
    <3>1. Coded(r) /\ r.status \in 0..5 BY Zenon DEF ListInv, StatusesKnown
    <3>2. r \in Row /\ shardOf[r.merchant] # None /\ r.pool = For(L, n, shardOf[r.merchant])
      BY Zenon DEF IInv, RowInv, RowsAtHome
    <3>3. r.merchant \in Merchants BY <3>2, Zenon DEF Row
    <3>4. shardOf[r.merchant] \in Logical(L) BY <3>2, <3>3, Zenon DEF IInv, MerchantInv
    <3>5. Shape(L, n) BY <2>1, BootedShape, Zenon DEF IInv, BootInv
    <3>6. r.pool \in Pools(n) BY <3>2, <3>4, <3>5, ForInRange, Zenon
    <3> QED BY <3>1, <3>6, CodedKnown, Zenon
  <2>5. ASSUME NEW c \in Callers
        PROVE  /\ caller[c].pc \in {"idle", "wait", "found", "listed", "writing", "missed", "failed", "norow"}
               /\ caller[c].waiting \subseteq Pools(n)
               /\ \A i \in DOMAIN caller[c].got : caller[c].got[i] \in Found
    <3>1. caller[c] \in CallerRec BY Zenon DEF IInv, CallerInv
    <3>2. caller[c].pc \in CallerPC /\ caller[c].waiting \subseteq Pools(n) /\ caller[c].got \in Seq(Stored)
      BY <3>1, Zenon DEF CallerRec
    <3>3. PICK g : g = caller[c].got BY Zenon
    <3>4. \A i \in DOMAIN g : g[i] \in Stored BY <3>2, <3>3
    <3>5. Stored \subseteq Found BY ReadsFound, Zenon DEF Stored
    <3> QED BY <3>2, <3>3, <3>4, <3>5, Zenon DEF CallerPC
  <2>6. clock \in 0..MaxClock /\ faults \in 0..MaxFaults
    BY RoutingAssumption DEF IInv, Bounds
  <2>7. /\ boot.pc \in {"load", "check", "opening", "up", "failed", "refused", "programmer_error"}
        /\ boot.raw \in RawCounts /\ boot.shards \in ShardLists /\ boot.dsn \in BOOLEAN
    BY <2>1, Zenon DEF BootRec
  <2>8. rows \subseteq Row /\ MerchantInv BY Zenon DEF IInv, RowInv
  <2> QED BY <2>2, <2>3, <2>4, <2>5, <2>6, <2>7, <2>8, ZenonT(30) DEF TypeOK, MerchantInv
<1> QED BY <1>1, <1>2, SizedStep, StatusStep, BoundsStep, Invariance, ListsAreRight, PTL DEF Spec

\* No lookup ever fails on a row it cannot decode: scanTransaction's decode
\* errors are unreachable for rows that the repository wrote.
THEOREM RowsDecode == Spec => [](\A r \in rows : Decodable(r))
<1>1. TypeOK => \A r \in rows : Decodable(r)
  <2> SUFFICES ASSUME TypeOK, NEW r \in rows PROVE Decodable(r)
    BY Zenon
  <2>1. r.status \in 0..5 /\ \E c \in Currencies : currencyToCode[c] = r.cur
    BY Zenon DEF TypeOK
  <2>2. decodeStatus(r.status) # "decode_error" BY <2>1 DEF decodeStatus
  <2>3. decodeCurrency(r.cur) \in Currencies BY <2>1, Zenon DEF decodeCurrency, codeToCurrency
  <2>4. "decode_error" \notin Currencies BY DEF Currencies, currencyToCode
  <2> QED BY <2>2, <2>3, <2>4, Zenon DEF Decodable
<1> QED BY <1>1, TypeCorrect, PTL
=============================================================================
