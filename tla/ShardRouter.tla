----------------------------- MODULE ShardRouter -----------------------------
(***************************************************************************)
(* The logical shards of merchants and the physical pools they live on:    *)
(* the checks of config.validate and OpenShards, the range partition, and  *)
(* its inverse in the transactions repository.  No state: the mapping is   *)
(* fixed at start-up.  L is the logical shard count, n the number of       *)
(* pools; shards and pools are numbered from 0.                            *)
(***************************************************************************)
EXTENDS Integers

\* uint8 arithmetic.
Uint8(v) == v % 256

\* logical_shard_count as written, 0 when it is left out.
shardCount(v) ==
  LET d == IF v = 0 THEN 16 ELSE v IN
  IF d < 1 THEN 1 ELSE IF d > 255 THEN 255 ELSE d

\* db.shards has n entries, or is empty and db.dsn is set (hasDSN).
validate(L, n, hasDSN) ==
  /\ n > 0 \/ hasDSN
  /\ n > 0 => L >= n /\ L % n = 0

\* The legacy form: one pool for every logical shard.
poolCount(n) == IF n = 0 THEN 1 ELSE n

\* OpenShards' own checks.
openable(L, n) == L > 0 /\ L >= poolCount(n) /\ L % poolCount(n) = 0

Pools(n)   == 0..n-1
Logical(L) == 0..L-1

\* Mutant: the remainder of the shard by the number of pools.
logicalToDB_Modulo(L, n, i) == i % n

\* OpenShards' table, entry i.
logicalToDB(L, n, i) == (i * n) \div L

\* The pool of a shard, and ErrUnknownShard.
Unknown == -1

For(L, n, i) == IF i >= L THEN Unknown ELSE logicalToDB(L, n, i)

\* Mutant: the pool's number taken for a logical shard.
physicalToFirstLogical_Pool(L, n, p) == p

physicalToFirstLogical(L, n, p) == Uint8(p * (L \div n))
=============================================================================
