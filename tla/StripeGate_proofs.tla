-------------------------- MODULE StripeGate_proofs --------------------------
(***************************************************************************)
(* FleetRate for every capacity, rate and drift, and the shape of the      *)
(* state and TripEarned for every number of pods and calls and every       *)
(* setting of the breaker.                                                 *)
(***************************************************************************)
EXTENDS StripeGate, FiniteSets, FiniteSetTheorems, TLAPS

\* The bucket's part of the state: the key lives until the stored tokens and
\* what has been refilled since would fill any bucket, and the ideal bucket
\* holds no less than what the stored one could give at the latest stamp.
BucketInv ==
  /\ credit \in Int
  /\ bucket = None => credit >= Full + Drift
  /\ bucket # None =>
       /\ bucket = [tokens |-> bucket.tokens, ago |-> bucket.ago, left |-> bucket.left]
       /\ bucket.tokens \in 0..Full /\ bucket.ago \in Int /\ bucket.left \in 1..keyLife
       /\ bucket.ago >= -Ahead
       /\ bucket.ago + bucket.left >= keyLife - Ahead
       /\ \/ credit >= Full + Drift
          \/ credit >= bucket.tokens + Rate * (bucket.ago + Ahead)

\* A quotient rounded up, times the divisor, is no less than the dividend.
LEMMA CeilDiv ==
  ASSUME NEW a \in Nat, NEW b \in Nat \ {0}
  PROVE  (a + b - 1) \div b \in Nat /\ b * ((a + b - 1) \div b) >= a
<1> DEFINE q == (a + b - 1) \div b
           r == (a + b - 1) % b
<1>1. a + b - 1 \in Nat OBVIOUS
<1>2. q \in Nat /\ r \in 0..(b - 1) /\ a + b - 1 = b * q + r BY <1>1
<1> QED BY <1>2

\* Multiplying by the rate keeps an order.
LEMMA TimesRate ==
  ASSUME NEW x \in Int, NEW y \in Int, NEW r \in Nat, x <= y
  PROVE  r * x \in Int /\ r * y \in Int /\ r * x <= r * y
OBVIOUS

\* The constants as numbers, and the life of the key: by its end the rate has
\* refilled the whole bucket and the drift.
LEMMA Sizes ==
  /\ Full \in Nat /\ Drift \in Nat /\ Full >= Unit /\ keyLife \in Nat \ {0}
  /\ Rate * keyLife >= Full + Drift
<1> USE StripeGateAssumption
<1>1. Full \in Nat /\ Full >= Unit
  <2>1. Unit * 1 <= Unit * Capacity BY TimesRate
  <2> QED BY <2>1 DEF Full
<1>2. Drift \in Nat BY DEF Drift
<1>3. /\ (Full + Rate - 1) \div Rate \in Nat
      /\ Rate * ((Full + Rate - 1) \div Rate) >= Full
  BY <1>1, CeilDiv, Zenon
<1>4. keyLife \in Nat BY <1>3 DEF keyLife
<1>5. Rate * (Late + Ahead) <= Rate * Slack BY TimesRate
<1>6. Rate * keyLife = Rate * ((Full + Rate - 1) \div Rate) + Rate * Slack
  BY <1>3 DEF keyLife
<1>7. Rate * keyLife >= Full + Drift
  <2>1. Rate * Slack \in Nat OBVIOUS
  <2> QED BY <1>1, <1>2, <1>3, <1>5, <1>6, <2>1 DEF Drift
<1>8. keyLife # 0
  <2>1. Full + Drift > 0 BY <1>1, <1>2
  <2>2. Rate * 0 = 0 OBVIOUS
  <2> QED BY <2>1, <2>2, <1>1, <1>2, <1>7
<1> QED BY <1>1, <1>2, <1>4, <1>7, <1>8, Zenon

\* One use of the bucket, in numbers: e is what is refilled, k what the stamp
\* goes back by, x and y the refill due at the latest stamp before and after,
\* g what is granted.
BucketUse(F, D, tok, cr, e, k, x, y, g, have, due) ==
  /\ F \in Nat /\ D \in Nat /\ tok \in 0..F /\ cr \in Int
  /\ e \in Nat /\ k \in Nat /\ x \in Int /\ y \in Int /\ g \in Nat
  /\ y = x - e + k /\ y <= D
  /\ cr >= F + D \/ cr >= tok + x
  /\ have = Smaller(F, tok + e) /\ g <= have
  /\ due = Smaller(F + D, cr + k)

\* The ideal bucket keeps up with a use.
LEMMA UseOnce ==
  ASSUME NEW F, NEW D, NEW tok, NEW cr, NEW e, NEW k, NEW x, NEW y, NEW g, NEW have, NEW due,
         BucketUse(F, D, tok, cr, e, k, x, y, g, have, due)
  PROVE  due - g >= (have - g) + y
BY DEF BucketUse, Smaller

\* Init gives an empty key and a full ideal bucket.
LEMMA BucketInit == Init => BucketInv
BY Sizes DEF Init, BucketInv

\* A token taken or refused.
LEMMA AllowStep ==
  ASSUME BucketInv, NEW c \in Calls, NEW lag \in (-Ahead)..Late, NEW allowed \in BOOLEAN,
         Eval(c, lag, allowed)
  PROVE  BucketInv'
<1> USE StripeGateAssumption, Sizes
<1> DEFINE have == refilled(lag)
           due  == Smaller(Full + Drift, credit + Rate * Backward(lag))
           g    == IF allowed THEN Unit ELSE 0
           y    == Rate * (lag + Ahead)
<1>1. PICK tok, ago, cr : /\ tok \in 0..Full /\ ago \in Int /\ cr \in Int
                          /\ have = IF bucket = None THEN Full ELSE Smaller(Full, tok + Rate * Larger(0, ago - lag))
                          /\ Backward(lag) = IF bucket = None THEN 0 ELSE Larger(0, lag - ago)
                          /\ cr = credit
                          /\ bucket # None => cr >= Full + Drift \/ cr >= tok + Rate * (ago + Ahead)
                          /\ bucket = None => cr >= Full + Drift
  <2>1. CASE bucket = None
    <3>1. 0 \in 0..Full /\ 0 \in Int /\ credit \in Int BY DEF BucketInv
    <3> QED BY <2>1, <3>1, Zenon DEF BucketInv, refilled, Backward
  <2>2. CASE bucket # None
    BY <2>2, Zenon DEF BucketInv, refilled, Backward
  <2> QED BY <2>1, <2>2, Zenon
<1>2. /\ y \in Int /\ y <= Drift
  <2>1. Rate * (lag + Ahead) <= Rate * (Late + Ahead) BY TimesRate
  <2> QED BY <2>1 DEF Drift
<1>3. /\ have \in Nat /\ g \in Nat /\ have \in 0..Full /\ due \in Int
      /\ have - g \in 0..Full => due - g >= (have - g) + y
  <2>1. CASE bucket = None
    <3>1. have = Full /\ due = Full + Drift BY <1>1, <2>1 DEF Smaller
    <3> QED BY <3>1, <1>2
  <2>2. CASE bucket # None
    <3> DEFINE e == Rate * Larger(0, ago - lag)
               k == Rate * Larger(0, lag - ago)
               x == Rate * (ago + Ahead)
    <3>1. e \in Nat /\ k \in Nat /\ x \in Int BY <1>1 DEF Larger
    <3>2. y = x - e + k
      <4>1. CASE ago <= lag
        <5>1. e = 0 /\ k = Rate * (lag - ago) BY <4>1, <1>1 DEF Larger
        <5> QED BY <5>1, <1>1
      <4>2. CASE ~ (ago <= lag)
        <5>1. k = 0 /\ e = Rate * (ago - lag) BY <4>2, <1>1 DEF Larger
        <5> QED BY <5>1, <1>1
      <4> QED BY <4>1, <4>2, Zenon
    <3>3. have = Smaller(Full, tok + e) /\ due = Smaller(Full + Drift, cr + k)
      BY <1>1, <2>2, Zenon
    <3>4. cr >= Full + Drift \/ cr >= tok + x BY <1>1, <2>2, Zenon
    <3> HIDE DEF e, k, x, y, have, due
    <3>5. have \in 0..Full /\ due \in Int BY <3>1, <3>3, <1>1 DEF Smaller
    <3>6. ASSUME have - g \in 0..Full PROVE due - g >= (have - g) + y
      <4>1. g \in Nat BY Zenon
      <4>2. g <= have BY <3>5, <3>6, <4>1
      <4> HIDE DEF g
      <4>3. BucketUse(Full, Drift, tok, cr, e, k, x, y, g, have, due)
        BY <1>1, <1>2, <3>1, <3>2, <3>3, <3>4, <4>1, <4>2, Zenon DEF BucketUse
      <4> QED BY <4>3, UseOnce, Zenon
    <3>7. g \in Nat BY Zenon
    <3> QED BY <3>5, <3>6, <3>7
  <2> QED BY <2>1, <2>2, Zenon
<1>4. bucket' = [tokens |-> have - g, ago |-> lag, left |-> keyLife] /\ have - g \in 0..Full
  <2>1. allowed = (have >= Unit)
        /\ bucket' = [tokens |-> IF allowed THEN have - Unit ELSE have, ago |-> lag, left |-> keyLife]
    BY Zenon DEF Eval, tbScript
  <2> HIDE DEF have
  <2>2. CASE allowed
    <3>1. g = Unit /\ have >= Unit BY <2>1, <2>2, Zenon
    <3> QED BY <2>1, <2>2, <3>1, <1>3
  <2>3. CASE ~ allowed
    <3>1. g = 0 /\ have - 0 = have BY <2>3, <1>3
    <3> QED BY <2>1, <2>3, <3>1, <1>3, Zenon
  <2> QED BY <2>2, <2>3, Zenon
<1>5. credit' = due - g
  <2>1. credit' = IF allowed THEN due - Unit ELSE due BY Zenon DEF Eval
  <2> HIDE DEF due
  <2> QED BY <2>1, <1>3
<1>6. bucket' \in [tokens: Int, ago: Int, left: Int]
  <2> HIDE DEF have, g
  <2> QED BY <1>4
<1>7. /\ bucket'.tokens = have - g /\ bucket'.ago = lag /\ bucket'.left = keyLife
      /\ bucket' = [tokens |-> bucket'.tokens, ago |-> bucket'.ago, left |-> bucket'.left]
      /\ bucket' # None
  <2> HIDE DEF have, g
  <2> QED BY <1>4, <1>6, Zenon
<1> HIDE DEF have, due, g
<1>8. credit' \in Int /\ credit' >= bucket'.tokens + Rate * (bucket'.ago + Ahead)
  BY <1>2, <1>3, <1>4, <1>5, <1>7
<1>9. keyLife' = keyLife /\ Full' = Full /\ Drift' = Drift BY Zenon DEF keyLife, Full, Drift
<1> QED
  <2>1. bucket'.ago >= -Ahead /\ bucket'.ago + bucket'.left >= keyLife - Ahead
    BY <1>7
  <2> QED BY <1>4, <1>7, <1>8, <1>9, <2>1 DEF BucketInv

\* A unit of time: the stored bucket is older, and gone at the end of its life.
LEMMA TickStep ==
  ASSUME BucketInv, Tick
  PROVE  BucketInv'
<1> USE StripeGateAssumption, Sizes
<1>1. credit' \in Int /\ (credit' = Full + Drift \/ credit' = credit + Rate)
  BY DEF Tick, BucketInv, Smaller
<1>2. CASE bucket = None
  <2>1. bucket' = None /\ credit' >= Full + Drift
    BY <1>2 DEF Tick, BucketInv, Smaller
  <2> QED BY <1>1, <2>1, Zenon DEF BucketInv, Full, Drift
<1>3. CASE bucket # None
  <2>1. PICK tok \in 0..Full, ago \in Int, left \in 1..keyLife :
          /\ bucket = [tokens |-> tok, ago |-> ago, left |-> left]
          /\ ago >= -Ahead /\ ago + left >= keyLife - Ahead
          /\ credit >= Full + Drift \/ credit >= tok + Rate * (ago + Ahead)
    BY <1>3, Zenon DEF BucketInv
  <2>2. credit' >= Full + Drift \/ credit' >= tok + Rate * (ago + 1 + Ahead)
    <3>1. Rate * (ago + 1 + Ahead) = Rate * (ago + Ahead) + Rate OBVIOUS
    <3>2. Rate * (ago + Ahead) \in Int OBVIOUS
    <3> QED BY <1>1, <2>1, <3>1, <3>2 DEF BucketInv
  <2>3. CASE left <= 1
    <3>1. bucket' = None BY <2>1, <2>3, <1>3, Zenon DEF Tick
    <3>2. Rate * keyLife <= Rate * (ago + 1 + Ahead)
      <4>1. keyLife <= ago + 1 + Ahead BY <2>1, <2>3
      <4> QED BY <4>1, TimesRate
    <3>3. credit' >= Full + Drift
      <4>1. Rate * keyLife \in Int /\ Rate * (ago + 1 + Ahead) \in Int OBVIOUS
      <4> QED BY <1>1, <2>2, <3>2, <4>1
    <3> QED BY <1>1, <3>1, <3>3, Zenon DEF BucketInv, Full, Drift
  <2>4. CASE ~ (left <= 1)
    <3>1. bucket' = [tokens |-> tok, ago |-> ago + 1, left |-> left - 1]
      BY <2>1, <2>4, <1>3, Zenon DEF Tick
    <3>2. bucket' # None BY <3>1
    <3>3. keyLife' = keyLife /\ Full' = Full /\ Drift' = Drift BY Zenon DEF keyLife, Full, Drift
    <3>4. left - 1 \in 1..keyLife /\ ago + 1 \in Int /\ ago + 1 >= -Ahead
          /\ (ago + 1) + (left - 1) >= keyLife - Ahead
      BY <2>1, <2>4
    <3> QED BY <1>1, <2>2, <3>1, <3>2, <3>3, <3>4, Zenon DEF BucketInv
  <2> QED BY <2>3, <2>4, Zenon
<1> QED BY <1>2, <1>3, Zenon

\* The bucket is touched by no other action.
LEMMA BucketNext == BucketInv /\ [Next]_vars => BucketInv'
<1> SUFFICES ASSUME BucketInv, [Next]_vars PROVE BucketInv' BY Zenon
<1>1. CASE UNCHANGED <<bucket, credit>>
  BY <1>1, Zenon DEF BucketInv, keyLife, Full, Drift
<1>2. CASE Tick BY <1>2, TickStep, Zenon
<1>3. ASSUME NEW c \in Calls, NEW lag \in (-Ahead)..Late, NEW allowed \in BOOLEAN, Eval(c, lag, allowed)
      PROVE  BucketInv'
  BY <1>3, AllowStep, Zenon
<1>4. UNCHANGED <<bucket, credit>> \/ Tick
      \/ \E c \in Calls, lag \in (-Ahead)..Late, allowed \in BOOLEAN : Eval(c, lag, allowed)
  BY Zenon DEF Next, vars, StripeFails, StripeRecovers, Allow, AllowLost, AllowFails, Begin, End
<1> QED BY <1>1, <1>2, <1>3, <1>4, Zenon

\* The ideal bucket is never overdrawn: tokens are not negative, and the stamp
\* is never further in the future than Ahead.
LEMMA NotOverdrawn == BucketInv => FleetRate
<1> SUFFICES ASSUME BucketInv PROVE credit >= 0 BY Zenon DEF FleetRate
<1> USE StripeGateAssumption, Sizes
<1>1. CASE bucket = None BY <1>1 DEF BucketInv
<1>2. CASE bucket # None
  <2>1. Rate * (bucket.ago + Ahead) \in Nat BY <1>2 DEF BucketInv
  <2> QED BY <1>2, <2>1 DEF BucketInv
<1> QED BY <1>1, <1>2, Zenon

\* What the fleet is granted stays within the capacity and the rate, for every
\* capacity, rate and drift (token_bucket.go:33).
THEOREM FleetWithinRate == Spec => []FleetRate
<1>1. Spec => []BucketInv BY BucketInit, BucketNext, PTL DEF Spec
<1>2. BucketInv => FleetRate BY NotOverdrawn, Zenon
<1> QED BY <1>1, <1>2, PTL

-----------------------------------------------------------------------------
Breaker == [st: {"closed", "open", "half"}, requests: Nat, failures: Nat, streak: Nat, left: Int]
Called  == [pc: {"idle", "token", "flying"}, age: 0..(Interval + 1), current: BOOLEAN]

\* The breaker's part of the state.
BreakerInv == br \in [Pods -> Breaker] /\ call \in [Calls -> Called]

\* A new generation is a breaker that has counted nothing.
LEMMA NewType ==
  ASSUME NEW st \in {"closed", "open", "half"}
  PROVE  /\ NewGeneration(st) \in Breaker
         /\ NewGeneration(st).st = st /\ NewGeneration(st).requests = 0
BY StripeGateAssumption DEF NewGeneration, Breaker

\* The state as of now is the breaker itself, or a new generation if its period
\* is over.
LEMMA CurrentType ==
  ASSUME NEW b \in Breaker, NEW y, y = currentState(b)
  PROVE  /\ y \in Breaker
         /\ ~ Over(b) => y = b
         /\ Over(b) => y.requests = 0
BY NewType, Zenon DEF currentState, Over, Breaker

\* A result leaves a breaker: of the same state and count, or a new generation.
LEMMA AfterType ==
  ASSUME NEW b \in Breaker, NEW ok \in BOOLEAN, NEW y, y = afterRequest(b, ok), b.st # "open"
  PROVE  /\ y \in Breaker
         /\ y.st = b.st => y.requests = b.requests
         /\ y.st # b.st => y.requests = 0
<1>1. [b EXCEPT !.streak = @ + 1] \in Breaker /\ [b EXCEPT !.streak = @ + 1].st = b.st
      /\ [b EXCEPT !.streak = @ + 1].requests = b.requests
  BY DEF Breaker
<1>2. CASE b.st = "closed"
  <2> DEFINE f == [b EXCEPT !.failures = IF ok THEN @ ELSE @ + 1]
  <2>1. f \in Breaker /\ f.st = b.st /\ f.requests = b.requests BY DEF Breaker
  <2>2. y = f \/ y = NewGeneration("open") BY <1>2, Zenon DEF afterRequest
  <2> HIDE DEF f
  <2> QED BY <1>2, <2>1, <2>2, NewType, Zenon
<1>3. CASE b.st = "half"
  <2>1. y \in {NewGeneration("open"), NewGeneration("closed"), [b EXCEPT !.streak = @ + 1]}
    BY <1>3, Zenon DEF afterRequest
  <2> QED BY <1>1, <1>3, <2>1, NewType, Zenon
<1> QED BY <1>2, <1>3, Zenon DEF Breaker

\* Outdated calls keep their type, and none of the pod's is pending.
LEMMA OutdatedType ==
  ASSUME BreakerInv, NEW p \in Pods, NEW d, d = Outdated(p)
  PROVE  /\ d \in [Calls -> Called]
         /\ \A e \in Calls : d[e].pc = call[e].pc /\ (PodOf[e] # p => d[e] = call[e])
         /\ \A e \in Calls : PodOf[e] = p => d[e].current = FALSE
<1>1. \A e \in Calls : call[e] \in Called BY Zenon DEF BreakerInv
<1>2. \A e \in Calls : [call[e] EXCEPT !.current = FALSE] \in Called
  BY <1>1, Zenon DEF Called
<1>3. \A e \in Calls : /\ [call[e] EXCEPT !.current = FALSE].pc = call[e].pc
                       /\ [call[e] EXCEPT !.current = FALSE].current = FALSE
  BY <1>1, Zenon DEF Called
<1> QED BY <1>1, <1>2, <1>3, Zenon DEF Outdated

\* The breakers begin closed with nothing counted.
LEMMA BreakerInit == Init => BreakerInv
<1>1. NewGeneration("closed") \in Breaker BY NewType, Zenon
<1>2. Nobody \in Called BY StripeGateAssumption DEF Nobody, Called
<1> QED BY <1>1, <1>2, Zenon DEF Init, BreakerInv

\* A call let through is counted; a call refused leaves nothing behind.
LEMMA BeginStep ==
  ASSUME BreakerInv, NEW c \in Calls, Begin(c)
  PROVE  BreakerInv'
<1> DEFINE p == PodOf[c]
           b == currentState(br[p])
           d == IF Over(br[p]) THEN Outdated(p) ELSE call
<1>1. p \in Pods /\ br[p] \in Breaker /\ call \in [Calls -> Called] /\ br \in [Pods -> Breaker]
  BY StripeGateAssumption, Zenon DEF BreakerInv
<1>2. b \in Breaker
  BY <1>1, CurrentType, Zenon
<1>3. d \in [Calls -> Called]
  BY <1>1, OutdatedType, Zenon
<1>4. \/ br' = [br EXCEPT ![p] = b] /\ call' = [d EXCEPT ![c] = Nobody]
      \/ /\ br' = [br EXCEPT ![p] = beforeRequest(b)]
         /\ call' = [d EXCEPT ![c] = [pc |-> "flying", age |-> 0, current |-> TRUE]]
  BY Zenon DEF Begin
<1> HIDE DEF b, d
<1>5. Nobody \in Called /\ [pc |-> "flying", age |-> 0, current |-> TRUE] \in Called
  BY StripeGateAssumption DEF Nobody, Called
<1>6. beforeRequest(b) \in Breaker
  BY <1>2 DEF beforeRequest, Breaker
<1> QED BY <1>1, <1>2, <1>3, <1>4, <1>5, <1>6, Zenon DEF BreakerInv

\* An answer: the call is over, and the breaker is as the result leaves it.
LEMMA EndStep ==
  ASSUME BreakerInv, NEW c \in Calls, NEW a \in Answers, End(c, a)
  PROVE  BreakerInv'
<1> DEFINE p  == PodOf[c]
           b  == currentState(br[p])
           ok == IsSuccessful(a)
           e  == IF Counts(c) /\ b.st # "open" THEN afterRequest(b, ok) ELSE b
           d  == IF Over(br[p]) \/ e.st # br[p].st THEN Outdated(p) ELSE call
<1>1. p \in Pods /\ br[p] \in Breaker /\ call \in [Calls -> Called] /\ br \in [Pods -> Breaker]
  BY StripeGateAssumption, Zenon DEF BreakerInv
<1>2. b \in Breaker
  BY <1>1, CurrentType, Zenon
<1>3. br' = [br EXCEPT ![p] = e] /\ call' = [d EXCEPT ![c] = Nobody] BY Zenon DEF End
<1>4. e \in Breaker
  <2>1. ok \in BOOLEAN BY DEF IsSuccessful
  <2> HIDE DEF b, ok
  <2>2. CASE Counts(c) /\ b.st # "open"
    <3>1. e = afterRequest(b, ok) BY <2>2, Zenon
    <3> HIDE DEF e
    <3> QED BY <1>2, <2>1, <2>2, <3>1, AfterType, ZenonT(30)
  <2>3. CASE ~ (Counts(c) /\ b.st # "open")
    <3>1. e = b BY <2>3, Zenon
    <3> QED BY <3>1, <1>2, Zenon
  <2> QED BY <2>2, <2>3, Zenon
<1>5. d \in [Calls -> Called]
  <2> HIDE DEF e
  <2> QED BY <1>1, OutdatedType, Zenon
<1>6. Nobody \in Called
  BY StripeGateAssumption DEF Nobody, Called
<1> HIDE DEF d, e
<1> QED BY <1>1, <1>3, <1>4, <1>5, <1>6, Zenon DEF BreakerInv

\* Time keeps the types.
LEMMA BreakerTick ==
  ASSUME BreakerInv, Tick
  PROVE  BreakerInv'
<1>1. \A p \in Pods : br[p] \in Breaker BY Zenon DEF BreakerInv
<1>2. \A c \in Calls : call[c] \in Called BY Zenon DEF BreakerInv
<1>3. \A p \in Pods : br'[p] \in Breaker
  <2> TAKE p \in Pods
  <2>1. br'[p] = IF br[p].st = "half" THEN br[p] ELSE [br[p] EXCEPT !.left = Larger(-1, @ - 1)]
    BY Zenon DEF Tick
  <2>2. Larger(-1, br[p].left - 1) \in Int BY <1>1 DEF Larger, Breaker
  <2> QED BY <1>1, <2>1, <2>2, Zenon DEF Breaker
<1>4. \A c \in Calls : call'[c] \in Called
  <2> TAKE c \in Calls
  <2>1. call'[c] = IF call[c].pc = "flying"
                   THEN [call[c] EXCEPT !.age = Smaller(Interval + 1, @ + 1)] ELSE call[c]
    BY Zenon DEF Tick
  <2>2. Smaller(Interval + 1, call[c].age + 1) \in 0..(Interval + 1)
    BY <1>2, StripeGateAssumption DEF Smaller, Called
  <2> QED BY <1>2, <2>1, <2>2, Zenon DEF Called
<1>5. br' = [p \in Pods |-> br'[p]] /\ call' = [c \in Calls |-> call'[c]] BY Zenon DEF Tick
<1> QED BY <1>3, <1>4, <1>5, Zenon DEF BreakerInv

\* Every step keeps the breaker's part.
LEMMA BreakerNext == BreakerInv /\ [Next]_vars => BreakerInv'
<1> SUFFICES ASSUME BreakerInv, [Next]_vars PROVE BreakerInv' BY Zenon
<1>1. CASE UNCHANGED <<br, call>> BY <1>1, Zenon DEF BreakerInv
<1>2. CASE Tick BY <1>2, BreakerTick, Zenon
<1>3. ASSUME NEW c \in Calls, br' = br, call' = [call EXCEPT ![c].pc = "token"] PROVE BreakerInv'
  <2>1. call' \in [Calls -> Called] BY <1>3, ZenonT(30) DEF BreakerInv, Called
  <2> QED BY <1>3, <2>1, Zenon DEF BreakerInv
<1>4. ASSUME NEW c \in Calls, Begin(c) PROVE BreakerInv' BY <1>4, BeginStep, Zenon
<1>5. ASSUME NEW c \in Calls, NEW a \in Answers, End(c, a) PROVE BreakerInv' BY <1>5, EndStep, Zenon
<1> QED BY <1>1, <1>2, <1>3, <1>4, <1>5, Zenon
        DEF Next, vars, StripeFails, StripeRecovers, Allow, AllowLost, Eval, AllowFails

\* The ghosts and the outages.
GhostInv ==
  /\ up \in BOOLEAN /\ outages \in Nat
  /\ begun \in [Pods -> [Past -> Nat]] /\ bad \in [Pods -> [Past -> Nat]]

\* One entry of a ghost counted up keeps its type.
LEMMA CountUp ==
  ASSUME NEW h \in [Pods -> [Past -> Nat]], NEW p \in Pods, NEW x \in Past,
         NEW y, y = [h EXCEPT ![p][x] = OneMore(@)]
  PROVE  y \in [Pods -> [Past -> Nat]]
<1>1. h[p] \in [Past -> Nat] /\ OneMore(h[p][x]) \in Nat
  BY StripeGateAssumption DEF OneMore, Smaller
<1>2. [h[p] EXCEPT ![x] = OneMore(h[p][x])] \in [Past -> Nat] BY <1>1, Zenon
<1>3. y = [h EXCEPT ![p] = [h[p] EXCEPT ![x] = OneMore(h[p][x])]] BY Zenon
<1> QED BY <1>2, <1>3, Zenon

\* A ghost grown older keeps its type.
LEMMA OlderType ==
  ASSUME NEW h \in [Past -> Nat]
  PROVE  Older(h) \in [Past -> Nat]
<1>1. \A x \in Past : x # 0 => x - 1 \in Past BY StripeGateAssumption DEF Past
<1> QED BY <1>1, Zenon DEF Older

\* The ghosts keep their types.
LEMMA GhostNext == BreakerInv /\ GhostInv /\ [Next]_vars => GhostInv'
<1> SUFFICES ASSUME BreakerInv, GhostInv, [Next]_vars PROVE GhostInv' BY Zenon
<1>1. CASE UNCHANGED <<up, outages, begun, bad>> BY <1>1, Zenon DEF GhostInv, Past
<1>2. CASE Tick
  <2>1. begun' \in [Pods -> [Past -> Nat]] /\ bad' \in [Pods -> [Past -> Nat]]
    BY <1>2, OlderType, Zenon DEF Tick, GhostInv
  <2> QED BY <1>2, <2>1, Zenon DEF Tick, GhostInv, Past
<1>3. CASE StripeFails \/ StripeRecovers
  <2>1. up' \in BOOLEAN /\ begun' = begun /\ bad' = bad
    BY <1>3, Zenon DEF StripeFails, StripeRecovers
  <2>2. outages' \in Nat
    <3>1. outages' = outages + 1 \/ outages' = outages BY <1>3, Zenon DEF StripeFails, StripeRecovers
    <3> QED BY <3>1 DEF GhostInv
  <2> QED BY <2>1, <2>2, Zenon DEF GhostInv, Past
<1>4. ASSUME NEW c \in Calls, Begin(c) PROVE GhostInv'
  <2>1. PodOf[c] \in Pods /\ 0 \in Past BY StripeGateAssumption DEF Past
  <2>2. begun' = begun \/ begun' = [begun EXCEPT ![PodOf[c]][0] = OneMore(@)] BY <1>4, Zenon DEF Begin
  <2>3. begun' \in [Pods -> [Past -> Nat]]
    <3>1. begun \in [Pods -> [Past -> Nat]] BY Zenon DEF GhostInv
    <3> QED BY <2>1, <2>2, <3>1, CountUp, Zenon
  <2> QED BY <1>4, <2>3, Zenon DEF Begin, GhostInv, Past
<1>5. ASSUME NEW c \in Calls, NEW a \in Answers, End(c, a) PROVE GhostInv'
  <2>1. PodOf[c] \in Pods BY StripeGateAssumption, Zenon
  <2>2. bad' = bad \/ (call[c].age \in Past /\ bad' = [bad EXCEPT ![PodOf[c]][call[c].age] = OneMore(@)])
    BY <1>5, Zenon DEF End
  <2>3. bad' \in [Pods -> [Past -> Nat]]
    <3>1. bad \in [Pods -> [Past -> Nat]] BY Zenon DEF GhostInv
    <3> QED BY <2>1, <2>2, <3>1, CountUp, Zenon
  <2> QED BY <1>5, <2>3, Zenon DEF End, GhostInv, Past
<1> QED BY <1>1, <1>2, <1>3, <1>4, <1>5, Zenon DEF Next, vars, Allow, AllowLost, Eval, AllowFails

\* Every variable keeps its shape, and the bucket stays between nothing and its
\* capacity, whatever the stamps of the pods (token_bucket.go:46).
THEOREM TypeCorrect == Spec => []TypeOK
<1>1. Init => GhostInv BY DEF Init, GhostInv
<1>2. Spec => [](BucketInv /\ BreakerInv /\ GhostInv)
  BY <1>1, BucketInit, BucketNext, BreakerInit, BreakerNext, GhostNext, PTL DEF Spec
<1>3. BucketInv /\ BreakerInv /\ GhostInv => TypeOK
  <2> SUFFICES ASSUME BucketInv, BreakerInv, GhostInv PROVE TypeOK BY Zenon
  <2>1. bucket = None \/ bucket \in [tokens: 0..Full, ago: Int, left: 1..keyLife] BY DEF BucketInv
  <2>2. credit \in Int BY Zenon DEF BucketInv
  <2> QED BY <2>1, <2>2, Zenon DEF TypeOK, BreakerInv, GhostInv, Breaker, Called
<1> QED BY <1>2, <1>3, PTL

-----------------------------------------------------------------------------
\* A non-empty set of ages has a least one.
LEMMA LeastAge ==
  ASSUME NEW T, T \subseteq Past, T # {}
  PROVE  \E x \in T : \A y \in T : x <= y
<1> DEFINE R == StrictSubsetOrdering(Nat)
           U == {0..x : x \in T}
<1>1. T \subseteq Nat BY StripeGateAssumption DEF Past
<1>2. U \subseteq FiniteSubsetsOf(Nat) /\ U # {}
  <2>1. \A x \in T : IsFiniteSet(0..x) /\ 0..x \in SUBSET Nat BY <1>1, FS_Interval
  <2> QED BY <2>1, Zenon DEF FiniteSubsetsOf
<1>3. IsWellFoundedOn(R, FiniteSubsetsOf(Nat)) BY FS_StrictSubsetOrderingWellFounded, Zenon
<1>4. PICK X \in U : \A Y \in U : ~ (<<Y, X>> \in R)
  <2> HIDE DEF R, U
  <2> QED BY <1>2, <1>3, WFMin, Zenon
<1>5. PICK x \in T : X = 0..x BY Zenon
<1>6. ASSUME NEW y \in T PROVE x <= y
  <2>1. ~ (<<0..y, 0..x>> \in R) BY <1>4, <1>5, Zenon
  <2>2. 0..y \in SUBSET Nat /\ 0..x \in SUBSET Nat /\ x \in Nat /\ y \in Nat BY <1>1
  <2>3. ~ (0..y \subseteq 0..x /\ 0..y # 0..x) BY <2>1, <2>2, Zenon DEF StrictSubsetOrdering
  <2>4. y < x => 0..y \subseteq 0..x /\ x \in 0..x /\ x \notin 0..y BY <2>2
  <2> QED BY <2>2, <2>3, <2>4
<1> QED BY <1>6, Zenon

\* Ages begin at 0, and before an age there is the next younger one.
LEMMA Ages ==
  /\ Interval \in Nat \ {0} /\ Past \subseteq Nat /\ 0 \in Past /\ Interval \in Past
  /\ \A a \in Past : a <= Interval
  /\ \A a \in Past : a # 0 => a - 1 \in Past
  /\ \A a \in Past, b \in Nat : b <= a => b \in Past
BY StripeGateAssumption DEF Past

\* What holds at age 0, and at every age if it holds at the one before, holds
\* at every age.  A set of ages stands for the property.
LEMMA EveryAge ==
  ASSUME NEW T, 0 \in T, \A a \in Past : a # 0 /\ a - 1 \in T => a \in T
  PROVE  Past \subseteq T
<1> SUFFICES ASSUME Past \ T # {} PROVE FALSE BY Zenon
<1>1. PICK k \in Past \ T : \A y \in Past \ T : k <= y BY LeastAge, Zenon
<1>2. k # 0 /\ k \in Nat BY Ages, Zenon
<1>3. k - 1 \in Past BY <1>1, <1>2, Ages, Zenon
<1>4. k - 1 \in T BY <1>1, <1>2, <1>3
<1> QED BY <1>1, <1>2, <1>4, Zenon

\* The running count begins with the youngest and adds one age at a time.
Adds(g, h) == g = [a \in Past |-> h[a] + (IF a = 0 THEN 0 ELSE g[a - 1])]

\* There is a running count of every ghost.
LEMMA Addable ==
  ASSUME NEW h \in [Past -> Nat]
  PROVE  \E g : Adds(g, h)
<1> DEFINE From(k, g) == /\ g \in [Past -> Nat] /\ g[0] = h[0]
                         /\ \A a \in Past : a # 0 /\ a <= k => g[a] = h[a] + g[a - 1]
           T == {k \in Past : \E g : From(k, g)}
<1>1. 0 \in T
  <2>1. h \in [Past -> Nat] /\ h[0] = h[0] BY Zenon
  <2>2. \A a \in Past : ~ (a # 0 /\ a <= 0) BY Ages
  <2>3. From(0, h) BY <2>1, <2>2, Zenon
  <2> QED BY <2>3, Ages, Zenon
<1>2. ASSUME NEW k \in Past, k # 0, k - 1 \in T PROVE k \in T
  <2>1. PICK g : From(k - 1, g) BY <1>2, Zenon
  <2>2. k \in Nat /\ k - 1 \in Past /\ h[k] \in Nat /\ g[k - 1] \in Nat BY <1>2, <2>1, Ages, Zenon
  <2> DEFINE f == [a \in Past |-> IF a = k THEN h[k] + g[k - 1] ELSE g[a]]
  <2>3. f \in [Past -> Nat] BY <2>1, <2>2
  <2>4. f[0] = h[0] BY <1>2, <2>1, Ages, Zenon
  <2>5. ASSUME NEW a \in Past, a # 0, a <= k PROVE f[a] = h[a] + f[a - 1]
    <3>1. a \in Nat /\ a - 1 \in Past /\ a - 1 # k BY <2>2, <2>5, Ages
    <3>2. f[a - 1] = g[a - 1] BY <3>1, Zenon
    <3>3. CASE a = k BY <3>2, <3>3, Zenon
    <3>4. CASE a # k
      <4>1. a <= k - 1 BY <2>2, <2>5, <3>1, <3>4
      <4> QED BY <2>1, <2>5, <3>2, <3>4, <4>1, Zenon
    <3> QED BY <3>3, <3>4, Zenon
  <2> HIDE DEF f
  <2>6. From(k, f) BY <2>3, <2>4, <2>5, Zenon
  <2> QED BY <2>6, Zenon
<1>3. Interval \in T
  <2> HIDE DEF T
  <2> QED BY <1>1, <1>2, EveryAge, Ages, Zenon
<1>4. PICK g : From(Interval, g) BY <1>3, Zenon
<1>5. \A a \in Past : g[a] = h[a] + (IF a = 0 THEN 0 ELSE g[a - 1])
  <2> TAKE a \in Past
  <2>1. CASE a = 0 BY <1>4, <2>1, Ages
  <2>2. CASE a # 0 BY <1>4, <2>2, Ages, Zenon
  <2> QED BY <2>1, <2>2, Zenon
<1>6. g = [a \in Past |-> g[a]] BY <1>4, Zenon
<1> QED BY <1>5, <1>6, Zenon DEF Adds

\* Recent is the running count.
LEMMA RecentSteps ==
  ASSUME NEW h \in [Past -> Nat]
  PROVE  /\ Recent(h) \in [Past -> Nat] /\ Recent(h)[0] = h[0]
         /\ \A a \in Past : a # 0 => Recent(h)[a] = h[a] + Recent(h)[a - 1]
<1>1. PICK r : r = CHOOSE g : Adds(g, h) BY Zenon
<1>2. Adds(r, h) BY <1>1, Addable, Zenon
<1>3. Recent(h) = r BY <1>1, Zenon DEF Recent, Adds
<1>4. r[0] = h[0] /\ \A a \in Past : a # 0 => r[a] = h[a] + r[a - 1]
  <2>1. \A a \in Past : r[a] = h[a] + (IF a = 0 THEN 0 ELSE r[a - 1]) BY <1>2, Zenon DEF Adds
  <2>2. h[0] \in Nat BY Ages, Zenon
  <2> QED BY <2>1, <2>2, Ages
<1> DEFINE T == {a \in Past : r[a] \in Nat}
<1>5. 0 \in T BY <1>4, Ages, Zenon
<1>6. \A a \in Past : a # 0 /\ a - 1 \in T => a \in T
  <2> TAKE a \in Past
  <2>1. h[a] \in Nat BY Zenon
  <2> QED BY <1>4, <2>1
<1>7. Past \subseteq T
  <2> HIDE DEF T
  <2> QED BY <1>5, <1>6, EveryAge, Zenon
<1>8. r = [a \in Past |-> r[a]] BY <1>2, Zenon DEF Adds
<1>9. r \in [Past -> Nat] BY <1>7, <1>8, Zenon
<1> QED BY <1>3, <1>4, <1>9, Zenon

\* An older age counts no fewer events, and each of its own.
LEMMA RecentGrows ==
  ASSUME NEW h \in [Past -> Nat], NEW x \in Past
  PROVE  \A b \in Past : x <= b => Recent(h)[x] <= Recent(h)[b] /\ h[x] <= Recent(h)[b]
<1> DEFINE r == Recent(h)
           T == {b \in Past : x <= b => r[x] <= r[b]}
<1>1. /\ r \in [Past -> Nat] /\ r[0] = h[0]
      /\ \A a \in Past : a # 0 => r[a] = h[a] + r[a - 1]
  BY RecentSteps, Zenon
<1> HIDE DEF r
<1>2. x \in Nat /\ h[x] \in Nat /\ r[x] \in Nat BY <1>1, Ages, Zenon
<1>3. 0 \in T BY <1>1, <1>2, Ages
<1>4. ASSUME NEW a \in Past, a # 0, a - 1 \in T PROVE a \in T
  <2>1. a \in Nat /\ a - 1 \in Past BY <1>4, Ages, Zenon
  <2>2. h[a] \in Nat /\ r[a] \in Nat /\ r[a - 1] \in Nat /\ r[a] = h[a] + r[a - 1] BY <1>1, <1>4, <2>1, Zenon
  <2>3. CASE x = a BY <1>2, <2>3
  <2>4. CASE x # a BY <1>2, <1>4, <2>1, <2>2, <2>4
  <2> QED BY <2>3, <2>4, Zenon
<1>5. Past \subseteq T
  <2> HIDE DEF T
  <2> QED BY <1>3, <1>4, EveryAge, Zenon
<1>6. h[x] <= r[x]
  <2>1. CASE x = 0 BY <1>1, <1>2, <2>1
  <2>2. CASE x # 0
    <3>1. r[x - 1] \in Nat /\ r[x] = h[x] + r[x - 1] BY <1>1, <2>2, Ages, Zenon
    <3> QED BY <1>2, <3>1
  <2> QED BY <2>1, <2>2, Zenon
<1>7. ASSUME NEW b \in Past, x <= b PROVE r[x] <= r[b] /\ h[x] <= r[b]
  <2>1. r[x] <= r[b] /\ r[b] \in Nat BY <1>1, <1>5, <1>7, Zenon
  <2> QED BY <1>2, <1>6, <2>1
<1> QED BY <1>7, Zenon DEF r

\* The ghost k has one event more than h, at age x.
Gains(k, h, x) == k[x] = h[x] + 1 /\ \A a \in Past : a # x => k[a] = h[a]

\* An event more at some age is one more at every age from there.
LEMMA RecentMore ==
  ASSUME NEW h \in [Past -> Nat], NEW x \in Past, NEW k \in [Past -> Nat], Gains(k, h, x),
         NEW e \in Past
  PROVE  /\ e < x => Recent(k)[e] = Recent(h)[e]
         /\ x <= e => Recent(k)[e] = Recent(h)[e] + 1
<1> DEFINE r == Recent(h)
           q == Recent(k)
           T == {a \in Past : q[a] = r[a] + (IF a < x THEN 0 ELSE 1)}
<1>1. k[x] = h[x] + 1 /\ \A a \in Past : a # x => k[a] = h[a] BY Zenon DEF Gains
<1>2. /\ r \in [Past -> Nat] /\ r[0] = h[0]
      /\ \A a \in Past : a # 0 => r[a] = h[a] + r[a - 1]
  BY RecentSteps, Zenon
<1>3. /\ q \in [Past -> Nat] /\ q[0] = k[0]
      /\ \A a \in Past : a # 0 => q[a] = k[a] + q[a - 1]
  BY RecentSteps, Zenon
<1> HIDE DEF r, q
<1>4. 0 \in T
  <2>1. CASE x = 0 BY <1>1, <1>2, <1>3, <2>1, Ages
  <2>2. CASE x # 0
    <3>1. 0 < x /\ k[0] = h[0] BY <1>1, <2>2, Ages
    <3> QED BY <1>2, <1>3, <3>1, Ages
  <2> QED BY <2>1, <2>2, Zenon
<1>5. ASSUME NEW a \in Past, a # 0, a - 1 \in T PROVE a \in T
  <2>1. /\ a \in Nat /\ x \in Nat /\ a - 1 \in Past /\ h[a] \in Nat
        /\ r[a - 1] \in Nat /\ q[a - 1] \in Nat
        /\ r[a] = h[a] + r[a - 1] /\ q[a] = k[a] + q[a - 1]
        /\ q[a - 1] = r[a - 1] + (IF a - 1 < x THEN 0 ELSE 1)
    BY <1>2, <1>3, <1>5, Ages, Zenon
  <2>2. CASE a = x
    <3>1. q[a - 1] = r[a - 1] /\ k[a] = h[a] + 1 BY <1>1, <2>1, <2>2
    <3> QED BY <2>1, <2>2, <3>1
  <2>3. CASE a # x
    <3>1. k[a] = h[a] BY <1>1, <2>3, Zenon
    <3>2. CASE a < x BY <2>1, <3>1, <3>2
    <3>3. CASE ~ (a < x) BY <2>1, <2>3, <3>1, <3>3
    <3> QED BY <3>2, <3>3, Zenon
  <2> QED BY <2>2, <2>3, Zenon
<1>6. Past \subseteq T
  <2> HIDE DEF T
  <2> QED BY <1>4, <1>5, EveryAge, Zenon
<1>7. ASSUME NEW a \in Past PROVE (a < x => q[a] = r[a]) /\ (x <= a => q[a] = r[a] + 1)
  <2>1. a \in Nat /\ x \in Nat /\ r[a] \in Nat BY <1>2, Ages, Zenon
  <2>2. q[a] = r[a] + (IF a < x THEN 0 ELSE 1) BY <1>6, Zenon
  <2> QED BY <2>1, <2>2
<1> QED BY <1>7, Zenon DEF r, q

\* Time makes every event one unit older.
LEMMA RecentOlder ==
  ASSUME NEW h \in [Past -> Nat]
  PROVE  \A a \in Past : a # 0 => Recent(Older(h))[a] = Recent(h)[a - 1]
<1> DEFINE k == Older(h)
           r == Recent(h)
           q == Recent(k)
           T == {a \in Past : q[a] = IF a = 0 THEN 0 ELSE r[a - 1]}
<1>1. k \in [Past -> Nat] BY OlderType, Zenon
<1>2. k[0] = 0 /\ \A a \in Past : a # 0 => k[a] = h[a - 1] BY Ages, Zenon DEF Older
<1>3. /\ r \in [Past -> Nat] /\ r[0] = h[0]
      /\ \A a \in Past : a # 0 => r[a] = h[a] + r[a - 1]
  BY RecentSteps, Zenon
<1> HIDE DEF k
<1>4. /\ q \in [Past -> Nat] /\ q[0] = k[0]
      /\ \A a \in Past : a # 0 => q[a] = k[a] + q[a - 1]
  BY <1>1, RecentSteps, Zenon
<1> HIDE DEF r, q
<1>5. 0 \in T BY <1>2, <1>4, Ages, Zenon
<1>6. ASSUME NEW a \in Past, a # 0, a - 1 \in T PROVE a \in T
  <2>1. a \in Nat /\ a - 1 \in Past /\ q[a] = h[a - 1] + q[a - 1] BY <1>2, <1>4, <1>6, Ages, Zenon
  <2>2. CASE a = 1 BY <1>3, <1>6, <2>1, <2>2, Ages
  <2>3. CASE a # 1
    <3>1. a - 1 # 0 /\ (a - 1) - 1 \in Past BY <1>6, <2>1, <2>3, Ages
    <3>2. q[a - 1] = r[(a - 1) - 1] /\ r[a - 1] = h[a - 1] + r[(a - 1) - 1] BY <1>3, <1>6, <2>1, <3>1, Zenon
    <3> QED BY <1>6, <2>1, <3>2, Zenon
  <2> QED BY <2>2, <2>3, Zenon
<1>7. Past \subseteq T
  <2> HIDE DEF T
  <2> QED BY <1>5, <1>6, EveryAge, Zenon
<1>8. \A a \in Past : a # 0 => q[a] = r[a - 1] BY <1>7, Zenon
<1> QED BY <1>8, Zenon DEF k, r, q

-----------------------------------------------------------------------------
\* A ghost of one pod: it counts no further than MinRequests.
Ghost == [Past -> 0..MinRequests]

\* A ghost shows m events no older than e, as far as it counts.
Shows(h, e, m) == Recent(h)[e] >= Smaller(MinRequests, m)

\* No event at all needs no showing.
LEMMA ShowsNone ==
  ASSUME NEW h \in Ghost, NEW e \in Past
  PROVE  Shows(h, e, 0)
<1>1. h \in [Past -> Nat] BY DEF Ghost
<1>2. Recent(h)[e] \in Nat BY <1>1, RecentSteps, Zenon
<1> QED BY <1>2, StripeGateAssumption DEF Shows, Smaller

\* The ghost k counts one event more than h, at age x, as far as it counts.
Counted(k, h, x) == k[x] = OneMore(h[x]) /\ \A a \in Past : a # x => k[a] = h[a]

\* What a ghost shows it still shows after one event more, and the event too if
\* it is no older.
LEMMA ShowsMore ==
  ASSUME NEW h \in Ghost, NEW x \in Past, NEW e \in Past, NEW m \in Nat, Shows(h, e, m),
         NEW k \in [Past -> Nat], Counted(k, h, x)
  PROVE  k \in Ghost /\ Shows(k, e, m) /\ (x <= e => Shows(k, e, m + 1))
<1>1. h \in [Past -> Nat] /\ h[x] \in 0..MinRequests /\ MinRequests \in Nat \ {0}
      /\ x \in Nat /\ e \in Nat
  BY Ages, StripeGateAssumption DEF Ghost
<1>2. Recent(h)[e] \in Nat BY <1>1, RecentSteps, Zenon
<1>3. CASE h[x] = MinRequests
  <2>1. k = h
    <3>1. \A a \in Past : k[a] = h[a] BY <1>1, <1>3 DEF Counted, OneMore, Smaller
    <3>2. k = [a \in Past |-> k[a]] /\ h = [a \in Past |-> h[a]] BY <1>1, Zenon
    <3> QED BY <3>1, <3>2, Zenon
  <2>2. x <= e => Recent(h)[e] >= MinRequests BY <1>1, <1>3, RecentGrows, Zenon
  <2>3. x <= e => Shows(h, e, m + 1) BY <1>1, <1>2, <2>2 DEF Shows, Smaller
  <2> QED BY <2>1, <2>3, Zenon
<1>4. CASE h[x] # MinRequests
  <2>1. OneMore(h[x]) = h[x] + 1 /\ h[x] + 1 \in 0..MinRequests
    BY <1>1, <1>4 DEF OneMore, Smaller
  <2>2. k \in Ghost
    <3>1. \A a \in Past : k[a] \in 0..MinRequests BY <2>1, Zenon DEF Ghost, Counted
    <3> QED BY <3>1, Zenon DEF Ghost
  <2>3. (e < x => Recent(k)[e] = Recent(h)[e]) /\ (x <= e => Recent(k)[e] = Recent(h)[e] + 1)
    <3>1. Gains(k, h, x) BY <2>1, Zenon DEF Gains, Counted
    <3> QED BY <1>1, <3>1, RecentMore, ZenonT(30)
  <2>4. Recent(h)[e] >= Smaller(MinRequests, m) BY Zenon DEF Shows
  <2>5. Recent(k)[e] >= Smaller(MinRequests, m) /\ (x <= e => Recent(k)[e] >= Smaller(MinRequests, m + 1))
    BY <1>1, <1>2, <2>3, <2>4 DEF Smaller
  <2> QED BY <2>2, <2>5, Zenon DEF Shows
<1> QED BY <1>3, <1>4, Zenon

\* A unit of time later the same events are a unit older.
LEMMA ShowsOlder ==
  ASSUME NEW h \in Ghost
  PROVE  /\ Older(h) \in Ghost
         /\ \A e \in Past, m \in Nat : e + 1 \in Past /\ Shows(h, e, m) => Shows(Older(h), e + 1, m)
<1>1. h \in [Past -> Nat] /\ \A x \in Past : h[x] \in 0..MinRequests BY StripeGateAssumption DEF Ghost
<1>2. Older(h) \in Ghost
  <2>1. \A x \in Past : (IF x = 0 THEN 0 ELSE h[x - 1]) \in 0..MinRequests
    BY <1>1, Ages, StripeGateAssumption
  <2> QED BY <2>1, Zenon DEF Older, Ghost
<1>3. ASSUME NEW e \in Past, NEW m \in Nat, e + 1 \in Past, Shows(h, e, m)
      PROVE  Shows(Older(h), e + 1, m)
  <2>1. e + 1 # 0 /\ (e + 1) - 1 = e BY Ages
  <2>2. Recent(Older(h))[e + 1] = Recent(h)[e] BY <1>1, <1>3, <2>1, RecentOlder, Zenon
  <2> QED BY <1>3, <2>2, Zenon DEF Shows
<1> QED BY <1>2, <1>3, Zenon

\* A breaker in its period, and how long the period has been on.
InPeriod(b) == b.st = "closed" /\ b.left >= 0
Since(b)    == Interval - b.left

\* The ghosts show what the breaker has counted in its period.
Evidence(b, hb, hf) ==
  InPeriod(b) => /\ Since(b) \in Past
                 /\ Shows(hb, Since(b), b.requests) /\ Shows(hf, Since(b), b.failures)

\* The calls of the current generation began in the period.
Young(p, b, cs) ==
  InPeriod(b) => \A c \in Calls :
    PodOf[c] = p /\ cs[c].pc = "flying" /\ cs[c].current => cs[c].age <= Since(b)

\* The inductive invariant of TripEarned.
TripInv ==
  \A p \in Pods : /\ begun[p] \in Ghost /\ bad[p] \in Ghost
                  /\ Evidence(br[p], begun[p], bad[p]) /\ Young(p, br[p], call)

\* A new generation has nothing to show, and no call is of it.
LEMMA FreshTrip ==
  ASSUME NEW st \in {"closed", "open", "half"}, NEW b, b = NewGeneration(st),
         NEW hb \in Ghost, NEW hf \in Ghost
  PROVE  Evidence(b, hb, hf) /\ (InPeriod(b) => Since(b) = 0)
<1>1. b.st = st /\ b.requests = 0 /\ b.failures = 0 /\ (st = "closed" => b.left = Interval)
  BY Zenon DEF NewGeneration
<1>2. InPeriod(b) => Since(b) = 0 BY <1>1, StripeGateAssumption DEF InPeriod, Since
<1> QED BY <1>1, <1>2, ShowsNone, Ages, Zenon DEF Evidence

\* At the start no call has begun.
LEMMA TripInit == Init => TripInv
<1> SUFFICES ASSUME Init, NEW p \in Pods
             PROVE  /\ begun[p] \in Ghost /\ bad[p] \in Ghost
                    /\ Evidence(br[p], begun[p], bad[p]) /\ Young(p, br[p], call)
  BY Zenon DEF TripInv
<1>1. begun[p] \in Ghost /\ bad[p] \in Ghost BY StripeGateAssumption DEF Init, Ghost
<1>2. br[p] = NewGeneration("closed") BY Zenon DEF Init
<1>3. \A c \in Calls : call[c].pc = "idle" BY Zenon DEF Init, Nobody
<1> QED BY <1>1, <1>2, <1>3, FreshTrip, Zenon DEF Young

\* The invariant in the next state, pod by pod.
LEMMA TripNow ==
  ASSUME \A p \in Pods : /\ begun'[p] \in Ghost /\ bad'[p] \in Ghost
                         /\ Evidence(br'[p], begun'[p], bad'[p]) /\ Young(p, br'[p], call')
  PROVE  TripInv'
<1>1. \A p \in Pods : /\ begun'[p] \in Ghost' /\ bad'[p] \in Ghost'
                      /\ Evidence(br'[p], begun'[p], bad'[p]) /\ Young(p, br'[p], call')
  BY Zenon DEF Ghost, Past
<1> QED BY <1>1, Zenon DEF TripInv, Evidence, Young, Shows, InPeriod, Since, Recent, Past, Smaller

\* A step of one pod: it is enough to look at that pod.
LEMMA TripPod ==
  ASSUME BreakerInv, GhostInv, TripInv, NEW p \in Pods, NEW b, br' = [br EXCEPT ![p] = b],
         NEW hb \in Ghost, begun' = [begun EXCEPT ![p] = hb],
         NEW hf \in Ghost, bad' = [bad EXCEPT ![p] = hf],
         \A e \in Calls : PodOf[e] # p => call'[e] = call[e],
         Evidence(b, hb, hf), Young(p, b, call')
  PROVE  TripInv'
<1>1. /\ br'[p] = b /\ begun'[p] = hb /\ bad'[p] = hf
      /\ \A q \in Pods \ {p} : br'[q] = br[q] /\ begun'[q] = begun[q] /\ bad'[q] = bad[q]
  BY Zenon DEF BreakerInv, GhostInv
<1>2. ASSUME NEW q \in Pods
      PROVE  /\ begun'[q] \in Ghost /\ bad'[q] \in Ghost
             /\ Evidence(br'[q], begun'[q], bad'[q]) /\ Young(q, br'[q], call')
  <2>1. CASE q = p BY <1>1, <2>1, Zenon
  <2>2. CASE q # p
    <3>1. /\ begun[q] \in Ghost /\ bad[q] \in Ghost
          /\ Evidence(br[q], begun[q], bad[q]) /\ Young(q, br[q], call)
      BY Zenon DEF TripInv
    <3>2. Young(q, br[q], call')
      BY <2>2, <3>1, Zenon DEF Young
    <3> QED BY <1>1, <2>2, <3>1, <3>2, Zenon
  <2> QED BY <2>1, <2>2, Zenon
<1> QED BY <1>2, TripNow, Zenon

\* A unit of time: the events, the calls and the period grow older alike.
LEMMA TripTick ==
  ASSUME BreakerInv, GhostInv, TripInv, Tick
  PROVE  TripInv'
<1>1. ASSUME NEW p \in Pods
      PROVE  /\ begun'[p] \in Ghost /\ bad'[p] \in Ghost
             /\ Evidence(br'[p], begun'[p], bad'[p]) /\ Young(p, br'[p], call')
  <2>1. /\ br[p] \in Breaker /\ begun[p] \in Ghost /\ bad[p] \in Ghost
        /\ Evidence(br[p], begun[p], bad[p]) /\ Young(p, br[p], call)
    BY Zenon DEF TripInv, BreakerInv
  <2>2. begun'[p] = Older(begun[p]) /\ bad'[p] = Older(bad[p]) BY Zenon DEF Tick
  <2>3. begun'[p] \in Ghost /\ bad'[p] \in Ghost BY <2>1, <2>2, ShowsOlder, Zenon
  <2>4. ASSUME InPeriod(br'[p])
        PROVE  /\ InPeriod(br[p]) /\ Since(br'[p]) = Since(br[p]) + 1 /\ Since(br'[p]) \in Past
               /\ Since(br[p]) \in Past
               /\ br'[p].requests = br[p].requests /\ br'[p].failures = br[p].failures
    <3>1. br'[p] = IF br[p].st = "half" THEN br[p] ELSE [br[p] EXCEPT !.left = Larger(-1, @ - 1)]
      BY Zenon DEF Tick
    <3>2. br'[p].st = "closed" /\ br'[p].left >= 0 BY <2>4, Zenon DEF InPeriod
    <3>3. br'[p] = [br[p] EXCEPT !.left = Larger(-1, @ - 1)] BY <3>1, <3>2, Zenon
    <3>4. /\ br[p].st = "closed" /\ br'[p].left = Larger(-1, br[p].left - 1) /\ br[p].left \in Int
          /\ br'[p].requests = br[p].requests /\ br'[p].failures = br[p].failures
      BY <2>1, <3>2, <3>3, Zenon DEF Breaker
    <3>5. br[p].left >= 0 /\ br'[p].left = br[p].left - 1 BY <3>2, <3>4 DEF Larger
    <3>6. Since(br[p]) \in Past BY <2>1, <3>4, <3>5, Zenon DEF Evidence, InPeriod
    <3> QED BY <3>2, <3>4, <3>5, <3>6, StripeGateAssumption DEF InPeriod, Since, Past
  <2>5. Evidence(br'[p], begun'[p], bad'[p])
    <3> SUFFICES ASSUME InPeriod(br'[p])
                 PROVE  /\ Since(br'[p]) \in Past /\ Shows(begun'[p], Since(br'[p]), br'[p].requests)
                        /\ Shows(bad'[p], Since(br'[p]), br'[p].failures)
      BY Zenon DEF Evidence
    <3>1. br[p].requests \in Nat /\ br[p].failures \in Nat BY <2>1, Zenon DEF Breaker
    <3>2. Shows(begun[p], Since(br[p]), br[p].requests) /\ Shows(bad[p], Since(br[p]), br[p].failures)
      BY <2>1, <2>4, Zenon DEF Evidence
    <3> QED BY <2>1, <2>2, <2>4, <3>1, <3>2, ShowsOlder, Zenon
  <2>6. Young(p, br'[p], call')
    <3> SUFFICES ASSUME InPeriod(br'[p]), NEW c \in Calls, PodOf[c] = p, call'[c].pc = "flying",
                        call'[c].current
                 PROVE  call'[c].age <= Since(br'[p])
      BY Zenon DEF Young
    <3>1. call[c] \in Called BY Zenon DEF BreakerInv
    <3>2. call'[c] = IF call[c].pc = "flying"
                     THEN [call[c] EXCEPT !.age = Smaller(Interval + 1, @ + 1)] ELSE call[c]
      BY Zenon DEF Tick
    <3>3. /\ call[c].pc = "flying" /\ call[c].current /\ call[c].age \in Nat
          /\ call'[c].age = Smaller(Interval + 1, call[c].age + 1)
      BY <3>1, <3>2 DEF Called
    <3>4. call[c].age <= Since(br[p]) BY <2>1, <2>4, <3>3, Zenon DEF Young
    <3>5. Since(br[p]) \in Nat BY <2>4, Ages, Zenon
    <3> QED BY <2>4, <3>3, <3>4, <3>5, StripeGateAssumption DEF Smaller
  <2> QED BY <2>3, <2>5, <2>6, Zenon
<1> QED BY <1>1, TripNow, Zenon

\* A ghost of the pods counted up at one pod and one age.
LEMMA GhostMore ==
  ASSUME GhostInv, NEW h \in {begun, bad}, NEW p \in Pods, NEW x \in Past,
         NEW y, y = [h EXCEPT ![p][x] = OneMore(@)]
  PROVE  \E k \in [Past -> Nat] : y = [h EXCEPT ![p] = k] /\ Counted(k, h[p], x)
<1>1. h \in [Pods -> [Past -> Nat]] BY Zenon DEF GhostInv
<1>2. h[p] \in [Past -> Nat] /\ OneMore(h[p][x]) \in Nat
  BY <1>1, StripeGateAssumption DEF OneMore, Smaller
<1>3. PICK k : k = [h[p] EXCEPT ![x] = OneMore(h[p][x])] BY Zenon
<1>4. k \in [Past -> Nat] /\ Counted(k, h[p], x) BY <1>2, <1>3, Zenon DEF Counted
<1>5. y = [h EXCEPT ![p] = k] BY <1>3, Zenon
<1> QED BY <1>4, <1>5, Zenon

\* The breaker as of now has its evidence, and its calls are of the period.
LEMMA CurrentTrip ==
  ASSUME BreakerInv, TripInv, NEW p \in Pods, NEW b, b = currentState(br[p]),
         NEW d, d = IF Over(br[p]) THEN Outdated(p) ELSE call
  PROVE  /\ b \in Breaker /\ Evidence(b, begun[p], bad[p]) /\ Young(p, b, d)
         /\ d \in [Calls -> Called] /\ \A e \in Calls : PodOf[e] # p => d[e] = call[e]
<1>1. /\ br[p] \in Breaker /\ begun[p] \in Ghost /\ bad[p] \in Ghost /\ call \in [Calls -> Called]
      /\ Evidence(br[p], begun[p], bad[p]) /\ Young(p, br[p], call)
  BY Zenon DEF TripInv, BreakerInv
<1>2. CASE Over(br[p])
  <2>1. b = NewGeneration("half") \/ b = NewGeneration("closed") BY <1>2, Zenon DEF currentState
  <2>2. Evidence(b, begun[p], bad[p]) BY <1>1, <2>1, FreshTrip, Zenon
  <2>3. d = Outdated(p) BY <1>2, Zenon
  <2>4. /\ d \in [Calls -> Called] /\ \A e \in Calls : PodOf[e] # p => d[e] = call[e]
        /\ \A e \in Calls : PodOf[e] = p => d[e].current = FALSE
    BY <2>3, OutdatedType, Zenon
  <2>5. Young(p, b, d) BY <2>4, Zenon DEF Young
  <2> QED BY <1>1, <2>2, <2>4, <2>5, CurrentType, Zenon
<1>3. CASE ~ Over(br[p])
  <2>1. b = br[p] /\ d = call BY <1>1, <1>3, Zenon DEF currentState
  <2> QED BY <1>1, <2>1, Zenon
<1> QED BY <1>2, <1>3, Zenon

\* A call let through is shown as begun now, which is in the period.
LEMMA TripBegin ==
  ASSUME BreakerInv, GhostInv, TripInv, NEW c \in Calls, Begin(c)
  PROVE  TripInv'
<1> DEFINE p == PodOf[c]
<1>1. p \in Pods BY StripeGateAssumption, Zenon
<1>2. PICK b, d : b = currentState(br[p]) /\ d = (IF Over(br[p]) THEN Outdated(p) ELSE call) BY Zenon
<1>3. /\ b \in Breaker /\ Evidence(b, begun[p], bad[p]) /\ Young(p, b, d)
      /\ d \in [Calls -> Called] /\ \A e \in Calls : PodOf[e] # p => d[e] = call[e]
  BY <1>1, <1>2, CurrentTrip, Zenon
<1>4. begun[p] \in Ghost /\ bad[p] \in Ghost BY <1>1, Zenon DEF TripInv
<1>5. bad' = [bad EXCEPT ![p] = bad[p]] BY Zenon DEF Begin, GhostInv
<1>6. IF Refuses(b)
      THEN br' = [br EXCEPT ![p] = b] /\ call' = [d EXCEPT ![c] = Nobody] /\ begun' = begun
      ELSE /\ br' = [br EXCEPT ![p] = beforeRequest(b)]
           /\ call' = [d EXCEPT ![c] = [pc |-> "flying", age |-> 0, current |-> TRUE]]
           /\ begun' = [begun EXCEPT ![p][0] = OneMore(@)]
  BY <1>2, Zenon DEF Begin
<1>7. CASE Refuses(b)
  <2>1. br' = [br EXCEPT ![p] = b] /\ call' = [d EXCEPT ![c] = Nobody] /\ begun' = begun BY <1>6, <1>7, Zenon
  <2>2. begun' = [begun EXCEPT ![p] = begun[p]] BY <2>1, Zenon DEF GhostInv
  <2>3. \A e \in Calls : PodOf[e] # p => call'[e] = call[e] BY <1>3, <2>1, Zenon
  <2>4. \A e \in Calls : call'[e] = d[e] \/ call'[e].pc = "idle" BY <1>3, <2>1, Zenon DEF Nobody
  <2>5. Young(p, b, call') BY <1>3, <2>4, Zenon DEF Young
  <2> QED BY <1>1, <1>3, <1>4, <1>5, <2>1, <2>2, <2>3, <2>5, TripPod, Zenon
<1>8. CASE ~ Refuses(b)
  <2>1. PICK f : f = beforeRequest(b) BY Zenon
  <2>2. /\ br' = [br EXCEPT ![p] = f]
        /\ call' = [d EXCEPT ![c] = [pc |-> "flying", age |-> 0, current |-> TRUE]]
        /\ begun' = [begun EXCEPT ![p][0] = OneMore(@)]
    BY <1>6, <1>8, <2>1, Zenon
  <2>3. PICK k \in [Past -> Nat] : begun' = [begun EXCEPT ![p] = k] /\ Counted(k, begun[p], 0)
    BY <1>1, <2>2, Ages, GhostMore, Zenon
  <2>4. /\ f.st = b.st /\ f.left = b.left /\ f.failures = b.failures /\ f.requests = b.requests + 1
        /\ b.requests \in Nat /\ b.failures \in Nat
    BY <1>3, <2>1, Zenon DEF beforeRequest, Breaker
  <2>5. (InPeriod(f) => InPeriod(b)) /\ Since(f) = Since(b) BY <2>4, Zenon DEF InPeriod, Since
  <2>6. k \in Ghost /\ Evidence(f, k, bad[p])
    <3>1. k \in Ghost BY <1>4, <2>3, Ages, ShowsNone, ShowsMore, Zenon
    <3>2. ASSUME InPeriod(f)
          PROVE  Since(f) \in Past /\ Shows(k, Since(f), f.requests) /\ Shows(bad[p], Since(f), f.failures)
      <4>1. /\ Since(b) \in Past /\ Shows(begun[p], Since(b), b.requests)
            /\ Shows(bad[p], Since(b), b.failures)
        BY <1>3, <2>5, <3>2, Zenon DEF Evidence
      <4>2. 0 \in Past /\ 0 <= Since(b)
        <5>1. Since(b) \in Nat BY <4>1, Ages, Zenon
        <5> QED BY <5>1, Ages
      <4>3. Shows(k, Since(b), b.requests + 1) BY <1>4, <2>3, <2>4, <4>1, <4>2, ShowsMore, Zenon
      <4> QED BY <2>4, <2>5, <4>1, <4>3, Zenon
    <3> QED BY <3>1, <3>2, Zenon DEF Evidence
  <2>7. \A e \in Calls : PodOf[e] # p => call'[e] = call[e] BY <1>3, <2>2, Zenon
  <2>8. Young(p, f, call')
    <3> SUFFICES ASSUME InPeriod(f), NEW e \in Calls, PodOf[e] = p, call'[e].pc = "flying",
                        call'[e].current
                 PROVE  call'[e].age <= Since(f)
      BY Zenon DEF Young
    <3>1. CASE e = c
      <4>1. call'[e].age = 0 BY <1>3, <2>2, <3>1, Zenon
      <4>2. Since(b) \in Past BY <1>3, <2>5, Zenon DEF Evidence
      <4>3. Since(b) \in Nat BY <4>2, Ages, Zenon
      <4> QED BY <2>5, <4>1, <4>3
    <3>2. CASE e # c
      <4>1. call'[e] = d[e] BY <1>3, <2>2, <3>2, Zenon
      <4> QED BY <1>3, <2>5, <4>1, Zenon DEF Young
    <3> QED BY <3>1, <3>2, Zenon
  <2> QED BY <1>1, <1>4, <1>5, <2>2, <2>3, <2>6, <2>7, <2>8, TripPod, Zenon
<1> QED BY <1>7, <1>8, Zenon

\* The breaker takes for a success what Stripe has served.
LEMMA SuccessIsServed ==
  ASSUME NEW a \in Answers
  PROVE  IsSuccessful(a) <=> Served(a)
<1>1. CASE a = Fine BY <1>1, Zenon DEF Fine, IsSuccessful, mapStripeError, Served
<1>2. CASE a = [type |-> "network", limited |-> FALSE]
  <2>1. ~ IsSuccessful(a) BY <1>2, Zenon DEF IsSuccessful, mapStripeError
  <2>2. a # Fine BY <1>2, Zenon DEF Fine
  <2>3. a \notin [type: {"card", "invalid_request"}, limited: {FALSE}] BY <1>2, Zenon
  <2> QED BY <2>1, <2>2, <2>3, Zenon DEF Served
<1>3. CASE a \in [type: StripeTypes, limited: BOOLEAN]
  <2>1. a.type \in StripeTypes /\ a.limited \in BOOLEAN BY <1>3, Zenon
  <2>2. a # Fine BY <2>1 DEF Fine, StripeTypes
  <2>3. Served(a) <=> a.type \in {"card", "invalid_request"} /\ a.limited = FALSE BY <1>3, <2>2, Zenon DEF Served
  <2>4. IsSuccessful(a) <=> a.type \in {"card", "invalid_request"} /\ a.limited = FALSE
    BY <2>1, Zenon DEF IsSuccessful, mapStripeError, StripeTypes
  <2> QED BY <2>3, <2>4, Zenon
<1> QED BY <1>1, <1>2, <1>3, Zenon DEF Answers

\* The ghost k shows all that h does, and c itself if Stripe failed to serve it.
Records(k, h, c, a) ==
  \A e \in Past, m \in Nat : Shows(h, e, m) =>
    /\ Shows(k, e, m)
    /\ ~ Served(a) /\ call[c].age \in Past /\ call[c].age <= e => Shows(k, e, m + 1)

\* What the pod's ghost of failures shows after an answer.
LEMMA BadMore ==
  ASSUME GhostInv, TripInv, NEW c \in Calls, NEW a \in Answers, End(c, a)
  PROVE  \E k \in Ghost : bad' = [bad EXCEPT ![PodOf[c]] = k] /\ Records(k, bad[PodOf[c]], c, a)
<1> DEFINE p == PodOf[c]
<1>1. p \in Pods BY StripeGateAssumption, Zenon
<1>2. bad[p] \in Ghost BY <1>1, Zenon DEF TripInv
<1>3. CASE Served(a) \/ call[c].age \notin Past
  <2>1. bad' = [bad EXCEPT ![p] = bad[p]] BY <1>1, <1>3, Zenon DEF End, GhostInv
  <2> QED BY <1>2, <1>3, <2>1, Zenon DEF Records
<1>4. CASE ~ Served(a) /\ call[c].age \in Past
  <2>1. PICK x \in Past : x = call[c].age BY <1>4, Zenon
  <2>2. bad' = [bad EXCEPT ![p][x] = OneMore(@)] BY <1>4, <2>1, Zenon DEF End
  <2>3. PICK k \in [Past -> Nat] : bad' = [bad EXCEPT ![p] = k] /\ Counted(k, bad[p], x)
    BY <1>1, <2>2, GhostMore, Zenon
  <2>4. k \in Ghost BY <1>2, <2>3, Ages, ShowsNone, ShowsMore, Zenon
  <2>5. ASSUME NEW e \in Past, NEW m \in Nat, Shows(bad[p], e, m)
        PROVE  Shows(k, e, m) /\ (x <= e => Shows(k, e, m + 1))
    BY <1>2, <2>3, <2>5, ShowsMore, Zenon
  <2> QED BY <2>1, <2>3, <2>4, <2>5, Zenon DEF Records
<1> QED BY <1>3, <1>4, Zenon

\* A result that the breaker counts in its period is shown by the ghosts.
LEMMA ResultShown ==
  ASSUME BreakerInv, TripInv, NEW c \in Calls, NEW p \in Pods, p = PodOf[c],
         call[c].pc = "flying", call[c].current, InPeriod(br[p]),
         NEW a \in Answers, NEW k \in Ghost, Records(k, bad[p], c, a),
         NEW f, f = [br[p] EXCEPT !.failures = IF IsSuccessful(a) THEN @ ELSE @ + 1]
  PROVE  /\ Evidence(f, begun[p], k)
         /\ f.st = br[p].st /\ f.left = br[p].left
<1>1. /\ br[p] \in Breaker /\ call[c] \in Called
      /\ Evidence(br[p], begun[p], bad[p]) /\ Young(p, br[p], call)
  BY Zenon DEF TripInv, BreakerInv
<1>2. PICK s \in Past : s = Since(br[p]) BY <1>1, Zenon DEF Evidence
<1>3. Shows(begun[p], s, br[p].requests) /\ Shows(bad[p], s, br[p].failures)
  BY <1>1, <1>2, Zenon DEF Evidence
<1>4. /\ f.st = br[p].st /\ f.left = br[p].left /\ f.requests = br[p].requests
      /\ f.failures = IF IsSuccessful(a) THEN br[p].failures ELSE br[p].failures + 1
      /\ br[p].failures \in Nat
  BY <1>1, Zenon DEF Breaker
<1>5. Since(f) = s BY <1>2, <1>4, Zenon DEF Since
<1>6. call[c].age \in Nat /\ call[c].age <= s BY <1>1, <1>2 DEF Young, Called
<1>7. call[c].age \in Past BY <1>6, Ages, Zenon
<1>8. Shows(k, s, br[p].failures) /\ (~ Served(a) => Shows(k, s, br[p].failures + 1))
  BY <1>3, <1>4, <1>6, <1>7, Zenon DEF Records
<1>9. Shows(k, s, f.failures)
  <2>1. CASE IsSuccessful(a) BY <1>4, <1>8, <2>1, Zenon
  <2>2. CASE ~ IsSuccessful(a) BY <1>4, <1>8, <2>2, SuccessIsServed, Zenon
  <2> QED BY <2>1, <2>2, Zenon
<1> QED BY <1>3, <1>4, <1>5, <1>9, Zenon DEF Evidence

\* An answer: a counted failure is shown by the ghosts, and a change of state
\* begins a generation of which no call is left.
LEMMA TripEnd ==
  ASSUME BreakerInv, GhostInv, TripInv, NEW c \in Calls, NEW a \in Answers, End(c, a)
  PROVE  TripInv'
<1> DEFINE p == PodOf[c]
<1>1. p \in Pods BY StripeGateAssumption, Zenon
<1>2. PICK b, ok : b = currentState(br[p]) /\ ok = IsSuccessful(a) BY Zenon
<1>3. PICK e : e = IF Counts(c) /\ b.st # "open" THEN afterRequest(b, ok) ELSE b BY Zenon
<1>4. PICK d : d = IF Over(br[p]) \/ e.st # br[p].st THEN Outdated(p) ELSE call BY Zenon
<1>5. /\ br' = [br EXCEPT ![p] = e] /\ call' = [d EXCEPT ![c] = Nobody] /\ begun' = begun
      /\ call[c].pc = "flying"
  BY <1>2, <1>3, <1>4, Zenon DEF End
<1>6. PICK k \in Ghost : bad' = [bad EXCEPT ![p] = k] /\ Records(k, bad[p], c, a)
  BY BadMore, Zenon
<1>7. /\ br[p] \in Breaker /\ begun[p] \in Ghost /\ call \in [Calls -> Called]
      /\ Evidence(br[p], begun[p], bad[p]) /\ Young(p, br[p], call)
  BY <1>1, Zenon DEF TripInv, BreakerInv
<1>8. begun' = [begun EXCEPT ![p] = begun[p]] BY <1>5, Zenon DEF GhostInv
<1>9. CASE Over(br[p]) \/ e.st # br[p].st
  <2>1. d = Outdated(p) BY <1>4, <1>9, Zenon
  <2>2. /\ d \in [Calls -> Called] /\ \A x \in Calls : PodOf[x] # p => d[x] = call[x]
        /\ \A x \in Calls : PodOf[x] = p => d[x].current = FALSE
    BY <1>1, <2>1, OutdatedType, ZenonT(30)
  <2>3. \E st \in {"closed", "open", "half"} : e = NewGeneration(st)
    <3>1. CASE Over(br[p])
      <4>1. ~ Counts(c) BY <3>1, Zenon DEF Counts
      <4>2. e = b BY <1>3, <4>1, Zenon
      <4>3. b = NewGeneration("half") \/ b = NewGeneration("closed") BY <1>2, <3>1, Zenon DEF currentState
      <4> QED BY <4>2, <4>3, Zenon
    <3>2. CASE ~ Over(br[p])
      <4>1. b = br[p] /\ e.st # b.st BY <1>2, <1>9, <3>2, Zenon DEF currentState
      <4>2. e = afterRequest(b, ok) /\ b.st # "open" BY <1>3, <4>1, Zenon
      <4>3. [b EXCEPT !.streak = @ + 1].st = b.st
            /\ [b EXCEPT !.failures = IF ok THEN @ ELSE @ + 1].st = b.st
        BY <1>7, <4>1, Zenon DEF Breaker
      <4> QED BY <4>1, <4>2, <4>3, Zenon DEF afterRequest
    <3> QED BY <3>1, <3>2, Zenon
  <2>4. Evidence(e, begun[p], k) BY <1>6, <1>7, <2>3, FreshTrip, Zenon
  <2>5. \A x \in Calls : PodOf[x] # p => call'[x] = call[x] BY <1>5, <2>2, Zenon
  <2>6. \A x \in Calls : PodOf[x] = p => call'[x].pc = "idle" \/ call'[x].current = FALSE
    BY <1>5, <2>2, Zenon DEF Nobody
  <2>7. Young(p, e, call') BY <2>6, Zenon DEF Young
  <2> QED BY <1>1, <1>5, <1>6, <1>7, <1>8, <2>4, <2>5, <2>7, TripPod, Zenon
<1>10. CASE ~ Over(br[p]) /\ e.st = br[p].st
  <2>1. d = call /\ b = br[p] BY <1>2, <1>4, <1>10, Zenon DEF currentState
  <2>2. Evidence(e, begun[p], k) /\ (InPeriod(e) => InPeriod(br[p]) /\ Since(e) = Since(br[p]))
    <3>1. CASE Counts(c) /\ br[p].st = "closed"
      <4>1. PICK f : f = [br[p] EXCEPT !.failures = IF IsSuccessful(a) THEN @ ELSE @ + 1] BY Zenon
      <4>2. e = f \/ e = NewGeneration("open") BY <1>2, <1>3, <2>1, <3>1, <4>1, Zenon DEF afterRequest
      <4>3. e = f BY <1>10, <3>1, <4>2, NewType, Zenon
      <4>4. InPeriod(br[p]) BY <1>7, <1>10, <3>1 DEF InPeriod, Over, Breaker
      <4>5. call[c].current BY <3>1, Zenon DEF Counts
      <4>6. Evidence(f, begun[p], k) /\ f.st = br[p].st /\ f.left = br[p].left
        BY <1>1, <1>5, <1>6, <4>1, <4>4, <4>5, ResultShown
      <4> QED BY <4>3, <4>4, <4>6, Zenon DEF Since
    <3>2. CASE br[p].st # "closed" BY <1>10, <3>2, Zenon DEF InPeriod, Evidence
    <3>3. CASE ~ Counts(c)
      <4>1. e = br[p] BY <1>3, <2>1, <3>3, Zenon
      <4>2. br[p].failures \in Nat BY <1>7, Zenon DEF Breaker
      <4>3. Evidence(br[p], begun[p], k) BY <1>6, <1>7, <4>2, Zenon DEF Evidence, Records
      <4> QED BY <4>1, <4>3, Zenon
    <3> QED BY <3>1, <3>2, <3>3, Zenon
  <2>3. \A x \in Calls : PodOf[x] # p => call'[x] = call[x] BY <1>5, <1>7, <2>1, Zenon
  <2>4. \A x \in Calls : call'[x] = call[x] \/ call'[x].pc = "idle" BY <1>5, <1>7, <2>1, Zenon DEF Nobody
  <2>5. Young(p, e, call') BY <1>7, <2>2, <2>4, Zenon DEF Young
  <2> QED BY <1>1, <1>5, <1>6, <1>7, <1>8, <2>2, <2>3, <2>5, TripPod, Zenon
<1> QED BY <1>9, <1>10, Zenon

\* Every step keeps the evidence.
LEMMA TripNext == BreakerInv /\ GhostInv /\ TripInv /\ [Next]_vars => TripInv'
<1> SUFFICES ASSUME BreakerInv, GhostInv, TripInv, [Next]_vars PROVE TripInv' BY Zenon
<1>1. CASE UNCHANGED <<br, call, begun, bad>>
  <2>1. br' = br /\ call' = call /\ begun' = begun /\ bad' = bad BY <1>1, Zenon
  <2> QED BY <2>1, TripNow, Zenon DEF TripInv
<1>2. CASE Tick BY <1>2, TripTick, Zenon
<1>3. ASSUME NEW c \in Calls, br' = br, begun' = begun, bad' = bad,
             call' = call \/ call' = [call EXCEPT ![c].pc = "token"]
      PROVE  TripInv'
  <2>1. \A x \in Calls : call'[x].pc = "flying" => call'[x] = call[x]
    BY <1>3, Zenon DEF BreakerInv, Called
  <2>2. \A p \in Pods : /\ begun[p] \in Ghost /\ bad[p] \in Ghost
                        /\ Evidence(br[p], begun[p], bad[p]) /\ Young(p, br[p], call)
    BY Zenon DEF TripInv
  <2>3. \A p \in Pods : Young(p, br[p], call') BY <2>1, <2>2, Zenon DEF Young
  <2> QED BY <1>3, <2>2, <2>3, TripNow, Zenon
<1>4. ASSUME NEW c \in Calls, NEW lag \in (-Ahead)..Late, NEW allowed \in BOOLEAN,
             Allow(c, lag, allowed) \/ AllowLost(c, lag, allowed)
      PROVE  TripInv'
  BY <1>3, <1>4, Zenon DEF Allow, AllowLost, Eval
<1>5. ASSUME NEW c \in Calls, AllowFails(c) PROVE TripInv'
  BY <1>3, <1>5, Zenon DEF AllowFails
<1>6. ASSUME NEW c \in Calls, Begin(c) PROVE TripInv' BY <1>6, TripBegin, Zenon
<1>7. ASSUME NEW c \in Calls, NEW a \in Answers, End(c, a) PROVE TripInv' BY <1>7, TripEnd, Zenon
<1> QED BY <1>1, <1>2, <1>4, <1>5, <1>6, <1>7, Zenon DEF Next, vars, StripeFails, StripeRecovers

\* The evidence of a breaker that is ready to trip.
LEMMA Earned ==
  ASSUME NEW b \in Breaker, NEW hb \in Ghost, NEW hf \in Ghost,
         InPeriod(b), Evidence(b, hb, hf), ReadyToTrip(b)
  PROVE  Recent(hb)[Interval] >= MinRequests /\ 2 * Recent(hf)[Interval] > MinRequests
<1>1. PICK s \in Past : s = Since(b) BY Zenon DEF Evidence
<1>2. Shows(hb, s, b.requests) /\ Shows(hf, s, b.failures) BY <1>1, Zenon DEF Evidence
<1>3. hb \in [Past -> Nat] /\ hf \in [Past -> Nat] BY DEF Ghost
<1>4. Recent(hb)[s] \in Nat /\ Recent(hf)[s] \in Nat BY <1>3, RecentSteps, Zenon
<1>5. Recent(hb)[Interval] \in Nat /\ Recent(hf)[Interval] \in Nat BY <1>3, Ages, RecentSteps, Zenon
<1>6. Recent(hb)[s] <= Recent(hb)[Interval] /\ Recent(hf)[s] <= Recent(hf)[Interval]
  BY <1>3, Ages, RecentGrows, Zenon
<1>7. b.requests \in Nat /\ b.failures \in Nat /\ b.requests >= MinRequests /\ 2 * b.failures > b.requests
  BY Zenon DEF Breaker, ReadyToTrip
<1>8. MinRequests \in Nat /\ MinRequests > 0 BY StripeGateAssumption
<1>9. Recent(hb)[s] >= MinRequests BY <1>2, <1>4, <1>7, <1>8 DEF Shows, Smaller
<1>10. 2 * Recent(hf)[s] > MinRequests BY <1>2, <1>4, <1>7, <1>8 DEF Shows, Smaller
<1> QED BY <1>4, <1>5, <1>6, <1>8, <1>9, <1>10

\* The breaker trips on the evidence of its period, for any number of pods and
\* calls, any thresholds and any order of the answers: enough calls began within
\* the last Interval, and of these more than half of the least number went
\* unserved (breaker.go:30).
THEOREM TripsAreEarned == Spec => TripEarned
<1> DEFINE TripStep(p) == br[p].st = "closed" /\ br'[p].st = "open" =>
             /\ Recent(begun'[p])[Interval] >= MinRequests
             /\ 2 * Recent(bad'[p])[Interval] > MinRequests
<1>1. Init => GhostInv BY DEF Init, GhostInv
<1>2. Spec => [](BreakerInv /\ GhostInv /\ TripInv)
  BY <1>1, BreakerInit, BreakerNext, GhostNext, TripInit, TripNext, PTL DEF Spec
<1>3. ASSUME BreakerInv, GhostInv, TripInv, [Next]_vars, NEW p \in Pods PROVE TripStep(p)
  <2> SUFFICES ASSUME br[p].st = "closed", br'[p].st = "open"
               PROVE  /\ Recent(begun'[p])[Interval] >= MinRequests
                      /\ 2 * Recent(bad'[p])[Interval] > MinRequests
    BY Zenon
  <2>1. br[p] \in Breaker /\ begun[p] \in Ghost BY <1>3, Zenon DEF BreakerInv, TripInv
  <2>2. br'[p] # br[p] BY Zenon
  <2>3. ~ Tick
    <3>1. [br[p] EXCEPT !.left = Larger(-1, @ - 1)].st = br[p].st BY <2>1, Zenon DEF Breaker
    <3> QED BY <3>1, Zenon DEF Tick
  <2>4. ASSUME NEW c \in Calls, Begin(c) PROVE FALSE
    <3>1. PICK b : b = currentState(br[p]) BY Zenon
    <3>2. b.st # "open" /\ b \in Breaker BY <2>1, <3>1, CurrentType, NewType, Zenon DEF currentState
    <3>3. beforeRequest(b).st = b.st BY <3>2, Zenon DEF beforeRequest, Breaker
    <3>4. br'[p] \in {br[p], b, beforeRequest(b)}
      BY <1>3, <2>4, <3>1, StripeGateAssumption, ZenonT(30) DEF Begin, BreakerInv
    <3> QED BY <3>2, <3>3, <3>4, Zenon
  <2>5. ASSUME NEW c \in Calls, NEW a \in Answers, End(c, a)
        PROVE  /\ Recent(begun'[p])[Interval] >= MinRequests
               /\ 2 * Recent(bad'[p])[Interval] > MinRequests
    <3>1. PICK b, ok : b = currentState(br[p]) /\ ok = IsSuccessful(a) BY Zenon
    <3>2. p = PodOf[c] BY <1>3, <2>2, <2>5, StripeGateAssumption, Zenon DEF End, BreakerInv
    <3>3. br'[p] = (IF Counts(c) /\ b.st # "open" THEN afterRequest(b, ok) ELSE b)
      BY <1>3, <2>5, <3>1, <3>2, Zenon DEF End, BreakerInv
    <3>4. b.st # "open" BY <2>1, <3>1, NewType, Zenon DEF currentState
    <3>5. Counts(c) /\ br'[p] = afterRequest(b, ok) BY <3>3, <3>4, Zenon
    <3>6. ~ Over(br[p]) /\ b = br[p] /\ call[c].current BY <3>1, <3>2, <3>5, Zenon DEF Counts, currentState
    <3>7. PICK f : f = [br[p] EXCEPT !.failures = IF IsSuccessful(a) THEN @ ELSE @ + 1] BY Zenon
    <3>8. f.st = "closed" /\ f \in Breaker BY <2>1, <3>7 DEF Breaker
    <3>9. ReadyToTrip(f) BY <3>1, <3>5, <3>6, <3>7, <3>8, Zenon DEF afterRequest
    <3>10. PICK k \in Ghost : bad' = [bad EXCEPT ![p] = k] /\ Records(k, bad[p], c, a)
      BY <1>3, <2>5, <3>2, BadMore, Zenon
    <3>11. InPeriod(br[p]) BY <2>1, <3>6 DEF InPeriod, Over, Breaker
    <3>12. call[c].pc = "flying" /\ begun'[p] = begun[p] BY <2>5, Zenon DEF End
    <3>13. Evidence(f, begun[p], k) /\ f.st = br[p].st /\ f.left = br[p].left
      BY <1>3, <3>2, <3>6, <3>7, <3>10, <3>11, <3>12, ResultShown
    <3>14. InPeriod(f) BY <3>11, <3>13, Zenon DEF InPeriod
    <3>15. bad'[p] = k BY <1>3, <3>10, Zenon DEF GhostInv
    <3> QED BY <2>1, <3>8, <3>9, <3>12, <3>13, <3>14, <3>15, Earned, Zenon
  <2> QED BY <1>3, <2>2, <2>3, <2>4, <2>5, Zenon DEF Next, vars, Allow, AllowLost, Eval, AllowFails, StripeFails, StripeRecovers
<1>4. BreakerInv /\ GhostInv /\ TripInv /\ [Next]_vars => [\A p \in Pods : TripStep(p)]_vars
  BY <1>3, Zenon
<1> QED BY <1>2, <1>4, PTL DEF Spec, TripEarned
=============================================================================
