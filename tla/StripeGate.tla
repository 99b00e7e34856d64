------------------------------ MODULE StripeGate ------------------------------
(***************************************************************************)
(* What stands between the pods and Stripe: the token bucket in Redis that *)
(* the whole fleet shares (token_bucket.go, asked by the checkout resolver *)
(* before it creates a session), and the circuit breaker around the client *)
(* of each pod (breaker.go, on top of gobreaker).                          *)
(*                                                                         *)
(* Times are relative to the present: how long ago the bucket was stamped, *)
(* how long its key and the breaker's period have to go.  Tokens are       *)
(* counted in parts: a token is Unit parts, and Rate parts are refilled in *)
(* a unit of time.  A call is in the breaker's current generation or in an *)
(* earlier one; which earlier one makes no difference.                     *)
(***************************************************************************)
EXTENDS Integers

CONSTANTS
  Pods, Calls, PodOf,
  Capacity, Rate, Unit,
  Slack,          \* the 5000 ms added to the life of the bucket's key
  Late, Ahead,    \* a stamp is at most this far behind or before Redis's clock
  MinRequests,    \* 20 calls before the breaker may trip
  MaxRequests,    \* 100 probes
  Interval,       \* 10 s
  Timeout,        \* 30 s
  MaxCount,       \* bound on the calls of one period
  MaxOutages,     \* bound on the outages of Stripe
  None

ASSUME StripeGateAssumption ==
  /\ PodOf \in [Calls -> Pods]
  /\ None \notin [tokens: Int, ago: Int, left: Int]
  /\ Capacity \in Nat \ {0} /\ Rate \in Nat \ {0} /\ Unit \in Nat \ {0}
  /\ Late \in Nat /\ Ahead \in Nat /\ Slack \in Nat /\ Late + Ahead <= Slack
  /\ MinRequests \in Nat \ {0} /\ MaxRequests \in Nat \ {0}
  /\ Interval \in Nat \ {0} /\ Timeout \in Nat \ {0} /\ MaxCount \in Nat /\ MaxOutages \in Nat

VARIABLES
  bucket,       \* the hash in Redis, or None
  credit,       \* ghost: what an ideal bucket would hold
  br,           \* the breaker of each pod
  call,
  up,           \* Stripe is in order
  outages,
  begun,        \* ghost: calls of each pod by the time since they began
  bad           \* ghost: those of them that Stripe failed to serve

vars == <<bucket, credit, br, call, up, outages, begun, bad>>

Full   == Capacity * Unit
Drift  == Rate * (Late + Ahead)
Past   == 0..Interval
Nobody == [pc |-> "idle", age |-> 0, current |-> FALSE]

Smaller(a, b) == IF a < b THEN a ELSE b
Larger(a, b)  == IF a < b THEN b ELSE a

-----------------------------------------------------------------------------
(* The bucket *)

\* PEXPIRE: the time to fill the bucket, rounded up, and the slack.
keyLife == (Full + Rate - 1) \div Rate + Slack

\* Mutant: the time passed is rounded up to an even number.
refilled_Rounded(lag) ==
  IF bucket = None THEN Full
  ELSE Smaller(Full, bucket.tokens + Rate * 2 * ((Larger(0, bucket.ago - lag) + 1) \div 2))

\* What the bucket holds at a stamp that is `lag' behind the present.
refilled(lag) ==
  IF bucket = None THEN Full
  ELSE Smaller(Full, bucket.tokens + Rate * Larger(0, bucket.ago - lag))

\* How far the stamp goes back.
Backward(lag) == IF bucket = None THEN 0 ELSE Larger(0, lag - bucket.ago)

tbScript(lag, allowed) ==
  LET have == refilled(lag) IN
  /\ allowed = (have >= Unit)
  /\ bucket' = [tokens |-> IF allowed THEN have - Unit ELSE have, ago |-> lag, left |-> keyLife]

\* Redis runs the script for a call.  The ideal bucket gives the token too,
\* after it is credited with what the stamp goes back by.
Eval(c, lag, allowed) ==
  /\ call[c].pc = "idle"
  /\ tbScript(lag, allowed)
  /\ LET due == Smaller(Full + Drift, credit + Rate * Backward(lag)) IN
     credit' = IF allowed THEN due - Unit ELSE due
  /\ UNCHANGED <<br, up, outages, begun, bad>>

\* Allow, before a session is created.
Allow(c, lag, allowed) ==
  /\ Eval(c, lag, allowed)
  /\ call' = IF allowed THEN [call EXCEPT ![c].pc = "token"] ELSE call

\* The script has run, and its answer is lost: the client library asks again,
\* or Redis has failed.
AllowLost(c, lag, allowed) == Eval(c, lag, allowed) /\ UNCHANGED call

\* Redis fails: the resolver goes on without a token.
AllowFails(c) ==
  /\ call[c].pc = "idle"
  /\ call' = [call EXCEPT ![c].pc = "token"]
  /\ UNCHANGED <<bucket, credit, br, up, outages, begun, bad>>

-----------------------------------------------------------------------------
(* The errors of Stripe *)

StripeTypes == {"card", "api", "idempotency", "invalid_request"}

\* What a call comes back with: nothing, an error of Stripe's with the HTTP
\* status 429 or not, or an error of the network.
Fine     == [type |-> "none", limited |-> FALSE]
Answers  == {Fine, [type |-> "network", limited |-> FALSE]}
              \cup [type: StripeTypes, limited: BOOLEAN]

\* Stripe's own part in an answer: it served the call, were it with a no.
Served(a) == a \in {Fine} \cup [type: {"card", "invalid_request"}, limited: {FALSE}]

mapStripeError(a) == IF a.limited THEN "rate_limit" ELSE a.type

\* Mutant: a declined card is a failure.
IsSuccessful_OnlyNil(a) == mapStripeError(a) = "none"

IsSuccessful(a) == mapStripeError(a) \in {"none", "card", "invalid_request"}

-----------------------------------------------------------------------------
(* gobreaker, as NewBreakerClient sets it up *)

\* Mutant: one failure among enough calls trips it.
ReadyToTrip_Any(b) == b.requests >= MinRequests /\ b.failures > 0

ReadyToTrip(b) == b.requests >= MinRequests /\ 2 * b.failures > b.requests

NewGeneration(st) ==
  [st |-> st, requests |-> 0, failures |-> 0, streak |-> 0,
   left |-> IF st = "closed" THEN Interval ELSE IF st = "open" THEN Timeout ELSE 0]

\* The state as of now, and whether a period has just ended.
Over(b)         == b.st # "half" /\ b.left < 0
currentState(b) == IF ~ Over(b) THEN b ELSE NewGeneration(IF b.st = "open" THEN "half" ELSE "closed")

beforeRequest(b) == [b EXCEPT !.requests = @ + 1]

Refuses(b) == b.st = "open" \/ (b.st = "half" /\ b.requests >= MaxRequests)

\* The breaker after a result of the current generation.
afterRequest(b, ok) ==
  IF b.st = "closed"
  THEN LET f == [b EXCEPT !.failures = IF ok THEN @ ELSE @ + 1] IN
       IF ~ ok /\ ReadyToTrip(f) THEN NewGeneration("open") ELSE f
  ELSE IF ~ ok THEN NewGeneration("open")
  ELSE IF b.streak + 1 >= MaxRequests THEN NewGeneration("closed")
  ELSE [b EXCEPT !.streak = @ + 1]

\* The calls of p once the breaker has begun a new generation.
Outdated(p) ==
  [d \in Calls |-> IF PodOf[d] = p THEN [call[d] EXCEPT !.current = FALSE] ELSE call[d]]

\* The ghosts count no further than the properties need.
OneMore(n) == Smaller(MinRequests, n + 1)

\* Execute, up to the request to Stripe; refused with ErrCircuitOpen.
Begin(c) ==
  LET p == PodOf[c]
      b == currentState(br[p])
      d == IF Over(br[p]) THEN Outdated(p) ELSE call IN
  /\ call[c].pc \in {"idle", "token"}
  /\ b.requests < MaxCount
  /\ IF Refuses(b)
     THEN /\ br' = [br EXCEPT ![p] = b]
          /\ call' = [d EXCEPT ![c] = Nobody]
          /\ UNCHANGED begun
     ELSE /\ br' = [br EXCEPT ![p] = beforeRequest(b)]
          /\ call' = [d EXCEPT ![c] = [pc |-> "flying", age |-> 0, current |-> TRUE]]
          /\ begun' = [begun EXCEPT ![p][0] = OneMore(@)]
  /\ UNCHANGED <<bucket, credit, up, outages, bad>>

\* The call is of the generation that is current when it ends.
Counts(c) == call[c].current /\ ~ Over(br[PodOf[c]])

\* The rest of Execute, with Stripe's answer.
End(c, a) ==
  LET p == PodOf[c]
      b == currentState(br[p])
      e == IF Counts(c) /\ b.st # "open" THEN afterRequest(b, IsSuccessful(a)) ELSE b
      d == IF Over(br[p]) \/ e.st # br[p].st THEN Outdated(p) ELSE call IN
  /\ call[c].pc = "flying"
  /\ up => Served(a)
  /\ br' = [br EXCEPT ![p] = e]
  /\ call' = [d EXCEPT ![c] = Nobody]
  /\ bad' = IF Served(a) \/ call[c].age \notin Past THEN bad
            ELSE [bad EXCEPT ![p][call[c].age] = OneMore(@)]
  /\ UNCHANGED <<bucket, credit, up, outages, begun>>

-----------------------------------------------------------------------------
(* The surroundings *)

StripeFails ==
  /\ up /\ outages < MaxOutages
  /\ up' = FALSE /\ outages' = outages + 1
  /\ UNCHANGED <<bucket, credit, br, call, begun, bad>>

StripeRecovers ==
  /\ ~ up /\ up' = TRUE
  /\ UNCHANGED <<bucket, credit, br, call, outages, begun, bad>>

Older(h) == [a \in Past |-> IF a = 0 THEN 0 ELSE h[a - 1]]

Tick ==
  /\ bucket' = IF bucket = None \/ bucket.left <= 1 THEN None
               ELSE [bucket EXCEPT !.ago = @ + 1, !.left = @ - 1]
  /\ credit' = Smaller(Full + Drift, credit + Rate)
  /\ br' = [p \in Pods |-> IF br[p].st = "half" THEN br[p]
                           ELSE [br[p] EXCEPT !.left = Larger(-1, @ - 1)]]
  /\ call' = [c \in Calls |-> IF call[c].pc = "flying"
                              THEN [call[c] EXCEPT !.age = Smaller(Interval + 1, @ + 1)] ELSE call[c]]
  /\ begun' = [p \in Pods |-> Older(begun[p])]
  /\ bad' = [p \in Pods |-> Older(bad[p])]
  /\ UNCHANGED <<up, outages>>

Init ==
  /\ bucket = None /\ credit = Full + Drift
  /\ br = [p \in Pods |-> NewGeneration("closed")]
  /\ call = [c \in Calls |-> Nobody]
  /\ up = TRUE /\ outages = 0
  /\ begun = [p \in Pods |-> [a \in Past |-> 0]]
  /\ bad = [p \in Pods |-> [a \in Past |-> 0]]

Next ==
  \/ Tick \/ StripeFails \/ StripeRecovers
  \/ \E c \in Calls :
       \/ \E lag \in (-Ahead)..Late, allowed \in BOOLEAN :
            \/ Allow(c, lag, allowed)
            \/ AllowLost(c, lag, allowed)
       \/ AllowFails(c) \/ Begin(c)
       \/ \E a \in Answers : End(c, a)

\* Time passes, orders keep coming, and requests to Stripe end, by the
\* client's own timeout if need be.
Fairness ==
  /\ WF_vars(Tick)
  /\ \A p \in Pods : LET Own == {c \in Calls : PodOf[c] = p} IN
       /\ WF_vars(\E c \in Own : Begin(c))
       /\ WF_vars(\E c \in Own, a \in Answers : End(c, a))

Spec == Init /\ [][Next]_vars /\ Fairness
-----------------------------------------------------------------------------
\* Every variable keeps its shape; the bucket holds between nothing and its
\* capacity whatever the stamps do.
TypeOK ==
  /\ bucket = None \/ bucket \in [tokens: 0..Full, ago: Int, left: 1..keyLife]
  /\ credit \in Int
  /\ br \in [Pods -> [st: {"closed", "open", "half"}, requests: Nat, failures: Nat, streak: Nat,
                      left: Int]]
  /\ call \in [Calls -> [pc: {"idle", "token", "flying"}, age: 0..(Interval + 1), current: BOOLEAN]]
  /\ up \in BOOLEAN /\ outages \in Nat
  /\ begun \in [Pods -> [Past -> Nat]] /\ bad \in [Pods -> [Past -> Nat]]

\* The fleet stays within the rate: the tokens granted in any stretch of time
\* are no more than the capacity and what the stretch refills, and the drift
\* of the stamps.  Each time a stamp goes back, by a pod's clock or because the
\* call was overtaken, what it goes back by is refilled again and is credited
\* here.  The key is dropped only when the bucket is full (token_bucket.go:33).
FleetRate == credit >= 0

\* How many of the events in a ghost are no older than each age.
Recent(h) == LET s[a \in Past] == h[a] + (IF a = 0 THEN 0 ELSE s[a - 1]) IN s

\* The breaker trips on the evidence of its period: enough calls began within
\* the last Interval, and of these more than half of the least number went
\* unserved.  Declined cards, invalid requests and results of calls from an
\* earlier period do not trip it (breaker.go:30).
TripEarned ==
  [][\A p \in Pods : br[p].st = "closed" /\ br'[p].st = "open" =>
       /\ Recent(begun'[p])[Interval] >= MinRequests
       /\ 2 * Recent(bad'[p])[Interval] > MinRequests]_vars

\* Once Stripe stays in order, the breaker of every pod ends up closed for
\* good: an open one probes, and the probes it lets through are enough to close
\* it (breaker.go:26).
Recovers == <>[]up => \A p \in Pods : <>[](br[p].st = "closed")
=============================================================================
