------------------------------ MODULE Settlement ------------------------------
(***************************************************************************)
(* From payment.confirmed to the merchant: the Kafka BatchConsumer with    *)
(* the SettlementConsumer as its handler, on one partition of the topic.   *)
(*                                                                         *)
(* Messages are numbered by their offset.  The batch in hand is the        *)
(* messages start+1..position; `at' is the one being handled.  Kafka and   *)
(* the merchant are external: Kafka keeps the log and the group's          *)
(* committed offset, the merchant answers 2xx or anything else.            *)
(***************************************************************************)
EXTENDS Integers, FiniteSets

CONSTANTS
  N,            \* bound on the messages of the partition
  Undecodable,  \* messages that are no PaymentConfirmedEvent
  Silent,       \* messages of merchants without a callback URL
  NoSecret,     \* messages of merchants with a callback URL and no secret
  BatchSize,
  maxAttempts,
  Faults,       \* what may fail: some of FaultKinds
  MaxFaults     \* bound on failures and restarts

FaultKinds == {"fetch", "lookup", "dlq", "commit", "restart", "stop"}

ASSUME NAssumption           == N \in Nat
ASSUME KindsAssumption       == Undecodable \cap (Silent \cup NoSecret) = {} /\ Silent \cap NoSecret = {}
ASSUME BatchSizeAssumption   == BatchSize \in Nat \ {0}
ASSUME maxAttemptsAssumption == maxAttempts \in Nat \ {0}
ASSUME FaultsAssumption      == Faults \subseteq FaultKinds
ASSUME MaxFaultsAssumption   == MaxFaults \in Nat

VARIABLES
  end,          \* last offset of the log
  committed,    \* last offset the group has committed
  start,        \* last offset before the batch in hand
  position,     \* last offset fetched
  pc,           \* "fetch", "handle", "fallback", "dlq" or "commit"
  at,           \* message being handled
  attempt,
  calls,        \* POSTs made for each message
  acked,        \* messages a merchant has answered 2xx
  dlq,          \* messages in the dead-letter topic
  lost,         \* ghost: messages that a fault has made the consumer pass over
  stopping,     \* the context of Run is cancelled
  faults

vars == <<end, committed, start, position, pc, at, attempt, calls, acked, dlq, lost, stopping, faults>>

Messages == 1..N
Poison   == Undecodable \cup NoSecret

Init ==
  /\ end = 0 /\ committed = 0 /\ start = 0 /\ position = 0
  /\ pc = "fetch" /\ at = 0 /\ attempt = 0
  /\ calls = [m \in Messages |-> 0]
  /\ acked = {} /\ dlq = {} /\ lost = {}
  /\ stopping = FALSE /\ faults = 0

Fault(kind) == kind \in Faults /\ faults < MaxFaults /\ faults' = faults + 1

\* A call that fails by itself, or because the process is shutting down: its
\* context is cancelled, or main has closed the pools behind it.
CallFails(kind) == Fault(kind) \/ (stopping /\ UNCHANGED faults)

-----------------------------------------------------------------------------
(* fetchBatch *)

Produce ==
  /\ end < N
  /\ end' = end + 1
  /\ UNCHANGED <<committed, start, position, pc, at, attempt, calls, acked, dlq, lost, stopping, faults>>

\* A message that is still fetched when the context is cancelled may as well have
\* been fetched before; after a commit Run sees the cancellation and returns.
FetchMessage ==
  /\ pc = "fetch" /\ ~ stopping /\ position < end /\ position - start < BatchSize
  /\ position' = position + 1
  /\ UNCHANGED <<end, committed, start, pc, at, attempt, calls, acked, dlq, lost, stopping, faults>>

\* The batch is full or its wait is over: Handle begins.
BatchReady ==
  /\ pc = "fetch" /\ position > start
  /\ pc' = "handle" /\ at' = start + 1 /\ attempt' = 1
  /\ UNCHANGED <<end, committed, start, position, calls, acked, dlq, lost, stopping, faults>>

\* FetchMessage fails: Run drops what fetchBatch had collected and goes on
\* from where the reader is.
FetchFault ==
  /\ pc = "fetch" /\ Fault("fetch")
  /\ start' = position
  /\ lost' = lost \cup (start+1..position)
  /\ UNCHANGED <<end, committed, position, pc, at, attempt, calls, acked, dlq, stopping>>

-----------------------------------------------------------------------------
(* Handle and the per-message fallback *)

\* On to the next message of the batch, or to the commit after the last.
Advance ==
  /\ IF at < position
       THEN at' = at + 1 /\ pc' = IF pc = "dlq" THEN "fallback" ELSE pc
       ELSE pc' = "commit" /\ UNCHANGED at
  /\ attempt' = 1

\* Mutant: the batch is handled again from its first message.
Failed_Retried ==
  /\ pc' = "fallback" /\ at' = start + 1 /\ attempt' = 1

\* HandleOne returns an error: Handle gives up on the batch and the fallback
\* starts it over; the fallback sends the message to the DLQ.
Failed ==
  IF pc = "handle"
    THEN pc' = "fallback" /\ at' = start + 1 /\ attempt' = 1
    ELSE pc' = "dlq" /\ UNCHANGED <<at, attempt>>

Handling == pc \in {"handle", "fallback"}

\* No callback URL: not an error.
Skip ==
  /\ Handling /\ at \in Silent
  /\ Advance
  /\ UNCHANGED <<end, committed, start, position, calls, acked, dlq, lost, stopping, faults>>

\* The merchant lookup fails, which looks like a merchant without a URL.
LookupFault ==
  /\ Handling /\ at \notin Silent \cup Undecodable /\ attempt = 1
  /\ CallFails("lookup") /\ Advance
  /\ lost' = lost \cup {at}
  /\ UNCHANGED <<end, committed, start, position, calls, acked, dlq, stopping>>

Reject ==
  /\ Handling /\ at \in Poison
  /\ Failed
  /\ UNCHANGED <<end, committed, start, position, calls, acked, dlq, lost, stopping, faults>>

Deliverable == Handling /\ at \notin Silent \cup Poison
Called      == [calls EXCEPT ![at] = @ + 1]

\* A POST to its end.  One that is out when the context is cancelled, and is
\* answered all the same, may as well have come before.
Post == Deliverable /\ ~ stopping /\ calls' = Called

\* sendOnce gets a 2xx.
sendOnce ==
  /\ Post
  /\ acked' = acked \cup {at}
  /\ Advance
  /\ UNCHANGED <<end, committed, start, position, dlq, lost, stopping, faults>>

\* Mutant: the last attempt is not made.
sendFails_Early ==
  /\ Post
  /\ IF attempt < maxAttempts - 1
       THEN attempt' = attempt + 1 /\ UNCHANGED <<pc, at>>
       ELSE Failed
  /\ UNCHANGED <<end, committed, start, position, acked, dlq, lost, stopping, faults>>

\* Mutant: attempts are counted from zero, up to maxAttempts.
sendFails_OneMore ==
  /\ Post
  /\ IF attempt <= maxAttempts
       THEN attempt' = attempt + 1 /\ UNCHANGED <<pc, at>>
       ELSE Failed
  /\ UNCHANGED <<end, committed, start, position, acked, dlq, lost, stopping, faults>>

\* sendOnce gets anything else: another attempt, up to maxAttempts.
sendFails ==
  /\ Post
  /\ IF attempt < maxAttempts
       THEN attempt' = attempt + 1 /\ UNCHANGED <<pc, at>>
       ELSE Failed
  /\ UNCHANGED <<end, committed, start, position, acked, dlq, lost, stopping, faults>>

\* The context is cancelled: the POST is cut off, or does not leave at all, and
\* whatever the attempt HandleOne gives up.
sendCancelled ==
  /\ Deliverable /\ stopping /\ calls' \in {calls, Called}
  /\ Failed
  /\ UNCHANGED <<end, committed, start, position, acked, dlq, lost, stopping, faults>>

\* Mutant: the message is logged and dropped.
toDLQ_Dropped ==
  /\ pc = "dlq" /\ Advance
  /\ UNCHANGED <<end, committed, start, position, calls, acked, dlq, lost, stopping, faults>>

\* The write to the dead-letter topic, whose failure is only logged.
toDLQ ==
  /\ pc = "dlq" /\ Advance
  /\ \/ dlq' = dlq \cup {at} /\ UNCHANGED <<lost, faults>>
     \/ CallFails("dlq") /\ lost' = lost \cup {at} /\ UNCHANGED dlq
  /\ UNCHANGED <<end, committed, start, position, calls, acked, stopping>>

-----------------------------------------------------------------------------
(* Commit, shutdown, restart *)

\* Mutant: the size of the batch is committed for its last offset.
Commit_Size ==
  /\ pc = "commit"
  /\ committed' = position - start
  /\ pc' = "fetch" /\ start' = position
  /\ UNCHANGED <<end, position, at, attempt, calls, acked, dlq, lost, stopping, faults>>

\* CommitMessages for the whole batch; a failure, perhaps after it took effect,
\* is only logged and the reader goes on.
Commit ==
  /\ pc = "commit"
  /\ \/ committed' = position /\ UNCHANGED faults
     \/ CallFails("commit") /\ committed' \in {committed, position}
  /\ pc' = "fetch" /\ start' = position
  /\ UNCHANGED <<end, position, at, attempt, calls, acked, dlq, lost, stopping>>

\* main cancels the context of Run, which notices only where it looks.
Stop ==
  /\ ~ stopping /\ Fault("stop")
  /\ stopping' = TRUE
  /\ UNCHANGED <<end, committed, start, position, pc, at, attempt, calls, acked, dlq, lost>>

\* Mutant: the reader resumes where the last one had been.
Restart_InPlace ==
  /\ IF stopping THEN UNCHANGED faults ELSE Fault("restart")
  /\ pc' = "fetch" /\ start' = position /\ stopping' = FALSE
  /\ UNCHANGED <<end, committed, position, at, attempt, calls, acked, dlq, lost>>

\* The process dies, or the group moves the partition to another pod, or main
\* returns after the cancellation, wherever Run is by then: the next reader
\* resumes at the committed offset.
Restart ==
  /\ IF stopping THEN UNCHANGED faults ELSE Fault("restart")
  /\ pc' = "fetch" /\ start' = committed /\ position' = committed
  /\ lost' = lost \cap 1..committed
  /\ stopping' = FALSE
  /\ UNCHANGED <<end, committed, at, attempt, calls, acked, dlq>>

-----------------------------------------------------------------------------
Consume ==
  \/ FetchMessage \/ BatchReady
  \/ Skip \/ Reject \/ sendOnce \/ sendFails \/ sendCancelled \/ toDLQ
  \/ Commit

Next == Produce \/ Consume \/ FetchFault \/ LookupFault \/ Stop \/ Restart

Spec == Init /\ [][Next]_vars

\* The consumer's goroutine keeps running, and a process that is shutting down
\* ends; merchants need not ever answer.
FairSpec == Spec /\ WF_vars(Consume) /\ WF_vars(stopping /\ Restart)

-----------------------------------------------------------------------------
(* Properties *)

\* Every variable stays in its domain, and the offsets are ordered.
TypeOK ==
  /\ end \in 0..N /\ position \in 0..end /\ committed \in 0..position /\ start \in committed..position
  /\ position - start <= BatchSize
  /\ pc \in {"fetch", "handle", "fallback", "dlq", "commit"}
  /\ pc \in {"handle", "fallback", "dlq", "commit"} => at \in start+1..position
  /\ at \in 0..N /\ attempt \in 0..maxAttempts
  /\ calls \in [Messages -> Nat]
  /\ acked \subseteq Messages /\ dlq \subseteq Messages /\ lost \subseteq Messages
  /\ stopping \in BOOLEAN /\ faults \in 0..MaxFaults

Handled(m) == m \in acked \cup dlq \cup Silent

\* Offsets are committed only on success: a committed message has reached its
\* merchant, or the dead-letter topic, unless the merchant has no callback.
CommittedHandled == \A m \in 1..committed : Handled(m)

Accounted(m) == Handled(m) \/ m \in lost

\* Whatever fails, an offset is committed only when its message has been
\* handled, or a failed fetch, lookup or dead-letter write has dropped it since
\* the reader was last (re)started, one that fails because the process is
\* shutting down included: no restart, failed commit, poisoned batch or
\* fallback loses another one (consumer.go:98).
OnlyFaultsLose == \A m \in 1..committed : Accounted(m)

\* An event is written to the dead-letter topic only when its merchant has been
\* called maxAttempts times, whatever became of its batch and of earlier
\* readers.  The exceptions are events for which no POST can be made, and a
\* process that is shutting down: it gives up on every event still in its batch
\* (settlement_consumer.go:99, consumer.go:111).
DeadLettersEarned ==
  [][\A m \in dlq' \ (dlq \cup Poison) : stopping \/ calls[m] >= maxAttempts]_vars

\* The POSTs of f passes over a message: one of Handle, one of the fallback.
Allowed(f) == 2 * maxAttempts * f

\* A merchant is called for an event at most maxAttempts times by the batch
\* handler and as often by the fallback, and as much again each time a restart
\* or a shutdown has the log read anew: no failure of a neighbour in the batch, of a commit
\* or of a dead-letter write multiplies the POSTs further.
CallsBounded == \A m \in Messages : calls[m] <= Allowed(faults + 1)

\* The committed offset never goes back, whatever fails.
CommitsAdvance == [][committed' >= committed]_vars

Promise == INSTANCE Delivery WITH
  NoCallback <- Silent, settled <- acked \cup dlq \cup Silent, dropped <- lost

\* Batches, attempts, the fallback, failed commits and restarts together do what
\* Delivery promises: every step settles one message, drops messages that are
\* not committed, starts the reader again, or commits up to where everything is
\* settled or dropped.
ImplementsDelivery == Promise!Spec

\* Every confirmed payment reaches its merchant or the dead-letter topic, unless
\* one of those faults drops it; neither a poisoned message nor a merchant that
\* never answers holds up the partition.
EventSettled == \A m \in Messages : end >= m ~> Accounted(m)

\* Failures, and only failures, are retried: a merchant that has answered 2xx
\* is not called again for the event.
AckedNotRepeated == [][\A m \in acked : calls'[m] = calls[m]]_vars

-----------------------------------------------------------------------------
(* What makes the invariants inductive *)

\* Everything before the message in hand is accounted for.
BatchHandled ==
  /\ \A m \in 1..start : Accounted(m)
  /\ pc \in {"handle", "fallback", "dlq"} => \A m \in start+1..at-1 : Accounted(m)
  /\ pc = "commit" => \A m \in start+1..position : Accounted(m)

\* The POSTs for m that the reader may have made since it was last started.
Spent(m) ==
  CASE m <= start -> 2 * maxAttempts
    [] m > start /\ (m > position \/ pc = "fetch") -> 0
    [] m \in start+1..position /\ pc = "handle" ->
         IF m < at THEN maxAttempts ELSE IF m = at THEN attempt - 1 ELSE 0
    [] m \in start+1..position /\ pc = "fallback" ->
         IF m < at THEN 2 * maxAttempts
                   ELSE IF m = at THEN maxAttempts + attempt - 1 ELSE maxAttempts
    [] m \in start+1..position /\ pc = "dlq" ->
         IF m <= at THEN 2 * maxAttempts ELSE maxAttempts
    [] m \in start+1..position /\ pc = "commit" -> 2 * maxAttempts

\* Times the log may have been read before: a shutdown counts once it is over.
Rounds == IF stopping THEN faults - 1 ELSE faults

\* What was spent before the last restart is paid for by the faults so far.
CallsCounted == \A m \in Messages : calls[m] <= Allowed(Rounds) + Spent(m)

\* Every attempt made so far at the message in hand is a POST.
AttemptsCounted ==
  /\ Handling => calls[at] >= attempt - 1 /\ attempt >= 1
  /\ pc = "dlq" /\ at \notin Poison => stopping \/ calls[at] >= maxAttempts
  /\ stopping => faults >= 1
=============================================================================
