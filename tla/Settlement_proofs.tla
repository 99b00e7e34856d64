-------------------------- MODULE Settlement_proofs --------------------------
(***************************************************************************)
(* The safety properties of Settlement for any log, batch size, number of  *)
(* attempts and number of failures.                                        *)
(***************************************************************************)
EXTENDS Settlement, TLAPS

USE NAssumption, BatchSizeAssumption, maxAttemptsAssumption, MaxFaultsAssumption

\* Everything the steps of the consumer change.
LEMMA Steps ==
  Next <=> \/ Produce \/ FetchMessage \/ BatchReady \/ FetchFault
           \/ Skip \/ Reject \/ LookupFault \/ sendOnce \/ sendFails \/ sendCancelled \/ toDLQ
           \/ Commit \/ Stop \/ Restart
BY Zenon DEF Next, Consume

\* The offsets of the reader and of the group stay ordered, and every other
\* variable stays in its domain.
THEOREM TypeCorrect == Spec => []TypeOK
<1>1. Init => TypeOK
  <2> SUFFICES ASSUME Init PROVE TypeOK BY Zenon
  <2>1. stopping \in BOOLEAN BY Zenon DEF Init
  <2>2. faults \in 0..MaxFaults BY DEF Init
  <2> QED BY <2>1, <2>2 DEF Init, TypeOK, Messages
<1>2. TypeOK /\ [Next]_vars => TypeOK'
  <2> SUFFICES ASSUME TypeOK, [Next]_vars PROVE TypeOK'
    BY Zenon
  <2> USE DEF TypeOK, Messages, Handling
  <2>0. ASSUME Deliverable, calls' \in {calls, Called}
        PROVE  at \in start+1..position /\ calls' \in [Messages -> Nat]
    <3>1. at \in start+1..position /\ at \in Messages
      BY <2>0 DEF Deliverable
    <3>2. calls[at] + 1 \in Nat BY <3>1
    <3>3. Called \in [Messages -> Nat] BY <3>1, <3>2, Zenon DEF Called
    <3> QED BY <2>0, <3>1, <3>3, Zenon
  <2>1. CASE Produce
    BY <2>1 DEF Produce
  <2>2. CASE FetchMessage
    BY <2>2 DEF FetchMessage
  <2>3. CASE BatchReady
    BY <2>3 DEF BatchReady
  <2>4. CASE FetchFault
    BY <2>4 DEF FetchFault, Fault
  <2>5. CASE Skip
    BY <2>5, SMTT(30) DEF Skip, Advance
  <2>6. CASE Reject
    BY <2>6, SMTT(30) DEF Reject, Failed
  <2>7. CASE LookupFault
    <3>1. at \in start+1..position /\ faults' \in 0..MaxFaults BY <2>7 DEF LookupFault, CallFails, Fault
    <3>2. at \in Messages /\ at' \in start+1..position /\ attempt' = 1 BY <2>7, <3>1 DEF LookupFault, Advance
    <3>3. pc' \in {"handle", "fallback", "commit"} BY <2>7, Zenon DEF LookupFault, Advance
    <3> QED BY <2>7, <3>1, <3>2, <3>3 DEF LookupFault
  <2>8. CASE sendOnce
    <3>1. at \in start+1..position /\ calls' \in [Messages -> Nat] BY <2>0, <2>8, Zenon DEF sendOnce, Post
    <3>2. at \in Messages /\ at' \in start+1..position /\ attempt' = 1 BY <2>8, <3>1 DEF sendOnce, Advance
    <3>3. pc' \in {"handle", "fallback", "commit"} BY <2>8, Zenon DEF sendOnce, Advance, Post, Deliverable
    <3> QED BY <2>8, <3>1, <3>2, <3>3 DEF sendOnce
  <2>9. CASE sendFails
    <3>1. at \in start+1..position /\ calls' \in [Messages -> Nat] BY <2>0, <2>9, Zenon DEF sendFails, Post
    <3>2. at' \in start+1..position /\ attempt' \in 0..maxAttempts BY <2>9, <3>1 DEF sendFails, Failed
    <3>3. pc' \in {"handle", "fallback", "dlq"} BY <2>9, Zenon DEF sendFails, Failed, Post, Deliverable
    <3> QED BY <2>9, <3>1, <3>2, <3>3 DEF sendFails
  <2>10. CASE toDLQ
    <3>1. faults' \in 0..MaxFaults /\ dlq' \subseteq Messages /\ lost' \subseteq Messages
      <4>1. at \in Messages
        BY <2>10 DEF toDLQ
      <4>2. CASE dlq' = dlq \cup {at} /\ UNCHANGED <<lost, faults>>
        BY <4>1, <4>2, Zenon
      <4>3. CASE CallFails("dlq") /\ lost' = lost \cup {at} /\ UNCHANGED dlq
        BY <4>1, <4>3 DEF CallFails, Fault
      <4> QED BY <2>10, <4>2, <4>3, Zenon DEF toDLQ
    <3>2. pc' \in {"fallback", "commit"} /\ at' \in start+1..position /\ attempt' = 1
      BY <2>10 DEF toDLQ, Advance
    <3> QED BY <2>10, <3>1, <3>2 DEF toDLQ
  <2>11. CASE Commit
    BY <2>11 DEF Commit, CallFails, Fault
  <2>12. CASE Restart
    <3>1. stopping' \in BOOLEAN BY <2>12, Zenon DEF Restart
    <3>2. faults' \in 0..MaxFaults
      <4>1. faults' = faults \/ (faults < MaxFaults /\ faults' = faults + 1) BY <2>12, Zenon DEF Restart, Fault
      <4> QED BY <4>1
    <3> QED BY <2>12, <3>1, <3>2 DEF Restart
  <2>13. CASE UNCHANGED vars
    BY <2>13, Zenon DEF vars
  <2>14. CASE sendCancelled
    <3>1. at \in start+1..position /\ calls' \in [Messages -> Nat] BY <2>0, <2>14, Zenon DEF sendCancelled
    <3>2. at' \in start+1..position /\ attempt' \in 0..maxAttempts BY <2>14, <3>1 DEF sendCancelled, Failed
    <3>3. pc' \in {"fallback", "dlq"} BY <2>14, Zenon DEF sendCancelled, Failed, Deliverable
    <3> QED BY <2>14, <3>1, <3>2, <3>3 DEF sendCancelled
  <2>15. CASE Stop
    BY <2>15 DEF Stop, Fault
  <2> QED
    BY Steps, <2>1, <2>2, <2>3, <2>4, <2>5, <2>6, <2>7, <2>8, <2>9, <2>10, <2>11, <2>12, <2>13, <2>14, <2>15, ZenonT(30)
<1> QED BY <1>1, <1>2, PTL DEF Spec

\* CommitMessages is only ever called with messages after the committed ones.
THEOREM CommitsOnlyAdvance == Spec => CommitsAdvance
<1>1. TypeOK /\ [Next]_vars => [committed' >= committed]_vars
  BY Steps DEF TypeOK, Produce, FetchMessage, BatchReady, FetchFault, Skip, Reject, LookupFault,
      sendOnce, sendFails, sendCancelled, toDLQ, Commit, Stop, Restart, vars
<1> QED BY <1>1, TypeCorrect, PTL DEF Spec, CommitsAdvance

-----------------------------------------------------------------------------
(* Which messages can be lost *)

\* A handled message stays handled, and a dropped one dropped unless the reader
\* starts again.
LEMMA AccountedStays ==
  ASSUME [Next]_vars, NEW m, Accounted(m), ~ Restart \/ m \in 1..committed
  PROVE  Accounted(m)'
BY Steps, Zenon DEF Accounted, Handled, Produce, FetchMessage, BatchReady, FetchFault, Skip, Reject, LookupFault,
      sendOnce, sendFails, sendCancelled, toDLQ, Commit, Stop, Restart, vars

Nothing_Skipped == BatchHandled /\ OnlyFaultsLose

\* Everything before the message in hand is accounted for.
LEMMA NothingSkipped == Spec => []Nothing_Skipped
<1>1. Init => Nothing_Skipped
  BY DEF Init, Nothing_Skipped, BatchHandled, OnlyFaultsLose
<1>2. TypeOK /\ Nothing_Skipped /\ TypeOK' /\ [Next]_vars => Nothing_Skipped'
  <2> SUFFICES ASSUME TypeOK, Nothing_Skipped, TypeOK', [Next]_vars PROVE Nothing_Skipped'
    BY Zenon
  <2> USE DEF Nothing_Skipped, BatchHandled, OnlyFaultsLose, Handling
  <2>12. CASE Restart
    <3>1. \A m \in 1..committed : Accounted(m)'
      BY <2>12, AccountedStays, Zenon
    <3> QED BY <2>12, <3>1, Zenon DEF Restart, TypeOK
  <2> SUFFICES ASSUME ~ Restart PROVE Nothing_Skipped'
    BY <2>12, Zenon
  <2>0. \A m : Accounted(m) => Accounted(m)'
    BY AccountedStays, Zenon
  <2>1. CASE Produce
    BY <2>0, <2>1, Zenon DEF Produce, TypeOK
  <2>2. CASE FetchMessage
    BY <2>0, <2>2, Zenon DEF FetchMessage, TypeOK
  <2>3. CASE BatchReady
    BY <2>0, <2>3 DEF BatchReady, TypeOK
  <2>4. CASE FetchFault
    <3>1. \A m \in start+1..position : Accounted(m)'
      BY <2>4, Zenon DEF FetchFault, Accounted
    <3> QED BY <2>0, <2>4, <3>1 DEF FetchFault, TypeOK
  <2>5. ASSUME NEW m, m = at, Accounted(m)', Advance, pc \in {"handle", "fallback", "dlq"},
               UNCHANGED <<start, position, committed>>
        PROVE  Nothing_Skipped'
    <3>1. at \in start+1..position /\ start \in Nat /\ position \in Nat
      BY <2>5 DEF TypeOK
    <3>2. CASE at < position
      <4>1. at' = at + 1 /\ pc' \in {"handle", "fallback"}
        BY <2>5, <3>2, Zenon DEF Advance
      <4>2. \A k \in start+1..at : Accounted(k)'
        BY <2>0, <2>5, <3>1
      <4> QED BY <2>0, <2>5, <3>1, <4>1, <4>2
    <3>3. CASE at = position
      <4>1. pc' = "commit"
        BY <2>5, <3>1, <3>3 DEF Advance
      <4>2. \A k \in start+1..position : Accounted(k)'
        BY <2>0, <2>5, <3>1, <3>3
      <4> QED BY <2>0, <2>5, <3>1, <4>1, <4>2, Zenon
    <3> QED BY <3>1, <3>2, <3>3
  <2>6. CASE Skip
    <3>1. \A m : m = at => Accounted(m)'
      BY <2>6, Zenon DEF Skip, Accounted, Handled
    <3> QED BY <2>5, <2>6, <3>1, Zenon DEF Skip
  <2>14. CASE LookupFault
    <3>1. \A m : m = at => Accounted(m)'
      BY <2>14, Zenon DEF LookupFault, Accounted
    <3> QED BY <2>5, <2>14, <3>1, Zenon DEF LookupFault
  <2>7. ASSUME Failed, Handling, UNCHANGED <<start, position, committed>>
        PROVE  Nothing_Skipped'
    <3>1. start \in Nat
      BY DEF TypeOK
    <3> QED BY <2>0, <2>7, <3>1 DEF Failed
  <2>8. CASE sendOnce
    <3>1. \A m : m = at => Accounted(m)'
      BY <2>8, Zenon DEF sendOnce, Accounted, Handled
    <3> QED BY <2>5, <2>8, <3>1, Zenon DEF sendOnce, Post, Deliverable
  <2>9. CASE Reject \/ sendFails \/ sendCancelled
    <3>1. CASE Failed
      BY <2>7, <2>9, <3>1, Zenon DEF Reject, sendFails, sendCancelled, Post, Deliverable
    <3>2. CASE UNCHANGED <<pc, at>>
      BY <2>0, <2>9, <3>2, Zenon DEF Reject, sendFails, sendCancelled
    <3> QED BY <2>9, <3>1, <3>2, Zenon DEF Reject, sendFails, sendCancelled
  <2>10. CASE toDLQ
    <3>1. \A m : m = at => Accounted(m)'
      BY <2>10, Zenon DEF toDLQ, Accounted, Handled
    <3> QED BY <2>5, <2>10, <3>1, Zenon DEF toDLQ
  <2>11. CASE Commit
    BY <2>0, <2>11 DEF Commit, TypeOK
  <2>13. CASE UNCHANGED vars
    BY <2>0, <2>13, Zenon DEF vars, TypeOK
  <2>15. CASE Stop
    BY <2>0, <2>15, Zenon DEF Stop, TypeOK
  <2> QED
    BY Steps, <2>1, <2>2, <2>3, <2>4, <2>6, <2>8, <2>9, <2>10, <2>11, <2>13, <2>14, <2>15, Zenon
<1> QED BY <1>1, <1>2, TypeCorrect, PTL DEF Spec

\* An offset is committed only after its message has reached the merchant or
\* the dead-letter topic, or a failed fetch, lookup or dead-letter write has
\* dropped it: nothing else loses a payment.confirmed event.
THEOREM LossesAreFaults == Spec => []OnlyFaultsLose
<1>1. Nothing_Skipped => OnlyFaultsLose
  BY Zenon DEF Nothing_Skipped
<1> QED BY <1>1, NothingSkipped, PTL

\* The consumer implements at-least-once delivery: whatever fails, each of its
\* steps is a step of Delivery or leaves the offset and the sets alone.
THEOREM SettlementImplementsDelivery == Spec => ImplementsDelivery
<1>1. Init => Promise!Init
  BY Zenon DEF Init, Promise!Init
<1>2. TypeOK /\ Nothing_Skipped /\ [Next]_vars => [Promise!Next]_(Promise!vars)
  <2> SUFFICES ASSUME TypeOK, Nothing_Skipped, [Next]_vars
               PROVE  Promise!Next \/ UNCHANGED Promise!vars
    BY Zenon
  <2>1. \A m \in Messages : m \in Promise!Messages
    BY Zenon DEF Messages, Promise!Messages
  <2>2. pc \in {"handle", "fallback", "dlq", "commit"} => /\ at \in Messages /\ position \in Messages
                                                       /\ at \notin 1..committed
    BY DEF TypeOK, Messages
  <2>3. CASE \/ Produce \/ FetchMessage \/ BatchReady \/ Skip \/ Reject \/ sendFails \/ sendCancelled
          \/ Stop \/ UNCHANGED vars
    BY <2>3, Zenon DEF Produce, FetchMessage, BatchReady, Skip, Reject, sendFails, sendCancelled, Stop, vars,
        Promise!vars
  <2>4. ASSUME NEW S \in SUBSET Messages, S \cap 1..committed = {}, lost' = lost \cup S,
               UNCHANGED <<committed, acked, dlq>>
        PROVE  Promise!Next
    <3>1. Promise!Drop(S) BY <2>4, Zenon DEF Promise!Drop
    <3> QED BY <2>1, <3>1, Zenon DEF Promise!Next
  <2>5. CASE FetchFault
    <3>1. (start+1..position) \in SUBSET Messages /\ (start+1..position) \cap 1..committed = {}
      BY DEF TypeOK, Messages
    <3> QED BY <2>4, <2>5, <3>1, Zenon DEF FetchFault
  <2>6. CASE LookupFault
    <3>1. at \in Messages /\ at \notin 1..committed /\ lost' = lost \cup {at} /\ UNCHANGED <<committed, acked, dlq>>
      BY <2>2, <2>6, Zenon DEF LookupFault, Handling
    <3>2. {at} \in SUBSET Messages /\ {at} \cap 1..committed = {} BY <3>1, Zenon
    <3> QED BY <2>4, <3>1, <3>2, Zenon
  <2>7. ASSUME NEW m \in Messages, UNCHANGED <<committed, lost>>,
               \/ acked' = acked \cup {m} /\ UNCHANGED dlq
               \/ dlq' = dlq \cup {m} /\ UNCHANGED acked
        PROVE  Promise!Next
    <3>1. Promise!Settle(m) BY <2>7, Zenon DEF Promise!Settle
    <3> QED BY <2>1, <3>1, Zenon DEF Promise!Next
  <2>8. CASE sendOnce
    BY <2>2, <2>7, <2>8, Zenon DEF sendOnce, Post, Deliverable, Handling
  <2>9. CASE toDLQ
    <3>1. at \in Messages /\ at \notin 1..committed /\ UNCHANGED <<committed, acked>>
      BY <2>2, <2>9, Zenon DEF toDLQ
    <3>2. CASE dlq' = dlq \cup {at} /\ UNCHANGED lost BY <2>7, <3>1, <3>2, Zenon
    <3>3. CASE lost' = lost \cup {at} /\ UNCHANGED dlq
      <4>1. {at} \in SUBSET Messages /\ {at} \cap 1..committed = {} BY <3>1, Zenon
      <4> QED BY <2>4, <3>1, <3>3, <4>1, Zenon
    <3> QED BY <2>9, <3>2, <3>3, Zenon DEF toDLQ
  <2>10. CASE Commit
    <3>1. CASE committed' = committed
      BY <2>10, <3>1, Zenon DEF Commit, Promise!vars
    <3>2. CASE committed' = position
      <4>1. position >= committed BY DEF TypeOK
      <4>2. 1..position \subseteq (acked \cup dlq \cup Silent) \cup lost
        <5> SUFFICES ASSUME NEW m \in 1..position PROVE Accounted(m)
          BY Zenon DEF Accounted, Handled
        <5>1. m \in 1..start \/ m \in start+1..position BY DEF TypeOK
        <5> QED BY <2>10, <5>1, Zenon DEF Nothing_Skipped, BatchHandled, Commit
      <4>3. Promise!CommitTo(position)
        BY <2>10, <3>2, <4>1, <4>2, Zenon DEF Promise!CommitTo, Commit
      <4> QED BY <2>1, <2>2, <2>10, <4>3, Zenon DEF Promise!Next, Commit
    <3> QED BY <2>10, <3>1, <3>2, Zenon DEF Commit
  <2>11. CASE Restart
    <3>1. Promise!Reread BY <2>11, Zenon DEF Restart, Promise!Reread
    <3> QED BY <3>1, Zenon DEF Promise!Next
  <2> QED BY Steps, <2>3, <2>5, <2>6, <2>8, <2>9, <2>10, <2>11, Zenon
<1> QED BY <1>1, <1>2, TypeCorrect, NothingSkipped, PTL DEF Spec, ImplementsDelivery, Promise!Spec

\* When no fetch, lookup or dead-letter write fails and no process is shut down
\* by a signal, no message is dropped, and every committed one has been handled:
\* neither failed commits nor restarts lose a payment.confirmed event.
THEOREM NothingLost ==
  ASSUME Faults \cap {"fetch", "lookup", "dlq", "stop"} = {}
  PROVE  Spec => []CommittedHandled
<1> DEFINE Whole == lost = {} /\ stopping = FALSE
<1>1. Init => Whole
  BY Zenon DEF Init
<1>2. Whole /\ [Next]_vars => Whole'
  BY Steps, Zenon DEF CallFails, Fault, Produce, FetchMessage, BatchReady, FetchFault, Skip, Reject, LookupFault,
      sendOnce, sendFails, sendCancelled, toDLQ, Commit, Stop, Restart, vars
<1>3. Whole /\ OnlyFaultsLose => CommittedHandled
  BY Zenon DEF OnlyFaultsLose, Accounted, CommittedHandled
<1> QED BY <1>1, <1>2, <1>3, LossesAreFaults, PTL DEF Spec

-----------------------------------------------------------------------------
(* Dead letters *)

\* Every attempt is a POST, and HandleOne makes maxAttempts of them before it
\* gives up, unless the process is shutting down.
LEMMA AttemptsAreCounted == Spec => []AttemptsCounted
<1>1. Init => AttemptsCounted
  BY Zenon DEF Init, AttemptsCounted, Handling
<1>2. TypeOK /\ AttemptsCounted /\ [Next]_vars => AttemptsCounted'
  <2> SUFFICES ASSUME TypeOK, AttemptsCounted, [Next]_vars PROVE AttemptsCounted'
    BY Zenon
  <2> USE DEF AttemptsCounted, Handling, TypeOK, Messages, Poison
  <2>1. CASE \/ Produce \/ FetchMessage
    <3>1. UNCHANGED <<pc, at, attempt, calls, stopping, faults>> BY <2>1, Zenon DEF Produce, FetchMessage
    <3> QED BY <3>1, Zenon
  <2>11. CASE FetchFault
    BY <2>11 DEF FetchFault, Fault
  <2>2. CASE BatchReady
    BY <2>2 DEF BatchReady
  <2>3. CASE Commit
    BY <2>3, SMTT(30) DEF Commit, CallFails, Fault
  <2>12. CASE Restart
    BY <2>12, ZenonT(30) DEF Restart
  <2>13. CASE Stop
    BY <2>13, SMTT(30) DEF Stop, Fault
  <2>4. ASSUME Advance, pc \in {"handle", "fallback", "dlq"}, faults' \in {faults, faults + 1},
               UNCHANGED <<start, position, end, stopping>>, calls' \in [Messages -> Nat]
        PROVE  AttemptsCounted'
    <3>1. attempt' = 1 /\ at' \in Messages /\ pc' \in {"handle", "fallback", "commit"}
      BY <2>4, SMTT(30) DEF Advance
    <3> QED BY <2>4, <3>1
  <2>5. CASE Skip \/ LookupFault
    <3>1. Advance /\ Handling /\ faults' \in {faults, faults + 1} /\ UNCHANGED <<start, position, end, calls, stopping>>
      BY <2>5, ZenonT(30) DEF Skip, LookupFault, CallFails, Fault
    <3> QED BY <2>4, <3>1
  <2>6. CASE Reject
    BY <2>6, SMTT(30) DEF Reject, Failed
  <2>7. CASE sendOnce
    <3>1. calls' \in [Messages -> Nat]
      BY <2>7 DEF sendOnce, Post, Deliverable, Called
    <3> QED BY <2>4, <2>7, <3>1, Zenon DEF sendOnce, Post, Deliverable
  <2>14. ASSUME Failed, Deliverable, UNCHANGED <<start, position, stopping, faults>>, calls' \in [Messages -> Nat],
                stopping \/ calls'[at] >= maxAttempts
         PROVE  AttemptsCounted'
    <3>1. CASE pc = "handle"
      <4>1. pc' = "fallback" /\ attempt' = 1 /\ at' \in Messages
        BY <2>14, <3>1 DEF Failed
      <4> QED BY <2>14, <4>1
    <3>2. CASE pc = "fallback"
      <4>1. pc' = "dlq" /\ at' = at
        BY <2>14, <3>2, Zenon DEF Failed
      <4> QED BY <2>14, <4>1, Zenon
    <3> QED BY <2>14, <3>1, <3>2, Zenon DEF Deliverable
  <2>8. CASE sendFails
    <3>1. /\ Handling /\ Deliverable /\ at \in Messages /\ calls' = Called
          /\ UNCHANGED <<start, position, stopping, faults>>
      BY <2>8 DEF sendFails, Post, Deliverable
    <3>2. calls' \in [Messages -> Nat] /\ calls'[at] = calls[at] + 1 /\ calls'[at] >= attempt
      BY <3>1 DEF Called
    <3>4. CASE attempt < maxAttempts
      BY <2>8, <3>1, <3>2, <3>4 DEF sendFails
    <3>5. CASE attempt = maxAttempts
      <4>1. Failed BY <2>8, <3>5 DEF sendFails
      <4> QED BY <2>14, <3>1, <3>2, <3>5, <4>1
    <3> QED BY <3>4, <3>5
  <2>15. CASE sendCancelled
    <3>1. calls' \in [Messages -> Nat]
      BY <2>15 DEF sendCancelled, Deliverable, Called
    <3> QED BY <2>14, <2>15, <3>1, Zenon DEF sendCancelled
  <2>9. CASE toDLQ
    <3>1. Advance /\ pc = "dlq" /\ faults' \in {faults, faults + 1} /\ UNCHANGED <<start, position, end, calls, stopping>>
      BY <2>9, ZenonT(30) DEF toDLQ, CallFails, Fault
    <3> QED BY <2>4, <3>1
  <2>10. CASE UNCHANGED vars
    BY <2>10, Zenon DEF vars
  <2> QED BY Steps, <2>1, <2>2, <2>3, <2>5, <2>6, <2>7, <2>8, <2>9, <2>10, <2>11, <2>12, <2>13, <2>15, Zenon
<1> QED BY <1>1, <1>2, TypeCorrect, PTL DEF Spec

\* HandleOne gives up on a merchant only after maxAttempts POSTs or when its
\* context is cancelled, so only then can the fallback send its event to the
\* dead-letter topic.
THEOREM DeadLettersAreEarned == Spec => DeadLettersEarned
<1> DEFINE Earned == \A m \in dlq' \ (dlq \cup Poison) : stopping \/ calls[m] >= maxAttempts
<1>1. AttemptsCounted /\ [Next]_vars => [Earned]_vars
  <2> SUFFICES ASSUME AttemptsCounted, [Next]_vars, NEW m \in dlq' \ (dlq \cup Poison)
               PROVE  stopping \/ calls[m] >= maxAttempts
    BY Zenon
  <2>1. toDLQ
    BY Steps, Zenon DEF Produce, FetchMessage, BatchReady, FetchFault, Skip, Reject, LookupFault,
      sendOnce, sendFails, sendCancelled, Commit, Stop, Restart, vars
  <2>2. pc = "dlq" /\ m = at
    BY <2>1, Zenon DEF toDLQ
  <2> QED BY <2>2, Zenon DEF AttemptsCounted
<1> QED BY <1>1, AttemptsAreCounted, PTL DEF Spec, DeadLettersEarned

-----------------------------------------------------------------------------
(* Repeated calls *)

\* As numbers: the attempts, and what the faults so far allow.
LEMMA Allowance ==
  ASSUME NEW f \in Nat
  PROVE  /\ maxAttempts \in Nat /\ maxAttempts >= 1 /\ Allowed(f) \in Nat
         /\ Allowed(f + 1) = Allowed(f) + 2 * maxAttempts
BY DEF Allowed

\* More faults allow no fewer calls.
LEMMA MoreAllowed ==
  ASSUME NEW f \in Nat, NEW g \in Nat, f <= g
  PROVE  Allowed(f) <= Allowed(g)
<1>1. g - f \in Nat /\ maxAttempts \in Nat OBVIOUS
<1>2. 2 * maxAttempts * (g - f) \in Nat BY <1>1
<1>3. Allowed(g) = Allowed(f) + 2 * maxAttempts * (g - f) BY <1>1 DEF Allowed
<1> QED BY <1>2, <1>3, Allowance

\* What the reader may have spent on a message, in each phase.
SpentIs(m) ==
  /\ m <= start => Spent(m) = 2 * maxAttempts
  /\ m > start /\ (m > position \/ pc = "fetch") => Spent(m) = 0
  /\ m > start /\ m <= position =>
       /\ pc = "handle" => Spent(m) =
            IF m < at THEN maxAttempts ELSE IF m = at THEN attempt - 1 ELSE 0
       /\ pc = "fallback" => Spent(m) =
            IF m < at THEN 2 * maxAttempts
                      ELSE IF m = at THEN maxAttempts + attempt - 1 ELSE maxAttempts
       /\ pc = "dlq" => Spent(m) = IF m <= at THEN 2 * maxAttempts ELSE maxAttempts
       /\ pc = "commit" => Spent(m) = 2 * maxAttempts

\* Spent, phase by phase.
LEMMA SpentFacts == TypeOK => \A m \in Messages : SpentIs(m)
<1> SUFFICES ASSUME TypeOK, NEW m \in Messages PROVE SpentIs(m)
  BY Zenon
<1> USE DEF SpentIs
<1>1. m \in Nat /\ start \in Nat /\ position \in Nat BY DEF TypeOK, Messages
<1>2. CASE m <= start BY <1>1, <1>2 DEF Spent
<1>3. CASE m > start /\ (m > position \/ pc = "fetch") BY <1>1, <1>3 DEF Spent
<1>4. CASE m > start /\ m <= position /\ pc # "fetch"
  <2>1. m \in start+1..position /\ ~ (m <= start) /\ ~ (m > position) BY <1>1, <1>4
  <2>2. CASE pc = "handle" BY <1>4, <2>1, <2>2 DEF Spent
  <2>3. CASE pc = "fallback" BY <1>4, <2>1, <2>3 DEF Spent
  <2>4. CASE pc = "dlq" BY <1>4, <2>1, <2>4 DEF Spent
  <2>5. CASE pc = "commit" BY <1>4, <2>1, <2>5 DEF Spent
  <2> QED BY <1>4, <2>1, <2>2, <2>3, <2>4, <2>5 DEF TypeOK
<1> QED BY <1>1, <1>2, <1>3, <1>4

\* The same after a step.
LEMMA SpentNext == (TypeOK => \A m \in Messages : SpentIs(m))'
BY SpentFacts, PTL

\* The numbers of a state.
LEMMA Counts ==
  ASSUME TypeOK
  PROVE  /\ start \in Nat /\ position \in Nat /\ start <= position /\ at \in Nat /\ attempt \in Nat
         /\ attempt <= maxAttempts /\ faults \in Nat /\ \A m \in Messages : m \in Nat /\ calls[m] \in Nat
BY DEF TypeOK, Messages

\* No more than two rounds of attempts are spent on a message.
LEMMA SpentRange ==
  ASSUME TypeOK, AttemptsCounted, NEW m \in Messages
  PROVE  Spent(m) \in Nat /\ Spent(m) <= 2 * maxAttempts
<1>1. SpentIs(m) BY SpentFacts, Zenon
<1>2. pc \in {"fetch", "handle", "fallback", "dlq", "commit"} BY Zenon DEF TypeOK
<1>3. pc \in {"handle", "fallback"} => attempt >= 1 BY Zenon DEF AttemptsCounted, Handling
<1>4. m \in Nat BY Counts, Zenon
<1> QED BY <1>1, <1>2, <1>3, <1>4, Counts DEF SpentIs

\* Going on to the next message spends what was left of this one's round.
LEMMA AdvanceSpends ==
  ASSUME TypeOK, TypeOK', AttemptsCounted, NEW m \in Messages,
         pc \in {"handle", "fallback", "dlq"}, Advance, UNCHANGED <<start, position>>
  PROVE  Spent(m)' \in Nat /\ Spent(m) <= Spent(m)' /\ (m = at /\ Handling => Spent(m) + 1 <= Spent(m)')
<1>1. SpentIs(m) /\ SpentIs(m)' BY SpentFacts, SpentNext, Zenon
<1>2. pc \in {"handle", "fallback"} => attempt >= 1 BY Zenon DEF AttemptsCounted, Handling
<1>3. m \in Nat /\ at >= start + 1 /\ at <= position BY Counts DEF TypeOK
<1>4. CASE m <= start \/ m > position BY <1>1, <1>3, <1>4, Counts DEF SpentIs
<1>5. CASE m > start /\ m <= position /\ at < position
  <2>1. at' = at + 1 /\ attempt' = 1 /\ pc' = IF pc = "dlq" THEN "fallback" ELSE pc
    BY <1>5, Zenon DEF Advance
  <2> QED BY <1>1, <1>2, <1>3, <1>5, <2>1, Counts DEF SpentIs, Handling
<1>6. CASE m > start /\ m <= position /\ ~ (at < position)
  <2>1. pc' = "commit" BY <1>6, Zenon DEF Advance
  <2> QED BY <1>1, <1>2, <1>3, <1>6, <2>1, Counts DEF SpentIs, Handling
<1> QED BY <1>3, <1>4, <1>5, <1>6, Counts

\* So does giving up on it.
LEMMA FailedSpends ==
  ASSUME TypeOK, TypeOK', AttemptsCounted, NEW m \in Messages, Handling, Failed, UNCHANGED <<start, position>>
  PROVE  /\ Spent(m)' \in Nat /\ Spent(m) <= Spent(m)'
         /\ m = at => Spent(m) + 1 <= Spent(m)'
<1>1. SpentIs(m) /\ SpentIs(m)' BY SpentFacts, SpentNext, Zenon
<1>2. attempt >= 1 BY Zenon DEF AttemptsCounted
<1>3. m \in Nat /\ at >= start + 1 /\ at <= position BY Counts DEF TypeOK, Handling
<1>4. CASE m <= start \/ m > position BY <1>1, <1>3, <1>4, Counts DEF SpentIs
<1>5. CASE m > start /\ m <= position /\ pc = "handle"
  <2>1. pc' = "fallback" /\ at' = start + 1 /\ attempt' = 1 BY <1>5, Zenon DEF Failed
  <2> QED BY <1>1, <1>2, <1>3, <1>5, <2>1, Counts DEF SpentIs
<1>6. CASE m > start /\ m <= position /\ pc = "fallback"
  <2>1. pc' = "dlq" /\ at' = at BY <1>6, Zenon DEF Failed
  <2> QED BY <1>1, <1>2, <1>3, <1>6, <2>1, Counts DEF SpentIs
<1> QED BY <1>3, <1>4, <1>5, <1>6, Counts DEF Handling

\* How often the log may have been read before, as a number.
LEMMA RoundsAre ==
  ASSUME TypeOK, AttemptsCounted
  PROVE  /\ Rounds \in Nat /\ Rounds <= faults
         /\ (stopping' = stopping /\ faults' = faults) \/ Stop => Rounds' = Rounds
         /\ stopping' = stopping /\ faults' = faults + 1 => Rounds' = Rounds + 1
         /\ Restart => Rounds' = Rounds + 1
<1>1. faults \in Nat /\ stopping \in BOOLEAN /\ (stopping => faults >= 1) BY DEF TypeOK, AttemptsCounted
<1>2. Rounds' = IF stopping' THEN faults' - 1 ELSE faults' BY Zenon DEF Rounds
<1>3. Stop => ~ stopping /\ stopping' = TRUE /\ faults' = faults + 1 BY Zenon DEF Stop, Fault
<1>4. Restart => stopping' = FALSE /\ faults' = IF stopping THEN faults ELSE faults + 1 BY Zenon DEF Restart, Fault
<1> QED BY <1>1, <1>2, <1>3, <1>4 DEF Rounds

\* Every step pays for the call it makes out of what it spends.
LEMMA CallsStep == TypeOK /\ TypeOK' /\ AttemptsCounted /\ CallsCounted /\ [Next]_vars => CallsCounted'
<1> SUFFICES ASSUME TypeOK, TypeOK', AttemptsCounted, CallsCounted, [Next]_vars, NEW m \in Messages
             PROVE  calls'[m] <= Allowed(Rounds') + Spent(m)'
  BY Zenon DEF CallsCounted
<1>1. /\ calls[m] \in Nat /\ calls[m] <= Allowed(Rounds) + Spent(m) /\ m \in Nat
      /\ Spent(m) \in Nat /\ Spent(m) <= 2 * maxAttempts
      /\ maxAttempts \in Nat /\ Rounds \in Nat /\ Allowed(Rounds) \in Nat
      /\ Allowed(Rounds + 1) = Allowed(Rounds) + 2 * maxAttempts
  BY SpentRange, Counts, RoundsAre, Allowance, Zenon DEF CallsCounted
<1>2. SpentIs(m) /\ SpentIs(m)' BY SpentFacts, SpentNext, Zenon
<1>3. ASSUME Spent(m)' \in Nat, Spent(m) <= Spent(m)', UNCHANGED calls, Rounds' \in {Rounds, Rounds + 1}
      PROVE  calls'[m] <= Allowed(Rounds') + Spent(m)'
  <2>1. Allowed(Rounds') \in {Allowed(Rounds), Allowed(Rounds + 1)} BY <1>3, Zenon
  <2> QED BY <1>1, <1>3, <2>1
<1>4. CASE Produce \/ Stop \/ UNCHANGED vars
  <2>1. Spent(m)' = Spent(m) /\ calls' = calls BY <1>4, Zenon DEF Produce, Stop, vars, Spent
  <2>2. Rounds' = Rounds BY <1>4, RoundsAre, Zenon DEF Produce, vars
  <2>3. Spent(m) <= Spent(m)' BY <1>1, <2>1
  <2> QED BY <1>1, <1>3, <2>1, <2>2, <2>3, Zenon
<1>5. CASE FetchMessage
  <2>1. Spent(m)' \in Nat /\ Spent(m) <= Spent(m)' BY <1>1, <1>2, <1>5, Counts DEF FetchMessage, SpentIs
  <2> QED BY <1>3, <1>5, <2>1, RoundsAre, Zenon DEF FetchMessage
<1>6. CASE BatchReady
  <2>1. Spent(m)' \in Nat /\ Spent(m) <= Spent(m)' BY <1>1, <1>2, <1>6, Counts DEF BatchReady, SpentIs
  <2> QED BY <1>3, <1>6, <2>1, RoundsAre, Zenon DEF BatchReady
<1>7. CASE FetchFault
  <2>1. Spent(m)' \in Nat /\ Spent(m) <= Spent(m)' BY <1>1, <1>2, <1>7, Counts DEF FetchFault, SpentIs
  <2> QED BY <1>3, <1>7, <2>1, RoundsAre, Zenon DEF FetchFault, Fault
<1>8. CASE Skip \/ LookupFault \/ toDLQ
  <2>1. /\ pc \in {"handle", "fallback", "dlq"} /\ Advance /\ UNCHANGED <<start, position, calls, stopping>>
        /\ faults' \in {faults, faults + 1}
    BY <1>8, Zenon DEF Skip, LookupFault, toDLQ, Handling, CallFails, Fault
  <2>2. Spent(m)' \in Nat /\ Spent(m) <= Spent(m)' BY <2>1, AdvanceSpends, Zenon
  <2>3. Rounds' \in {Rounds, Rounds + 1} BY <2>1, RoundsAre, Zenon
  <2> QED BY <1>3, <2>1, <2>2, <2>3, Zenon
<1>9. CASE Reject
  <2>1. Handling /\ Failed /\ UNCHANGED <<start, position, calls, stopping, faults>> BY <1>9, Zenon DEF Reject
  <2>2. Spent(m)' \in Nat /\ Spent(m) <= Spent(m)' BY <2>1, FailedSpends, Zenon
  <2> QED BY <1>3, <2>1, <2>2, RoundsAre, Zenon
<1>10. ASSUME calls' \in {calls, Called}, UNCHANGED <<stopping, faults>>, Spent(m)' \in Nat, Spent(m) <= Spent(m)',
              m = at => Spent(m) + 1 <= Spent(m)'
       PROVE  calls'[m] <= Allowed(Rounds') + Spent(m)'
  <2>1. calls'[m] = calls[m] \/ calls'[m] = IF m = at THEN calls[m] + 1 ELSE calls[m]
    BY <1>10, Zenon DEF Called, TypeOK
  <2>2. Allowed(Rounds') = Allowed(Rounds) BY <1>10, RoundsAre, Zenon
  <2> QED BY <1>1, <1>10, <2>1, <2>2
<1>11. CASE sendOnce
  <2>1. /\ calls' \in {calls, Called} /\ Handling /\ Advance
        /\ UNCHANGED <<start, position, stopping, faults>>
    BY <1>11, Zenon DEF sendOnce, Post, Deliverable
  <2>2. Spent(m)' \in Nat /\ Spent(m) <= Spent(m)' /\ (m = at => Spent(m) + 1 <= Spent(m)')
    BY <2>1, AdvanceSpends, Zenon DEF Handling
  <2> QED BY <1>10, <2>1, <2>2, Zenon
<1>12. CASE sendFails \/ sendCancelled
  <2>1. calls' \in {calls, Called} /\ Handling /\ UNCHANGED <<start, position, stopping, faults>>
    BY <1>12, Zenon DEF sendFails, sendCancelled, Post, Deliverable
  <2>2. CASE Failed
    <3>1. Spent(m)' \in Nat /\ Spent(m) <= Spent(m)' /\ (m = at => Spent(m) + 1 <= Spent(m)')
      BY <2>1, <2>2, FailedSpends, Zenon
    <3> QED BY <1>10, <2>1, <3>1, Zenon
  <2>3. CASE attempt' = attempt + 1 /\ UNCHANGED <<pc, at>>
    <3>1. Spent(m)' \in Nat /\ Spent(m) <= Spent(m)' /\ (m = at => Spent(m) + 1 <= Spent(m)')
      <4>1. at >= start + 1 /\ at <= position /\ attempt >= 1
        BY <2>1, Counts DEF TypeOK, Handling, AttemptsCounted
      <4> QED BY <1>1, <1>2, <2>1, <2>3, <4>1, Counts DEF SpentIs, Handling
    <3> QED BY <1>10, <2>1, <3>1, Zenon
  <2> QED BY <1>12, <2>2, <2>3, Zenon DEF sendFails, sendCancelled
<1>13. CASE Commit
  <2>1. Spent(m)' \in Nat /\ Spent(m) <= Spent(m)' BY <1>1, <1>2, <1>13, Counts DEF Commit, SpentIs
  <2>2. Rounds' \in {Rounds, Rounds + 1} BY <1>13, RoundsAre, Zenon DEF Commit, CallFails, Fault
  <2> QED BY <1>3, <1>13, <2>1, <2>2, Zenon DEF Commit
<1>14. CASE Restart
  <2>1. /\ pc' = "fetch" /\ start' = committed /\ position' = committed
        /\ calls' = calls /\ Allowed(Rounds') = Allowed(Rounds + 1)
    BY <1>14, RoundsAre, Zenon DEF Restart
  <2>2. Spent(m)' \in Nat BY <1>1, <1>2, <2>1 DEF SpentIs, TypeOK
  <2> QED BY <1>1, <2>1, <2>2
<1> QED BY Steps, <1>4, <1>5, <1>6, <1>7, <1>8, <1>9, <1>11, <1>12, <1>13, <1>14, Zenon

\* However often a batch fails, a merchant is called for an event at most
\* 2 * maxAttempts times for each time the log is read.
THEOREM CallsStayBounded == Spec => []CallsBounded
<1>1. Init => CallsCounted
  <2> SUFFICES ASSUME Init, NEW m \in Messages PROVE calls[m] <= Allowed(Rounds) + Spent(m)
    BY Zenon DEF CallsCounted
  <2>1. calls[m] = 0 /\ Rounds = 0 /\ start = 0 /\ position = 0 /\ pc = "fetch" BY Zenon DEF Init, Rounds
  <2>2. Spent(m) = 0 BY <2>1 DEF Spent, Messages
  <2> QED BY <2>1, <2>2, Allowance
<1>2. TypeOK /\ AttemptsCounted /\ CallsCounted => CallsBounded
  <2> SUFFICES ASSUME TypeOK, AttemptsCounted, CallsCounted, NEW m \in Messages
               PROVE  calls[m] <= Allowed(faults + 1)
    BY Zenon DEF CallsBounded
  <2>1. /\ calls[m] \in Nat /\ calls[m] <= Allowed(Rounds) + Spent(m)
        /\ Spent(m) \in Nat /\ Spent(m) <= 2 * maxAttempts
        /\ maxAttempts \in Nat /\ faults \in Nat /\ Rounds \in Nat /\ Rounds <= faults
        /\ Allowed(faults + 1) = Allowed(faults) + 2 * maxAttempts
    BY SpentRange, Counts, RoundsAre, Allowance, Zenon DEF CallsCounted
  <2>2. Allowed(Rounds) \in Nat /\ Allowed(Rounds) <= Allowed(faults)
    BY <2>1, Allowance, MoreAllowed, Zenon
  <2>3. Allowed(faults) \in Nat BY <2>1, Allowance, Zenon
  <2> QED BY <2>1, <2>2, <2>3
<1> QED BY <1>1, <1>2, CallsStep, TypeCorrect, AttemptsAreCounted, PTL DEF Spec
=============================================================================
