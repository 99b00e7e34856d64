--------------------------- MODULE Listener_proofs ---------------------------
(***************************************************************************)
(* The steps of Listener for any number of pods, transactions and orders,  *)
(* any depths and bounds, and any combination of faults: they keep the     *)
(* types, take nothing back, and keep chain, rows and queues sound.        *)
(* Listener_safety goes on from here to the workers and the theorems.      *)
(***************************************************************************)
EXTENDS Listener, TLAPS, WellFoundedInduction

-----------------------------------------------------------------------------
(* The row in hand *)

Below == OpToRel(<, Nat)

\* A set of block numbers has a least one.
LEMMA LeastBlock ==
  ASSUME NEW S, S \subseteq Nat, S # {}
  PROVE  \E n \in S : \A m \in S : n <= m
<1>1. IsWellFoundedOn(Below, Nat)
  BY NatLessThanWellFounded, Zenon DEF Below
<1>2. \A a \in Nat, b \in Nat : a < b => <<a, b>> \in Below
  BY Zenon DEF Below, OpToRel
<1>3. PICK n \in S : \A m \in S : ~ (<<m, n>> \in Below)
  BY <1>1, WFMin, Zenon
<1>4. ASSUME NEW m \in S PROVE n <= m
  <2>1. m \in Nat /\ n \in Nat /\ ~ (m < n)
    BY <1>2, <1>3, Zenon
  <2> QED BY <2>1
<1> QED BY <1>4, Zenon

\* The listed row that a worker takes next is one of its list.
LEMMA FirstIn ==
  ASSUME NEW todo \in SUBSET Logs, todo # {}
  PROVE  First(todo) \in todo
<1> DEFINE S == {p.block : p \in todo}
<1>1. S \subseteq Nat /\ S # {}
  BY DEF Logs, Blocks
<1> HIDE DEF S
<1>2. PICK n \in S : \A m \in S : n <= m
  BY <1>1, LeastBlock, Zenon
<1>3. PICK p \in todo : p.block = n
  BY Zenon DEF S
<1>4. \A q \in todo : q.block \in S
  BY Zenon DEF S
<1>5. \E r \in todo : \A q \in todo : r.block <= q.block
  BY <1>2, <1>3, <1>4, Zenon
<1> QED BY <1>5, Zenon DEF First

\* The inductive invariant.
IInv == TypeOK /\ Sound

\* What the tracker's row in hand is known to be.
LEMMA InHand ==
  ASSUME IInv, NEW d \in Pods, track[d].pc \notin {"idle", "list"}
  PROVE  /\ Current(d) \in track[d].todo /\ Current(d) \in Logs /\ Current(d).tx \in Txs
         /\ row[Current(d).tx].status # "none" /\ Known(Current(d).tx, Current(d).block)
         /\ OrderOf[Current(d).tx] \subseteq Orders
         /\ track[d].pc \in {"confirm", "settle", "publish"} => track[d].order \in Orders
<1>1. track[d] \in Tracks /\ TrackSound(track[d])
  BY Zenon DEF IInv, TypeOK, Sound
<1>2. Current(d) \in track[d].todo
  BY <1>1, FirstIn, Zenon DEF Current, Tracks, TrackSound
<1>3. Current(d) \in Logs /\ Current(d).tx \in Txs
  BY <1>1, <1>2, Zenon DEF Tracks, Logs
<1>4. OrderOf[Current(d).tx] \subseteq Orders
  BY <1>3, OrderOfAssumption, Zenon
<1>5. track[d].pc \in {"confirm", "settle", "publish"} => track[d].order \in OrderOf[Current(d).tx]
  BY <1>1, Zenon DEF TrackSound, Current
<1> QED BY <1>1, <1>2, <1>3, <1>4, <1>5, Zenon DEF TrackSound

\* The same for the reconciler.
LEMMA InHandRecon ==
  ASSUME IInv, NEW d \in Pods, recon[d].pc # "idle"
  PROVE  /\ First(recon[d].todo) \in recon[d].todo /\ First(recon[d].todo).tx \in Txs
         /\ row[First(recon[d].todo).tx].status # "none"
<1>1. recon[d] \in Recons /\ ReconSound(recon[d])
  BY Zenon DEF IInv, TypeOK, Sound
<1>2. First(recon[d].todo) \in recon[d].todo
  BY <1>1, FirstIn, Zenon DEF Recons, ReconSound
<1> QED BY <1>1, <1>2, Zenon DEF Recons, Logs, ReconSound

\* The steps one by one.
LEMMA Steps ==
  ASSUME [Next]_vars
  PROVE  \/ UNCHANGED vars \/ EmptyBlock
         \/ \E t \in Txs : Reorg(t) \/ Mine(t, TRUE) \/ Mine(t, FALSE)
         \/ \E d \in Pods :
              \/ Subscribe(d) \/ Disconnect(d) \/ handleLog(d) \/ handleLogFault(d) \/ SaveCursor(d)
              \/ ScanTick(d) \/ ScanHead(d) \/ ScanFilter(d) \/ persist(d) \/ ScanAdvance(d) \/ ScanFault(d)
              \/ TrackTick(d) \/ TrackList(d) \/ TrackReceipt(d) \/ TrackLookup(d)
              \/ TrackWrite(d) \/ TrackConfirm(d) \/ TrackSettle(d) \/ TrackPublish(d)
              \/ ReconTick(d) \/ ReconReceipt(d) \/ ReconWrite(d) \/ Crash(d)
BY ZenonT(30) DEF Next, Subscriber, BackfillScanner, ConfirmationTracker, Reconciler

-----------------------------------------------------------------------------
(* Types *)

\* A worker that goes on with its row, or leaves it, keeps a well-formed list.
LEMMA TrackTypes ==
  ASSUME TypeOK, NEW d \in Pods
  PROVE  /\ \A pc \in {"receipt", "lookup", "write", "confirm", "settle", "publish"}, v \in Statuses :
              TrackGoto(d, pc, v) => track' \in [Pods -> Tracks]
         /\ \A o \in Orders : TrackOrder(d, o) => track' \in [Pods -> Tracks]
         /\ TrackNext(d) => track' \in [Pods -> Tracks]
         /\ ReconNext(d) => recon' \in [Pods -> Recons]
<1>1. track[d] \in Tracks /\ recon[d] \in Recons
  BY Zenon DEF TypeOK
<1>2. TrackIdle \in Tracks /\ ReconIdle \in Recons
  BY BoundsAssumption DEF TrackIdle, Tracks, ReconIdle, Recons, Statuses, Blocks
<1>3. ASSUME NEW pc \in {"receipt", "lookup", "write", "confirm", "settle", "publish"}, NEW v \in Statuses,
             TrackGoto(d, pc, v)
      PROVE  track' \in [Pods -> Tracks]
  BY <1>1, <1>3, Zenon DEF TypeOK, TrackGoto, Tracks
<1>4. ASSUME TrackNext(d) PROVE track' \in [Pods -> Tracks]
  <2>1. [pc |-> "receipt", latest |-> track[d].latest, todo |-> track[d].todo \ {Current(d)}, order |-> Unknown,
         verdict |-> "none"] \in Tracks
    BY <1>1, Zenon DEF Tracks, Statuses
  <2> QED BY <1>2, <1>4, <2>1, Zenon DEF TypeOK, TrackNext
<1>5. ASSUME ReconNext(d) PROVE recon' \in [Pods -> Recons]
  <2>1. [pc |-> "receipt", todo |-> recon[d].todo \ {First(recon[d].todo)}, verdict |-> "none"] \in Recons
    BY <1>1, Zenon DEF Recons, Statuses
  <2> QED BY <1>2, <1>5, <2>1, Zenon DEF TypeOK, ReconNext
<1>6. ASSUME NEW o \in Orders, TrackOrder(d, o) PROVE track' \in [Pods -> Tracks]
  <2>1. [pc |-> "confirm", latest |-> track[d].latest, todo |-> track[d].todo, order |-> o, verdict |-> "none"] \in Tracks
    BY <1>1, Zenon DEF Tracks, Statuses
  <2> QED BY <1>6, <2>1, Zenon DEF TypeOK, TrackOrder
<1> QED BY <1>3, <1>4, <1>5, <1>6, Zenon

\* Faults are counted within their bound.
LEMMA FaultType ==
  ASSUME TypeOK, NEW kind, Fault(kind)
  PROVE  faults' \in 0..MaxFaults
BY BoundsAssumption DEF TypeOK, Fault

\* A row keeps its block; a new one takes the block of its log.
LEMMA RowTypes ==
  ASSUME TypeOK
  PROVE  /\ \A lg \in Logs : Create(lg) => row' \in [Txs -> [status : Statuses, block : Blocks]]
         /\ \A t \in Txs, s \in Statuses :
              UpdateConfirmations(t, s) => row' \in [Txs -> [status : Statuses, block : Blocks]]
<1>1. ASSUME NEW lg \in Logs, Create(lg) PROVE row' \in [Txs -> [status : Statuses, block : Blocks]]
  <2>1. [status |-> "pending", block |-> lg.block] \in [status : Statuses, block : Blocks]
    BY Zenon DEF Logs, Statuses
  <2> QED BY <1>1, <2>1, Zenon DEF TypeOK, Create
<1>2. ASSUME NEW t \in Txs, NEW s \in Statuses, UpdateConfirmations(t, s)
      PROVE  row' \in [Txs -> [status : Statuses, block : Blocks]]
  <2>1. [status |-> s, block |-> row[t].block] \in [status : Statuses, block : Blocks]
    BY Zenon DEF TypeOK
  <2> QED BY <1>2, <2>1, Zenon DEF TypeOK, UpdateConfirmations
<1> QED BY <1>1, <1>2, Zenon

\* A log is appended to the queue of every connected pod.
LEMMA SendType ==
  ASSUME TypeOK, NEW t \in Txs, NEW b \in Blocks, Send(t, b)
  PROVE  logs' \in [Pods -> Seq(Logs)]
<1>1. [tx |-> t, block |-> b] \in Logs
  BY Zenon DEF Logs
<1>2. ASSUME NEW d \in Pods PROVE Append(logs[d], [tx |-> t, block |-> b]) \in Seq(Logs) /\ logs[d] \in Seq(Logs)
  BY <1>1 DEF TypeOK
<1> QED BY <1>2, Zenon DEF Send

\* The log a subscriber handles, and the queue it leaves.
LEMMA HeadLog ==
  ASSUME TypeOK, NEW d \in Pods, logs[d] # << >>
  PROVE  /\ Head(logs[d]) \in Logs /\ Tail(logs[d]) \in Seq(Logs)
         /\ 1 \in DOMAIN logs[d] /\ Head(logs[d]) = logs[d][1]
         /\ \A i \in DOMAIN Tail(logs[d]) : i + 1 \in DOMAIN logs[d] /\ Tail(logs[d])[i] = logs[d][i + 1]
<1>1. logs[d] \in Seq(Logs)
  BY Zenon DEF TypeOK
<1> QED BY <1>1

\* Where the scanner's range ends: never beyond the head it read.
LEMMA ToBounded ==
  ASSUME IInv, NEW d \in Pods, scan[d].pc \in {"filter", "persist"}
  PROVE  To(d) \in 0..head /\ To(d) \in Blocks /\ To(d) <= scan[d].head
<1>1. scan[d] \in Scans /\ ScanSound(scan[d]) /\ head \in Blocks
  BY Zenon DEF IInv, TypeOK, Sound
<1> QED BY <1>1, BoundsAssumption DEF To, Scans, ScanSound, Blocks

\* What the lists are made of.
LEMMA ListTypes ==
  ASSUME TypeOK, NEW d \in Pods
  PROVE  FilterLogs(d) \subseteq Logs /\ ListPendingByChain \subseteq Logs
BY DEF TypeOK, FilterLogs, ListPendingByChain, Logs

\* Every step keeps the types, and the cursor at or below the head.
LEMMA TypeStep ==
  ASSUME IInv, [Next]_vars
  PROVE  TypeOK'
<1> USE DEF IInv
<1>1. CASE UNCHANGED vars
  BY <1>1, Zenon DEF vars, TypeOK
<1>2. CASE EmptyBlock
  <2>1. head \in Blocks /\ cursor \in 0..head BY Zenon DEF TypeOK
  <2>2. head < MaxHead /\ head' = head + 1 BY <1>2, Zenon DEF EmptyBlock
  <2>3. head' \in Blocks /\ cursor \in 0..head' BY <2>1, <2>2, BoundsAssumption DEF Blocks
  <2> QED BY <1>2, <2>3, Zenon DEF EmptyBlock, TypeOK, Workers
<1>3. ASSUME NEW t \in Txs, NEW ok \in BOOLEAN, Mine(t, ok) PROVE TypeOK'
  <2>1. head + 1 \in Blocks /\ cursor \in 0..head + 1 /\ head' = head + 1
    BY <1>3, BoundsAssumption DEF Mine, TypeOK, Blocks
  <2>2. logs' \in [Pods -> Seq(Logs)]
    BY <1>3, <2>1, SendType, Zenon DEF Mine, TypeOK
  <2>3. chain' \in [Txs -> [block : Blocks, ok : BOOLEAN]]
    BY <1>3, <2>1, Zenon DEF Mine, TypeOK
  <2> QED BY <1>3, <2>1, <2>2, <2>3, Zenon DEF Mine, TypeOK, Workers
<1>4. ASSUME NEW t \in Txs, Reorg(t) PROVE TypeOK'
  <2>1. logs' \in [Pods -> Seq(Logs)]
    BY <1>4, SendType, Zenon DEF Reorg, TypeOK
  <2>2. chain' \in [Txs -> [block : Blocks, ok : BOOLEAN]]
    BY <1>4, BoundsAssumption DEF Reorg, TypeOK, NotMined, Blocks
  <2> QED BY <1>4, <2>1, <2>2, FaultType, Zenon DEF Reorg, TypeOK
<1>5. ASSUME NEW d \in Pods, Subscribe(d) \/ Disconnect(d) PROVE TypeOK'
  <2>1. << >> \in Seq(Logs)
    OBVIOUS
  <2>2. logs' \in [Pods -> Seq(Logs)] /\ conn' \subseteq Pods /\ faults' \in 0..MaxFaults
    <3>1. CASE Subscribe(d)
      BY <3>1, Zenon DEF Subscribe, TypeOK
    <3>2. CASE Disconnect(d)
      BY <2>1, <3>2, FaultType, Zenon DEF Disconnect, TypeOK
    <3> QED BY <1>5, <3>1, <3>2, Zenon
  <2> QED BY <1>5, <2>2, Zenon DEF Subscribe, Disconnect, TypeOK, Workers
<1>6. ASSUME NEW d \in Pods, handleLog(d) PROVE TypeOK'
  <2>1. Head(logs[d]) \in Logs /\ Tail(logs[d]) \in Seq(Logs)
    BY <1>6, HeadLog, Zenon DEF handleLog
  <2>2. logs' \in [Pods -> Seq(Logs)]
    BY <1>6, <2>1, Zenon DEF handleLog, TypeOK
  <2>3. row' \in [Txs -> [status : Statuses, block : Blocks]] /\ sub' \in [Pods -> Blocks]
    BY <1>6, <2>1, RowTypes, Zenon DEF handleLog, TypeOK, Logs
  <2> QED BY <1>6, <2>2, <2>3, Zenon DEF handleLog, TypeOK
<1>7. ASSUME NEW d \in Pods, handleLogFault(d) PROVE TypeOK'
  <2>1. Head(logs[d]) \in Logs /\ Tail(logs[d]) \in Seq(Logs)
    BY <1>7, HeadLog, Zenon DEF handleLogFault
  <2>2. logs' \in [Pods -> Seq(Logs)]
    BY <1>7, <2>1, Zenon DEF handleLogFault, TypeOK
  <2>3. row' \in [Txs -> [status : Statuses, block : Blocks]]
    BY <1>7, <2>1, RowTypes, Zenon DEF handleLogFault, TypeOK
  <2> QED BY <1>7, <2>2, <2>3, FaultType, Zenon DEF handleLogFault, TypeOK, Workers
<1>8. ASSUME NEW d \in Pods, SaveCursor(d) PROVE TypeOK'
  <2>1. sub[d] \in 0..head /\ 0 \in Blocks
    BY BoundsAssumption DEF TypeOK, Sound, LogsSound, Blocks
  <2> QED BY <1>8, <2>1, FaultType, Zenon DEF SaveCursor, TypeOK
<1>9. ASSUME NEW d \in Pods, ScanTick(d) \/ ScanHead(d) \/ ScanFilter(d) \/ ScanFault(d) PROVE TypeOK'
  <2>1. scan[d] \in Scans /\ ScanIdle \in Scans /\ cursor \in Nat /\ head \in Blocks /\ FilterLogs(d) \subseteq Logs
    <3>1. scan[d] \in Scans /\ head \in Blocks /\ cursor \in 0..head
      BY Zenon DEF TypeOK
    <3>2. ScanIdle \in Scans
      BY BoundsAssumption DEF ScanIdle, Scans, Blocks
    <3>3. cursor \in Nat
      BY <3>1 DEF Blocks
    <3> QED BY <3>1, <3>2, <3>3, ListTypes, Zenon
  <2>2. scan' \in [Pods -> Scans]
    <3>1. CASE ScanTick(d)
      BY <2>1, <3>1, BoundsAssumption DEF ScanTick, Scans, TypeOK, Blocks
    <3>2. CASE ScanHead(d)
      BY <2>1, <3>2, Zenon DEF ScanHead, Scans, TypeOK
    <3>3. CASE ScanFilter(d)
      BY <2>1, <3>3, Zenon DEF ScanFilter, Scans, TypeOK
    <3>4. CASE ScanFault(d)
      BY <2>1, <3>4, Zenon DEF ScanFault, TypeOK
    <3> QED BY <1>9, <3>1, <3>2, <3>3, <3>4, Zenon
  <2> QED BY <1>9, <2>2, FaultType, Zenon DEF ScanTick, ScanHead, ScanFilter, ScanFault, ScanUnchanged, TypeOK
<1>10. ASSUME NEW d \in Pods, persist(d) PROVE TypeOK'
  <2>1. scan[d] \in Scans
    BY Zenon DEF TypeOK
  <2>2. PICK lg \in scan[d].todo :
          /\ \/ (IF IsNew(lg) THEN Create(lg) ELSE UNCHANGED row) /\ UNCHANGED faults
             \/ Fault("db") /\ UNCHANGED row
          /\ scan' = [scan EXCEPT ![d] = [pc |-> "persist", from |-> scan[d].from, head |-> scan[d].head,
                                         todo |-> scan[d].todo \ {lg}]]
    BY <1>10, Zenon DEF persist
  <2>3. lg \in Logs
    BY <2>1, Zenon DEF Scans
  <2>4. row' \in [Txs -> [status : Statuses, block : Blocks]] /\ faults' \in 0..MaxFaults
    BY <2>2, <2>3, RowTypes, FaultType, Zenon DEF TypeOK
  <2>5. scan' \in [Pods -> Scans]
    BY <2>1, <2>2, Zenon DEF Scans, TypeOK
  <2> QED BY <1>10, <2>4, <2>5, Zenon DEF persist, ScanUnchanged, TypeOK
<1>11. ASSUME NEW d \in Pods, ScanAdvance(d) PROVE TypeOK'
  <2>1. To(d) \in 0..head /\ To(d) \in Nat /\ scan[d] \in Scans /\ ScanIdle \in Scans
    <3>1. scan[d].pc \in {"filter", "persist"} /\ scan[d] \in Scans /\ head \in Nat
      BY <1>11, BoundsAssumption DEF ScanAdvance, TypeOK, Blocks
    <3>2. To(d) \in 0..head /\ To(d) \in Nat
      BY <1>11, <3>1, ToBounded
    <3>3. ScanIdle \in Scans
      BY BoundsAssumption DEF ScanIdle, Scans, Blocks
    <3> QED BY <3>1, <3>2, <3>3, Zenon
  <2>2. scan' \in [Pods -> Scans]
    BY <1>11, <2>1, Zenon DEF ScanAdvance, Scans, TypeOK
  <2>3. cursor' \in 0..head /\ faults' \in 0..MaxFaults
    BY <1>11, <2>1, FaultType, Zenon DEF ScanAdvance, TypeOK
  <2> QED BY <1>11, <2>2, <2>3, Zenon DEF ScanAdvance, ScanUnchanged, TypeOK
<1>12. ASSUME NEW d \in Pods, TrackTick(d) \/ TrackList(d) PROVE TypeOK'
  <2>1. track[d] \in Tracks /\ TrackIdle \in Tracks /\ head \in Blocks /\ ListPendingByChain \subseteq Logs
    <3>1. track[d] \in Tracks /\ head \in Blocks
      BY Zenon DEF TypeOK
    <3>2. TrackIdle \in Tracks
      BY BoundsAssumption DEF TrackIdle, Tracks, Statuses, Blocks
    <3> QED BY <3>1, <3>2, ListTypes, Zenon
  <2>2. track' \in [Pods -> Tracks]
    <3>1. CASE TrackTick(d)
      BY <2>1, <3>1, Zenon DEF TrackTick, Tracks, TypeOK, Statuses
    <3>2. CASE TrackList(d)
      <4>1. [pc |-> "receipt", latest |-> track[d].latest, todo |-> ListPendingByChain, order |-> Unknown,
             verdict |-> "none"] \in Tracks
        BY <2>1, Zenon DEF Tracks, Statuses
      <4> QED BY <2>1, <3>2, <4>1, Zenon DEF TrackList, TypeOK
    <3> QED BY <1>12, <3>1, <3>2, Zenon
  <2> QED BY <1>12, <2>2, FaultType, Zenon DEF TrackTick, TrackList, TrackUnchanged, TypeOK
<1>13. ASSUME NEW d \in Pods, TrackReceipt(d) PROVE TypeOK'
  <2>1. Current(d).tx \in Txs
    BY <1>13, InHand, Zenon DEF TrackReceipt
  <2>2. track' \in [Pods -> Tracks]
    BY <1>13, TrackTypes, ZenonT(30) DEF TrackReceipt, Statuses
  <2>3. misread' \subseteq Txs /\ faults' \in 0..MaxFaults
    BY <1>13, <2>1, FaultType, Zenon DEF TrackReceipt, TypeOK
  <2> QED BY <1>13, <2>2, <2>3, Zenon DEF TrackReceipt, TypeOK
<1>14. ASSUME NEW d \in Pods, TrackLookup(d) PROVE TypeOK'
  <2>1. track' \in [Pods -> Tracks]
    <3>1. OrderOf[Current(d).tx] \subseteq Orders
      BY <1>14, InHand, Zenon DEF TrackLookup
    <3>2. \/ TrackNext(d) \/ TrackGoto(d, "write", "confirmed") \/ TrackGoto(d, "write", "failed")
          \/ \E o \in OrderOf[Current(d).tx] : TrackOrder(d, o)
      BY <1>14, Zenon DEF TrackLookup
    <3> QED BY <3>1, <3>2, TrackTypes, Zenon DEF Statuses
  <2>2. faults' \in 0..MaxFaults
    BY <1>14, FaultType, Zenon DEF TrackLookup, TypeOK
  <2> QED BY <1>14, <2>1, <2>2, Zenon DEF TrackLookup, TrackUnchanged, TypeOK
<1>15. ASSUME NEW d \in Pods, TrackWrite(d) \/ TrackConfirm(d) PROVE TypeOK'
  <2>1. Current(d).tx \in Txs /\ track[d].verdict \in Statuses /\ "confirmed" \in Statuses
    BY <1>15, InHand, Zenon DEF TrackWrite, TrackConfirm, TypeOK, Tracks, Statuses
  <2>2. row' \in [Txs -> [status : Statuses, block : Blocks]] /\ faults' \in 0..MaxFaults
    BY <1>15, <2>1, RowTypes, FaultType, Zenon DEF TrackWrite, TrackConfirm, TypeOK
  <2>3. track' \in [Pods -> Tracks]
    BY <1>15, TrackTypes, ZenonT(30) DEF TrackWrite, TrackConfirm, Statuses
  <2> QED BY <1>15, <2>2, <2>3, Zenon DEF TrackWrite, TrackConfirm, TrackUnchanged, TypeOK
<1>16. ASSUME NEW d \in Pods, TrackSettle(d) \/ TrackPublish(d) PROVE TypeOK'
  <2>1. track[d].order \in Orders
    BY <1>16, InHand, Zenon DEF TrackSettle, TrackPublish
  <2>2. paid' \subseteq Orders /\ published' \in [Pods -> [Orders -> Nat]] /\ faults' \in 0..MaxFaults
    <3>1. CASE TrackSettle(d)
      BY <2>1, <3>1, FaultType, Zenon DEF TrackSettle, TypeOK
    <3>2. CASE TrackPublish(d)
      <4>1. published[d] \in [Orders -> Nat] /\ \A o \in Orders : published[d][o] + 1 \in Nat
        BY DEF TypeOK
      <4>2. [published[d] EXCEPT ![track[d].order] = @ + 1] \in [Orders -> Nat]
        BY <2>1, <4>1
      <4>3. \/ UNCHANGED published
            \/ published' = [published EXCEPT ![d] = [published[d] EXCEPT ![track[d].order] = @ + 1]]
        BY <3>2, Zenon DEF TrackPublish
      <4>4. published' \in [Pods -> [Orders -> Nat]]
        BY <4>2, <4>3, Zenon DEF TypeOK
      <4> QED BY <3>2, <4>4, FaultType, Zenon DEF TrackPublish, TypeOK
    <3> QED BY <1>16, <3>1, <3>2, Zenon
  <2>3. track' \in [Pods -> Tracks]
    BY <1>16, TrackTypes, ZenonT(30) DEF TrackSettle, TrackPublish, Statuses
  <2> QED BY <1>16, <2>2, <2>3, Zenon DEF TrackSettle, TrackPublish, TrackUnchanged, TypeOK
<1>17. ASSUME NEW d \in Pods, ReconTick(d) PROVE TypeOK'
  BY <1>17, ListTypes, Zenon DEF ReconTick, ReconUnchanged, TypeOK, Recons, Statuses
<1>18. ASSUME NEW d \in Pods, ReconReceipt(d) PROVE TypeOK'
  <2>1. First(recon[d].todo).tx \in Txs /\ recon[d] \in Recons
    BY <1>18, InHandRecon, Zenon DEF ReconReceipt, TypeOK
  <2>2. recon' \in [Pods -> Recons]
    <3>1. ASSUME NEW v \in Statuses,
                 recon' = [recon EXCEPT ![d] = [pc |-> "write", todo |-> recon[d].todo, verdict |-> v]]
          PROVE  recon' \in [Pods -> Recons]
      BY <2>1, <3>1, Zenon DEF Recons, TypeOK
    <3> QED BY <1>18, <3>1, TrackTypes, Zenon DEF ReconReceipt, Statuses
  <2>3. misread' \subseteq Txs /\ faults' \in 0..MaxFaults
    BY <1>18, <2>1, FaultType, Zenon DEF ReconReceipt, TypeOK
  <2> QED BY <1>18, <2>2, <2>3, Zenon DEF ReconReceipt, TypeOK
<1>19. ASSUME NEW d \in Pods, ReconWrite(d) PROVE TypeOK'
  <2>1. First(recon[d].todo).tx \in Txs /\ recon[d].verdict \in Statuses
    BY <1>19, InHandRecon, Zenon DEF ReconWrite, TypeOK, Recons
  <2>2. row' \in [Txs -> [status : Statuses, block : Blocks]] /\ faults' \in 0..MaxFaults
    BY <1>19, <2>1, RowTypes, FaultType, Zenon DEF ReconWrite, TypeOK
  <2> QED BY <1>19, <2>2, TrackTypes, Zenon DEF ReconWrite, ReconUnchanged, TypeOK
<1>20. ASSUME NEW d \in Pods, Crash(d) PROVE TypeOK'
  <2>1. ScanIdle \in Scans /\ TrackIdle \in Tracks /\ ReconIdle \in Recons /\ 0 \in Blocks
    BY BoundsAssumption DEF ScanIdle, Scans, TrackIdle, Tracks, ReconIdle, Recons, Statuses, Blocks
  <2> QED BY <1>20, <2>1, FaultType DEF Crash, TypeOK
<1> QED
  BY Steps, <1>1, <1>2, <1>3, <1>4, <1>5, <1>6, <1>7, <1>8, <1>9, <1>10, <1>11, <1>12, <1>13, <1>14,
     <1>15, <1>16, <1>17, <1>18, <1>19, <1>20, ZenonT(30)

-----------------------------------------------------------------------------
(* What never goes away *)

\* The chain grows, no row disappears or moves to another block, no order is
\* unpaid again, and what is known of a transaction stays so.
Monotone ==
  /\ head' >= head /\ paid \subseteq paid' /\ undone \subseteq undone' /\ misread \subseteq misread'
  /\ \A t \in Txs : row[t].status # "none" => row'[t].status # "none" /\ row'[t].block = row[t].block
  /\ \A t \in Txs : \/ chain'[t] = chain[t]
                    \/ t \in undone'
                    \/ ~ chain[t].ok /\ (row[t].status = "none" \/ t \in undone)

\* A verdict against a transaction is due when it has a reason.
Due(t, s) == s \in {"failed", "reorged"} => Excused(t)

\* The rows are written by inserts of new transactions and by updates of
\* recorded ones, which never write the status none, nor what is not due.
LEMMA RowWrites ==
  ASSUME IInv, [Next]_vars
  PROVE  \/ UNCHANGED row
         \/ \E lg \in Logs : IsNew(lg) /\ Create(lg) /\ Known(lg.tx, lg.block) /\ chain' = chain
         \/ \E t \in Txs, s \in Statuses \ {"none"} :
              row[t].status # "none" /\ UpdateConfirmations(t, s) /\ Due(t, s)
<1> USE DEF IInv
<1>1. ASSUME NEW d \in Pods, handleLog(d) \/ handleLogFault(d), ~ UNCHANGED row
      PROVE  \E lg \in Logs : IsNew(lg) /\ Create(lg) /\ Known(lg.tx, lg.block) /\ chain' = chain
  <2>1. logs[d] # << >>
    BY <1>1, Zenon DEF handleLog, handleLogFault
  <2>2. Head(logs[d]) \in Logs /\ Known(Head(logs[d]).tx, Head(logs[d]).block)
    BY <2>1, HeadLog, Zenon DEF Sound, LogsSound
  <2> QED BY <1>1, <2>2, Zenon DEF handleLog, handleLogFault
<1>2. ASSUME NEW d \in Pods, persist(d), ~ UNCHANGED row
      PROVE  \E lg \in Logs : IsNew(lg) /\ Create(lg) /\ Known(lg.tx, lg.block) /\ chain' = chain
  <2>1. scan[d] \in Scans /\ ScanSound(scan[d])
    BY Zenon DEF TypeOK, Sound
  <2>2. PICK lg \in scan[d].todo : IsNew(lg) /\ Create(lg)
    BY <1>2, Zenon DEF persist
  <2> QED BY <1>2, <2>1, <2>2, Zenon DEF Scans, ScanSound, persist, ScanUnchanged
<1>3. ASSUME NEW d \in Pods, TrackWrite(d) \/ TrackConfirm(d), ~ UNCHANGED row
      PROVE  \E t \in Txs, s \in Statuses \ {"none"} :
               row[t].status # "none" /\ UpdateConfirmations(t, s) /\ Due(t, s)
  <2>1. Current(d).tx \in Txs /\ row[Current(d).tx].status # "none" /\ track[d] \in Tracks /\ TrackSound(track[d])
    BY <1>3, InHand, Zenon DEF TrackWrite, TrackConfirm, TypeOK, Sound
  <2>2. CASE TrackWrite(d)
    <3>1. track[d].verdict \in Statuses \ {"none"} /\ Due(Current(d).tx, track[d].verdict)
      BY <2>1, <2>2, Zenon DEF TrackWrite, TrackSound, Tracks, Due, Current
    <3> QED BY <1>3, <2>1, <2>2, <3>1, Zenon DEF TrackWrite
  <2>3. CASE TrackConfirm(d)
    <3>1. UpdateConfirmations(Current(d).tx, "confirmed") /\ "confirmed" \in Statuses \ {"none"}
      BY <1>3, <2>3, Zenon DEF TrackConfirm, Statuses
    <3>2. Due(Current(d).tx, "confirmed")
      BY DEF Due
    <3> QED BY <2>1, <3>1, <3>2, Zenon
  <2> QED BY <1>3, <2>2, <2>3, Zenon
<1>4. ASSUME NEW d \in Pods, ReconWrite(d), ~ UNCHANGED row
      PROVE  \E t \in Txs, s \in Statuses \ {"none"} :
               row[t].status # "none" /\ UpdateConfirmations(t, s) /\ Due(t, s)
  <2>1. First(recon[d].todo).tx \in Txs /\ row[First(recon[d].todo).tx].status # "none"
    BY <1>4, InHandRecon, Zenon DEF ReconWrite
  <2>2. recon[d].verdict \in Statuses \ {"none"} /\ Due(First(recon[d].todo).tx, recon[d].verdict)
    BY <1>4, Zenon DEF ReconWrite, TypeOK, Recons, Sound, ReconSound, Due, Excused
  <2> QED BY <1>4, <2>1, <2>2, Zenon DEF ReconWrite
<1> QED
  <2>1. ASSUME NEW d \in Pods,
               \/ Subscribe(d) \/ Disconnect(d) \/ SaveCursor(d)
               \/ ScanTick(d) \/ ScanHead(d) \/ ScanFilter(d) \/ ScanAdvance(d) \/ ScanFault(d)
               \/ TrackTick(d) \/ TrackList(d) \/ TrackReceipt(d) \/ TrackLookup(d)
               \/ TrackSettle(d) \/ TrackPublish(d) \/ ReconTick(d) \/ ReconReceipt(d) \/ Crash(d)
        PROVE  UNCHANGED row
    BY <2>1, Zenon DEF Subscribe, Disconnect, SaveCursor, ScanTick, ScanHead, ScanFilter, ScanAdvance, ScanFault,
         TrackTick, TrackList, TrackReceipt, TrackLookup, TrackSettle, TrackPublish, ReconTick, ReconReceipt, Crash
  <2>2. ASSUME UNCHANGED vars \/ EmptyBlock \/ \E t \in Txs : Reorg(t) \/ Mine(t, TRUE) \/ Mine(t, FALSE)
        PROVE  UNCHANGED row
    BY <2>2, Zenon DEF vars, EmptyBlock, Reorg, Mine
  <2> QED BY Steps, <1>1, <1>2, <1>3, <1>4, <2>1, <2>2, ZenonT(60)

\* Only the chain's own steps change the chain; the steps of the pods only add
\* to the paid orders and to the receipts that could not be read.
LEMMA ChainFrame ==
  ASSUME [Next]_vars
  PROVE  \/ \E t \in Txs : Reorg(t) \/ Mine(t, TRUE) \/ Mine(t, FALSE)
         \/ EmptyBlock
         \/ head' = head /\ chain' = chain /\ undone' = undone /\ paid \subseteq paid' /\ misread \subseteq misread'
<1>1. ASSUME NEW d \in Pods,
             \/ Subscribe(d) \/ Disconnect(d) \/ handleLog(d) \/ handleLogFault(d) \/ SaveCursor(d)
             \/ ScanTick(d) \/ ScanHead(d) \/ ScanFilter(d) \/ persist(d) \/ ScanAdvance(d) \/ ScanFault(d)
             \/ TrackTick(d) \/ TrackList(d) \/ TrackReceipt(d) \/ TrackLookup(d)
             \/ TrackWrite(d) \/ TrackConfirm(d) \/ TrackSettle(d) \/ TrackPublish(d)
             \/ ReconTick(d) \/ ReconReceipt(d) \/ ReconWrite(d) \/ Crash(d)
      PROVE  head' = head /\ chain' = chain /\ undone' = undone /\ paid \subseteq paid' /\ misread \subseteq misread'
  BY <1>1, Zenon DEF Subscribe, Disconnect, handleLog, handleLogFault, SaveCursor, ScanTick, ScanHead, ScanFilter,
       persist, ScanAdvance, ScanFault, TrackTick, TrackList, TrackReceipt, TrackLookup, TrackWrite, TrackConfirm,
       TrackSettle, TrackPublish, ReconTick, ReconReceipt, ReconWrite, Crash, Workers, ScanUnchanged,
       TrackUnchanged, ReconUnchanged
<1>2. ASSUME UNCHANGED vars
      PROVE  head' = head /\ chain' = chain /\ undone' = undone /\ paid \subseteq paid' /\ misread \subseteq misread'
  BY <1>2, Zenon DEF vars
<1> QED BY Steps, <1>1, <1>2, ZenonT(60)

\* Every step is monotone.
LEMMA StepsMonotone ==
  ASSUME IInv, [Next]_vars
  PROVE  Monotone
<1> USE DEF IInv
<1>1. \A t \in Txs : row[t].status # "none" => row'[t].status # "none" /\ row'[t].block = row[t].block
  <2>1. ASSUME NEW lg \in Logs, IsNew(lg), Create(lg), NEW t \in Txs, row[t].status # "none"
        PROVE  row'[t] = row[t]
    BY <2>1, Zenon DEF IsNew, Create, TypeOK
  <2>2. ASSUME NEW u \in Txs, NEW s \in Statuses \ {"none"}, UpdateConfirmations(u, s), NEW t \in Txs,
               row[t].status # "none"
        PROVE  row'[t].status # "none" /\ row'[t].block = row[t].block
    BY <2>2, Zenon DEF UpdateConfirmations, TypeOK
  <2> QED BY RowWrites, <2>1, <2>2, Zenon
<1>3. ASSUME EmptyBlock PROVE Monotone
  BY <1>1, <1>3 DEF EmptyBlock, Workers, Monotone, TypeOK, Blocks
<1>4. ASSUME NEW t \in Txs, Reorg(t) PROVE Monotone
  BY <1>1, <1>4 DEF Reorg, Monotone, TypeOK, Blocks
<1>5. ASSUME NEW t \in Txs, NEW ok \in BOOLEAN, Mine(t, ok) PROVE Monotone
  <2>1. ~ chain[t].ok /\ (row[t].status = "none" \/ t \in undone)
    BY <1>5, Zenon DEF Mine, Sound, ChainSound, RowsSound, Known
  <2> QED BY <1>1, <1>5, <2>1 DEF Mine, Monotone, TypeOK, Blocks, Workers
<1>6. ASSUME head' = head /\ chain' = chain /\ undone' = undone /\ paid \subseteq paid' /\ misread \subseteq misread'
      PROVE  Monotone
  BY <1>1, <1>6 DEF Monotone, TypeOK, Blocks
<1> QED BY ChainFrame, <1>3, <1>4, <1>5, <1>6, ZenonT(30)

\* What is known of a transaction stays so.
LEMMA KnownStays ==
  ASSUME Monotone, NEW t \in Txs, NEW b, Known(t, b)
  PROVE  Known(t, b)'
BY Zenon DEF Monotone, Known

-----------------------------------------------------------------------------
(* The parts of the invariant, one by one *)

\* Only a mined transaction has succeeded, in a block of the chain.
LEMMA ChainSoundStep ==
  ASSUME IInv, [Next]_vars
  PROVE  ChainSound'
<1> USE DEF IInv, Sound, ChainSound, Mined
<1>1. ASSUME NEW t \in Txs, NEW ok \in BOOLEAN, Mine(t, ok) PROVE ChainSound'
  BY <1>1 DEF Mine, TypeOK, Blocks
<1>2. ASSUME NEW t \in Txs, Reorg(t) PROVE ChainSound'
  BY <1>2 DEF Reorg, NotMined, TypeOK, Blocks
<1>3. ASSUME chain' = chain PROVE ChainSound'
  <2>1. head' >= head /\ head' \in Nat /\ head \in Nat /\ \A t \in Txs : chain[t].block \in Nat
    <3>1. TypeOK' /\ Monotone
      BY StepsMonotone, TypeStep, Zenon
    <3>2. head \in Nat /\ \A t \in Txs : chain[t].block \in Nat
      BY DEF TypeOK, Blocks
    <3> QED BY <3>1, <3>2 DEF Monotone, TypeOK, Blocks
  <2> QED BY <1>3, <2>1
<1>4. ASSUME EmptyBlock PROVE chain' = chain
  BY <1>4, Zenon DEF EmptyBlock
<1> QED BY ChainFrame, <1>1, <1>2, <1>3, <1>4, ZenonT(30)

\* Every recorded transaction names a known order and was seen in its block.
LEMMA RowsSoundStep ==
  ASSUME IInv, [Next]_vars
  PROVE  RowsSound'
<1>1. TypeOK /\ RowsSound /\ Monotone
  BY StepsMonotone, Zenon DEF IInv, Sound
<1> SUFFICES ASSUME NEW t \in Txs, row'[t].status # "none"
             PROVE  OrderOf[t] # {} /\ (t \in undone' \/ (chain'[t].ok /\ chain'[t].block = row'[t].block))
  BY Zenon DEF RowsSound, Known
<1>2. CASE row[t].status # "none"
  <2>1. row'[t].block = row[t].block /\ OrderOf[t] # {} /\ Known(t, row[t].block)
    BY <1>1, <1>2, Zenon DEF Monotone, RowsSound
  <2>2. \A b : Known(t, b) => Known(t, b)'
    BY <1>1, KnownStays, Zenon
  <2> QED BY <2>1, <2>2, Zenon DEF Known
<1>3. CASE row[t].status = "none"
  <2>1. PICK lg \in Logs : IsNew(lg) /\ Create(lg) /\ Known(lg.tx, lg.block) /\ chain' = chain
    <3>1. ASSUME NEW u \in Txs, row[u].status # "none", NEW s, UpdateConfirmations(u, s) PROVE FALSE
      BY <1>1, <1>3, <3>1, Zenon DEF UpdateConfirmations, TypeOK
    <3> QED BY RowWrites, <1>3, <3>1, Zenon
  <2>2. t = lg.tx /\ row'[t].block = lg.block /\ OrderOf[t] # {}
    BY <1>1, <1>3, <2>1, Zenon DEF Create, IsNew, TypeOK, Logs
  <2> QED BY <1>1, <2>1, <2>2, Zenon DEF Known, Monotone
<1> QED BY <1>2, <1>3, Zenon

\* A log that was sent, and the ones already sent.
Sent(lg) == lg.block <= head /\ Known(lg.tx, lg.block)

\* What was sent stays so.
LEMMA SentStays ==
  ASSUME TypeOK, TypeOK', Monotone, NEW lg \in Logs, Sent(lg)
  PROVE  Sent(lg)'
<1>1. lg.tx \in Txs /\ lg.block \in Nat /\ head \in Nat /\ head' \in Nat /\ head' >= head
  BY DEF TypeOK, Logs, Blocks, Monotone
<1>2. Known(lg.tx, lg.block)'
  BY <1>1, KnownStays, Zenon DEF Sent
<1> QED BY <1>1, <1>2 DEF Sent

\* The logs on their way to a subscriber are those of the chain.
LEMMA LogsSoundStep ==
  ASSUME IInv, [Next]_vars
  PROVE  LogsSound'
<1>1. TypeOK /\ TypeOK' /\ LogsSound /\ Monotone /\ ChainSound
  BY StepsMonotone, TypeStep, Zenon DEF IInv, Sound
<1>2. ASSUME NEW d \in Pods, NEW i \in DOMAIN logs[d]
      PROVE  logs[d][i] \in Logs /\ \A lg : lg = logs[d][i] => Sent(lg)'
  <2>1. logs[d][i] \in Logs /\ Sent(logs[d][i])
    BY <1>1 DEF TypeOK, LogsSound, Sent
  <2> QED BY <1>1, <2>1, SentStays, Zenon
<1>3. ASSUME NEW d \in Pods PROVE sub[d] <= head' /\ head' \in Nat /\ sub[d] \in Nat
  BY <1>1 DEF TypeOK, LogsSound, Monotone, Blocks
<1>4. ASSUME NEW d \in Pods, NEW q,
             \/ q = logs[d] \/ q = << >> \/ (logs[d] # << >> /\ q = Tail(logs[d]))
             \/ \E lg \in Logs : q = Append(logs[d], lg) /\ Sent(lg)'
      PROVE  \A i \in DOMAIN q : \A lg : lg = q[i] => Sent(lg)'
  <2>1. CASE q = logs[d]
    BY <1>2, <2>1, Zenon
  <2>2. CASE q = << >>
    BY <2>2
  <2>3. CASE logs[d] # << >> /\ q = Tail(logs[d])
    BY <1>1, <1>2, <2>3, HeadLog
  <2>4. ASSUME NEW lg \in Logs, q = Append(logs[d], lg), Sent(lg)', NEW i \in DOMAIN q
        PROVE  \A x : x = q[i] => Sent(x)'
    <3>1. logs[d] \in Seq(Logs)
      BY <1>1, Zenon DEF TypeOK
    <3>2. (i \in DOMAIN logs[d] /\ q[i] = logs[d][i]) \/ q[i] = lg
      BY <2>4, <3>1
    <3> QED BY <1>2, <2>4, <3>2, Zenon
  <2> QED BY <1>4, <2>1, <2>2, <2>3, <2>4, Zenon
<1>5. ASSUME NEW d \in Pods
      PROVE  \/ logs'[d] = logs[d] \/ logs'[d] = << >> \/ (logs[d] # << >> /\ logs'[d] = Tail(logs[d]))
             \/ \E lg \in Logs : logs'[d] = Append(logs[d], lg) /\ Sent(lg)'
  <2>1. ASSUME NEW t \in Txs, Reorg(t) PROVE
             \/ logs'[d] = logs[d]
             \/ \E lg \in Logs : logs'[d] = Append(logs[d], lg) /\ Sent(lg)'
    <3>1. PICK lg \in Logs : lg.tx = t /\ lg.block = chain[t].block /\ lg = [tx |-> t, block |-> chain[t].block]
      BY <1>1, Zenon DEF Logs, TypeOK
    <3>2. Sent(lg)'
      BY <1>1, <2>1, <3>1, Zenon DEF Sent, Known, Reorg, ChainSound
    <3>3. logs'[d] = logs[d] \/ logs'[d] = Append(logs[d], lg)
      BY <2>1, <3>1, Zenon DEF Reorg, Send
    <3> QED BY <3>2, <3>3, Zenon
  <2>2. ASSUME NEW t \in Txs, Mine(t, TRUE) PROVE
             \/ logs'[d] = logs[d]
             \/ \E lg \in Logs : logs'[d] = Append(logs[d], lg) /\ Sent(lg)'
    <3>1. PICK lg \in Logs : lg.tx = t /\ lg.block = head + 1 /\ lg = [tx |-> t, block |-> head + 1]
      BY <1>1, <2>2, Zenon DEF Logs, TypeOK, Mine, Blocks
    <3>2. chain'[t] = [block |-> head + 1, ok |-> TRUE] /\ head' = head + 1
      BY <1>1, <2>2, Zenon DEF Mine, TypeOK
    <3>3. Sent(lg)'
      BY <1>1, <3>1, <3>2 DEF Sent, Known, TypeOK, Blocks
    <3>4. logs'[d] = logs[d] \/ logs'[d] = Append(logs[d], lg)
      BY <2>2, <3>1, Zenon DEF Mine, Send
    <3> QED BY <3>3, <3>4, Zenon
  <2>3. ASSUME NEW t \in Txs, Mine(t, FALSE) PROVE logs' = logs
    BY <2>3, Zenon DEF Mine
  <2>4. ASSUME UNCHANGED vars \/ EmptyBlock PROVE logs' = logs
    BY <2>4, Zenon DEF vars, EmptyBlock
  <2>5. ASSUME NEW c \in Pods, handleLog(c) \/ handleLogFault(c) \/ Disconnect(c) \/ Crash(c)
        PROVE  logs'[d] = logs[d] \/ logs'[d] = << >> \/ (logs[d] # << >> /\ logs'[d] = Tail(logs[d]))
    BY <1>1, <2>5, Zenon DEF handleLog, handleLogFault, Disconnect, Crash, TypeOK
  <2>6. ASSUME NEW c \in Pods,
               \/ Subscribe(c) \/ SaveCursor(c)
               \/ ScanTick(c) \/ ScanHead(c) \/ ScanFilter(c) \/ persist(c) \/ ScanAdvance(c) \/ ScanFault(c)
               \/ TrackTick(c) \/ TrackList(c) \/ TrackReceipt(c) \/ TrackLookup(c)
               \/ TrackWrite(c) \/ TrackConfirm(c) \/ TrackSettle(c) \/ TrackPublish(c)
               \/ ReconTick(c) \/ ReconReceipt(c) \/ ReconWrite(c)
        PROVE  logs' = logs
    BY <2>6, Zenon DEF Subscribe, SaveCursor, ScanTick, ScanHead, ScanFilter,
         persist, ScanAdvance, ScanFault, TrackTick, TrackList, TrackReceipt, TrackLookup, TrackWrite, TrackConfirm,
         TrackSettle, TrackPublish, ReconTick, ReconReceipt, ReconWrite, ScanUnchanged, TrackUnchanged, ReconUnchanged
  <2> QED BY Steps, <2>1, <2>2, <2>3, <2>4, <2>5, <2>6, ZenonT(60)
<1>6. ASSUME NEW d \in Pods PROVE sub'[d] <= head'
  <2>1. ASSUME NEW c \in Pods, handleLog(c) PROVE sub'[d] <= head'
    <3>1. logs[c] # << >> /\ head' = head
      BY <2>1, Zenon DEF handleLog
    <3>2. Head(logs[c]).block <= head
      BY <1>1, <3>1, HeadLog, Zenon DEF LogsSound
    <3>3. sub'[d] = sub[d] \/ sub'[d] = Head(logs[c]).block
      BY <1>1, <2>1, Zenon DEF handleLog, TypeOK
    <3> QED BY <1>3, <3>1, <3>2, <3>3, Zenon
  <2>2. ASSUME NEW c \in Pods, SaveCursor(c) \/ Crash(c) PROVE sub'[d] \in {sub[d], 0}
    BY <1>1, <2>2, Zenon DEF SaveCursor, Crash, TypeOK
  <2>3. ASSUME NEW c \in Pods,
               \/ Subscribe(c) \/ Disconnect(c) \/ handleLogFault(c)
               \/ ScanTick(c) \/ ScanHead(c) \/ ScanFilter(c) \/ persist(c) \/ ScanAdvance(c) \/ ScanFault(c)
               \/ TrackTick(c) \/ TrackList(c) \/ TrackReceipt(c) \/ TrackLookup(c)
               \/ TrackWrite(c) \/ TrackConfirm(c) \/ TrackSettle(c) \/ TrackPublish(c)
               \/ ReconTick(c) \/ ReconReceipt(c) \/ ReconWrite(c)
        PROVE  sub' = sub
    BY <2>3, Zenon DEF Subscribe, Disconnect, handleLogFault, ScanTick, ScanHead, ScanFilter,
         persist, ScanAdvance, ScanFault, TrackTick, TrackList, TrackReceipt, TrackLookup, TrackWrite, TrackConfirm,
         TrackSettle, TrackPublish, ReconTick, ReconReceipt, ReconWrite, Workers, ScanUnchanged, TrackUnchanged,
         ReconUnchanged
  <2>4. ASSUME UNCHANGED vars \/ EmptyBlock \/ \E t \in Txs : Reorg(t) \/ Mine(t, TRUE) \/ Mine(t, FALSE)
        PROVE  sub' = sub
    BY <2>4, Zenon DEF vars, EmptyBlock, Reorg, Mine, Workers
  <2>5. (sub'[d] \in {sub[d], 0} \/ sub' = sub) => sub'[d] <= head'
    BY <1>3
  <2> QED BY Steps, <2>1, <2>2, <2>3, <2>4, <2>5, ZenonT(60)
<1>7. ASSUME NEW d \in Pods, NEW i \in DOMAIN logs'[d]
      PROVE  /\ logs'[d][i].block <= head'
             /\ \/ logs'[d][i].tx \in undone'
                \/ chain'[logs'[d][i].tx].ok /\ chain'[logs'[d][i].tx].block = logs'[d][i].block
  <2>1. PICK q : q = logs'[d]
    BY Zenon
  <2>2. PICK lg : lg = q[i]
    BY Zenon
  <2>3. Sent(lg)'
    BY <1>4, <1>5, <2>1, <2>2, Zenon
  <2> QED BY <2>1, <2>2, <2>3, Zenon DEF Sent, Known
<1> QED BY <1>6, <1>7, Zenon DEF LogsSound, Known
=============================================================================
