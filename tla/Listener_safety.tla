--------------------------- MODULE Listener_safety ---------------------------
(***************************************************************************)
(* The safety properties of Listener, from the lemmas of Listener_proofs:  *)
(* the workers of every pod stay sound, so no order is paid early, no pod  *)
(* announces an order twice and no verdict loses a good payment.           *)
(***************************************************************************)
EXTENDS Listener_proofs

-----------------------------------------------------------------------------
(* The workers *)

\* Which steps write the state of the scanners, trackers and reconcilers.
LEMMA Writers ==
  ASSUME [Next]_vars
  PROVE  /\ \/ UNCHANGED scan
            \/ \E d \in Pods : ScanTick(d) \/ ScanHead(d) \/ ScanFilter(d) \/ persist(d) \/ ScanAdvance(d)
                               \/ ScanFault(d) \/ Crash(d)
         /\ \/ UNCHANGED track
            \/ \E d \in Pods : TrackTick(d) \/ TrackList(d) \/ TrackReceipt(d) \/ TrackLookup(d) \/ TrackWrite(d)
                               \/ TrackConfirm(d) \/ TrackSettle(d) \/ TrackPublish(d) \/ Crash(d)
         /\ \/ UNCHANGED recon
            \/ \E d \in Pods : ReconTick(d) \/ ReconReceipt(d) \/ ReconWrite(d) \/ Crash(d)
<1>1. ASSUME UNCHANGED vars \/ EmptyBlock \/ \E t \in Txs : Reorg(t) \/ Mine(t, TRUE) \/ Mine(t, FALSE)
      PROVE  UNCHANGED <<scan, track, recon>>
  BY <1>1, Zenon DEF vars, EmptyBlock, Reorg, Mine, Workers
<1>2. ASSUME NEW d \in Pods, Subscribe(d) \/ Disconnect(d) \/ handleLog(d) \/ handleLogFault(d) \/ SaveCursor(d)
      PROVE  UNCHANGED <<scan, track, recon>>
  BY <1>2, Zenon DEF Subscribe, Disconnect, handleLog, handleLogFault, SaveCursor, Workers
<1>3. ASSUME NEW d \in Pods,
             ScanTick(d) \/ ScanHead(d) \/ ScanFilter(d) \/ persist(d) \/ ScanAdvance(d) \/ ScanFault(d)
      PROVE  UNCHANGED <<track, recon>>
  BY <1>3, Zenon DEF ScanTick, ScanHead, ScanFilter, persist, ScanAdvance, ScanFault, ScanUnchanged
<1>4. ASSUME NEW d \in Pods, TrackTick(d) \/ TrackList(d) \/ TrackReceipt(d) \/ TrackLookup(d)
                             \/ TrackWrite(d) \/ TrackConfirm(d) \/ TrackSettle(d) \/ TrackPublish(d)
      PROVE  UNCHANGED <<scan, recon>>
  BY <1>4, Zenon DEF TrackTick, TrackList, TrackReceipt, TrackLookup, TrackWrite, TrackConfirm, TrackSettle, TrackPublish,
       TrackUnchanged
<1>5. ASSUME NEW d \in Pods, ReconTick(d) \/ ReconReceipt(d) \/ ReconWrite(d)
      PROVE  UNCHANGED <<scan, track>>
  BY <1>5, Zenon DEF ReconTick, ReconReceipt, ReconWrite, ReconUnchanged
<1> QED BY Steps, <1>1, <1>2, <1>3, <1>4, <1>5, ZenonT(60)

\* What a worker relies on is never taken back.
LEMMA WorkersStay ==
  ASSUME TypeOK, TypeOK', Monotone
  PROVE  /\ \A s \in Scans : ScanSound(s) => ScanSound(s)'
         /\ \A k \in Tracks : TrackSound(k) => TrackSound(k)'
         /\ \A k \in Recons : ReconSound(k) => ReconSound(k)'
<1>1. head \in Nat /\ head' \in Nat /\ head' >= head
  BY DEF TypeOK, Blocks, Monotone
<1>2. \A p \in Logs : Known(p.tx, p.block) => Known(p.tx, p.block)'
  BY KnownStays, Zenon DEF Logs
<1>3. \A p \in Logs : p.tx \in Txs
  BY Zenon DEF Logs
<1>4. ASSUME NEW s \in Scans, ScanSound(s) PROVE ScanSound(s)'
  <2>1. s.head \in Nat /\ s.todo \subseteq Logs
    BY DEF Scans, Blocks
  <2> QED BY <1>1, <1>2, <1>4, <2>1 DEF ScanSound
<1>5. ASSUME NEW k \in Tracks, TrackSound(k) PROVE TrackSound(k)'
  <2>1. k.latest \in Nat /\ k.todo \subseteq Logs
    BY DEF Tracks, Blocks
  <2>2. \A p \in k.todo : row'[p.tx].status # "none" /\ Known(p.tx, p.block)'
    BY <1>2, <1>3, <1>5, <2>1, Zenon DEF TrackSound, Monotone
  <2>3. \A t : Excused(t) => Excused(t)'
    BY Zenon DEF Excused, Monotone
  <2>4. k.latest <= head'
    BY <1>1, <1>5, <2>1 DEF TrackSound
  <2> QED BY <1>5, <2>2, <2>3, <2>4, Zenon DEF TrackSound, Monotone
<1>6. ASSUME NEW k \in Recons, ReconSound(k) PROVE ReconSound(k)'
  <2>1. k.todo \subseteq Logs
    BY Zenon DEF Recons
  <2>2. \A p \in k.todo : row'[p.tx].status # "none"
    BY <1>3, <1>6, <2>1, Zenon DEF ReconSound, Monotone
  <2> QED BY <1>6, <2>2, Zenon DEF ReconSound, Monotone
<1> QED BY <1>4, <1>5, <1>6, Zenon

\* A step of one worker that leaves it sound leaves all of its kind sound.
LEMMA OneScan ==
  ASSUME TypeOK, TypeOK', Monotone, Sound, NEW d \in Pods, NEW s, ScanSound(s)', scan' = [scan EXCEPT ![d] = s]
  PROVE  \A c \in Pods : ScanSound(scan[c])'
<1> SUFFICES ASSUME NEW c \in Pods PROVE ScanSound(scan[c])'
  BY Zenon
<1>1. CASE c = d
  <2>1. scan'[c] = s
    BY <1>1, Zenon DEF TypeOK
  <2> QED BY <2>1, Zenon DEF ScanSound
<1>2. CASE c # d
  <2>1. scan'[c] = scan[c] /\ scan[c] \in Scans /\ ScanSound(scan[c])
    BY <1>2, Zenon DEF TypeOK, Sound
  <2>2. PICK x : x = scan[c]
    BY Zenon
  <2>3. ScanSound(x)'
    BY <2>1, <2>2, WorkersStay, Zenon
  <2> QED BY <2>1, <2>2, <2>3, Zenon DEF ScanSound
<1> QED BY <1>1, <1>2, Zenon

\* The same for the trackers.
LEMMA OneTrack ==
  ASSUME TypeOK, TypeOK', Monotone, Sound, NEW d \in Pods, NEW k, TrackSound(k)', track' = [track EXCEPT ![d] = k]
  PROVE  \A c \in Pods : TrackSound(track[c])'
<1> SUFFICES ASSUME NEW c \in Pods PROVE TrackSound(track[c])'
  BY Zenon
<1>1. CASE c = d
  <2>1. track'[c] = k
    BY <1>1, Zenon DEF TypeOK
  <2> QED BY <2>1, Zenon DEF TrackSound
<1>2. CASE c # d
  <2>1. track'[c] = track[c] /\ track[c] \in Tracks /\ TrackSound(track[c])
    BY <1>2, Zenon DEF TypeOK, Sound
  <2>2. PICK x : x = track[c]
    BY Zenon
  <2>3. TrackSound(x)'
    BY <2>1, <2>2, WorkersStay, Zenon
  <2> QED BY <2>1, <2>2, <2>3, Zenon DEF TrackSound
<1> QED BY <1>1, <1>2, Zenon

\* The same for the reconcilers.
LEMMA OneRecon ==
  ASSUME TypeOK, TypeOK', Monotone, Sound, NEW d \in Pods, NEW k, ReconSound(k)', recon' = [recon EXCEPT ![d] = k]
  PROVE  \A c \in Pods : ReconSound(recon[c])'
<1> SUFFICES ASSUME NEW c \in Pods PROVE ReconSound(recon[c])'
  BY Zenon
<1>1. CASE c = d
  <2>1. recon'[c] = k
    BY <1>1, Zenon DEF TypeOK
  <2> QED BY <2>1, Zenon DEF ReconSound
<1>2. CASE c # d
  <2>1. recon'[c] = recon[c] /\ recon[c] \in Recons /\ ReconSound(recon[c])
    BY <1>2, Zenon DEF TypeOK, Sound
  <2>2. PICK x : x = recon[c]
    BY Zenon
  <2>3. ReconSound(x)'
    BY <2>1, <2>2, WorkersStay, Zenon
  <2> QED BY <2>1, <2>2, <2>3, Zenon DEF ReconSound
<1> QED BY <1>1, <1>2, Zenon

\* The scanner's range lies below the head it read, and the logs it found are
\* those of the chain.
LEMMA ScanSoundStep ==
  ASSUME IInv, [Next]_vars
  PROVE  \A d \in Pods : ScanSound(scan[d])'
<1>1. TypeOK /\ TypeOK' /\ Monotone /\ Sound
  BY StepsMonotone, TypeStep, Zenon DEF IInv
<1>2. head \in Nat /\ head' \in Nat /\ head' >= head
  BY <1>1 DEF TypeOK, Blocks, Monotone
<1>3. ASSUME NEW s, s.pc \in {"idle", "head"}, s.head = 0, s.todo = {} PROVE ScanSound(s)'
  BY <1>2, <1>3 DEF ScanSound
<1>4. ASSUME NEW d \in Pods PROVE scan[d] \in Scans /\ ScanSound(scan[d])
  BY <1>1, Zenon DEF TypeOK, Sound
<1>5. CASE UNCHANGED scan
  <2> SUFFICES ASSUME NEW d \in Pods PROVE ScanSound(scan[d])'
    BY Zenon
  <2>1. PICK x : x = scan[d]
    BY Zenon
  <2>2. ScanSound(x)'
    BY <1>1, <1>4, <2>1, WorkersStay, Zenon
  <2> QED BY <1>5, <2>1, <2>2, Zenon DEF ScanSound
<1>6. ScanSound(ScanIdle)'
  BY <1>3 DEF ScanIdle
<1>7. ASSUME NEW d \in Pods, ScanTick(d) \/ ScanFault(d) \/ Crash(d)
      PROVE  \A c \in Pods : ScanSound(scan[c])'
  <2>1. PICK s : /\ s = [pc |-> "head", from |-> IF cursor = 0 THEN StartBlock ELSE cursor, head |-> 0, todo |-> {}]
                    \/ s = ScanIdle
                 /\ scan' = [scan EXCEPT ![d] = s]
    BY <1>7, Zenon DEF ScanTick, ScanFault, Crash
  <2>2. ScanSound(s)'
    BY <1>3, <2>1 DEF ScanIdle
  <2> QED BY <1>1, <2>1, <2>2, OneScan, Zenon
<1>8. ASSUME NEW d \in Pods, ScanHead(d) PROVE \A c \in Pods : ScanSound(scan[c])'
  <2>1. CASE head <= scan[d].from
    <3>1. scan' = [scan EXCEPT ![d] = ScanIdle]
      BY <1>8, <2>1, Zenon DEF ScanHead
    <3> QED BY <1>1, <1>6, <3>1, OneScan, Zenon
  <2>2. CASE ~ (head <= scan[d].from)
    <3>1. PICK s : s = [pc |-> "filter", from |-> scan[d].from, head |-> head, todo |-> {}]
      BY Zenon
    <3>2. scan' = [scan EXCEPT ![d] = s]
      BY <1>8, <2>2, <3>1, Zenon DEF ScanHead
    <3>3. ScanSound(s)'
      BY <1>2, <1>4, <2>2, <3>1 DEF ScanSound, Scans
    <3> QED BY <1>1, <3>2, <3>3, OneScan, Zenon
  <2> QED BY <2>1, <2>2, Zenon
<1>9. ASSUME NEW d \in Pods, ScanFilter(d) PROVE \A c \in Pods : ScanSound(scan[c])'
  <2>1. PICK s : s = [pc |-> "persist", from |-> scan[d].from, head |-> scan[d].head, todo |-> FilterLogs(d)]
    BY Zenon
  <2>2. scan' = [scan EXCEPT ![d] = s] /\ chain' = chain /\ undone' = undone /\ head' = head /\ scan[d].pc = "filter"
    BY <1>9, <2>1, Zenon DEF ScanFilter, ScanUnchanged
  <2>3. \A p \in FilterLogs(d) : Known(p.tx, p.block)
    BY DEF FilterLogs, Known
  <2>4. ScanSound(s)'
    BY <1>4, <2>1, <2>2, <2>3, Zenon DEF ScanSound, Known
  <2> QED BY <1>1, <2>2, <2>4, OneScan, Zenon
<1>10. ASSUME NEW d \in Pods, persist(d) PROVE \A c \in Pods : ScanSound(scan[c])'
  <2>1. PICK lg \in scan[d].todo : scan' = [scan EXCEPT ![d] =
          [pc |-> "persist", from |-> scan[d].from, head |-> scan[d].head, todo |-> scan[d].todo \ {lg}]]
    BY <1>10, Zenon DEF persist
  <2>2. PICK s : s = [pc |-> "persist", from |-> scan[d].from, head |-> scan[d].head, todo |-> scan[d].todo \ {lg}]
    BY Zenon
  <2>3. chain' = chain /\ undone' = undone /\ head' = head /\ scan[d].pc = "persist"
    BY <1>10, Zenon DEF persist, ScanUnchanged
  <2>4. ScanSound(s)'
    BY <1>4, <2>2, <2>3, Zenon DEF ScanSound, Known
  <2> QED BY <1>1, <2>1, <2>2, <2>4, OneScan, Zenon
<1>11. ASSUME NEW d \in Pods, ScanAdvance(d) PROVE \A c \in Pods : ScanSound(scan[c])'
  <2>1. CASE ~ (To(d) < scan[d].head)
    <3>1. scan' = [scan EXCEPT ![d] = ScanIdle]
      BY <1>11, <2>1, Zenon DEF ScanAdvance
    <3> QED BY <1>1, <1>6, <3>1, OneScan, Zenon
  <2>2. CASE To(d) < scan[d].head
    <3>1. PICK s : s = [pc |-> "filter", from |-> To(d), head |-> scan[d].head, todo |-> {}]
      BY Zenon
    <3>2. scan' = [scan EXCEPT ![d] = s] /\ head' = head
      BY <1>11, <2>2, <3>1, Zenon DEF ScanAdvance, ScanUnchanged
    <3>3. ScanSound(s)'
      BY <1>4, <2>2, <3>1, <3>2, Zenon DEF ScanSound
    <3> QED BY <1>1, <3>2, <3>3, OneScan, Zenon
  <2> QED BY <2>1, <2>2, Zenon
<1> QED BY Writers, <1>5, <1>7, <1>8, <1>9, <1>10, <1>11, ZenonT(30)

\* The rows the tracker lists are recorded, and seen in their blocks.
LEMMA ListSound ==
  ASSUME IInv
  PROVE  \A p \in ListPendingByChain : row[p.tx].status # "none" /\ Known(p.tx, p.block)
BY DEF ListPendingByChain, IInv, Sound, RowsSound

\* The tracker that goes on to the next row, or is done, stays sound.
LEMMA TrackNextSound ==
  ASSUME IInv, TypeOK', Monotone, NEW d \in Pods, track[d].pc \notin {"idle", "list"}, TrackNext(d)
  PROVE  \A c \in Pods : TrackSound(track[c])'
<1>1. TypeOK /\ Sound /\ track[d] \in Tracks /\ TrackSound(track[d])
  BY Zenon DEF IInv, TypeOK, Sound
<1>2. head \in Nat /\ head' \in Nat /\ head' >= head
  BY <1>1 DEF TypeOK, Blocks, Monotone
<1>3. CASE track[d].todo = {Current(d)}
  <2>1. PICK k : k = TrackIdle
    BY Zenon
  <2>2. track' = [track EXCEPT ![d] = k]
    BY <1>3, <2>1, Zenon DEF TrackNext
  <2>3. TrackSound(k)'
    BY <1>2, <2>1 DEF TrackSound, TrackIdle
  <2> QED BY <1>1, <2>2, <2>3, OneTrack, Zenon
<1>4. CASE track[d].todo # {Current(d)}
  <2>1. PICK k : k = [pc |-> "receipt", latest |-> track[d].latest, todo |-> track[d].todo \ {Current(d)},
                      order |-> Unknown, verdict |-> "none"]
    BY Zenon
  <2>2. track' = [track EXCEPT ![d] = k]
    BY <1>4, <2>1, Zenon DEF TrackNext
  <2>3. k \in Tracks /\ k.todo # {}
    BY <1>1, <1>4, <2>1, InHand, Zenon DEF Tracks, Statuses
  <2>4. TrackSound(k)
    BY <1>1, <2>1, <2>3, Zenon DEF TrackSound
  <2>5. TrackSound(k)'
    BY <1>1, <2>3, <2>4, WorkersStay, Zenon
  <2> QED BY <1>1, <2>2, <2>5, OneTrack, Zenon
<1> QED BY <1>3, <1>4, Zenon

\* So does one that goes on with its row, if the next step's condition holds.
LEMMA TrackGotoSound ==
  ASSUME IInv, TypeOK', Monotone, NEW d \in Pods, track[d].pc \notin {"idle", "list"},
         NEW pc \in {"lookup", "write", "settle", "publish"}, NEW v \in Statuses, TrackGoto(d, pc, v),
         pc = "write" => v # "none" /\ (v \in {"failed", "reorged"} =>
            \/ Current(d).tx \in undone' \cup misread'
            \/ \E o \in OrderOf[Current(d).tx] : ~ Validates(Current(d).tx, o)),
         pc # "write" => Deep(Current(d), track[d].latest),
         pc \in {"settle", "publish"} => track[d].pc \in {"confirm", "settle"},
         pc = "publish" => track[d].order \in paid'
  PROVE  \A c \in Pods : TrackSound(track[c])'
<1>1. TypeOK /\ Sound /\ track[d] \in Tracks /\ TrackSound(track[d])
  BY Zenon DEF IInv, TypeOK, Sound
<1>2. PICK k : k = [pc |-> pc, latest |-> track[d].latest, todo |-> track[d].todo, order |-> track[d].order,
                    verdict |-> v]
  BY Zenon
<1>3. track' = [track EXCEPT ![d] = k]
  BY <1>2, Zenon DEF TrackGoto
<1>4. PICK x : x = track[d]
  BY Zenon
<1>5. TrackSound(x)'
  BY <1>1, <1>4, WorkersStay, Zenon
<1>6. TrackSound(k)'
  BY <1>2, <1>4, <1>5, ZenonT(30) DEF TrackSound, Current, Excused
<1> QED BY <1>1, <1>3, <1>6, OneTrack, Zenon

\* And one that has found the order to confirm.
LEMMA TrackOrderSound ==
  ASSUME IInv, TypeOK', Monotone, NEW d \in Pods, track[d].pc = "lookup",
         NEW o \in OrderOf[Current(d).tx], Validates(Current(d).tx, o), TrackOrder(d, o)
  PROVE  \A c \in Pods : TrackSound(track[c])'
<1>1. TypeOK /\ Sound /\ track[d] \in Tracks /\ TrackSound(track[d])
  BY Zenon DEF IInv, TypeOK, Sound
<1>2. PICK k : k = [pc |-> "confirm", latest |-> track[d].latest, todo |-> track[d].todo, order |-> o,
                    verdict |-> "none"]
  BY Zenon
<1>3. track' = [track EXCEPT ![d] = k]
  BY <1>2, Zenon DEF TrackOrder
<1>4. PICK x : x = track[d]
  BY Zenon
<1>5. TrackSound(x)'
  BY <1>1, <1>4, WorkersStay, Zenon
<1>6. TrackSound(k)'
  BY <1>2, <1>4, <1>5, ZenonT(30) DEF TrackSound, Current
<1> QED BY <1>1, <1>3, <1>6, OneTrack, Zenon

\* The tracker confirms, pays and publishes only after its checks.
LEMMA TrackSoundStep ==
  ASSUME IInv, [Next]_vars
  PROVE  \A d \in Pods : TrackSound(track[d])'
<1>1. TypeOK /\ TypeOK' /\ Monotone /\ Sound
  BY StepsMonotone, TypeStep, Zenon DEF IInv
<1>2. head \in Nat /\ head' \in Nat /\ head' >= head
  BY <1>1 DEF TypeOK, Blocks, Monotone
<1>3. \A v \in {"none", "pending", "confirmed", "failed", "reorged"} : v \in Statuses
  BY Zenon DEF Statuses
<1>4. ASSUME NEW d \in Pods PROVE track[d] \in Tracks /\ TrackSound(track[d])
  BY <1>1, Zenon DEF TypeOK, Sound
<1>5. CASE UNCHANGED track
  <2> SUFFICES ASSUME NEW d \in Pods PROVE TrackSound(track[d])'
    BY Zenon
  <2>1. PICK x : x = track[d]
    BY Zenon
  <2>2. TrackSound(x)'
    BY <1>1, <1>4, <2>1, WorkersStay, Zenon
  <2> QED BY <1>5, <2>1, <2>2, Zenon DEF TrackSound
<1>6. TrackSound(TrackIdle)'
  BY <1>2 DEF TrackIdle, TrackSound
<1>7. ASSUME NEW d \in Pods, TrackTick(d) \/ Crash(d) PROVE \A c \in Pods : TrackSound(track[c])'
  <2>1. PICK k : /\ k = [pc |-> "list", latest |-> head, todo |-> {}, order |-> Unknown, verdict |-> "none"]
                    \/ k = TrackIdle
                 /\ track' = [track EXCEPT ![d] = k]
    BY <1>7, Zenon DEF TrackTick, Crash
  <2>2. TrackSound(k)'
    BY <1>2, <2>1 DEF TrackIdle, TrackSound
  <2> QED BY <1>1, <2>1, <2>2, OneTrack, Zenon
<1>8. ASSUME NEW d \in Pods, TrackList(d) PROVE \A c \in Pods : TrackSound(track[c])'
  <2>1. CASE track' = [track EXCEPT ![d] = TrackIdle]
    BY <1>1, <1>6, <2>1, OneTrack, Zenon
  <2>2. CASE /\ ListPendingByChain # {}
             /\ track' = [track EXCEPT ![d] =
                  [pc |-> "receipt", latest |-> track[d].latest, todo |-> ListPendingByChain, order |-> Unknown,
                   verdict |-> "none"]]
    <3>1. PICK k : k = [pc |-> "receipt", latest |-> track[d].latest, todo |-> ListPendingByChain, order |-> Unknown,
                        verdict |-> "none"]
      BY Zenon
    <3>2. k \in Tracks
      BY <1>1, <1>3, <1>4, <3>1, ListTypes, Zenon DEF Tracks
    <3>3. TrackSound(k)
      BY <1>4, <2>2, <3>1, ListSound, Zenon DEF TrackSound
    <3>4. TrackSound(k)'
      BY <1>1, <3>2, <3>3, WorkersStay, Zenon
    <3> QED BY <1>1, <2>2, <3>1, <3>4, OneTrack, Zenon
  <2> QED BY <1>8, <2>1, <2>2, Zenon DEF TrackList
<1>9. ASSUME NEW d \in Pods, TrackReceipt(d) PROVE \A c \in Pods : TrackSound(track[c])'
  <2>1. track[d].pc \notin {"idle", "list"}
    BY <1>9, Zenon DEF TrackReceipt
  <2>2. Current(d).tx \in undone \/ (Mined(Current(d).tx) /\ chain[Current(d).tx].ok)
    BY <1>1, <2>1, InHand, Zenon DEF Sound, ChainSound, Known
  <2>3. \/ (\E v \in {"reorged", "failed"} : TrackGoto(d, "write", v)) /\ Current(d).tx \in undone' \cup misread'
        \/ TrackGoto(d, "write", "pending")
        \/ TrackNext(d)
        \/ Deep(Current(d), track[d].latest) /\ TrackGoto(d, "lookup", "none")
    BY <1>9, <2>2, ZenonT(30) DEF TrackReceipt
  <2> QED BY <1>1, <1>3, <2>1, <2>3, TrackNextSound, TrackGotoSound, ZenonT(30)
<1>10. ASSUME NEW d \in Pods, TrackLookup(d) PROVE \A c \in Pods : TrackSound(track[c])'
  <2>1. track[d].pc \notin {"idle", "list"} /\ Deep(Current(d), track[d].latest)
    BY <1>4, <1>10, Zenon DEF TrackLookup, TrackSound, Current
  <2>2. \/ TrackGoto(d, "write", "confirmed")
        \/ TrackGoto(d, "write", "failed") /\ \E o \in OrderOf[Current(d).tx] : ~ Validates(Current(d).tx, o)
        \/ TrackNext(d)
        \/ \E o \in OrderOf[Current(d).tx] : Validates(Current(d).tx, o) /\ TrackOrder(d, o)
    BY <1>10, ZenonT(30) DEF TrackLookup
  <2>3. track[d].pc = "lookup"
    BY <1>10, Zenon DEF TrackLookup
  <2> QED BY <1>1, <1>3, <2>1, <2>2, <2>3, TrackNextSound, TrackGotoSound, TrackOrderSound, ZenonT(30)
<1>11. ASSUME NEW d \in Pods, TrackWrite(d) \/ TrackPublish(d) PROVE \A c \in Pods : TrackSound(track[c])'
  <2>1. track[d].pc \notin {"idle", "list"} /\ TrackNext(d)
    BY <1>11, Zenon DEF TrackWrite, TrackPublish
  <2> QED BY <1>1, <2>1, TrackNextSound, Zenon
<1>12. ASSUME NEW d \in Pods, TrackConfirm(d) PROVE \A c \in Pods : TrackSound(track[c])'
  <2>1. track[d].pc \notin {"idle", "list"} /\ Deep(Current(d), track[d].latest) /\ track[d].pc \in {"confirm", "settle"}
    BY <1>4, <1>12, Zenon DEF TrackConfirm, TrackSound, Current
  <2>2. TrackNext(d) \/ TrackGoto(d, "settle", "none")
    BY <1>12, Zenon DEF TrackConfirm
  <2> QED BY <1>1, <1>3, <2>1, <2>2, TrackNextSound, TrackGotoSound, ZenonT(30)
<1>13. ASSUME NEW d \in Pods, TrackSettle(d) PROVE \A c \in Pods : TrackSound(track[c])'
  <2>1. track[d].pc \notin {"idle", "list"} /\ Deep(Current(d), track[d].latest) /\ track[d].pc \in {"confirm", "settle"}
    BY <1>4, <1>13, Zenon DEF TrackSettle, TrackSound, Current
  <2>2. TrackNext(d) \/ (TrackGoto(d, "publish", "none") /\ track[d].order \in paid')
    BY <1>13, Zenon DEF TrackSettle
  <2> QED BY <1>1, <1>3, <2>1, <2>2, TrackNextSound, TrackGotoSound, ZenonT(30)
<1> QED BY Writers, <1>5, <1>7, <1>8, <1>9, <1>10, <1>11, <1>12, <1>13, ZenonT(30)

\* The reconciler writes only to transactions that were taken out of the chain
\* or whose receipt it could not read.
LEMMA ReconSoundStep ==
  ASSUME IInv, [Next]_vars
  PROVE  \A d \in Pods : ReconSound(recon[d])'
<1>1. TypeOK /\ TypeOK' /\ Monotone /\ Sound
  BY StepsMonotone, TypeStep, Zenon DEF IInv
<1>2. ReconSound(ReconIdle)'
  BY Zenon DEF ReconSound, ReconIdle
<1>3. ASSUME NEW d \in Pods PROVE recon[d] \in Recons /\ ReconSound(recon[d])
  BY <1>1, Zenon DEF TypeOK, Sound
<1>4. CASE UNCHANGED recon
  <2> SUFFICES ASSUME NEW d \in Pods PROVE ReconSound(recon[d])'
    BY Zenon
  <2>1. PICK x : x = recon[d]
    BY Zenon
  <2>2. ReconSound(x)'
    BY <1>1, <1>3, <2>1, WorkersStay, Zenon
  <2> QED BY <1>4, <2>1, <2>2, Zenon DEF ReconSound
<1>5. ASSUME NEW d \in Pods, recon[d].pc # "idle", ReconNext(d) PROVE \A c \in Pods : ReconSound(recon[c])'
  <2>1. CASE recon[d].todo = {First(recon[d].todo)}
    <3>1. recon' = [recon EXCEPT ![d] = ReconIdle]
      BY <1>5, <2>1, Zenon DEF ReconNext
    <3> QED BY <1>1, <1>2, <3>1, OneRecon, Zenon
  <2>2. CASE recon[d].todo # {First(recon[d].todo)}
    <3>1. PICK k : k = [pc |-> "receipt", todo |-> recon[d].todo \ {First(recon[d].todo)}, verdict |-> "none"]
      BY Zenon
    <3>2. recon' = [recon EXCEPT ![d] = k]
      BY <1>5, <2>2, <3>1, Zenon DEF ReconNext
    <3>3. k \in Recons /\ k.todo # {}
      BY <1>3, <1>5, <2>2, <3>1, InHandRecon, Zenon DEF Recons, Statuses
    <3>4. ReconSound(k)
      BY <1>3, <3>1, <3>3, Zenon DEF ReconSound
    <3>5. ReconSound(k)'
      BY <1>1, <3>3, <3>4, WorkersStay, Zenon
    <3> QED BY <1>1, <3>2, <3>5, OneRecon, Zenon
  <2> QED BY <2>1, <2>2, Zenon
<1>6. ASSUME NEW d \in Pods, ReconTick(d) PROVE \A c \in Pods : ReconSound(recon[c])'
  <2>1. PICK k : k = [pc |-> "receipt", todo |-> ListPendingByChain, verdict |-> "none"]
    BY Zenon
  <2>2. recon' = [recon EXCEPT ![d] = k] /\ ListPendingByChain # {}
    BY <1>6, <2>1, Zenon DEF ReconTick
  <2>3. k \in Recons
    BY <1>1, <2>1, ListTypes, Zenon DEF Recons, Statuses
  <2>4. ReconSound(k)
    BY <2>1, <2>2, ListSound, Zenon DEF ReconSound
  <2>5. ReconSound(k)'
    BY <1>1, <2>3, <2>4, WorkersStay, Zenon
  <2> QED BY <1>1, <2>2, <2>5, OneRecon, Zenon
<1>7. ASSUME NEW d \in Pods, ReconReceipt(d) PROVE \A c \in Pods : ReconSound(recon[c])'
  <2> DEFINE t == First(recon[d].todo).tx
  <2>1. recon[d].pc = "receipt"
    BY <1>7, Zenon DEF ReconReceipt
  <2>2. t \in Txs /\ row[t].status # "none"
    BY <2>1, InHandRecon, Zenon
  <2>3. t \in undone \/ (Mined(t) /\ chain[t].ok)
    BY <1>1, <2>2, Zenon DEF Sound, RowsSound, ChainSound, Known
  <2>4. ASSUME NEW v \in {"reorged", "failed"}, t \in undone' \cup misread',
               recon' = [recon EXCEPT ![d] = [pc |-> "write", todo |-> recon[d].todo, verdict |-> v]]
        PROVE  \A c \in Pods : ReconSound(recon[c])'
    <3>1. PICK k : k = [pc |-> "write", todo |-> recon[d].todo, verdict |-> v]
      BY Zenon
    <3>2. PICK x : x = recon[d]
      BY Zenon
    <3>3. ReconSound(x)'
      BY <1>1, <1>3, <3>2, WorkersStay, Zenon
    <3>4. ReconSound(k)'
      BY <2>1, <2>4, <3>1, <3>2, <3>3, Zenon DEF ReconSound
    <3> QED BY <1>1, <2>4, <3>1, <3>4, OneRecon, Zenon
  <2>5. \/ ReconNext(d)
        \/ /\ t \in undone' \cup misread'
           /\ \E v \in {"reorged", "failed"} :
                recon' = [recon EXCEPT ![d] = [pc |-> "write", todo |-> recon[d].todo, verdict |-> v]]
    BY <1>7, <2>3, Zenon DEF ReconReceipt
  <2> HIDE DEF t
  <2> QED BY <1>5, <2>1, <2>4, <2>5, Zenon
<1>8. ASSUME NEW d \in Pods, ReconWrite(d) PROVE \A c \in Pods : ReconSound(recon[c])'
  <2>1. recon[d].pc # "idle" /\ ReconNext(d)
    BY <1>8, Zenon DEF ReconWrite
  <2> QED BY <1>5, <2>1, Zenon
<1>9. ASSUME NEW d \in Pods, Crash(d) PROVE \A c \in Pods : ReconSound(recon[c])'
  <2>1. recon' = [recon EXCEPT ![d] = ReconIdle]
    BY <1>9, Zenon DEF Crash
  <2> QED BY <1>1, <1>2, <2>1, OneRecon, Zenon
<1> QED BY Writers, <1>4, <1>6, <1>7, <1>8, <1>9, ZenonT(30)

\* Who pays and who publishes.
LEMMA PaidWrites ==
  ASSUME [Next]_vars
  PROVE  /\ UNCHANGED paid \/ \E d \in Pods : TrackSettle(d) /\ paid' \subseteq paid \cup {track[d].order}
         /\ \/ UNCHANGED published
            \/ \E d \in Pods : TrackPublish(d)
                 /\ published' = [published EXCEPT ![d][track[d].order] = @ + 1]
<1>1. ASSUME NEW d \in Pods,
             \/ Subscribe(d) \/ Disconnect(d) \/ handleLog(d) \/ handleLogFault(d) \/ SaveCursor(d)
             \/ ScanTick(d) \/ ScanHead(d) \/ ScanFilter(d) \/ persist(d) \/ ScanAdvance(d) \/ ScanFault(d)
             \/ TrackTick(d) \/ TrackList(d) \/ TrackReceipt(d) \/ TrackLookup(d) \/ TrackWrite(d) \/ TrackConfirm(d)
             \/ ReconTick(d) \/ ReconReceipt(d) \/ ReconWrite(d) \/ Crash(d)
      PROVE  UNCHANGED <<paid, published>>
  BY <1>1, Zenon DEF Subscribe, Disconnect, handleLog, handleLogFault, SaveCursor, ScanTick, ScanHead, ScanFilter,
       persist, ScanAdvance, ScanFault, TrackTick, TrackList, TrackReceipt, TrackLookup, TrackWrite, TrackConfirm,
       ReconTick, ReconReceipt, ReconWrite, Crash, Workers, ScanUnchanged, TrackUnchanged, ReconUnchanged
<1>2. ASSUME UNCHANGED vars \/ EmptyBlock \/ \E t \in Txs : Reorg(t) \/ Mine(t, TRUE) \/ Mine(t, FALSE)
      PROVE  UNCHANGED <<paid, published>>
  BY <1>2, Zenon DEF vars, EmptyBlock, Reorg, Mine, Workers
<1>3. ASSUME NEW d \in Pods, TrackSettle(d)
      PROVE  paid' \subseteq paid \cup {track[d].order} /\ UNCHANGED published
  BY <1>3, Zenon DEF TrackSettle
<1>4. ASSUME NEW d \in Pods, TrackPublish(d)
      PROVE  UNCHANGED paid /\ (UNCHANGED published \/ published' = [published EXCEPT ![d][track[d].order] = @ + 1])
  BY <1>4, Zenon DEF TrackPublish
<1> QED BY Steps, <1>1, <1>2, <1>3, <1>4, ZenonT(60)

\* The invariant holds initially.
LEMMA InitSound ==
  ASSUME Init
  PROVE  IInv
<1>1. TypeOK
  <2>1. ScanIdle \in Scans /\ TrackIdle \in Tracks /\ ReconIdle \in Recons /\ 0 \in Blocks /\ << >> \in Seq(Logs)
    BY BoundsAssumption DEF ScanIdle, Scans, TrackIdle, Tracks, ReconIdle, Recons, Statuses, Blocks
  <2> QED BY <2>1, BoundsAssumption DEF Init, TypeOK, NotMined, Statuses
<1>2. \A d \in Pods : ScanSound(scan[d]) /\ TrackSound(track[d]) /\ ReconSound(recon[d])
  BY DEF Init, ScanSound, TrackSound, ReconSound, ScanIdle, TrackIdle, ReconIdle
<1>3. ChainSound /\ LogsSound /\ RowsSound
  BY DEF Init, ChainSound, LogsSound, RowsSound, NotMined
<1>4. \A d \in Pods, o \in Orders : published[d][o] > 0 => o \in paid
  BY DEF Init
<1> QED BY <1>1, <1>2, <1>3, <1>4, Zenon DEF IInv, Sound

\* And every step keeps it.
LEMMA StepSound ==
  ASSUME IInv, [Next]_vars
  PROVE  IInv'
<1>1. ASSUME NEW c \in Pods, NEW o \in Orders, published'[c][o] > 0 PROVE o \in paid'
  <2>1. TypeOK /\ Sound /\ paid \subseteq paid'
    BY StepsMonotone, Zenon DEF IInv, Monotone
  <2>2. ASSUME NEW d \in Pods, TrackPublish(d) PROVE track[d].order \in paid
    BY <2>1, <2>2, Zenon DEF Sound, TrackSound, TrackPublish, Current
  <2>3. ASSUME NEW d \in Pods, published' = [published EXCEPT ![d] = [published[d] EXCEPT ![track[d].order] = @ + 1]]
        PROVE  published'[c][o] = published[c][o] \/ o = track[d].order
    BY <2>1, <2>3, Zenon DEF TypeOK
  <2>4. published[c][o] > 0 \/ \E d \in Pods : TrackPublish(d) /\ o = track[d].order
    BY <1>1, <2>3, PaidWrites, Zenon
  <2> QED BY <2>1, <2>2, <2>4, Zenon DEF Sound
<1> QED BY <1>1, TypeStep, ChainSoundStep, LogsSoundStep, RowsSoundStep, ScanSoundStep, TrackSoundStep,
           ReconSoundStep, Zenon DEF IInv, Sound

\* Whatever fails, the workers of all pods only hold what the chain said.
THEOREM Soundness == Spec => []IInv
<1>1. IInv /\ [Next]_vars => IInv'
  BY StepSound, Zenon
<1> QED BY <1>1, InitSound, PTL DEF Spec

\* Every variable stays in its domain, and the cursor that pods share never
\* passes the head of the chain (backfill.go:105).
THEOREM TypeCorrect == Spec => []TypeOK
<1>1. IInv => TypeOK
  BY Zenon DEF IInv
<1> QED BY <1>1, Soundness, PTL

-----------------------------------------------------------------------------
(* An order is paid for good reason *)

\* Every amount survives the conversion it is compared after.
AmountsFit == \A t \in Txs : Int64(Amount[t]) = Amount[t]

\* An amount that fits is compared as it is.
LEMMA ValidatesCovers ==
  ASSUME AmountsFit, NEW t \in Txs, NEW o \in OrderOf[t], Validates(t, o)
  PROVE  Covers(t, o)
BY Zenon DEF AmountsFit, Validates, Covers

\* A transaction that may pay its order.
MayPay(t) == row[t].status # "none" /\ (IsDeep(t) \/ t \in undone)

\* It may pay it for ever.
LEMMA MayPayStays ==
  ASSUME IInv, [Next]_vars, NEW t \in Txs, MayPay(t)
  PROVE  MayPay(t)'
<1>1. Monotone /\ TypeOK /\ TypeOK'
  BY StepsMonotone, TypeStep, Zenon DEF IInv
<1>2. head \in Nat /\ head' \in Nat /\ chain[t].block \in Nat /\ RequiredConfirmations \in Nat
  BY <1>1, BoundsAssumption DEF TypeOK, Blocks
<1> QED BY <1>1, <1>2 DEF MayPay, IsDeep, Monotone

\* An order is paid, and published, only for a recorded transaction over its
\* amount that is deep in the chain or was once taken out of it, whatever call
\* fails, whichever pod dies and however many pods there are, as long as
\* every amount fits the integer it is converted to (confirmation.go:94).
THEOREM PaidForGoodReason == AmountsFit => (Spec => []PaidIsFinal)
<1> SUFFICES ASSUME AmountsFit PROVE Spec => []PaidIsFinal
  BY Zenon
<1>1. Init => PaidIsFinal
  BY DEF Init, PaidIsFinal
<1>2. IInv /\ PaidIsFinal /\ [Next]_vars => PaidIsFinal'
  <2> SUFFICES ASSUME IInv, PaidIsFinal, [Next]_vars, NEW o \in Orders,
                      o \in paid' \/ \E d \in Pods : published'[d][o] > 0
               PROVE  \E t \in Txs : Covers(t, o) /\ MayPay(t)'
    BY Zenon DEF PaidIsFinal, MayPay, IsDeep
  <2>1. o \in paid'
    BY StepSound, Zenon DEF IInv, Sound
  <2>2. CASE o \in paid
    <3>1. PICK t \in Txs : Covers(t, o) /\ MayPay(t)
      BY <2>2, Zenon DEF PaidIsFinal, MayPay
    <3> QED BY <3>1, MayPayStays, Zenon
  <2>3. CASE o \notin paid
    <3>1. PICK d \in Pods : TrackSettle(d) /\ o = track[d].order
      BY <2>1, <2>3, PaidWrites, Zenon
    <3>2. track[d].pc = "settle" /\ track[d] \in Tracks /\ TrackSound(track[d]) /\ head \in Nat
      BY <3>1 DEF TrackSettle, IInv, TypeOK, Sound, Blocks
    <3>3. /\ Current(d) \in Logs /\ Current(d).tx \in Txs /\ row[Current(d).tx].status # "none"
          /\ Known(Current(d).tx, Current(d).block)
      BY <3>2, InHand, Zenon
    <3>4. o \in OrderOf[Current(d).tx] /\ Validates(Current(d).tx, o) /\ Deep(Current(d), track[d].latest) /\ track[d].latest <= head
      BY <3>1, <3>2, Zenon DEF TrackSound, Current
    <3>5. head - Current(d).block >= RequiredConfirmations
      BY <3>2, <3>3, <3>4, BoundsAssumption DEF Deep, Logs, Blocks, Tracks
    <3>6. MayPay(Current(d).tx)
      BY <3>3, <3>5, Zenon DEF MayPay, IsDeep, Known
    <3>7. Covers(Current(d).tx, o)
      BY <3>1, <3>3, <3>4, ValidatesCovers, Zenon
    <3> QED BY <3>3, <3>6, <3>7, MayPayStays, Zenon
  <2> QED BY <2>2, <2>3, Zenon
<1> QED BY <1>1, <1>2, Soundness, PTL DEF Spec

-----------------------------------------------------------------------------
(* Any number of pods *)

\* What a step does to a pod's tracker and to what the pod has published.
LEMMA PodSteps ==
  ASSUME IInv, [Next]_vars, NEW d \in Pods
  PROVE  \/ track'[d] = track[d] /\ published'[d] = published[d]
         \/ track'[d].pc \notin {"confirm", "settle", "publish"} /\ published'[d] = published[d]
         \/ track'[d].order \in Orders \ paid /\ published'[d] = published[d]
         \/ /\ track[d].pc \in {"confirm", "settle"} /\ track'[d].order = track[d].order
            /\ published'[d] = published[d]
         \/ /\ TrackPublish(d) /\ track'[d].pc \notin {"confirm", "settle", "publish"}
            /\ published'[d] = [published[d] EXCEPT ![track[d].order] = @ + 1]
<1> DEFINE Late == {"confirm", "settle", "publish"}
<1>1. TypeOK /\ track[d] \in Tracks
  BY Zenon DEF IInv, TypeOK
<1>2. TrackIdle.pc \notin Late
  BY DEF TrackIdle
<1>3. ASSUME TrackNext(d) PROVE track'[d].pc \notin Late
  <2>1. \/ track'[d] = TrackIdle
        \/ track'[d] = [pc |-> "receipt", latest |-> track[d].latest, todo |-> track[d].todo \ {Current(d)},
                        order |-> Unknown, verdict |-> "none"]
    BY <1>1, <1>3, Zenon DEF TrackNext, TypeOK
  <2> QED BY <1>2, <2>1
<1>4. ASSUME NEW pc, NEW v, TrackGoto(d, pc, v) PROVE track'[d].pc = pc /\ track'[d].order = track[d].order
  <2>1. track'[d] = [pc |-> pc, latest |-> track[d].latest, todo |-> track[d].todo, order |-> track[d].order, verdict |-> v]
    BY <1>1, <1>4, Zenon DEF TrackGoto, TypeOK
  <2> QED BY <2>1
<1>5. ASSUME NEW c \in Pods, TrackPublish(c)
      PROVE  \/ published'[d] = published[d]
             \/ c = d /\ published'[d] = [published[d] EXCEPT ![track[d].order] = @ + 1]
  <2>1. \/ UNCHANGED published
        \/ published' = [published EXCEPT ![c] = [published[c] EXCEPT ![track[c].order] = @ + 1]]
    BY <1>5, Zenon DEF TrackPublish
  <2> QED BY <1>1, <2>1, Zenon DEF TypeOK
<1>6. published'[d] = published[d] \/ TrackPublish(d)
  BY <1>5, PaidWrites, Zenon
<1>7. ASSUME NEW c \in Pods, c # d,
             TrackTick(c) \/ TrackList(c) \/ TrackReceipt(c) \/ TrackLookup(c) \/ TrackWrite(c)
             \/ TrackConfirm(c) \/ TrackSettle(c) \/ TrackPublish(c) \/ Crash(c)
      PROVE  track'[d] = track[d]
  BY <1>1, <1>7, ZenonT(30) DEF TypeOK, TrackTick, TrackList, TrackReceipt, TrackLookup, TrackWrite, TrackConfirm,
       TrackSettle, TrackPublish, Crash, TrackNext, TrackGoto, TrackOrder
<1>8. ASSUME TrackTick(d) \/ TrackList(d) \/ Crash(d) PROVE track'[d].pc \notin Late
  <2>1. \/ track'[d] = TrackIdle
        \/ track'[d] = [pc |-> "list", latest |-> head, todo |-> {}, order |-> Unknown, verdict |-> "none"]
        \/ track'[d] = [pc |-> "receipt", latest |-> track[d].latest, todo |-> ListPendingByChain,
                        order |-> Unknown, verdict |-> "none"]
    BY <1>1, <1>8, Zenon DEF TrackTick, TrackList, Crash, TypeOK
  <2> QED BY <1>2, <2>1
<1>9. ASSUME TrackReceipt(d) \/ TrackWrite(d) \/ TrackPublish(d) PROVE track'[d].pc \notin Late
  <2>1. TrackNext(d) \/ \E pc \in {"write", "lookup"}, v \in Statuses : TrackGoto(d, pc, v)
    BY <1>9, ZenonT(30) DEF TrackReceipt, TrackWrite, TrackPublish, Statuses
  <2>2. ASSUME NEW pc \in {"write", "lookup"}, NEW v \in Statuses, TrackGoto(d, pc, v) PROVE track'[d].pc \notin Late
    <3>1. track'[d].pc = pc
      BY <1>4, <2>2, Zenon
    <3> QED BY <2>2, <3>1
  <2> QED BY <1>3, <2>1, <2>2, Zenon
<1>10. ASSUME TrackLookup(d) PROVE track'[d].pc \notin Late \/ track'[d].order \in Orders \ paid
  <2>1. OrderOf[Current(d).tx] \subseteq Orders
    BY <1>10, InHand, Zenon DEF TrackLookup
  <2>2. \/ TrackNext(d) \/ TrackGoto(d, "write", "confirmed") \/ TrackGoto(d, "write", "failed")
        \/ \E o \in OrderOf[Current(d).tx] : o \notin paid /\ TrackOrder(d, o)
    BY <1>10, Zenon DEF TrackLookup
  <2>3. ASSUME NEW o, TrackOrder(d, o) PROVE track'[d].order = o
    <3>1. track'[d] = [pc |-> "confirm", latest |-> track[d].latest, todo |-> track[d].todo, order |-> o, verdict |-> "none"]
      BY <1>1, <2>3, Zenon DEF TrackOrder, TypeOK
    <3> QED BY <3>1
  <2>4. ASSUME NEW v, TrackGoto(d, "write", v) PROVE track'[d].pc \notin Late
    <3>1. track'[d].pc = "write"
      BY <1>4, <2>4, Zenon
    <3> QED BY <3>1
  <2> QED BY <1>3, <2>1, <2>2, <2>3, <2>4, Zenon
<1>11. ASSUME TrackConfirm(d) \/ TrackSettle(d)
       PROVE  \/ track'[d].pc \notin Late
              \/ track[d].pc \in {"confirm", "settle"} /\ track'[d].order = track[d].order
  <2>1. track[d].pc \in {"confirm", "settle"}
    BY <1>11, Zenon DEF TrackConfirm, TrackSettle
  <2>2. TrackNext(d) \/ TrackGoto(d, "settle", "none") \/ TrackGoto(d, "publish", "none")
    BY <1>11, Zenon DEF TrackConfirm, TrackSettle
  <2> QED BY <1>3, <1>4, <2>1, <2>2, Zenon
<1> HIDE DEF Late
<1>12. \/ track'[d] = track[d]
       \/ track'[d].pc \notin Late
       \/ track'[d].order \in Orders \ paid
       \/ track[d].pc \in {"confirm", "settle"} /\ track'[d].order = track[d].order
  <2>1. CASE UNCHANGED track
    BY <2>1, Zenon
  <2> QED BY Writers, <2>1, <1>7, <1>8, <1>9, <1>10, <1>11, ZenonT(30)
<1>13. CASE TrackPublish(d)
  BY <1>5, <1>9, <1>13, Zenon DEF Late
<1> QED BY <1>6, <1>12, <1>13, Zenon DEF Late

\* The invariant of every pod's announcements.
PodInv == PublishedOnce /\ \A d \in Pods : Unannounced(d)

\* An order on its way to the topic has not been announced by the pod: it was
\* not paid when it was looked up, and the pod announces one order at a time.
LEMMA PodStep ==
  ASSUME IInv, PodInv, [Next]_vars
  PROVE  PodInv'
<1> SUFFICES ASSUME NEW d \in Pods
             PROVE  /\ \A o \in Orders : published'[d][o] <= 1
                    /\ track'[d].pc \in {"confirm", "settle", "publish"} => published'[d][track'[d].order] = 0
  BY Zenon DEF PodInv, PublishedOnce, Unannounced
<1>1. /\ published[d] \in [Orders -> Nat] /\ \A o \in Orders : published[d][o] > 0 => o \in paid
  BY Zenon DEF IInv, TypeOK, Sound
<1>2. ASSUME NEW o \in Orders PROVE published[d][o] \in Nat /\ published[d][o] <= 1 /\ (o \notin paid => published[d][o] = 0)
  <2>1. published[d][o] \in Nat /\ published[d][o] <= 1 /\ (published[d][o] > 0 => o \in paid)
    BY <1>1, Zenon DEF PodInv, PublishedOnce
  <2> QED BY <2>1
<1>3. track[d].pc \in {"confirm", "settle", "publish"} => published[d][track[d].order] = 0
  BY Zenon DEF PodInv, Unannounced
<1>4. CASE published'[d] = published[d] /\ track'[d] = track[d]
  BY <1>2, <1>3, <1>4, Zenon
<1>5. CASE published'[d] = published[d] /\ track'[d].pc \notin {"confirm", "settle", "publish"}
  BY <1>2, <1>5, Zenon
<1>6. CASE published'[d] = published[d] /\ track'[d].order \in Orders \ paid
  BY <1>2, <1>6, Zenon
<1>7. CASE /\ track[d].pc \in {"confirm", "settle"} /\ track'[d].order = track[d].order
           /\ published'[d] = published[d]
  BY <1>2, <1>3, <1>7, Zenon
<1>8. CASE /\ TrackPublish(d) /\ track'[d].pc \notin {"confirm", "settle", "publish"}
           /\ published'[d] = [published[d] EXCEPT ![track[d].order] = @ + 1]
  <2>1. published[d][track[d].order] = 0
    BY <1>3, <1>8, Zenon DEF TrackPublish
  <2>2. ASSUME NEW o \in Orders PROVE published'[d][o] <= 1
    <3>1. published'[d][o] = published[d][o] \/ (o = track[d].order /\ published'[d][o] = published[d][o] + 1)
      BY <1>1, <1>8, Zenon
    <3> QED BY <1>2, <2>1, <3>1
  <2> QED BY <1>8, <2>2, Zenon
<1> QED BY PodSteps, <1>4, <1>5, <1>6, <1>7, <1>8, Zenon

\* However many pods track the chain, none of them announces an order twice,
\* however often it is paid for, whatever another pod writes and wherever a
\* worker dies (confirmation.go:106, 133).
THEOREM AnnouncedOnce == Spec => []PublishedOnce
<1>1. Init => PodInv
  <2> SUFFICES ASSUME Init PROVE PodInv
    BY Zenon
  <2>1. \A d \in Pods : track[d] = TrackIdle /\ \A o \in Orders : published[d][o] = 0
    BY Zenon DEF Init
  <2> QED BY <2>1 DEF PodInv, Unannounced, PublishedOnce, TrackIdle
<1>2. IInv /\ PodInv /\ [Next]_vars => PodInv'
  BY PodStep, Zenon
<1>3. PodInv => PublishedOnce
  BY Zenon DEF PodInv
<1> QED BY <1>1, <1>2, <1>3, Soundness, PTL DEF Spec

\* However many pods write verdicts from lists, receipts and heads of their
\* own, none goes against a transaction over the right amount that was never
\* taken out of the chain and whose receipt could always be read
\* (confirmation.go:76, reconciliation.go:63).
THEOREM NoGoodPaymentLost == Spec => []GoodPaymentKept
<1>1. Init => GoodPaymentKept
  BY DEF Init, GoodPaymentKept
<1>2. IInv /\ GoodPaymentKept /\ [Next]_vars => GoodPaymentKept'
  <2> SUFFICES ASSUME IInv, GoodPaymentKept, [Next]_vars, NEW t \in Txs, row'[t].status \in {"failed", "reorged"}
               PROVE  Excused(t)'
    BY Zenon DEF GoodPaymentKept, Excused
  <2>1. TypeOK /\ undone \subseteq undone' /\ misread \subseteq misread'
    BY StepsMonotone, Zenon DEF IInv, Monotone
  <2>2. Excused(t) => Excused(t)'
    BY <2>1, Zenon DEF Excused
  <2>3. row[t].status \in {"failed", "reorged"} => Excused(t)
    BY Zenon DEF GoodPaymentKept, Excused
  <2>4. ASSUME NEW lg \in Logs, Create(lg) PROVE row'[t] = row[t]
    <3>1. ASSUME t = lg.tx PROVE row'[t].status = "pending"
      BY <2>1, <2>4, <3>1, Zenon DEF Create, TypeOK
    <3>2. t # lg.tx
      BY <3>1
    <3> QED BY <2>1, <2>4, <3>2, Zenon DEF Create, TypeOK
  <2>5. ASSUME NEW u \in Txs, NEW s, UpdateConfirmations(u, s), Due(u, s) PROVE row'[t] = row[t] \/ Excused(t)
    <3>1. ASSUME t = u PROVE row'[t].status = s
      BY <2>1, <2>5, <3>1, Zenon DEF UpdateConfirmations, TypeOK
    <3>2. ASSUME t # u PROVE row'[t] = row[t]
      BY <2>1, <2>5, <3>2, Zenon DEF UpdateConfirmations, TypeOK
    <3> QED BY <2>5, <3>1, <3>2, Zenon DEF Due
  <2> QED BY RowWrites, <2>2, <2>3, <2>4, <2>5, Zenon
<1> QED BY <1>1, <1>2, Soundness, PTL DEF Spec
=============================================================================
