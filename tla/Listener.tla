------------------------------- MODULE Listener -------------------------------
(***************************************************************************)
(* The crypto path: the chain listener of every pod, with its WebSocket    *)
(* subscriber, backfill scanner, confirmation tracker and reconciler, over *)
(* the shared tables onchain_transactions, block_cursors and transactions. *)
(*                                                                         *)
(* The chain is external: a transaction is mined in a block and emits one  *)
(* PaymentReceived log, and a reorganisation may take it out of the chain  *)
(* again while it is less than ReorgDepth deep.  Every call of a worker is *)
(* a step; the row inserted by Create is guarded by UNIQUE(tx_hash), so    *)
(* the lookup before it and the insert are one step.                       *)
(***************************************************************************)
EXTENDS Integers, Sequences, FiniteSets

CONSTANTS
  Pods,
  Txs,          \* on-chain transactions that call the payment contract
  Orders,
  OrderOf,      \* the orders with the order_id a transaction names, of any merchant
  Amount,       \* what a transaction pays
  Price,        \* what an order costs
  Width,        \* bits kept by big.Int.Int64
  RequiredConfirmations,
  ReorgDepth,   \* blocks a reorganisation can undo
  MaxHead,      \* bound on the height of the chain
  BatchSize,    \* blocks per eth_getLogs
  StartBlock,
  WebSocket,    \* whether the WebSocket endpoint can be reached
  Faults,       \* what may go wrong: some of FaultKinds
  MaxFaults,    \* bound on how often
  Unknown

FaultKinds == {"disconnect", "scan", "receipt", "db", "publish", "crash", "reorg"}

ASSUME OrderOfAssumption  == OrderOf \in [Txs -> SUBSET Orders]
ASSUME UnknownAssumption  == Unknown \notin Orders
ASSUME AmountAssumption   == Amount \in [Txs -> Nat] /\ Price \in [Orders -> Nat]
ASSUME BoundsAssumption   == /\ {RequiredConfirmations, ReorgDepth, MaxHead, StartBlock, MaxFaults, Width} \subseteq Nat
                             /\ BatchSize \in Nat \ {0} /\ WebSocket \in BOOLEAN
ASSUME FaultsAssumption   == Faults \subseteq FaultKinds

VARIABLES
  head,         \* height of the chain
  chain,        \* block a transaction is in (0: none) and whether it succeeded
  conn,         \* pods whose WebSocket subscription is up
  logs,         \* logs sent to each pod and not yet handled
  row,          \* onchain_transactions: status and block of each tx hash
  cursor,       \* block_cursors.last_block, 0 if there is no row
  sub,          \* subscriber: the block it is about to save, 0 if none
  scan,         \* backfill scanner of each pod
  track,        \* confirmation tracker of each pod
  recon,        \* reconciler of each pod
  paid,         \* orders whose transactions row is paid
  published,    \* payment.confirmed messages of each pod for each order
  undone,       \* ghost: transactions a reorganisation has ever taken out
  misread,      \* ghost: transactions whose receipt could not be read at some time
  faults

vars == <<head, chain, conn, logs, row, cursor, sub, scan, track, recon, paid, published, undone, misread, faults>>

Blocks == 0..MaxHead
Logs   == [tx : Txs, block : Blocks]

Statuses == {"none", "pending", "confirmed", "failed", "reorged"}

Scans  == [pc : {"idle", "head", "filter", "persist"}, from : Nat, head : Blocks, todo : SUBSET Logs]
Tracks == [pc : {"idle", "list", "receipt", "lookup", "write", "confirm", "settle", "publish"},
           latest : Blocks, todo : SUBSET Logs, order : Orders \cup {Unknown}, verdict : Statuses]
Recons == [pc : {"idle", "receipt", "write"}, todo : SUBSET Logs, verdict : Statuses]

NotMined    == [block |-> 0, ok |-> FALSE]
ScanIdle    == [pc |-> "idle", from |-> 0, head |-> 0, todo |-> {}]
TrackIdle   == [pc |-> "idle", latest |-> 0, todo |-> {}, order |-> Unknown, verdict |-> "none"]
ReconIdle   == [pc |-> "idle", todo |-> {}, verdict |-> "none"]

Init ==
  /\ head = 0
  /\ chain = [t \in Txs |-> NotMined]
  /\ conn = {}
  /\ logs = [d \in Pods |-> << >>]
  /\ row = [t \in Txs |-> [status |-> "none", block |-> 0]]
  /\ cursor = 0
  /\ sub = [d \in Pods |-> 0]
  /\ scan = [d \in Pods |-> ScanIdle]
  /\ track = [d \in Pods |-> TrackIdle]
  /\ recon = [d \in Pods |-> ReconIdle]
  /\ paid = {}
  /\ published = [d \in Pods |-> [o \in Orders |-> 0]]
  /\ undone = {} /\ misread = {}
  /\ faults = 0

Fault(kind) == kind \in Faults /\ faults < MaxFaults /\ faults' = faults + 1

Mined(t) == chain[t].block > 0

Workers == <<cursor, sub, scan, track, recon, paid, published, undone, misread>>

-----------------------------------------------------------------------------
(* The chain (external) *)

Send(t, b) == logs' = [d \in Pods |-> IF d \in conn THEN Append(logs[d], [tx |-> t, block |-> b]) ELSE logs[d]]

\* A block with transaction t.  Only a successful one emits its log; one that
\* fails matters only if it was logged before and comes back after a reorg.
Mine(t, ok) ==
  /\ ~Mined(t) /\ head < MaxHead
  /\ ok \/ row[t].status # "none"
  /\ head' = head + 1
  /\ chain' = [chain EXCEPT ![t] = [block |-> head + 1, ok |-> ok]]
  /\ IF ok THEN Send(t, head + 1) ELSE UNCHANGED logs
  /\ UNCHANGED <<conn, row, faults, Workers>>

EmptyBlock ==
  /\ head < MaxHead
  /\ head' = head + 1
  /\ UNCHANGED <<chain, conn, logs, row, faults, Workers>>

\* The transaction's block is orphaned; the subscription sends its log again,
\* marked as removed, which the subscriber does not look at.
Reorg(t) ==
  /\ Mined(t) /\ head - chain[t].block < ReorgDepth
  /\ Fault("reorg")
  /\ chain' = [chain EXCEPT ![t] = NotMined]
  /\ IF chain[t].ok THEN Send(t, chain[t].block) ELSE UNCHANGED logs
  /\ undone' = undone \cup {t}
  /\ UNCHANGED <<head, conn, row, cursor, sub, scan, track, recon, paid, published, misread>>

-----------------------------------------------------------------------------
(* Layer 1: subscriber *)

Subscribe(d) ==
  /\ WebSocket /\ d \notin conn
  /\ conn' = conn \cup {d}
  /\ UNCHANGED <<head, chain, logs, row, faults, Workers>>

\* The subscription fails: the channel and what it holds are dropped.
Disconnect(d) ==
  /\ d \in conn /\ Fault("disconnect")
  /\ conn' = conn \ {d}
  /\ logs' = [logs EXCEPT ![d] = << >>]
  /\ UNCHANGED <<head, chain, row, Workers>>

\* GetByTxHash finds nothing and GetByOrderIDAny finds an order.
IsNew(lg) == row[lg.tx].status = "none" /\ OrderOf[lg.tx] # {}

Create(lg) == row' = [row EXCEPT ![lg.tx] = [status |-> "pending", block |-> lg.block]]

\* A new row, then the cursor; duplicates and unknown orders are dropped.
handleLog(d) ==
  LET lg == Head(logs[d]) IN
  /\ sub[d] = 0 /\ logs[d] # << >>
  /\ IF IsNew(lg) THEN Create(lg) /\ sub' = [sub EXCEPT ![d] = lg.block] ELSE UNCHANGED <<row, sub>>
  /\ logs' = [logs EXCEPT ![d] = Tail(@)]
  /\ UNCHANGED <<head, chain, conn, cursor, scan, track, recon, paid, published, undone, misread, faults>>

\* MySQL fails, perhaps after the insert: the log is gone.
handleLogFault(d) ==
  LET lg == Head(logs[d]) IN
  /\ sub[d] = 0 /\ logs[d] # << >> /\ Fault("db")
  /\ (IsNew(lg) /\ Create(lg)) \/ UNCHANGED row
  /\ logs' = [logs EXCEPT ![d] = Tail(@)]
  /\ UNCHANGED <<head, chain, conn, Workers>>

\* Cursor.Set to the block of the log, whose failure is only logged.
SaveCursor(d) ==
  /\ sub[d] > 0
  /\ \/ cursor' = sub[d] /\ UNCHANGED faults
     \/ Fault("db") /\ UNCHANGED cursor
  /\ sub' = [sub EXCEPT ![d] = 0]
  /\ UNCHANGED <<head, chain, conn, logs, row, scan, track, recon, paid, published, undone, misread>>

-----------------------------------------------------------------------------
(* Layer 2: backfill scanner *)

ScanUnchanged == UNCHANGED <<head, chain, conn, logs, sub, track, recon, paid, published, undone, misread>>

ScanTick(d) ==
  /\ scan[d].pc = "idle"
  /\ scan' = [scan EXCEPT ![d] = [pc |-> "head", from |-> IF cursor = 0 THEN StartBlock ELSE cursor,
                                  head |-> 0, todo |-> {}]]
  /\ UNCHANGED <<row, cursor, faults>> /\ ScanUnchanged

ScanHead(d) ==
  /\ scan[d].pc = "head"
  /\ scan' = [scan EXCEPT ![d] = IF head <= @.from THEN ScanIdle
                                 ELSE [pc |-> "filter", from |-> @.from, head |-> head, todo |-> {}]]
  /\ UNCHANGED <<row, cursor, faults>> /\ ScanUnchanged

\* Mutant: the end of the range is not cut off at the head.
To_Unclamped(d) == scan[d].from + BatchSize

To(d) == IF scan[d].from + BatchSize > scan[d].head THEN scan[d].head ELSE scan[d].from + BatchSize

\* Mutant: the range starts after the block the cursor is at, and ends before
\* the head.
FilterLogs_Short(d) ==
  {[tx |-> t, block |-> chain[t].block] : t \in {u \in Txs : chain[u].ok /\ chain[u].block \in scan[d].from+1..To(d)-1}}

FilterLogs(d) ==
  {[tx |-> t, block |-> chain[t].block] : t \in {u \in Txs : chain[u].ok /\ chain[u].block \in scan[d].from..To(d)}}

ScanFilter(d) ==
  /\ scan[d].pc = "filter"
  /\ scan' = [scan EXCEPT ![d] = [pc |-> "persist", from |-> @.from, head |-> @.head, todo |-> FilterLogs(d)]]
  /\ UNCHANGED <<row, cursor, faults>> /\ ScanUnchanged

\* Logs in block order; whatever goes wrong with one, the scan goes on.
persist(d) ==
  /\ scan[d].pc = "persist"
  /\ \E lg \in scan[d].todo :
       /\ \A other \in scan[d].todo : lg.block <= other.block
       /\ \/ (IF IsNew(lg) THEN Create(lg) ELSE UNCHANGED row) /\ UNCHANGED faults
          \/ Fault("db") /\ UNCHANGED row
       /\ scan' = [scan EXCEPT ![d] = [pc |-> "persist", from |-> @.from, head |-> @.head, todo |-> @.todo \ {lg}]]
  /\ UNCHANGED cursor /\ ScanUnchanged

\* The range is done: Cursor.Set, whose failure is only logged, and the next.
ScanAdvance(d) ==
  /\ scan[d].pc = "persist" /\ scan[d].todo = {}
  /\ \/ cursor' = To(d) /\ UNCHANGED faults
     \/ Fault("db") /\ UNCHANGED cursor
  /\ scan' = [scan EXCEPT ![d] = IF To(d) < @.head
                THEN [pc |-> "filter", from |-> To(d), head |-> @.head, todo |-> {}] ELSE ScanIdle]
  /\ UNCHANGED row /\ ScanUnchanged

\* An RPC or the cursor read fails: the tick is over.
ScanFault(d) ==
  /\ scan[d].pc \in {"head", "filter"} /\ Fault("scan")
  /\ scan' = [scan EXCEPT ![d] = ScanIdle]
  /\ UNCHANGED <<row, cursor>> /\ ScanUnchanged

-----------------------------------------------------------------------------
(* Confirmation tracker *)

\* The listed rows, as they are when listed.
ListPendingByChain == {[tx |-> t, block |-> row[t].block] : t \in {u \in Txs : row[u].status = "pending"}}

First(todo) == CHOOSE p \in todo : \A q \in todo : p.block <= q.block

UpdateConfirmations(t, status) == row' = [row EXCEPT ![t] = [status |-> status, block |-> @.block]]

TrackUnchanged == UNCHANGED <<head, chain, conn, logs, cursor, sub, scan, recon, undone, misread>>

\* The row in hand, and how the tracker goes on with it or with the next one.
Current(d) == First(track[d].todo)

TrackGoto(d, pc, verdict) ==
  track' = [track EXCEPT ![d] = [pc |-> pc, latest |-> @.latest, todo |-> @.todo, order |-> @.order,
                                 verdict |-> verdict]]

TrackNext(d) ==
  track' = [track EXCEPT ![d] = IF @.todo = {Current(d)} THEN TrackIdle
              ELSE [pc |-> "receipt", latest |-> @.latest, todo |-> @.todo \ {Current(d)},
                    order |-> Unknown, verdict |-> "none"]]

TrackTick(d) ==
  /\ track[d].pc = "idle"
  /\ track' = [track EXCEPT ![d] = [pc |-> "list", latest |-> head, todo |-> {}, order |-> Unknown,
                                    verdict |-> "none"]]
  /\ UNCHANGED <<row, paid, published, faults>> /\ TrackUnchanged

\* A list that fails ends the tick, like one that is empty.
TrackList(d) ==
  /\ track[d].pc = "list"
  /\ \/ /\ UNCHANGED faults
        /\ track' = [track EXCEPT ![d] = IF ListPendingByChain = {} THEN TrackIdle
                 ELSE [pc |-> "receipt", latest |-> @.latest, todo |-> ListPendingByChain,
                       order |-> Unknown, verdict |-> "none"]]
     \/ Fault("db") /\ track' = [track EXCEPT ![d] = TrackIdle]
  /\ UNCHANGED <<row, paid, published>> /\ TrackUnchanged

\* Mutant: off by one block.
Deep_Late(p, latest) == latest - p.block > RequiredConfirmations

Deep(p, latest) == latest - p.block >= RequiredConfirmations

\* Mutant: a block the tick has not seen is taken for one that is gone.
TrackReceipt_Ahead(d) ==
  LET p == Current(d)
      c == chain[p.tx]
      latest == track[d].latest
  IN
  /\ track[d].pc = "receipt"
  /\ \/ ~Mined(p.tx) /\ UNCHANGED <<misread, faults>> /\ TrackGoto(d, "write", "reorged")
     \/ Fault("receipt") /\ misread' = misread \cup {p.tx} /\ TrackGoto(d, "write", "reorged")
     \/ /\ Mined(p.tx) /\ UNCHANGED <<misread, faults>>
        /\ \/ ~c.ok /\ TrackGoto(d, "write", "failed")
           \/ c.ok /\ latest < p.block /\ TrackGoto(d, "write", "reorged")
           \/ c.ok /\ latest >= p.block /\ ~Deep(p, latest) /\ TrackGoto(d, "write", "pending")
           \/ c.ok /\ latest >= p.block /\ Deep(p, latest) /\ TrackGoto(d, "lookup", "none")
  /\ UNCHANGED <<head, chain, conn, logs, row, cursor, sub, scan, recon, paid, published, undone>>

\* The receipt decides: gone, failed, in a block the tick has not seen, not
\* deep enough, or ready to be checked against the order.
TrackReceipt(d) ==
  LET p == Current(d)
      c == chain[p.tx]
      latest == track[d].latest
  IN
  /\ track[d].pc = "receipt"
  /\ \/ ~Mined(p.tx) /\ UNCHANGED <<misread, faults>> /\ TrackGoto(d, "write", "reorged")
     \/ Fault("receipt") /\ misread' = misread \cup {p.tx} /\ TrackGoto(d, "write", "reorged")
     \/ /\ Mined(p.tx) /\ UNCHANGED <<misread, faults>>
        /\ \/ ~c.ok /\ TrackGoto(d, "write", "failed")
           \/ c.ok /\ latest < p.block /\ TrackNext(d)
           \/ c.ok /\ latest >= p.block /\ ~Deep(p, latest) /\ TrackGoto(d, "write", "pending")
           \/ c.ok /\ latest >= p.block /\ Deep(p, latest) /\ TrackGoto(d, "lookup", "none")
  /\ UNCHANGED <<head, chain, conn, logs, row, cursor, sub, scan, recon, paid, published, undone>>

\* p.Amount.Int64()
Int64(n) == n % 2^Width

\* Mutant: any amount will do.
Validates_Any(t, o) == TRUE

Validates(t, o) == Int64(Amount[t]) = Price[o]

TrackOrder(d, o) ==
  track' = [track EXCEPT ![d] = [pc |-> "confirm", latest |-> @.latest, todo |-> @.todo, order |-> o,
                                 verdict |-> "none"]]

\* Mutant: an order that is already paid is confirmed again.
TrackLookup_Again(d) ==
  LET t == Current(d).tx IN
  /\ track[d].pc = "lookup"
  /\ \E o \in OrderOf[t] : IF Validates(t, o) THEN TrackOrder(d, o) ELSE TrackGoto(d, "write", "failed")
  /\ UNCHANGED <<row, paid, published, faults>> /\ TrackUnchanged

\* Mutant: nothing is written for an order that is already paid.
TrackLookup_Skip(d) ==
  LET t == Current(d).tx IN
  /\ track[d].pc = "lookup"
  /\ \E o \in OrderOf[t] :
       \/ o \in paid /\ TrackNext(d)
       \/ o \notin paid /\ ~Validates(t, o) /\ TrackGoto(d, "write", "failed")
       \/ o \notin paid /\ Validates(t, o) /\ TrackOrder(d, o)
  /\ UNCHANGED <<row, paid, published, faults>> /\ TrackUnchanged

\* GetByOrderIDAny returns what the first shard to answer has of the orders
\* with this order_id: already finalised, wrong amount, or to be confirmed.
TrackLookup(d) ==
  LET t == Current(d).tx IN
  /\ track[d].pc = "lookup"
  /\ \/ /\ UNCHANGED faults
        /\ \E o \in OrderOf[t] :
             \/ o \in paid /\ TrackGoto(d, "write", "confirmed")
             \/ o \notin paid /\ ~Validates(t, o) /\ TrackGoto(d, "write", "failed")
             \/ o \notin paid /\ Validates(t, o) /\ TrackOrder(d, o)
     \/ Fault("db") /\ TrackNext(d)
  /\ UNCHANGED <<row, paid, published>> /\ TrackUnchanged

\* UpdateConfirmations whose outcome nothing depends on.
TrackWrite(d) ==
  /\ track[d].pc = "write"
  /\ \/ UpdateConfirmations(Current(d).tx, track[d].verdict) /\ UNCHANGED faults
     \/ Fault("db") /\ UNCHANGED row
  /\ TrackNext(d)
  /\ UNCHANGED <<paid, published>> /\ TrackUnchanged

\* Confirmed, then the order, then the topic; each failure, perhaps after the
\* write took effect, ends the row's turn.
TrackConfirm(d) ==
  /\ track[d].pc = "confirm"
  /\ \/ UpdateConfirmations(Current(d).tx, "confirmed") /\ TrackGoto(d, "settle", "none") /\ UNCHANGED faults
     \/ /\ Fault("db") /\ TrackNext(d)
        /\ UpdateConfirmations(Current(d).tx, "confirmed") \/ UNCHANGED row
  /\ UNCHANGED <<paid, published>> /\ TrackUnchanged

TrackSettle(d) ==
  LET o == track[d].order IN
  /\ track[d].pc = "settle"
  /\ \/ paid' = paid \cup {o} /\ TrackGoto(d, "publish", "none") /\ UNCHANGED faults
     \/ Fault("db") /\ TrackNext(d) /\ paid' \in {paid, paid \cup {o}}
  /\ UNCHANGED <<row, published>> /\ TrackUnchanged

TrackPublish(d) ==
  /\ track[d].pc = "publish"
  /\ \/ published' = [published EXCEPT ![d][track[d].order] = @ + 1] /\ UNCHANGED faults
     \/ Fault("publish") /\ UNCHANGED published
  /\ TrackNext(d)
  /\ UNCHANGED <<row, paid>> /\ TrackUnchanged

-----------------------------------------------------------------------------
(* Layer 3: reconciler *)

ReconUnchanged == UNCHANGED <<head, chain, conn, logs, cursor, sub, scan, track, paid, published, undone, misread>>

ReconNext(d) ==
  recon' = [recon EXCEPT ![d] = IF @.todo = {First(@.todo)} THEN ReconIdle
              ELSE [pc |-> "receipt", todo |-> @.todo \ {First(@.todo)}, verdict |-> "none"]]

ReconTick(d) ==
  /\ recon[d].pc = "idle" /\ ListPendingByChain # {}
  /\ recon' = [recon EXCEPT ![d] = [pc |-> "receipt", todo |-> ListPendingByChain, verdict |-> "none"]]
  /\ UNCHANGED <<row, faults>> /\ ReconUnchanged

ReconReceipt(d) ==
  LET t == First(recon[d].todo).tx
      Goto(verdict) == recon' = [recon EXCEPT ![d] = [pc |-> "write", todo |-> @.todo, verdict |-> verdict]]
  IN
  /\ recon[d].pc = "receipt"
  /\ \/ ~Mined(t) /\ UNCHANGED <<misread, faults>> /\ Goto("reorged")
     \/ Fault("receipt") /\ misread' = misread \cup {t} /\ Goto("reorged")
     \/ Mined(t) /\ ~chain[t].ok /\ UNCHANGED <<misread, faults>> /\ Goto("failed")
     \/ Mined(t) /\ chain[t].ok /\ UNCHANGED <<misread, faults>> /\ ReconNext(d)
  /\ UNCHANGED <<head, chain, conn, logs, row, cursor, sub, scan, track, paid, published, undone>>

ReconWrite(d) ==
  /\ recon[d].pc = "write"
  /\ \/ UpdateConfirmations(First(recon[d].todo).tx, recon[d].verdict) /\ UNCHANGED faults
     \/ Fault("db") /\ UNCHANGED row
  /\ ReconNext(d)
  /\ ReconUnchanged

-----------------------------------------------------------------------------
\* A pod dies and comes back: its workers start from nothing.
Crash(d) ==
  /\ Fault("crash")
  /\ conn' = conn \ {d}
  /\ logs' = [logs EXCEPT ![d] = << >>]
  /\ sub' = [sub EXCEPT ![d] = 0]
  /\ scan' = [scan EXCEPT ![d] = ScanIdle]
  /\ track' = [track EXCEPT ![d] = TrackIdle]
  /\ recon' = [recon EXCEPT ![d] = ReconIdle]
  /\ UNCHANGED <<head, chain, row, cursor, paid, published, undone, misread>>

Subscriber(d) == Subscribe(d) \/ handleLog(d) \/ SaveCursor(d)
BackfillScanner(d) == ScanTick(d) \/ ScanHead(d) \/ ScanFilter(d) \/ persist(d) \/ ScanAdvance(d)
ConfirmationTracker(d) ==
  \/ TrackTick(d) \/ TrackList(d) \/ TrackReceipt(d) \/ TrackLookup(d)
  \/ TrackWrite(d) \/ TrackConfirm(d) \/ TrackSettle(d) \/ TrackPublish(d)
Reconciler(d) == ReconTick(d) \/ ReconReceipt(d) \/ ReconWrite(d)

Next ==
  \/ EmptyBlock
  \/ \E t \in Txs : Reorg(t) \/ \E ok \in BOOLEAN : Mine(t, ok)
  \/ \E d \in Pods :
       \/ Subscriber(d) \/ BackfillScanner(d) \/ ConfirmationTracker(d) \/ Reconciler(d)
       \/ Disconnect(d) \/ handleLogFault(d) \/ ScanFault(d) \/ Crash(d)

Spec == Init /\ [][Next]_vars

\* The chain grows and the four goroutines of every pod keep running.
Fairness ==
  /\ WF_vars(EmptyBlock)
  /\ \A d \in Pods :
       /\ WF_vars(Subscriber(d)) /\ WF_vars(BackfillScanner(d))
       /\ WF_vars(ConfirmationTracker(d)) /\ WF_vars(Reconciler(d))

FairSpec == Spec /\ Fairness

-----------------------------------------------------------------------------
(* Properties *)

\* Every variable stays in its domain, and the cursor is never ahead of the
\* chain.
TypeOK ==
  /\ head \in Blocks /\ cursor \in 0..head
  /\ chain \in [Txs -> [block : Blocks, ok : BOOLEAN]]
  /\ conn \subseteq Pods
  /\ logs \in [Pods -> Seq(Logs)]
  /\ row \in [Txs -> [status : Statuses, block : Blocks]]
  /\ sub \in [Pods -> Blocks]
  /\ scan \in [Pods -> Scans] /\ track \in [Pods -> Tracks] /\ recon \in [Pods -> Recons]
  /\ paid \subseteq Orders
  /\ published \in [Pods -> [Orders -> Nat]]
  /\ undone \subseteq Txs /\ misread \subseteq Txs
  /\ faults \in 0..MaxFaults

Covers(t, o) == o \in OrderOf[t] /\ Amount[t] = Price[o]

IsDeep(t) == chain[t].ok /\ head - chain[t].block >= RequiredConfirmations

\* An order is paid, and its confirmation published, only for a recorded
\* transaction over exactly its amount that lies deep enough in the chain, or
\* that a reorganisation has taken out of its block at some time: no failed
\* call, crash, gap or second pod pays an order early (confirmation.go:94).
PaidIsFinal ==
  \A o \in Orders : o \in paid \/ (\E d \in Pods : published[d][o] > 0) =>
    \E t \in Txs : Covers(t, o) /\ row[t].status # "none" /\ (IsDeep(t) \/ t \in undone)

\* An order is paid only by a transaction that is deep in the chain.
PaidStays == \A o \in paid : \E t \in Txs : Covers(t, o) /\ IsDeep(t)

\* No pod announces an order twice, although the order may be paid for twice, a
\* second pod may put a confirmed transaction back to pending behind its back,
\* and any worker may die between two steps.  The pods do not know of each
\* other: what the topic gets is at most one message of each
\* (confirmation.go:106).
PublishedOnce == \A d \in Pods, o \in Orders : published[d][o] <= 1

\* No verdict loses a good payment: a transaction over the price of every order
\* it may stand for, that was never taken out of the chain and whose receipt
\* could always be read, is marked neither failed nor reorged, whatever the
\* workers of all pods write from lists and heads of their own
\* (confirmation.go:88, reconciliation.go:63).
GoodPaymentKept ==
  \A t \in Txs \ (undone \cup misread) :
    (\A o \in OrderOf[t] : Validates(t, o)) => row[t].status \notin {"failed", "reorged"}

\* A confirmed transaction that was neither taken out nor misread stays
\* confirmed: not so with two pods, when one has listed it before and writes
\* its count of confirmations after the other (confirmation.go:94).
ConfirmedStays ==
  [][\A t \in Txs \ (undone \cup misread) :
       row[t].status = "confirmed" => row'[t].status = "confirmed"]_vars

\* A transaction marked as reorged is no longer in the chain.
ReorgedIsGone == \A t \in Txs : row[t].status = "reorged" => ~Mined(t)

\* Why the safety properties hold.  What any worker holds of a transaction is
\* what the chain says, unless a reorganisation has taken the transaction out.
Known(t, b) == t \in undone \/ (chain[t].ok /\ chain[t].block = b)

\* Why a verdict may go against a transaction.
Excused(t) == t \in undone \cup misread \/ \E o \in OrderOf[t] : ~Validates(t, o)

ChainSound == \A t \in Txs : chain[t].block <= head /\ (chain[t].ok => Mined(t))

LogsSound == \A d \in Pods :
  sub[d] <= head /\ \A i \in DOMAIN logs[d] : logs[d][i].block <= head /\ Known(logs[d][i].tx, logs[d][i].block)

RowsSound == \A t \in Txs : row[t].status # "none" =>
  OrderOf[t] # {} /\ Known(t, row[t].block)

ScanSound(s) ==
  /\ s.head <= head /\ (s.pc \in {"filter", "persist"} => s.from < s.head)
  /\ \A p \in s.todo : Known(p.tx, p.block)

\* Rows in hand are recorded rows, a row at its later steps is deep and over
\* the right amount, and a verdict against it has a reason.
TrackSound(k) ==
  /\ k.latest <= head /\ (k.pc \notin {"idle", "list"} => k.todo # {})
  /\ \A p \in k.todo : row[p.tx].status # "none" /\ Known(p.tx, p.block)
  /\ k.pc = "write" => k.verdict # "none" /\ (k.verdict \in {"failed", "reorged"} => Excused(First(k.todo).tx))
  /\ k.pc \in {"lookup", "confirm", "settle", "publish"} => Deep(First(k.todo), k.latest)
  /\ k.pc \in {"confirm", "settle", "publish"} =>
       k.order \in OrderOf[First(k.todo).tx] /\ Validates(First(k.todo).tx, k.order)
  /\ k.pc = "publish" => k.order \in paid

\* The reconciler only ever writes to a transaction that was taken out of the
\* chain or whose receipt it could not read.
ReconSound(k) ==
  /\ k.pc # "idle" => k.todo # {}
  /\ \A p \in k.todo : row[p.tx].status # "none"
  /\ k.pc = "write" => k.verdict \in {"reorged", "failed"} /\ First(k.todo).tx \in undone \cup misread

Sound ==
  /\ ChainSound /\ LogsSound /\ RowsSound
  /\ \A d \in Pods : ScanSound(scan[d]) /\ TrackSound(track[d]) /\ ReconSound(recon[d])
  /\ \A d \in Pods, o \in Orders : published[d][o] > 0 => o \in paid

\* An order on its way to the topic has not been announced by the pod.
Unannounced(d) ==
  track[d].pc \in {"confirm", "settle", "publish"} => published[d][track[d].order] = 0

\* Whatever the subscription missed, the scanner finds.
LogPersisted ==
  \A t \in {u \in Txs : OrderOf[u] # {}} :
    <>[](Mined(t) /\ chain[t].ok) => <>(row[t].status # "none")

\* A payment over the right amount that is there to stay is credited, if its
\* order_id is that of one order only.
Pays(t, o) == OrderOf[t] = {o} /\ Amount[t] = Price[o]

PaymentCredited ==
  \A o \in Orders : \A t \in {u \in Txs : Pays(u, o)} : <>[]IsDeep(t) => <>(o \in paid)

\* And its transaction is confirmed in the end and stays so: what one pod
\* overwrites the next tick repairs (confirmation.go:106).
ConfirmedFinally ==
  \A o \in Orders : \A t \in {u \in Txs : Pays(u, o)} :
    <>[]IsDeep(t) => <>[](row[t].status = "confirmed")
=============================================================================
