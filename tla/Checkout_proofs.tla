---------------------------- MODULE Checkout_proofs ----------------------------
(***************************************************************************)
(* The safety properties of Checkout for any number of orders, requests,   *)
(* pods, cache entries and faults.                                         *)
(***************************************************************************)
EXTENDS Checkout, FiniteSetTheorems, TLAPS

USE PodOfAssumption, NoneAssumption

ProcType ==
  {Idle}
    \cup [pc : {"lookup", "stripe", "load", "acquire", "after", "recheck", "call"},
          order : Known, material : Materials, session : {None}]
    \cup [pc : {"persist", "save"}, order : Known, material : Materials, session : Sessions]
    \cup [pc : {"release"}, order : Known, material : Materials, session : Sessions \cup {None}]

\* What a request's pc says about the rest of it.
LEMMA ProcFacts ==
  ASSUME TypeOK, NEW p \in Procs
  PROVE  /\ proc[p].pc = "idle" <=> proc[p] = Idle
         /\ proc[p].pc # "idle" => /\ proc[p].order \in Orders /\ proc[p].order \in Known
                                /\ proc[p].material \in Materials
         /\ proc[p].pc \in {"persist", "save"} => proc[p].session \in Sessions
         /\ proc[p].pc \in {"lookup", "stripe", "load", "acquire", "after", "recheck", "call"}
              => proc[p].session = None
         /\ proc[p].pc = "release" => proc[p].session \in Sessions \cup {None}
BY DEF TypeOK, Idle, Known

\* A cache write puts the session under its order and otherwise only drops
\* entries.
LEMMA PutFacts ==
  ASSUME TypeOK, NEW p \in Procs, NEW o \in Orders, NEW s \in Sessions, Put(p, o, s)
  PROVE  /\ cache' \in [Pods -> [Orders -> Sessions \cup {None}]]
         /\ \A d \in Pods, q \in Orders : cache'[d][q] \in {None, cache[d][q]} \/ (q = o /\ cache'[d][q] = s)
BY DEF TypeOK, Put

\* Serving the row's session.
LEMMA ServeFacts ==
  ASSUME TypeOK, NEW p \in Procs, proc[p].pc # "idle", NEW next \in {"idle", "release"}, Serve(p, next)
  PROVE  /\ cache' \in [Pods -> [Orders -> Sessions \cup {None}]]
         /\ given' \subseteq [order : Orders, asked : Materials, session : Sessions]
         /\ proc' \in [Procs -> ProcType]
<1>1. proc[p].order \in Orders /\ proc[p].material \in Materials
  BY ProcFacts, Zenon
<1>2. row[proc[p].order].session \in Sessions
  BY <1>1, Zenon DEF Serve, TypeOK, NoRow
<1>3. cache' \in [Pods -> [Orders -> Sessions \cup {None}]]
  BY <1>1, <1>2, PutFacts, Zenon DEF Serve
<1>4. given' \subseteq [order : Orders, asked : Materials, session : Sessions]
  BY <1>1, <1>2 DEF Serve, Give, TypeOK
<1>5. proc' \in [Procs -> ProcType]
  <2>1. proc \in [Procs -> ProcType]
    BY Zenon DEF TypeOK, ProcType
  <2>2. CASE next = "idle"
    BY <2>1, <2>2, Zenon DEF Serve, End, ProcType
  <2>3. CASE next = "release"
    <3>1. [pc |-> "release", order |-> proc[p].order, material |-> proc[p].material,
           session |-> proc[p].session] \in ProcType
      BY <1>1, ProcFacts, Zenon DEF ProcType, TypeOK
    <3>2. proc' = [proc EXCEPT ![p] = [pc |-> "release", order |-> proc[p].order,
                     material |-> proc[p].material, session |-> proc[p].session]]
      BY <2>3, Zenon DEF Serve, Goto
    <3> QED BY <2>1, <3>1, <3>2, Zenon
  <2> QED BY <2>2, <2>3, Zenon
<1> QED BY <1>3, <1>4, <1>5, Zenon

\* Going on to a later point of the same request.
LEMMA GotoFacts ==
  ASSUME TypeOK, NEW p \in Procs,
         NEW pc \in {"acquire", "after", "recheck", "call", "release"},
         proc[p].pc \notin {"idle"}, pc # "release" => proc[p].session = None,
         Goto(p, pc)
  PROVE  proc' \in [Procs -> ProcType]
<1>1. [pc |-> pc, order |-> proc[p].order, material |-> proc[p].material,
       session |-> proc[p].session] \in ProcType
  BY ProcFacts, Zenon DEF ProcType, TypeOK, Idle
<1> QED BY <1>1, Zenon DEF TypeOK, ProcType, Goto

\* A fault is counted up to its bound.
LEMMA FaultFacts ==
  ASSUME TypeOK, Fault
  PROVE  faults' \in 0..MaxFaults
<1>1. faults \in 0..MaxFaults BY Zenon DEF TypeOK
<1>2. faults < MaxFaults /\ faults' = faults + 1 BY Zenon DEF Fault
<1> QED BY <1>1, <1>2, MaxFaultsAssumption

\* Every variable of the checkout stays in its domain.
THEOREM TypeCorrect == Spec => []TypeOK
<1>1. Init => TypeOK
  BY MaxFaultsAssumption DEF Init, TypeOK, NoRow
<1>2. TypeOK /\ [Next]_vars => TypeOK'
  <2> SUFFICES ASSUME TypeOK, [Next]_vars PROVE TypeOK'
    BY Zenon
  <2>0. ASSUME row' \in [Orders -> [material : Materials \cup {None}, session : Sessions \cup {None}]],
               \A o \in Orders : row'[o].material = row[o].material,
               sessions' \subseteq Sessions, links' \subseteq Known,
               lock' \in [Orders -> Procs \cup {None}], lapsed' \subseteq Procs,
               cache' \in [Pods -> [Orders -> Sessions \cup {None}]],
               proc' \in [Procs -> ProcType],
               given' \subseteq [order : Orders, asked : Materials, session : Sessions],
               faults' \in 0..MaxFaults
        PROVE  TypeOK'
    <3>1. Known' = Known
      BY <2>0, Zenon DEF Known, Exists
    <3> QED BY <2>0, <3>1, Zenon DEF TypeOK, ProcType
  <2> USE DEF Exists
  <2>1. proc \in [Procs -> ProcType] /\ Idle \in ProcType
    BY Zenon DEF TypeOK, ProcType
  <2>2. ASSUME NEW p \in Procs, NEW o \in Orders, NEW m \in Materials, CreateInsert(p, o, m)
        PROVE  TypeOK'
    <3>1. Known' = Known \cup {o}
      BY <2>2, ZenonT(30) DEF CreateInsert, TypeOK, Known, Exists
    <3>2. row' \in [Orders -> [material : Materials \cup {None}, session : Sessions \cup {None}]]
      BY <2>2, Zenon DEF CreateInsert, TypeOK
    <3>3. proc' \in [Procs -> ProcType']
      BY <2>1, <2>2, <3>1 DEF CreateInsert, ProcType
    <3>4. links' \subseteq Known'
      BY <2>2, <3>1, Zenon DEF CreateInsert, TypeOK
    <3> QED BY <2>2, <3>2, <3>3, <3>4, Zenon DEF CreateInsert, TypeOK, ProcType
  <2>3. ASSUME NEW p \in Procs, NEW o \in Orders, NEW m \in Materials, CreateDuplicate(p, o, m)
        PROVE  TypeOK'
    BY <2>0, <2>1, <2>3, Zenon DEF CreateDuplicate, TypeOK, ProcType, Known
  <2>4. ASSUME NEW p \in Procs, NEW o \in Orders, OpenHit(p, o) PROVE TypeOK'
    <3>1. row[o].material \in Materials /\ Cached(p, o) \in Sessions
      BY <2>4 DEF OpenHit, Cached, TypeOK, Known, Exists
    <3> QED BY <2>0, <2>1, <2>4, <3>1 DEF OpenHit, TypeOK
  <2>5. ASSUME NEW p \in Procs, NEW o \in Orders, OpenMiss(p, o) PROVE TypeOK'
    <3>1. row[o].material \in Materials /\ o \in Known
      BY <2>5, Zenon DEF OpenMiss, TypeOK, Known, Exists
    <3> QED BY <2>0, <2>1, <2>5, <3>1, Zenon DEF OpenMiss, TypeOK, ProcType
  <2>6. ASSUME NEW p \in Procs, CreateLookup(p) PROVE TypeOK'
    <3>1. proc[p].order \in Orders /\ proc[p].order \in Known /\ proc[p].material \in Materials
      BY <2>6, ProcFacts, Zenon DEF CreateLookup
    <3>2. row[proc[p].order].session \in Sessions \cup {None}
      BY <3>1, Zenon DEF TypeOK
    <3>3. proc' \in [Procs -> ProcType]
      BY <2>1, <2>6, Zenon DEF CreateLookup, End
    <3>4. links' \subseteq Known
      BY <2>6, <3>1, Zenon DEF CreateLookup, TypeOK
    <3>5. given' \subseteq [order : Orders, asked : Materials, session : Sessions]
      BY <2>6, <3>1, <3>2 DEF CreateLookup, Give, TypeOK
    <3> QED BY <2>0, <2>6, <3>3, <3>4, <3>5, Zenon DEF CreateLookup, TypeOK
  <2>7. ASSUME NEW p \in Procs, EagerCall(p) PROVE TypeOK'
    BY <2>0, <2>1, <2>7, ProcFacts DEF EagerCall, TypeOK, ProcType, Sessions, Keys
  <2>8. ASSUME NEW p \in Procs, EagerPersist(p) PROVE TypeOK'
    <3>1. proc[p].order \in Orders /\ proc[p].material \in Materials /\ proc[p].session \in Sessions
      BY <2>8, ProcFacts, Zenon DEF EagerPersist
    <3> QED BY <2>0, <2>1, <2>8, <3>1 DEF EagerPersist, Give, End, TypeOK
  <2>9. ASSUME NEW p \in Procs, Load(p) PROVE TypeOK'
    <3>1. CASE Serve(p, "idle")
      BY <2>0, <2>9, <3>1, ServeFacts, Zenon DEF Load, TypeOK
    <3>2. CASE Goto(p, "acquire") /\ UNCHANGED <<cache, given>>
      BY <2>0, <2>9, <3>2, GotoFacts, ProcFacts, Zenon DEF Load, TypeOK
    <3> QED BY <2>9, <3>1, <3>2, Zenon DEF Load
  <2>10. ASSUME NEW p \in Procs, Acquire(p) PROVE TypeOK'
    <3>1. proc[p].order \in Orders /\ proc[p].session = None /\ proc[p].pc # "idle"
      BY <2>10, ProcFacts, Zenon DEF Acquire
    <3>2. proc' \in [Procs -> ProcType]
      BY <2>10, <3>1, GotoFacts, Zenon DEF Acquire
    <3>3. lock' \in [Orders -> Procs \cup {None}]
      BY <2>10, <3>1, ZenonT(30) DEF Acquire, TypeOK
    <3> QED BY <2>0, <2>10, <3>2, <3>3, Zenon DEF Acquire, TypeOK
  <2>11. ASSUME NEW p \in Procs, resolveAfterLock(p) PROVE TypeOK'
    <3>1. CASE Serve(p, "idle")
      BY <2>0, <2>11, <3>1, ServeFacts, Zenon DEF resolveAfterLock, TypeOK
    <3>2. CASE End(p) /\ UNCHANGED <<cache, given>>
      BY <2>0, <2>1, <2>11, <3>2, Zenon DEF resolveAfterLock, End, TypeOK
    <3> QED BY <2>11, <3>1, <3>2, Zenon DEF resolveAfterLock
  <2>12. ASSUME NEW p \in Procs, Recheck(p) PROVE TypeOK'
    <3>1. CASE Serve(p, "release")
      BY <2>0, <2>12, <3>1, ServeFacts, Zenon DEF Recheck, TypeOK
    <3>2. CASE Goto(p, "call") /\ UNCHANGED <<cache, given>>
      BY <2>0, <2>12, <3>2, GotoFacts, ProcFacts, Zenon DEF Recheck, TypeOK
    <3> QED BY <2>12, <3>1, <3>2, Zenon DEF Recheck
  <2>13. ASSUME NEW p \in Procs, createSession(p) PROVE TypeOK'
    BY <2>0, <2>1, <2>13, ProcFacts DEF createSession, SessionFor, IdemKey, TypeOK, ProcType, Sessions, Keys
  <2>14. ASSUME NEW p \in Procs, Save(p) PROVE TypeOK'
    <3>1. proc[p].order \in Orders /\ proc[p].material \in Materials /\ proc[p].session \in Sessions
      BY <2>14, ProcFacts, Zenon DEF Save
    <3>2. cache' \in [Pods -> [Orders -> Sessions \cup {None}]]
      BY <2>14, <3>1, PutFacts, Zenon DEF Save
    <3>3. proc' \in [Procs -> ProcType]
      BY <2>14, GotoFacts, Zenon DEF Save
    <3>4. row' \in [Orders -> [material : Materials \cup {None}, session : Sessions \cup {None}]]
          /\ \A o \in Orders : row'[o].material = row[o].material
      <4>1. CASE row' = [row EXCEPT ![proc[p].order] = [material |-> @.material, session |-> proc[p].session]]
        BY <3>1, <4>1, Zenon DEF TypeOK
      <4>2. CASE UNCHANGED row
        BY <4>2, Zenon DEF TypeOK
      <4> QED BY <2>14, <4>1, <4>2, Zenon DEF Save
    <3> QED BY <2>0, <2>14, <3>1, <3>2, <3>3, <3>4, MaxFaultsAssumption DEF Save, Give, TypeOK
  <2>15. ASSUME NEW p \in Procs, Release(p) PROVE TypeOK'
    BY <2>0, <2>1, <2>15, ProcFacts, Zenon DEF Release, End, TypeOK
  <2>16. ASSUME NEW p \in Procs, RequestFault(p) \/ ReleaseFault(p) PROVE TypeOK'
    <3>1. CASE RequestFault(p) BY <2>0, <2>1, <3>1, FaultFacts, Zenon DEF RequestFault, End, TypeOK
    <3>2. CASE ReleaseFault(p) BY <2>0, <2>1, <3>2, FaultFacts, Zenon DEF ReleaseFault, End, TypeOK
    <3> QED BY <2>16, <3>1, <3>2, Zenon
  <2>17. ASSUME NEW p \in Procs, EagerFault(p) PROVE TypeOK'
    <3>1. [order |-> proc[p].order, key |-> "transaction_id", material |-> proc[p].material] \in Sessions
      BY <2>17, ProcFacts, Zenon DEF EagerFault, Sessions, Keys
    <3> QED BY <2>0, <2>1, <2>17, <3>1, FaultFacts, Zenon DEF EagerFault, End, TypeOK
  <2>18. ASSUME NEW p \in Procs, AcquireFault(p) PROVE TypeOK'
    <3>1. proc[p].order \in Orders /\ proc[p].session = None /\ proc[p].pc # "idle"
      BY <2>18, ProcFacts, Zenon DEF AcquireFault
    <3>2. proc' \in [Procs -> ProcType]
      BY <2>18, <3>1, GotoFacts, Zenon DEF AcquireFault
    <3>3. lock' \in [Orders -> Procs \cup {None}]
      BY <2>18, <3>1, ZenonT(30) DEF AcquireFault, TypeOK
    <3> QED BY <2>0, <2>18, <3>2, <3>3, FaultFacts, Zenon DEF AcquireFault, TypeOK
  <2>19. ASSUME NEW p \in Procs, RecheckFault(p) PROVE TypeOK'
    BY <2>0, <2>19, GotoFacts, ProcFacts, FaultFacts, Zenon DEF RecheckFault, TypeOK
  <2>20. ASSUME NEW p \in Procs, CallFault(p) PROVE TypeOK'
    <3>1. SessionFor(p) \in Sessions
      BY <2>20, ProcFacts, Zenon DEF CallFault, SessionFor, IdemKey, Sessions, Keys
    <3> QED BY <2>0, <2>20, <3>1, GotoFacts, FaultFacts, Zenon DEF CallFault, TypeOK
  <2>21. ASSUME NEW o \in Orders, LockExpire(o) PROVE TypeOK'
    BY <2>0, <2>1, <2>21, Zenon DEF LockExpire, TypeOK
  <2>22. ASSUME NEW d \in Pods, NEW o \in Orders, CacheExpire(d, o) PROVE TypeOK'
    BY <2>0, <2>1, <2>22, Zenon DEF CacheExpire, TypeOK
  <2>23. ASSUME NEW d \in Pods, Crash(d) PROVE TypeOK'
    BY <2>0, <2>1, <2>23, FaultFacts, Zenon DEF Crash, TypeOK
  <2>24. CASE UNCHANGED vars
    BY <2>0, <2>1, <2>24, Zenon DEF vars, TypeOK
  <2> QED
    BY <2>2, <2>3, <2>4, <2>5, <2>6, <2>7, <2>8, <2>9, <2>10, <2>11, <2>12, <2>13, <2>14, <2>15,
       <2>16, <2>17, <2>18, <2>19, <2>20, <2>21, <2>22, <2>23, <2>24, Zenon
    DEF Next, Step, FaultyStep, Open
<1> QED BY <1>1, <1>2, PTL DEF Spec

-----------------------------------------------------------------------------
(* Who writes what *)

ReadsRow == {"load", "after", "recheck"}

\* Sessions only appear, each for a request that is calling Stripe, with the
\* key of its path.
LEMMA SessionWriters ==
  ASSUME TypeOK, [Next]_vars
  PROVE  /\ sessions \subseteq sessions'
         /\ \A s \in sessions' : s \notin sessions => \E p \in Procs :
              /\ s.order = proc[p].order /\ s.material = proc[p].material
              /\ \/ proc[p].pc = "stripe" /\ s.key = "transaction_id"
                 \/ proc[p].pc = "call" /\ s.key = "checkout"
<1> DEFINE Caller(s, p) == /\ s.order = proc[p].order /\ s.material = proc[p].material
                           /\ \/ proc[p].pc = "stripe" /\ s.key = "transaction_id"
                              \/ proc[p].pc = "call" /\ s.key = "checkout"
           Called == \A s \in sessions' : s \notin sessions => \E p \in Procs : Caller(s, p)
<1>1. ASSUME NEW p \in Procs, EagerCall(p) \/ EagerFault(p)
      PROVE  sessions \subseteq sessions' /\ Called
  <2> DEFINE s == [order |-> proc[p].order, key |-> "transaction_id", material |-> proc[p].material]
  <2>1. proc[p].pc = "stripe" /\ (sessions' = sessions \/ sessions' = sessions \cup {s})
    BY <1>1, Zenon DEF EagerCall, EagerFault
  <2>2. Caller(s, p) BY <2>1, Zenon
  <2> HIDE DEF s, Caller
  <2> QED BY <2>1, <2>2, Zenon
<1>2. ASSUME NEW p \in Procs, createSession(p) \/ CallFault(p)
      PROVE  sessions \subseteq sessions' /\ Called
  <2> DEFINE s == [order |-> proc[p].order, key |-> "checkout", material |-> proc[p].material]
  <2>1. proc[p].pc = "call" /\ (sessions' = sessions \/ sessions' = sessions \cup {s})
    BY <1>2, Zenon DEF createSession, CallFault, SessionFor, IdemKey
  <2>2. Caller(s, p) BY <2>1, Zenon
  <2> HIDE DEF s, Caller
  <2> QED BY <2>1, <2>2, Zenon
<1>3. CASE UNCHANGED sessions
  BY <1>3, Zenon
<1> QED
  BY <1>1, <1>2, <1>3, ZenonT(30)
  DEF Next, Step, FaultyStep, Open, CreateInsert, CreateDuplicate, CreateLookup, EagerPersist,
      OpenHit, OpenMiss, Load, Acquire, resolveAfterLock, Recheck, Save,
      Release, LockExpire, CacheExpire, RequestFault, AcquireFault, RecheckFault,
      ReleaseFault, Crash, vars

\* A row keeps its material once it exists; its session is written by the
\* request that opened it.
LEMMA RowWriters ==
  ASSUME TypeOK, [Next]_vars, NEW o \in Orders
  PROVE  /\ Exists(o) => row'[o].material = row[o].material
         /\ \/ row'[o].session \in {None, row[o].session}
            \/ \E p \in Procs : /\ proc[p].pc \in {"persist", "save"} /\ proc[p].order = o
                                /\ row'[o].session = proc[p].session
<1> USE DEF Exists
<1>1. CASE \E p \in Procs, q \in Orders, m \in Materials : CreateInsert(p, q, m)
  BY <1>1 DEF CreateInsert, TypeOK
<1>2. CASE \E p \in Procs : EagerPersist(p)
  BY <1>2, ProcFacts DEF EagerPersist, TypeOK
<1>3. ASSUME NEW p \in Procs, Save(p), ~UNCHANGED row
      PROVE  /\ row'[o].material = row[o].material
             /\ row'[o].session = row[o].session
                  \/ (proc[p].pc = "save" /\ proc[p].order = o /\ row'[o].session = proc[p].session)
  <2>1. proc[p].order \in Orders /\ proc[p].pc = "save"
    BY <1>3, ProcFacts, Zenon DEF Save
  <2>2. row' = [row EXCEPT ![proc[p].order] = [material |-> @.material, session |-> proc[p].session]]
    BY <1>3, Zenon DEF Save
  <2> QED BY <2>1, <2>2, Zenon DEF TypeOK
<1>4. CASE UNCHANGED row
  BY <1>4, Zenon
<1> QED
  BY <1>1, <1>2, <1>3, <1>4, ZenonT(30)
  DEF Next, Step, FaultyStep, Open, CreateDuplicate, CreateLookup, EagerCall,
      OpenHit, OpenMiss, Load, Acquire, resolveAfterLock, Recheck, createSession,
      Release, LockExpire, CacheExpire, RequestFault, EagerFault, AcquireFault, RecheckFault, CallFault,
      ReleaseFault, Crash, vars

\* A cache entry comes from the row or from the request that opened the
\* session.
LEMMA CacheWriters ==
  ASSUME TypeOK, [Next]_vars, NEW d \in Pods, NEW o \in Orders
  PROVE  \/ cache'[d][o] \in {None, cache[d][o]}
         \/ cache'[d][o] = row[o].session
         \/ \E p \in Procs : proc[p].pc = "save" /\ proc[p].order = o /\ cache'[d][o] = proc[p].session
<1>1. ASSUME NEW p \in Procs, NEW next \in {"idle", "release"}, proc[p].pc # "idle", Serve(p, next)
      PROVE  cache'[d][o] \in {None, cache[d][o]} \/ cache'[d][o] = row[o].session
  <2>1. proc[p].order \in Orders /\ row[proc[p].order].session \in Sessions
    BY <1>1, ProcFacts DEF Serve, TypeOK
  <2> QED BY <1>1, <2>1, PutFacts DEF Serve
<1>2. ASSUME NEW p \in Procs, Save(p)
      PROVE  cache'[d][o] \in {None, cache[d][o]}
               \/ (proc[p].pc = "save" /\ proc[p].order = o /\ cache'[d][o] = proc[p].session)
  BY <1>2, ProcFacts, PutFacts DEF Save
<1>3. CASE \E e \in Pods : Crash(e) \/ \E q \in Orders : CacheExpire(e, q)
  BY <1>3, SMTT(30) DEF Crash, CacheExpire, TypeOK
<1>4. CASE UNCHANGED cache
  BY <1>4, Zenon
<1>5. CASE \E p \in Procs : Load(p) \/ resolveAfterLock(p) \/ Recheck(p)
  BY <1>1, <1>5, <1>4, SMTT(30) DEF Load, resolveAfterLock, Recheck
<1> QED
  BY <1>2, <1>3, <1>4, <1>5, ZenonT(30)
  DEF Next, Step, FaultyStep, Open, CreateInsert, CreateDuplicate, CreateLookup, EagerCall, EagerPersist,
      OpenHit, OpenMiss, Acquire, createSession, Release, LockExpire,
      RequestFault, EagerFault, AcquireFault, RecheckFault, CallFault, ReleaseFault, vars

\* Whom a URL is given to, and where it comes from.
LEMMA GivenWriters ==
  ASSUME TypeOK, [Next]_vars, NEW g \in given'
  PROVE  \/ g \in given
         \/ \E p \in Procs :
              /\ proc[p].pc # "idle" /\ g.order = proc[p].order /\ g.asked = proc[p].material
              /\ \/ proc[p].pc \in {"persist", "save"} /\ g.session = proc[p].session
                 \/ /\ proc[p].pc \in ReadsRow \/ row[g.order].material = g.asked
                    /\ row[g.order].session # None /\ g.session = row[g.order].session
         \/ \E d \in Pods, o \in Orders :
              /\ g.order = o /\ g.asked = row[o].material
              /\ cache[d][o] # None /\ g.session = cache[d][o]
<1>1. CASE \E p \in Procs, o \in Orders : OpenHit(p, o)
  BY <1>1 DEF OpenHit, Cached
<1>2. CASE \E p \in Procs : EagerPersist(p) \/ Save(p)
  BY <1>2 DEF EagerPersist, Save, Give
<1>3. CASE \E p \in Procs : CreateLookup(p)
  <2>1. PICK p \in Procs : CreateLookup(p) BY <1>3, Zenon
  <2>2. /\ proc[p].pc = "lookup"
        /\ \/ given' = given
           \/ /\ row[proc[p].order].material = proc[p].material /\ row[proc[p].order].session # None
              /\ given' = given \cup {[order |-> proc[p].order, asked |-> proc[p].material,
                                       session |-> row[proc[p].order].session]}
    BY <2>1, ZenonT(30) DEF CreateLookup, Give, sameMaterialPayment
  <2> QED BY <2>2
<1>4. CASE \E p \in Procs : Load(p) \/ resolveAfterLock(p) \/ Recheck(p)
  BY <1>4 DEF Load, resolveAfterLock, Recheck, Serve, Give, ReadsRow
<1>5. CASE UNCHANGED given
  BY <1>5, Zenon
<1> QED
  BY <1>1, <1>2, <1>3, <1>4, <1>5, ZenonT(30)
  DEF Next, Step, FaultyStep, Open, CreateInsert, CreateDuplicate, EagerCall,
      OpenMiss, Acquire, createSession, Release, LockExpire, CacheExpire, Crash,
      RequestFault, EagerFault, AcquireFault, RecheckFault, CallFault, ReleaseFault, vars

\* How a request moves on: it ends, starts, keeps what it knows, or comes back
\* from Stripe with a session.
LEMMA ProcWriters ==
  ASSUME TypeOK, [Next]_vars, NEW p \in Procs, proc'[p].pc # "idle"
  PROVE  \/ proc'[p] = proc[p]
         \/ proc'[p].pc = "lookup"
         \/ /\ proc'[p].pc \in {"stripe", "load"} /\ proc'[p].order \in Orders
            /\ proc'[p].material = row'[proc'[p].order].material
            /\ proc'[p].pc = "stripe" => PodOf[p] \notin Lazy
         \/ /\ proc[p].pc \in ReadsRow \cup {"acquire", "call", "save"}
            /\ proc'[p].pc \notin {"idle", "lookup", "stripe", "persist", "save"}
            /\ proc'[p].order = proc[p].order /\ proc'[p].material = proc[p].material
         \/ /\ proc[p].pc \in {"stripe", "call"} /\ proc'[p].pc \in {"persist", "save"}
            /\ proc'[p].order = proc[p].order /\ proc'[p].material = proc[p].material
            /\ proc'[p].session \in sessions' /\ proc'[p].session.order = proc[p].order
<1> USE DEF ReadsRow
<1>1. ASSUME NEW q \in Procs, NEW o \in Orders, NEW m \in Materials, CreateInsert(q, o, m)
      PROVE  proc'[p] = proc[p] \/ /\ proc'[p].pc = "stripe" /\ proc'[p].order \in Orders
                                   /\ PodOf[p] \notin Lazy
                                   /\ proc'[p].material = row'[proc'[p].order].material
  BY <1>1 DEF CreateInsert, TypeOK
<1>2. CASE \E q \in Procs, o \in Orders, m \in Materials : CreateDuplicate(q, o, m)
  BY <1>2 DEF CreateDuplicate, TypeOK
<1>3. ASSUME NEW q \in Procs, NEW o \in Orders, Open(q, o)
      PROVE  proc'[p] = proc[p] \/ /\ proc'[p].pc = "load" /\ proc'[p].order \in Orders
                                   /\ proc'[p].material = row'[proc'[p].order].material
  BY <1>3 DEF Open, OpenHit, OpenMiss, TypeOK
<1>4. ASSUME NEW q \in Procs, EagerCall(q) \/ createSession(q)
      PROVE  proc'[p] = proc[p]
               \/ /\ proc[p].pc \in {"stripe", "call"} /\ proc'[p].pc \in {"persist", "save"}
                  /\ proc'[p].order = proc[p].order /\ proc'[p].material = proc[p].material
                  /\ proc'[p].session \in sessions' /\ proc'[p].session.order = proc[p].order
  BY <1>4 DEF EagerCall, createSession, SessionFor, TypeOK
<1>5. ASSUME NEW q \in Procs, End(q) PROVE proc'[p] \in {proc[p], Idle}
  BY <1>5, Zenon DEF End, TypeOK
<1>6. ASSUME NEW q \in Procs, NEW pc, Goto(q, pc)
      PROVE  proc'[p] = proc[p]
               \/ /\ p = q /\ proc'[p].pc = pc
                  /\ proc'[p].order = proc[p].order /\ proc'[p].material = proc[p].material
  BY <1>6, SMTT(30) DEF Goto, TypeOK
<1>7. CASE \E q \in Procs : Load(q) \/ resolveAfterLock(q) \/ Recheck(q)
  BY <1>5, <1>6, <1>7 DEF Load, resolveAfterLock, Recheck, Serve, Idle
<1>8. CASE \E q \in Procs : Acquire(q) \/ Save(q) \/ AcquireFault(q) \/ RecheckFault(q) \/ CallFault(q)
  BY <1>6, <1>8 DEF Acquire, Save, AcquireFault, RecheckFault, CallFault
<1>9. CASE \E q \in Procs : \/ CreateLookup(q) \/ EagerPersist(q) \/ Release(q) \/ RequestFault(q)
                            \/ EagerFault(q) \/ ReleaseFault(q)
  BY <1>5, <1>9 DEF CreateLookup, EagerPersist, Release, RequestFault, EagerFault, ReleaseFault, Idle
<1>10. CASE \E d \in Pods : Crash(d)
  BY <1>10 DEF Crash, Idle
<1>11. CASE UNCHANGED proc
  BY <1>11, Zenon
<1> QED
  BY <1>1, <1>2, <1>3, <1>4, <1>7, <1>8, <1>9, <1>10, <1>11, Zenon
  DEF Next, Step, FaultyStep, LockExpire, CacheExpire, vars

-----------------------------------------------------------------------------
(* The inductive invariant of the sessions and URLs *)

Grounded == TypeOK /\ RequestGrounded /\ ChargedAsAsked /\ UrlsAreLive

\* A request's view of its order stays true.
LEMMA RequestGroundedStep ==
  ASSUME Grounded, [Next]_vars, TypeOK'
  PROVE  RequestGrounded'
<1> USE DEF Grounded
<1> SUFFICES ASSUME NEW p \in Procs, proc'[p].pc # "idle"
             PROVE  /\ proc'[p].pc # "lookup" => proc'[p].material = row'[proc'[p].order].material
                    /\ proc'[p].pc \in {"persist", "save"} =>
                         proc'[p].session \in sessions' /\ proc'[p].session.order = proc'[p].order
  BY Zenon DEF RequestGrounded
<1>1. ASSUME proc[p].pc # "idle", proc[p].pc # "lookup"
      PROVE  /\ proc[p].order \in Orders
             /\ row'[proc[p].order].material = proc[p].material
  BY <1>1, ProcFacts, RowWriters DEF RequestGrounded, Known
<1>2. proc[p].pc \in {"persist", "save"} => proc[p].session \in sessions' /\ proc[p].session.order = proc[p].order
  BY SessionWriters, Zenon DEF RequestGrounded
<1> QED BY <1>1, <1>2, ProcWriters, Zenon DEF ReadsRow

\* Every session is for what its order was accepted for, and every URL given
\* out is for what was asked.
LEMMA ChargedStep ==
  ASSUME Grounded, [Next]_vars, TypeOK'
  PROVE  ChargedAsAsked'
<1> USE DEF Grounded
<1>1. ASSUME NEW s \in sessions'
      PROVE  (Exists(s.order) /\ s.material = row[s.order].material)'
  <2>1. s.order \in Orders
    BY <1>1, Zenon DEF TypeOK, Sessions
  <2>2. Exists(s.order) /\ s.material = row[s.order].material
    <3>1. CASE s \in sessions
      BY <3>1, Zenon DEF ChargedAsAsked
    <3>2. CASE s \notin sessions
      BY <1>1, <3>2, SessionWriters, ProcFacts DEF RequestGrounded, Known
    <3> QED BY <3>1, <3>2, Zenon
  <2>3. row'[s.order].material = row[s.order].material
    BY <2>1, <2>2, RowWriters, Zenon
  <2> QED BY <2>2, <2>3, Zenon DEF Exists
<1>2. ASSUME NEW g \in given' PROVE g.session.order = g.order /\ g.session.material = g.asked
  <2>1. ASSUME NEW o \in Orders, row[o].session # None
        PROVE  row[o].session.order = o /\ row[o].session.material = row[o].material
    BY <2>1 DEF UrlsAreLive, ChargedAsAsked
  <2>2. ASSUME NEW d \in Pods, NEW o \in Orders, cache[d][o] # None
        PROVE  cache[d][o].order = o /\ cache[d][o].material = row[o].material
    BY <2>2 DEF UrlsAreLive, ChargedAsAsked
  <2>3. ASSUME NEW p \in Procs, proc[p].pc \in {"persist", "save"}
        PROVE  proc[p].session.order = proc[p].order /\ proc[p].session.material = proc[p].material
    BY <2>3, ProcFacts DEF RequestGrounded, ChargedAsAsked
  <2>4. ASSUME NEW p \in Procs, proc[p].pc \in ReadsRow
        PROVE  proc[p].material = row[proc[p].order].material
    BY <2>4, Zenon DEF RequestGrounded, ReadsRow
  <2>5. CASE g \in given
    BY <2>5, Zenon DEF ChargedAsAsked
  <2> QED BY <1>2, <2>1, <2>2, <2>3, <2>4, <2>5, GivenWriters, ProcFacts
<1> QED BY <1>1, <1>2, Zenon DEF ChargedAsAsked

\* URLs in rows, caches and answers keep leading to sessions of their order.
LEMMA UrlsStep ==
  ASSUME Grounded, [Next]_vars
  PROVE  UrlsAreLive'
<1> USE DEF Grounded
<1>0. sessions \subseteq sessions'
  BY SessionWriters, Zenon
<1>1. ASSUME NEW p \in Procs, proc[p].pc \in {"persist", "save"}
      PROVE  proc[p].session \in sessions' /\ proc[p].session.order = proc[p].order
  BY <1>0, <1>1, Zenon DEF RequestGrounded
<1>2. ASSUME NEW o \in Orders, row'[o].session # None
      PROVE  row'[o].session \in sessions' /\ row'[o].session.order = o
  BY <1>0, <1>1, <1>2, RowWriters DEF UrlsAreLive
<1>3. ASSUME NEW d \in Pods, NEW o \in Orders, cache'[d][o] # None
      PROVE  cache'[d][o] \in sessions' /\ cache'[d][o].order = o
  BY <1>0, <1>1, <1>3, CacheWriters DEF UrlsAreLive
<1>4. ASSUME NEW g \in given' PROVE g.session \in sessions'
  BY <1>0, <1>1, <1>4, GivenWriters, ProcFacts DEF UrlsAreLive
<1> QED BY <1>2, <1>3, <1>4, Zenon DEF UrlsAreLive

\* The inductive invariant holds in every state.
LEMMA AlwaysGrounded == Spec => []Grounded
<1>1. Init => Grounded
  <2>1. Init => TypeOK
    BY MaxFaultsAssumption DEF Init, TypeOK, NoRow
  <2>2. Init => RequestGrounded /\ ChargedAsAsked /\ UrlsAreLive
    BY DEF Init, RequestGrounded, ChargedAsAsked, UrlsAreLive, NoRow, Idle
  <2> QED BY <2>1, <2>2, Zenon DEF Grounded
<1>2. Grounded /\ TypeOK' /\ [Next]_vars => Grounded'
  BY RequestGroundedStep, ChargedStep, UrlsStep, Zenon DEF Grounded
<1> QED BY <1>1, <1>2, TypeCorrect, PTL DEF Spec

\* Create and Resolve never charge for, or hand out, anything but what the
\* order was accepted for and the caller asked for.
THEOREM AlwaysChargedAsAsked == Spec => []ChargedAsAsked
<1>1. Grounded => ChargedAsAsked
  BY Zenon DEF Grounded
<1> QED BY <1>1, AlwaysGrounded, PTL

\* No row, no cache entry and no answer holds a dead or foreign URL.
THEOREM AlwaysLiveUrls == Spec => []UrlsAreLive
<1>1. Grounded => UrlsAreLive
  BY Zenon DEF Grounded
<1> QED BY <1>1, AlwaysGrounded, PTL

-----------------------------------------------------------------------------
(* One session per key, one per order in lazy mode *)

\* Whatever modes the pods run in, the resolver opens at most one session for
\* an order, whatever happens to the lock, the row and the pods: its key fixes
\* the order, and the row fixes the material.
THEOREM ResolverOpensOnlyOne == Spec => []ResolverOpensOne
<1>1. Grounded => ResolverOpensOne
  BY DEF Grounded, ResolverOpensOne, ChargedAsAsked, TypeOK, Sessions, Keys
<1> QED BY <1>1, AlwaysGrounded, PTL

\* With LazyCheckout on in every pod, the eager path is never entered, so only the
\* resolver's idempotency key is used.
LEMMA AlwaysLazyKeyOnly == Spec => []LazyKeyOnly
<1>1. Init => LazyKeyOnly
  BY DEF Init, LazyKeyOnly, Idle
<1>2. TypeOK /\ LazyKeyOnly /\ [Next]_vars => LazyKeyOnly'
  <2> SUFFICES ASSUME TypeOK, LazyKeyOnly, [Next]_vars, Lazy = Pods
               PROVE  /\ \A s \in sessions' : s.key = "checkout"
                      /\ \A p \in Procs : proc'[p].pc # "stripe"
    BY Zenon DEF LazyKeyOnly
  <2>1. \A s \in sessions' : s.key = "checkout"
    BY SessionWriters, Zenon DEF LazyKeyOnly
  <2>2. \A p \in Procs : proc'[p].pc # "stripe"
    BY ProcWriters, Zenon DEF LazyKeyOnly
  <2> QED BY <2>1, <2>2, Zenon
<1> QED BY <1>1, <1>2, TypeCorrect, PTL DEF Spec

\* With LazyCheckout on in every pod, an order has at most one session at
\* Stripe: the resolver's.
THEOREM LazyOneSession == ASSUME Lazy = Pods PROVE Spec => []OneSessionPerOrder
<1>1. Grounded /\ LazyKeyOnly => OneSessionPerOrder
  BY DEF Grounded, LazyKeyOnly, OneSessionPerOrder, ChargedAsAsked, TypeOK, Sessions
<1> QED BY <1>1, AlwaysGrounded, AlwaysLazyKeyOnly, PTL

-----------------------------------------------------------------------------
(* The lock *)

\* A request under the lock loses it only to its own TTL: releaseScript deletes
\* a key only when it holds the caller's token.
THEOREM LockIsHeld == Spec => []LockHeld
<1>1. Init => LockHeld
  BY DEF Init, LockHeld, Idle, Critical
<1>2. TypeOK /\ LockHeld /\ [Next]_vars => LockHeld'
  <2> SUFFICES ASSUME TypeOK, LockHeld, [Next]_vars,
                      NEW p \in Procs, proc'[p].pc \in Critical, p \notin lapsed'
               PROVE  lock'[proc'[p].order] = p
    BY Zenon DEF LockHeld
  <2> USE DEF Critical
  <2>1. ASSUME NEW q \in Procs, Acquire(q) PROVE lock'[proc'[p].order] = p
    <3>1. proc[q].order \in Orders /\ lapsed' = lapsed
      BY <2>1, ProcFacts, Zenon DEF Acquire
    <3>2. CASE p = q
      BY <2>1, <3>1, <3>2 DEF Acquire, Goto, TypeOK
    <3>3. CASE p # q
      <4>1. proc'[p] = proc[p]
        BY <2>1, <3>3, Zenon DEF Acquire, Goto, TypeOK
      <4>2. lock[proc[p].order] = p /\ proc[p].order \in Orders
        BY <3>1, <4>1, ProcFacts, Zenon DEF LockHeld
      <4> QED BY <2>1, <3>1, <4>1, <4>2, ZenonT(30) DEF Acquire, TypeOK
    <3> QED BY <3>2, <3>3, SMTT(30)
  <2>2. ASSUME NEW q \in Procs, AcquireFault(q) PROVE lock'[proc'[p].order] = p
    <3>1. proc[q].order \in Orders /\ lapsed' = lapsed
      BY <2>2, ProcFacts, Zenon DEF AcquireFault
    <3>2. proc'[p] = proc[p]
      BY <2>2, Zenon DEF AcquireFault, Goto, TypeOK
    <3>3. lock[proc[p].order] = p /\ proc[p].order \in Orders
      BY <3>1, <3>2, ProcFacts, Zenon DEF LockHeld
    <3> QED BY <2>2, <3>1, <3>2, <3>3, ZenonT(30) DEF AcquireFault, TypeOK
  <2>3. ASSUME NEW q \in Procs, Release(q) PROVE lock'[proc'[p].order] = p
    <3>1. proc[q].order \in Orders /\ lapsed' = lapsed \ {q}
      BY <2>3, ProcFacts, Zenon DEF Release
    <3>2. p # q /\ proc'[p] = proc[p]
      BY <2>3, Zenon DEF Release, End, Idle, TypeOK
    <3>3. lock[proc[p].order] = p /\ proc[p].order \in Orders
      BY <3>1, <3>2, ProcFacts, Zenon DEF LockHeld
    <3> QED BY <2>3, <3>1, <3>2, <3>3, Zenon DEF Release, TypeOK
  <2>4. ASSUME NEW o \in Orders, LockExpire(o) PROVE lock'[proc'[p].order] = p
    <3>1. proc' = proc /\ p \notin lapsed
      BY <2>4, Zenon DEF LockExpire
    <3>2. lock[proc[p].order] = p /\ proc[p].order \in Orders
      BY <3>1, ProcFacts, Zenon DEF LockHeld
    <3>3. proc[p].order # o
      BY <2>4, <3>1, <3>2, Zenon DEF LockExpire
    <3> QED BY <2>4, <3>1, <3>2, <3>3, SMTT(30) DEF LockExpire, TypeOK
  <2>5. ASSUME UNCHANGED lock, lapsed \subseteq lapsed' \cup {q \in Procs : proc'[q] = Idle},
               proc'[p].order = proc[p].order, proc[p].pc \in Critical
        PROVE  lock'[proc'[p].order] = p
    BY <2>5 DEF LockHeld, Idle
  <2>6. ASSUME NEW q \in Procs, End(q) \/ (Goto(q, "acquire") /\ p # q) PROVE proc'[p] = proc[p]
    BY <2>6 DEF End, Goto, Idle, TypeOK
  <2>7. ASSUME NEW q \in Procs, NEW pc, Goto(q, pc), pc \in Critical => proc[q].pc \in Critical
        PROVE  proc'[p].order = proc[p].order /\ proc[p].pc \in Critical
    BY <2>7, SMTT(30) DEF Goto, TypeOK
  <2>8. CASE \E q \in Procs : Load(q) \/ resolveAfterLock(q) \/ Recheck(q)
    BY <2>5, <2>6, <2>7, <2>8, Zenon DEF Load, resolveAfterLock, Recheck, Serve
  <2>9. CASE \E q \in Procs : Save(q) \/ RecheckFault(q) \/ CallFault(q)
    BY <2>5, <2>7, <2>9, Zenon DEF Save, RecheckFault, CallFault
  <2>10. CASE \E q \in Procs : CreateLookup(q) \/ EagerPersist(q) \/ RequestFault(q) \/ EagerFault(q)
    BY <2>5, <2>6, <2>10, Zenon DEF CreateLookup, EagerPersist, RequestFault, EagerFault
  <2>11. ASSUME NEW q \in Procs, ReleaseFault(q) PROVE lock'[proc'[p].order] = p
    <3>1. p # q /\ proc'[p] = proc[p]
      BY <2>11, Zenon DEF ReleaseFault, End, Idle, TypeOK
    <3> QED BY <2>11, <3>1, SMTT(30) DEF ReleaseFault, LockHeld
  <2>12. ASSUME NEW q \in Procs, EagerCall(q) \/ createSession(q) PROVE lock'[proc'[p].order] = p
    <3>1. proc'[p].order = proc[p].order /\ proc[p].pc \in Critical
      BY <2>12, SMTT(30) DEF EagerCall, createSession, TypeOK
    <3> QED BY <2>5, <2>12, <3>1, Zenon DEF EagerCall, createSession
  <2>13. ASSUME NEW q \in Procs, NEW o \in Orders,
                Open(q, o) \/ \E m \in Materials : CreateInsert(q, o, m) \/ CreateDuplicate(q, o, m)
         PROVE  lock'[proc'[p].order] = p
    <3>1. proc'[p] = proc[p]
      BY <2>13, SMTT(30) DEF Open, OpenHit, OpenMiss, CreateInsert, CreateDuplicate, TypeOK
    <3> QED BY <2>5, <2>13, <3>1, SMTT(60) DEF Open, OpenHit, OpenMiss, CreateInsert, CreateDuplicate
  <2>14. CASE \E d \in Pods : Crash(d)
    BY <2>14 DEF Crash, LockHeld, Idle
  <2>15. CASE UNCHANGED <<lock, lapsed, proc>>
    BY <2>15, Zenon DEF LockHeld
  <2> QED
    BY <2>1, <2>2, <2>3, <2>4, <2>8, <2>9, <2>10, <2>11, <2>12, <2>13, <2>14, <2>15, Zenon
    DEF Next, Step, FaultyStep, CacheExpire, vars
<1> QED BY <1>1, <1>2, TypeCorrect, PTL DEF Spec

-----------------------------------------------------------------------------
(* The size of the URL cache *)

Fits(S) == IsFiniteSet(S) /\ Cardinality(S) <= CacheSize

\* A part of what fits, fits.
LEMMA FitsPart ==
  ASSUME NEW S, Fits(S), NEW T \in SUBSET S
  PROVE  Fits(T)
<1>1. IsFiniteSet(T) /\ Cardinality(T) <= Cardinality(S) BY FS_Subset, Zenon DEF Fits
<1>2. Cardinality(T) \in Nat /\ Cardinality(S) \in Nat BY <1>1, FS_CardinalityType, Zenon DEF Fits
<1> QED BY <1>1, <1>2, CacheSizeAssumption DEF Fits

\* There is room for one more where the set was not full, or has lost an element.
LEMMA FitsOneMore ==
  ASSUME NEW S, Fits(S), NEW o, NEW T \in SUBSET (S \cup {o}),
         \/ ~ (Cardinality(S) >= CacheSize)
         \/ \E x \in S : x = o \/ x \notin T
  PROVE  Fits(T)
<1>1. IsFiniteSet(S) /\ Cardinality(S) \in Nat /\ Cardinality(S) <= CacheSize
  BY FS_CardinalityType, Zenon DEF Fits
<1>2. CASE ~ (Cardinality(S) >= CacheSize)
  <2>1. IsFiniteSet(S \cup {o}) /\ Cardinality(S \cup {o}) \in {Cardinality(S), Cardinality(S) + 1}
    BY <1>1, FS_AddElement, Zenon
  <2>2. Fits(S \cup {o}) BY <1>1, <1>2, <2>1, CacheSizeAssumption DEF Fits
  <2> QED BY <2>2, FitsPart, Zenon
<1>3. ASSUME NEW x \in S, x = o PROVE Fits(T)
  <2>1. T \in SUBSET S BY <1>3, Zenon
  <2> QED BY <2>1, FitsPart, Zenon
<1>4. ASSUME NEW x \in S, x \notin T PROVE Fits(T)
  <2> DEFINE R == S \ {x}
  <2>1. IsFiniteSet(R) /\ Cardinality(R) = Cardinality(S) - 1 BY <1>1, FS_RemoveElement, Zenon
  <2>2. T \in SUBSET (R \cup {o}) BY <1>4, Zenon
  <2> HIDE DEF R
  <2>3. IsFiniteSet(R \cup {o}) /\ Cardinality(R \cup {o}) \in {Cardinality(R), Cardinality(R) + 1}
    BY <2>1, FS_AddElement, Zenon
  <2>4. Fits(R \cup {o}) BY <1>1, <2>1, <2>3, CacheSizeAssumption DEF Fits
  <2> QED BY <2>2, <2>4, FitsPart, Zenon
<1> QED BY <1>2, <1>3, <1>4, Zenon

\* A Put leaves the cache of every pod within its size.
LEMMA PutFits ==
  ASSUME TypeOK, CacheBounded, NEW p \in Procs, NEW o \in Orders, NEW s, Put(p, o, s)
  PROVE  CacheBounded'
<1> SUFFICES ASSUME NEW d \in Pods PROVE Fits(CachedOn(d)')
  BY Zenon DEF CacheBounded, Fits
<1>1. Fits(CachedOn(d)) BY Zenon DEF CacheBounded, Fits
<1>2. PICK out \in IF Cardinality(CachedOn(PodOf[p])) >= CacheSize THEN CachedOn(PodOf[p]) ELSE {o} :
        cache' = [cache EXCEPT ![PodOf[p]] = [q \in Orders |->
                    IF q = o THEN s ELSE IF q = out THEN None ELSE cache[PodOf[p]][q]]]
  BY Zenon DEF Put, CachedOn
<1>3. cache \in [Pods -> [Orders -> Sessions \cup {None}]] BY Zenon DEF TypeOK
<1>4. CASE d # PodOf[p]
  <2>1. cache'[d] = cache[d] BY <1>2, <1>3, <1>4, Zenon
  <2> QED BY <1>1, <2>1, Zenon DEF CachedOn
<1>5. CASE d = PodOf[p]
  <2>1. \A q \in Orders : cache'[d][q] = IF q = o THEN s ELSE IF q = out THEN None ELSE cache[d][q]
    BY <1>2, <1>3, <1>5, Zenon
  <2>2. CachedOn(d)' \in SUBSET (CachedOn(d) \cup {o}) /\ (out = o \/ out \notin CachedOn(d)')
    BY <2>1, Zenon DEF CachedOn
  <2>3. \/ ~ (Cardinality(CachedOn(d)) >= CacheSize)
        \/ out \in CachedOn(d)
    BY <1>2, <1>5, Zenon
  <2> QED BY <1>1, <2>2, <2>3, FitsOneMore, Zenon
<1> QED BY <1>4, <1>5, Zenon

\* The URL cache of a pod stays within its size: for every size, number of
\* orders and number of requests that fill it at the same time.
THEOREM CacheStaysBounded == Spec => []CacheBounded
<1>1. Init => CacheBounded
  <2> SUFFICES ASSUME Init, NEW d \in Pods PROVE Fits(CachedOn(d))
    BY Zenon DEF CacheBounded, Fits
  <2>1. CachedOn(d) = {} BY Zenon DEF Init, CachedOn
  <2> QED BY <2>1, FS_EmptySet, CacheSizeAssumption DEF Fits
<1>2. TypeOK /\ CacheBounded /\ [Next]_vars => CacheBounded'
  <2> SUFFICES ASSUME TypeOK, CacheBounded, [Next]_vars PROVE CacheBounded'
    BY Zenon
  <2>1. CASE cache' = cache BY <2>1, Zenon DEF CacheBounded, CachedOn
  <2>2. ASSUME NEW p \in Procs, NEW next, Serve(p, next), proc[p].pc # "idle" PROVE CacheBounded'
    BY <2>2, ProcFacts, PutFits, Zenon DEF Serve
  <2>3. ASSUME NEW p \in Procs, Save(p) PROVE CacheBounded'
    <3>1. proc[p].order \in Orders BY <2>3, ProcFacts, Zenon DEF Save
    <3> QED BY <2>3, <3>1, PutFits, Zenon DEF Save
  <2>4. ASSUME \A d \in Pods, o \in Orders : cache'[d][o] \in {None, cache[d][o]} PROVE CacheBounded'
    <3> SUFFICES ASSUME NEW d \in Pods PROVE Fits(CachedOn(d)')
      BY Zenon DEF CacheBounded, Fits
    <3>1. Fits(CachedOn(d)) BY Zenon DEF CacheBounded, Fits
    <3>2. CachedOn(d)' \in SUBSET CachedOn(d) BY <2>4, Zenon DEF CachedOn
    <3> QED BY <3>1, <3>2, FitsPart, Zenon
  <2>5. CASE \E d \in Pods : Crash(d) \/ \E o \in Orders : CacheExpire(d, o)
    <3>1. cache \in [Pods -> [Orders -> Sessions \cup {None}]] BY Zenon DEF TypeOK
    <3>2. ASSUME NEW d \in Pods, Crash(d) PROVE CacheBounded'
      BY <2>4, <3>1, <3>2, Zenon DEF Crash
    <3>3. ASSUME NEW d \in Pods, NEW o \in Orders, CacheExpire(d, o) PROVE CacheBounded'
      BY <2>4, <3>1, <3>3, Zenon DEF CacheExpire
    <3> QED BY <2>5, <3>2, <3>3, Zenon
  <2>6. ASSUME NEW p \in Procs, Load(p) \/ resolveAfterLock(p) \/ Recheck(p) PROVE CacheBounded'
    BY <2>1, <2>2, <2>6, Zenon DEF Load, resolveAfterLock, Recheck
  <2>7. CASE \/ UNCHANGED vars
             \/ \E p \in Procs, o \in Orders : Open(p, o)
             \/ \E p \in Procs, o \in Orders, m \in Materials : CreateInsert(p, o, m) \/ CreateDuplicate(p, o, m)
             \/ \E p \in Procs : \/ CreateLookup(p) \/ EagerCall(p) \/ EagerPersist(p) \/ Acquire(p)
                                 \/ createSession(p) \/ Release(p) \/ FaultyStep(p)
             \/ \E o \in Orders : LockExpire(o)
    BY <2>1, <2>7, ZenonT(30) DEF vars, Open, OpenHit, OpenMiss, CreateInsert, CreateDuplicate, CreateLookup,
       EagerCall, EagerPersist, Acquire, createSession, Release, FaultyStep, RequestFault, EagerFault,
       AcquireFault, RecheckFault, CallFault, ReleaseFault, LockExpire
  <2> QED BY <2>3, <2>5, <2>6, <2>7, ZenonT(30) DEF Next, Step
<1> QED BY <1>1, <1>2, TypeCorrect, PTL DEF Spec
=============================================================================
