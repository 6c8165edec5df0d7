--------------------------- MODULE JobQueueProofs ---------------------------
(***************************************************************************)
(* Proofs about the two queues and the manager's loop, for any number of    *)
(* jobs, units and clients.                                                 *)
(***************************************************************************)
EXTENDS JobQueue, JobRegistryProofs

(***************************************************************************)
(* What one step of the whole system does to the registry.                 *)
(***************************************************************************)

\* One call of the registry that is not an ordering refresh.
RegCall ==
  \/ \E k \in Kinds, u \in Units, o \in Owners \cup {NoOwner} :
       Allocate(k, u, o)
  \/ \E id \in LiveIds : MarkRunning(id)
  \/ \E id \in LiveIds, r \in Results : Finish(id, r)
  \/ DrainEvents

\* complete_running_jobs collects proper results only.
TodoOK == \A p \in todo : p[2] \in Results

LEMMA FinishIsCall ==
  ASSUME NEW id, NEW r \in Results, Finish(id, r)
  PROVE  RegCall \/ UNCHANGED regVars
BY DEF RegCall, Finish

LEMMA MarkIsCall ==
  ASSUME NEW id, MarkRunning(id)
  PROVE  RegCall \/ UNCHANGED regVars
<1>1. CASE id \in LiveIds
  BY <1>1 DEF RegCall
<1>2. CASE id \notin LiveIds
  BY <1>2 DEF MarkRunning, regVars
<1>3. QED
  BY <1>1, <1>2

LEMMA StepIsCall ==
  ASSUME TodoOK, [Next]_vars
  PROVE  Order \/ RegCall \/ UNCHANGED regVars
<1>1. ASSUME NEW k \in ClientKinds, NEW u \in Units,
             NEW o \in Owners \cup {NoOwner}, Enqueue(k, u, o)
      PROVE  RegCall
  BY <1>1, ClientKindsAssumption DEF Enqueue, RegCall
<1>2. ASSUME NEW u \in Units, EnqueueInternal(u) PROVE UNCHANGED regVars
  BY <1>2 DEF EnqueueInternal
<1>3. "canceled" \in Results
  BY DEF Results
<1>4. ASSUME NEW id, Cancel(id) PROVE RegCall \/ UNCHANGED regVars
  BY <1>3, <1>4, FinishIsCall DEF Cancel
<1>5. ASSUME CancelAllStep PROVE RegCall \/ UNCHANGED regVars
  BY <1>3, <1>5, FinishIsCall DEF CancelAllStep
<1>6. ASSUME PublishEvents PROVE RegCall
  BY <1>6 DEF PublishEvents, RegCall
<1>7. ASSUME Mark PROVE RegCall \/ UNCHANGED regVars
  BY <1>7, MarkIsCall DEF Mark
<1>8. ASSUME Run PROVE RegCall \/ UNCHANGED regVars
  <2>1. \/ UNCHANGED regVars
        \/ \E s, ok : \E r \in IF ok THEN ImmediateResult(current.kind, s)
                                     ELSE {"failed"} : Finish(current.id, r)
    BY <1>8 DEF Run
  <2>2. ASSUME NEW s, NEW ok,
               NEW r \in IF ok THEN ImmediateResult(current.kind, s)
                               ELSE {"failed"},
               Finish(current.id, r)
        PROVE  RegCall \/ UNCHANGED regVars
    <3>1. \A x : x \in ImmediateResult(current.kind, s) => x \in Results
      BY DEF ImmediateResult, Results
    <3>2. r \in Results
      BY <2>2, <3>1 DEF Results
    <3>3. QED
      BY <2>2, <3>2, FinishIsCall
  <2>3. QED
    BY <2>1, <2>2
<1>9. ASSUME FinishSettled PROVE RegCall \/ UNCHANGED regVars
  BY <1>9, FinishIsCall DEF FinishSettled, TodoOK
<1>10. ASSUME \/ CancelAllList \/ DrainShared \/ ApplyUnitEvents \/ Retain
              \/ RetainDone \/ Score \/ ScoreDone \/ Scan \/ CheckLive
              \/ ListRunning \/ FinishDone
       PROVE  UNCHANGED regVars
  BY <1>10 DEF CancelAllList, DrainShared, ApplyUnitEvents, Retain, RetainDone,
               Score, ScoreDone, Scan, CheckLive, ListRunning, FinishDone
<1>11. ASSUME UNCHANGED vars PROVE UNCHANGED regVars
  BY <1>11 DEF vars, regVars
<1>12. QED
  BY <1>1, <1>2, <1>4, <1>5, <1>6, <1>7, <1>8, <1>9, <1>10, <1>11
  DEF Next, Client, Manager

LEMMA TodoStep ==
  ASSUME TodoOK, [Next]_vars
  PROVE  TodoOK'
<1>1. CASE ListRunning
  BY <1>1 DEF ListRunning, TodoOK
<1>2. CASE FinishSettled
  BY <1>2 DEF FinishSettled, TodoOK
<1>3. CASE Next /\ ~ListRunning /\ ~FinishSettled
  BY <1>3 DEF Next, Client, Manager, TodoOK, Enqueue, EnqueueInternal, Cancel,
     CancelAllList, CancelAllStep, DrainShared, PublishEvents,
     ApplyUnitEvents, Order, Retain, RetainDone, Score, ScoreDone, Scan,
     CheckLive, Mark, Run, FinishDone
<1>4. CASE UNCHANGED vars
  BY <1>4 DEF vars, jqVars, TodoOK
<1>5. QED
  BY <1>1, <1>2, <1>3, <1>4

\* Effect of a call on the live jobs and on the edges.
LEMMA CallEffect ==
  ASSUME RegTypeOK, RegCall \/ UNCHANGED regVars
  PROVE  /\ RegTypeOK'
         /\ before' = {p \in before : p[1] \in LiveIds' /\ p[2] \in LiveIds'}
         /\ LiveIds' \subseteq LiveIds \cup {nextId}
         /\ nextId' >= nextId
         /\ \A i \in LiveIds \cap LiveIds' :
               live'[i].kind = live[i].kind /\ live'[i].unit = live[i].unit
<1>0. nextId \in Int /\ before \subseteq LiveIds \X LiveIds
  BY DEF RegTypeOK
<1>1. ASSUME NEW k \in Kinds, NEW u \in Units,
             NEW o \in Owners \cup {NoOwner}, Allocate(k, u, o)
      PROVE  /\ LiveIds' = LiveIds \cup {nextId} /\ before' = before
             /\ nextId' = nextId + 1 /\ \A i \in LiveIds : live'[i] = live[i]
  BY <1>1 DEF Allocate, LiveIds, RegTypeOK
<1>2. ASSUME NEW id \in LiveIds, MarkRunning(id)
      PROVE  /\ LiveIds' = LiveIds /\ before' = before /\ nextId' = nextId
             /\ \A i \in LiveIds : /\ live'[i].kind = live[i].kind
                                    /\ live'[i].unit = live[i].unit
  <2>1. LiveIds' = LiveIds /\ before' = before /\ nextId' = nextId
    BY <1>2 DEF RegTypeOK, MarkRunning, LiveIds
  <2>2. \/ live' = live
        \/ live' = [live EXCEPT ![id].state = "running"]
    BY <1>2 DEF MarkRunning
  <2>3. live \in [LiveIds -> JobInfo]
    BY DEF RegTypeOK
  <2>4. QED
    BY <2>1, <2>2, <2>3 DEF JobInfo
<1>3. ASSUME NEW id \in LiveIds, NEW r \in Results, Finish(id, r)
      PROVE  /\ LiveIds' = LiveIds \ {id} /\ nextId' = nextId
             /\ before' = {p \in before : p[1] # id /\ p[2] # id}
             /\ \A i \in LiveIds' : live'[i] = live[i]
  BY <1>3 DEF Finish, LiveIds
<1>4. ASSUME DrainEvents \/ UNCHANGED regVars
      PROVE  /\ LiveIds' = LiveIds /\ live' = live
             /\ before' = before /\ nextId' = nextId
  BY <1>4 DEF DrainEvents, regVars, LiveIds
<1>5. RegTypeOK'
  <2>1. ASSUME NEW k \in Kinds, NEW u \in Units,
               NEW o \in Owners \cup {NoOwner}, Allocate(k, u, o)
        PROVE  RegTypeOK'
    BY <2>1, AllocateType
  <2>2. ASSUME NEW i \in LiveIds, MarkRunning(i) PROVE RegTypeOK'
    BY <2>2, MarkRunningType
  <2>3. ASSUME NEW i \in LiveIds, NEW r \in Results, Finish(i, r)
        PROVE  RegTypeOK'
    BY <2>3, FinishType
  <2>4. CASE DrainEvents
    BY <2>4, DrainType
  <2>5. CASE UNCHANGED regVars
    BY <2>5 DEF RegTypeOK, regVars, LiveIds
  <2>6. QED
    BY <2>1, <2>2, <2>3, <2>4, <2>5 DEF RegCall
<1>6. ASSUME NEW k \in Kinds, NEW u \in Units,
             NEW o \in Owners \cup {NoOwner}, Allocate(k, u, o)
      PROVE  before' = {p \in before : p[1] \in LiveIds' /\ p[2] \in LiveIds'}
  BY <1>0, <1>1, <1>6
<1>7. ASSUME NEW id \in LiveIds, MarkRunning(id)
      PROVE  before' = {p \in before : p[1] \in LiveIds' /\ p[2] \in LiveIds'}
  BY <1>0, <1>2, <1>7
<1>8. ASSUME NEW id \in LiveIds, NEW r \in Results, Finish(id, r)
      PROVE  before' = {p \in before : p[1] \in LiveIds' /\ p[2] \in LiveIds'}
  BY <1>0, <1>3, <1>8
<1>9. ASSUME DrainEvents \/ UNCHANGED regVars
      PROVE  before' = {p \in before : p[1] \in LiveIds' /\ p[2] \in LiveIds'}
  BY <1>0, <1>4, <1>9
<1>10. before' = {p \in before : p[1] \in LiveIds' /\ p[2] \in LiveIds'}
  BY <1>6, <1>7, <1>8, <1>9 DEF RegCall
<1>11. LiveIds' \subseteq LiveIds \cup {nextId} /\ nextId' >= nextId
  BY <1>0, <1>1, <1>2, <1>3, <1>4 DEF RegCall
<1>12. \A i \in LiveIds \cap LiveIds' :
         live'[i].kind = live[i].kind /\ live'[i].unit = live[i].unit
  BY <1>1, <1>2, <1>3, <1>4 DEF RegCall
<1>13. QED
  BY <1>5, <1>10, <1>11, <1>12

(***************************************************************************)
(* The inductive invariant.  An edge means a real obligation; after the     *)
(* refresh, and until the next, the jobs that existed then have all their   *)
(* edges; and the job a pass has chosen has no edge left.                   *)
(***************************************************************************)

Scanning == pc \in {"retain", "score", "scan", "check", "mark", "run"}

EdgesJustified ==
  \A i, j \in LiveIds : <<i, j>> \in before => MustPrecede(j, i, After)

EdgesComplete(n) ==
  \A i, j \in LiveIds :
    i < n /\ j < n /\ MustPrecede(j, i, After) => <<i, j>> \in before

Free(job) == job.id = 0 \/ GetBefore(job.id) = {}

QInv ==
  /\ RegTypeOK
  /\ TodoOK
  /\ refreshId \in 1..nextId
  /\ EdgesJustified
  /\ Scanning => EdgesComplete(refreshId)
  /\ pc = "score" /\ best # 0 => Free(pending[best])
  /\ pc \in {"check", "mark", "run"} => Free(current)

\* Between two refreshes the edges keep their meaning.
LEMMA CallKeepsEdges ==
  ASSUME RegTypeOK, RegCall \/ UNCHANGED regVars
  PROVE  /\ EdgesJustified => EdgesJustified'
         /\ \A n \in 1..nextId :
              EdgesComplete(n) =>
                \A i, j \in LiveIds' :
                  i < n /\ j < n /\ MustPrecede(j, i, After)' =>
                    <<i, j>> \in before'
         /\ \A id : GetBefore(id) = {} =>
                    {j \in LiveIds' : <<id, j>> \in before'} = {}
<1>1. /\ before' = {p \in before : p[1] \in LiveIds' /\ p[2] \in LiveIds'}
      /\ LiveIds' \subseteq LiveIds \cup {nextId}
      /\ \A i \in LiveIds \cap LiveIds' :
            live'[i].kind = live[i].kind /\ live'[i].unit = live[i].unit
  BY CallEffect
<1>2. before \subseteq LiveIds \X LiveIds /\ nextId \in Nat
      /\ LiveIds \subseteq 1..(nextId - 1)
  BY DEF RegTypeOK
<1>3. ASSUME NEW i \in LiveIds \cap LiveIds', NEW j \in LiveIds \cap LiveIds'
      PROVE  MustPrecede(j, i, After)' <=> MustPrecede(j, i, After)
  BY <1>1, <1>3 DEF MustPrecede, OrdersAsStop
<1>4. EdgesJustified => EdgesJustified'
  BY <1>1, <1>2, <1>3 DEF EdgesJustified
<1>5. ASSUME NEW n \in 1..nextId, EdgesComplete(n),
             NEW i \in LiveIds', NEW j \in LiveIds', i < n, j < n,
             MustPrecede(j, i, After)'
      PROVE  <<i, j>> \in before'
  <2>1. i \in LiveIds /\ j \in LiveIds
    BY <1>1, <1>2, <1>5
  <2>2. <<i, j>> \in before
    BY <1>3, <1>5, <2>1 DEF EdgesComplete
  <2>3. QED
    BY <1>1, <2>2
<1>6. ASSUME NEW id, GetBefore(id) = {}
      PROVE  {j \in LiveIds' : <<id, j>> \in before'} = {}
  BY <1>1, <1>2, <1>6 DEF GetBefore
<1>7. QED
  BY <1>4, <1>5, <1>6

LEMMA OrderSetsEdges ==
  ASSUME RegTypeOK, Order
  PROVE  /\ RegTypeOK' /\ EdgesJustified' /\ nextId' = nextId
         /\ refreshId' = nextId /\ pc' = "retain"
         /\ EdgesComplete(refreshId)'
<1>1. RefreshOrdering(After) /\ refreshId' = nextId /\ pc' = "retain"
  BY DEF Order
<1>2. After \in Afters
  BY AfterAssumption DEF Afters
<1>3. RegTypeOK'
  BY <1>1, <1>2, RefreshType
<1>4. /\ before' = {p \in LiveIds \X LiveIds : MustPrecede(p[2], p[1], After)}
      /\ live' = live /\ LiveIds' = LiveIds /\ nextId' = nextId
  BY <1>1 DEF RefreshOrdering, LiveIds
<1>5. \A i, j : MustPrecede(j, i, After)' <=> MustPrecede(j, i, After)
  BY <1>4 DEF MustPrecede
<1>6. EdgesJustified'
  BY <1>4, <1>5 DEF EdgesJustified
<1>7. EdgesComplete(refreshId)'
  BY <1>4, <1>5 DEF EdgesComplete
<1>8. QED
  BY <1>1, <1>3, <1>4, <1>6, <1>7

\* The manager leaves the passes only through `complete`, keeps refreshId
\* during them, and picks only a free job.
LEMMA PassKeepsChoice ==
  ASSUME [Next]_vars, ~Order,
         pc = "score" /\ best # 0 => Free(pending[best]),
         pc \in {"check", "mark", "run"} => Free(current)
  PROVE  /\ refreshId' = refreshId
         /\ Scanning' => Scanning
         /\ pc' = "score" /\ best' # 0 => Free(pending'[best'])
         /\ pc' \in {"check", "mark", "run"} => Free(current')
<1>1. CASE UNCHANGED vars
  BY <1>1 DEF vars, jqVars, Scanning
<1>2. CASE Client \/ CancelAllStep
  BY <1>2 DEF Client, Enqueue, EnqueueInternal, Cancel, CancelAllList,
     CancelAllStep, Scanning
<1>3. CASE Retain
  BY <1>3 DEF Retain, Scanning
<1>4. CASE RetainDone
  BY <1>4 DEF RetainDone, Scanning
<1>5. CASE Score
  BY <1>5 DEF Score, Scanning, Ready, Free
<1>6. CASE ScoreDone
  BY <1>6 DEF ScoreDone, Scanning
<1>7. CASE Scan
  BY <1>7 DEF Scan, Scanning, Ready, Free
<1>8. CASE CheckLive
  BY <1>8 DEF CheckLive, Scanning
<1>9. CASE Mark
  BY <1>9 DEF Mark, Scanning
<1>10. CASE Run
  BY <1>10 DEF Run, Scanning
<1>11. CASE \/ DrainShared \/ PublishEvents \/ ApplyUnitEvents \/ ListRunning
            \/ FinishSettled \/ FinishDone
  BY <1>11 DEF DrainShared, PublishEvents, ApplyUnitEvents, ListRunning,
     FinishSettled, FinishDone, Scanning
<1>12. QED
  BY <1>1, <1>2, <1>3, <1>4, <1>5, <1>6, <1>7, <1>8, <1>9, <1>10, <1>11
  DEF Next, Manager

LEMMA QInvInit == Init => QInv
<1> SUFFICES ASSUME Init PROVE QInv
  OBVIOUS
<1>1. RegTypeOK
  BY IdMaxAssumption DEF Init, RegInit, RegTypeOK, LiveIds, JobInfo
<1>2. LiveIds = {} /\ nextId = 1 /\ refreshId = 1 /\ pc = "drain" /\ todo = {}
  BY DEF Init, RegInit, LiveIds
<1>3. QED
  BY <1>1, <1>2 DEF QInv, TodoOK, EdgesJustified, Scanning

LEMMA QInvStep == QInv /\ [Next]_vars => QInv'
<1> SUFFICES ASSUME QInv, [Next]_vars PROVE QInv'
  OBVIOUS
<1>1. TodoOK'
  BY TodoStep DEF QInv
<1>2. CASE Order
  <2>1. /\ RegTypeOK' /\ EdgesJustified' /\ refreshId' = nextId'
        /\ pc' = "retain" /\ EdgesComplete(refreshId)'
    BY <1>2, OrderSetsEdges DEF QInv
  <2>2. refreshId' \in 1..nextId'
    BY <2>1 DEF RegTypeOK
  <2>3. QED
    BY <1>1, <2>1, <2>2 DEF QInv
<1>3. CASE ~Order
  <2>1. RegCall \/ UNCHANGED regVars
    BY <1>3, StepIsCall DEF QInv
  <2>2. RegTypeOK' /\ nextId' >= nextId
    BY <2>1, CallEffect DEF QInv
  <2>3. /\ refreshId' = refreshId
        /\ Scanning' => Scanning
        /\ pc' = "score" /\ best' # 0 => Free(pending'[best'])
        /\ pc' \in {"check", "mark", "run"} => Free(current')
    BY <1>3, PassKeepsChoice DEF QInv
  <2>4. refreshId' \in 1..nextId'
    BY <2>2, <2>3 DEF QInv, RegTypeOK
  <2>5. EdgesJustified'
    BY <2>1, CallKeepsEdges DEF QInv
  <2>6. Scanning' => EdgesComplete(refreshId)'
    BY <2>1, <2>3, CallKeepsEdges DEF QInv, EdgesComplete
  <2>7. \A id : GetBefore(id) = {} => GetBefore(id)' = {}
    BY <2>1, CallKeepsEdges DEF QInv, GetBefore
  <2>8. /\ pc' = "score" /\ best' # 0 => Free(pending[best])'
        /\ pc' \in {"check", "mark", "run"} => Free(current)'
    BY <2>3, <2>7 DEF Free
  <2>9. QED
    BY <1>1, <2>2, <2>4, <2>5, <2>6, <2>8 DEF QInv
<1>4. QED
  BY <1>2, <1>3

LEMMA QInvInvariant == Spec => []QInv
BY QInvInit, QInvStep, PTL DEF Spec

(***************************************************************************)
(* Theorems                                                                *)
(***************************************************************************)

\* The registry keeps its type while the queues, the manager's loop and any
\* number of clients use it.
THEOREM QueueKeepsRegistryType == Spec => []RegTypeOK
<1>1. QInv => RegTypeOK
  BY DEF QInv
<1>2. QED
  BY <1>1, QInvInvariant, PTL

\* Ordering holds at the moment of execution (run_ready_jobs): the job about
\* to run has no live predecessor among the jobs present at the refresh.
THEOREM OrderIsRespected == Spec => []OrderRespected
<1>1. QInv => OrderRespected
  <2> SUFFICES ASSUME QInv, pc \in {"check", "mark", "run"},
                      current.id \in LiveIds, current.id < refreshId,
                      NEW j \in LiveIds, j < refreshId,
                      MustPrecede(j, current.id, After)
               PROVE  FALSE
    BY DEF OrderRespected
  <2>1. <<current.id, j>> \in before
    BY DEF QInv, EdgesComplete, Scanning
  <2>2. current.id # 0
    BY DEF QInv, RegTypeOK
  <2>3. GetBefore(current.id) = {}
    BY <2>2 DEF QInv, Free
  <2>4. QED
    BY <2>1, <2>3 DEF GetBefore
<1>2. QED
  BY <1>1, QInvInvariant, PTL

\* When After= is acyclic (some ranking of the units decreases along it) the
\* queue never locks itself up: a non-empty set of live jobs always has one
\* with no predecessor, whatever mix of starts, stops and restarts it holds.
THEOREM AcyclicNeverLocks ==
  ASSUME NEW CONSTANT N \in Nat, NEW CONSTANT rank \in [Units -> 0..N],
         \A u \in Units : \A d \in After[u] : rank[d] < rank[u]
  PROVE  Spec => []SomeJobUnblocked
<1>1. QInv => SomeJobUnblocked
  <2> SUFFICES ASSUME QInv, LiveIds # {}
               PROVE  \E i \in LiveIds : GetBefore(i) = {}
    BY DEF SomeJobUnblocked
  <2>1. live \in [LiveIds -> JobInfo] /\ After \in Afters
    BY AfterAssumption DEF QInv, RegTypeOK, Afters
  <2>2. PICK i \in LiveIds : \A j \in LiveIds : ~MustPrecede(j, i, After)
    BY <2>1, AcyclicHasReady
  <2>3. QED
    BY <2>2 DEF QInv, EdgesJustified, GetBefore
<1>2. QED
  BY <1>1, QInvInvariant, PTL

\* Everything the system does to the registry is something the registry's own
\* specification allows: what holds of the registry alone holds of it in use.
THEOREM QueueUsesRegistry == Spec => RegSpec
<1>1. Init => RegInit
  BY DEF Init
<1>2. QInv /\ [Next]_vars => [RegNext]_regVars
  <2> SUFFICES ASSUME QInv, [Next]_vars PROVE [RegNext]_regVars
    OBVIOUS
  <2>1. LiveIds \subseteq 1..IdMax
    BY IdMaxAssumption DEF QInv, RegTypeOK
  <2>2. CASE Order
    BY <2>2, AfterAssumption DEF Order, RegNext, Afters
  <2>3. CASE RegCall
    BY <2>1, <2>3 DEF RegCall, RegNext
  <2>4. QED
    BY <2>2, <2>3, StepIsCall DEF QInv
<1>3. QED
  BY <1>1, <1>2, QInvInvariant, PTL DEF Spec, RegSpec
=============================================================================
