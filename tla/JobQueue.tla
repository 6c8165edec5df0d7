------------------------------ MODULE JobQueue ------------------------------
(***************************************************************************)
(* Two job queues over one registry (src/job.rs, JobQueue) and the loop that *)
(* works them off (src/manager.rs, run_inner).                              *)
(*                                                                          *)
(*  - clients (control socket, D-Bus, timers, sockets) work on `shared`,    *)
(*    whose mutex they hold for a whole call;                               *)
(*  - the manager thread moves `shared` into `pending`, orders, picks one   *)
(*    ready job, runs it and finishes the jobs whose unit has settled.      *)
(*                                                                          *)
(* The manager takes the registry lock once per question, so a client can   *)
(* enqueue or cancel between any two of its questions: `pc` has one value   *)
(* per lock acquisition.  What the units do is reduced to their state: a    *)
(* run job starts or stops its unit, and the unit settles later.  Isolate   *)
(* jobs and targets are in Transaction, one service's life in Service.      *)
(***************************************************************************)
EXTENDS JobRegistry, SequencesExt

CONSTANTS
  After,        \* unit -> the units it is After= (inverse Before= included)
  ClientKinds,  \* the kinds of job clients ask for
  Returning,    \* the units a stop may leave active, see Progress
  MaxInternal   \* bound: unexported start jobs (automatic restarts)

ASSUME AfterAssumption == After \in [Units -> SUBSET Units]
ASSUME ClientKindsAssumption == ClientKinds \subseteq Kinds \ {"isolate"}
ASSUME ReturningAssumption == Returning \subseteq Units

VARIABLES
  shared,       \* queue the clients append to
  pending,      \* the manager's own queue
  clearing,     \* ids cancel_all has still to cancel; holds `shared`'s mutex
  ustate,       \* unit -> lifecycle state
  pc,           \* where the manager is in its loop
  idx,          \* position reached by a pass over `pending`
  best,         \* position of the best-scored ready job so far, 0 for none
  current,      \* the job taken out of `pending`, or NoJob
  todo,         \* <<id, result>> pairs complete_running_jobs has to finish
  internal,     \* unexported jobs queued so far
  refreshId,    \* nextId when ordering was last rebuilt
  ran,          \* exported jobs executed, in order
  told          \* id -> the last signal published for it

jqVars == <<shared, pending, clearing, ustate, pc, idx, best, current, todo,
            internal, refreshId, ran, told>>
vars == <<regVars, jqVars>>

UnitStates == {"inactive", "activating", "active", "deactivating", "failed",
               "maintenance"}
Settled == UnitStates \ {"activating", "deactivating"}
Job == [id : 0..IdMax, kind : Kinds, unit : Units]
NoJob == [id |-> -1, kind |-> "nop", unit |-> "none"]

Exported(job) == job.id # 0
LiveOrInternal(job) == job.id = 0 \/ job.id \in LiveIds

(***************************************************************************)
(* Clients                                                                 *)
(***************************************************************************)

\* enqueue_owned on the shared queue.
Enqueue(kind, unit, owner) ==
  /\ clearing = {}
  /\ Allocate(kind, unit, owner)
  /\ shared' = Append(shared, [id |-> nextId, kind |-> kind, unit |-> unit])
  /\ UNCHANGED <<pending, clearing, ustate, pc, idx, best, current, todo,
                 internal, refreshId, ran, told>>

\* enqueue_internal on the shared queue: a restart timer has fired.
EnqueueInternal(unit) ==
  /\ clearing = {}
  /\ internal < MaxInternal
  /\ internal' = internal + 1
  /\ shared' = Append(shared, [id |-> 0, kind |-> "start", unit |-> unit])
  /\ UNCHANGED regVars
  /\ UNCHANGED <<pending, clearing, ustate, pc, idx, best, current, todo,
                 refreshId, ran, told>>

\* cancel: drop the job from this queue, then from the registry.  An entry
\* in the manager's queue stays behind.
Cancel(id) ==
  /\ clearing = {}
  /\ id # 0
  /\ shared' = SelectSeq(shared, LAMBDA job : job.id # id)
  /\ Finish(id, "canceled")
  /\ UNCHANGED <<pending, clearing, ustate, pc, idx, best, current, todo,
                 internal, refreshId, ran, told>>

\* cancel_all: list the live jobs under the queue's mutex ...
CancelAllList ==
  /\ clearing = {}
  /\ LiveIds # {}
  /\ clearing' = LiveIds
  /\ UNCHANGED regVars
  /\ UNCHANGED <<shared, pending, ustate, pc, idx, best, current, todo,
                 internal, refreshId, ran, told>>

\* ... and cancel them in identifier order, the manager running in between.
CancelAllStep ==
  \E id \in clearing :
    /\ \A other \in clearing : id <= other
    /\ clearing' = clearing \ {id}
    /\ shared' = SelectSeq(shared, LAMBDA job : job.id # id)
    /\ Finish(id, "canceled")
    /\ UNCHANGED <<pending, ustate, pc, idx, best, current, todo, internal,
                   refreshId, ran, told>>

Client ==
  \/ \E k \in ClientKinds, u \in Units, o \in Owners \cup {NoOwner} :
       Enqueue(k, u, o)
  \/ \E u \in Units : EnqueueInternal(u)
  \/ \E id \in 1..IdMax : id < nextId /\ Cancel(id)
  \/ CancelAllList

(***************************************************************************)
(* The manager's loop                                                      *)
(***************************************************************************)

\* Mutated: what was pending is overwritten by what was shared.
DrainSharedOverwrites ==
  /\ pc = "drain"
  /\ clearing = {}
  /\ pending' = SelectSeq(shared, LiveOrInternal)
  /\ shared' = <<>>
  /\ pc' = "publish"
  /\ UNCHANGED regVars
  /\ UNCHANGED <<clearing, ustate, idx, best, current, todo, internal,
                 refreshId, ran, told>>

\* Step 1: move the shared queue into the main queue.  pop_front and
\* push_existing both skip a job that is no longer live.
DrainShared ==
  /\ pc = "drain"
  /\ clearing = {}
  /\ pending' = pending \o SelectSeq(shared, LiveOrInternal)
  /\ shared' = <<>>
  /\ pc' = "publish"
  /\ UNCHANGED regVars
  /\ UNCHANGED <<clearing, ustate, idx, best, current, todo, internal,
                 refreshId, ran, told>>

\* The last event of a job in a queue of events.
LastTold(id) ==
  LET mine == {n \in 1..Len(events) : events[n].id = id}
  IN  IF mine = {} THEN told[id]
      ELSE events[CHOOSE n \in mine : \A m \in mine : m <= n].type

\* publish_job_events, before the jobs run and again after they completed.
PublishEvents ==
  /\ pc \in {"publish", "republish"}
  /\ told' = [id \in 1..IdMax |-> LastTold(id)]
  /\ DrainEvents
  /\ pc' = IF pc = "publish" THEN "apply" ELSE "poll"
  /\ UNCHANGED <<shared, pending, clearing, ustate, idx, best, current, todo,
                 internal, refreshId, ran>>

\* What exits, readiness, timeouts, OOM kills and reset-failed may make of a
\* unit between two looks at it.  A service on its way down may become active:
\* the starter of a Type=forking one exits cleanly after the stop, or the exit
\* after a start timeout counts as the start (ExitType=cgroup, RestartMode=direct).
Progress(u) ==
  LET s == ustate[u]
      back == IF u \in Returning THEN {"active"} ELSE {}
  IN  CASE s = "activating" -> {s, "active", "inactive", "failed", "deactivating"}
        [] s = "active" -> {s, "inactive", "failed", "deactivating"}
        [] s = "deactivating" -> {s, "inactive", "failed"} \cup back
        [] s \in {"failed", "maintenance"} -> {s, "inactive"}
        [] OTHER -> {s}

\* Steps 2a and 3, and 2b after the poll.  A unit whose process is gone while
\* a restart is pending gets an unexported start job in the main queue.
ApplyUnitEvents ==
  /\ pc \in {"apply", "poll"}
  /\ \E moved \in [Units -> UnitStates] :
       /\ \A u \in Units : moved[u] \in Progress(u)
       /\ ustate' = moved
       /\ \/ UNCHANGED <<pending, internal>>
          \/ \E u \in Units :
               /\ ustate[u] = "deactivating"
               /\ moved[u] \in {"inactive", "failed"}
               /\ internal < MaxInternal
               /\ internal' = internal + 1
               /\ pending' = Append(pending,
                                [id |-> 0, kind |-> "start", unit |-> u])
  /\ pc' = IF pc = "apply" THEN "order" ELSE "drain"
  /\ UNCHANGED regVars
  /\ UNCHANGED <<shared, clearing, idx, best, current, todo, refreshId, ran,
                 told>>

\* Step 4: rebuild the ordering edges and snapshot the unit states.
Order ==
  /\ pc = "order"
  /\ RefreshOrdering(After)
  /\ refreshId' = nextId
  /\ idx' = 1
  /\ pc' = "retain"
  /\ UNCHANGED <<shared, pending, clearing, ustate, best, current, todo,
                 internal, ran, told>>

\* pop_ready_by, first pass: forget entries whose job is gone.
Retain ==
  /\ pc = "retain"
  /\ idx <= Len(pending)
  /\ IF LiveOrInternal(pending[idx])
       THEN idx' = idx + 1 /\ UNCHANGED pending
       ELSE pending' = RemoveAt(pending, idx) /\ UNCHANGED idx
  /\ UNCHANGED regVars
  /\ UNCHANGED <<shared, clearing, ustate, pc, best, current, todo, internal,
                 refreshId, ran, told>>

RetainDone ==
  /\ pc = "retain"
  /\ idx > Len(pending)
  /\ pc' = "score"
  /\ idx' = 1
  /\ best' = 0
  /\ UNCHANGED regVars
  /\ UNCHANGED <<shared, pending, clearing, ustate, current, todo, internal,
                 refreshId, ran, told>>

\* A start job waits for the units its own unit is After=; nothing else does.
JobIsReady(job) ==
  job.kind = "start" => \A dep \in After[job.unit] : ustate[dep] \in Settled

Ready(job) == (job.id = 0 \/ GetBefore(job.id) = {}) /\ JobIsReady(job)

\* Second pass: every ready job is scored.  Scores come from a predictor and
\* are arbitrary, not-a-number included: a ready job may or may not beat the
\* best one so far.
Score ==
  /\ pc = "score"
  /\ idx <= Len(pending)
  /\ idx' = idx + 1
  /\ \/ Ready(pending[idx]) /\ best' = idx
     \/ best' = best
  /\ UNCHANGED regVars
  /\ UNCHANGED <<shared, pending, clearing, ustate, pc, current, todo,
                 internal, refreshId, ran, told>>

\* The best-scored job is taken; without one the first ready job is looked
\* for again.
ScoreDone ==
  /\ pc = "score"
  /\ idx > Len(pending)
  /\ IF best # 0
       THEN /\ current' = pending[best]
            /\ pending' = RemoveAt(pending, best)
            /\ pc' = "check"
       ELSE /\ pc' = "scan"
            /\ UNCHANGED <<current, pending>>
  /\ idx' = 1
  /\ best' = 0
  /\ UNCHANGED regVars
  /\ UNCHANGED <<shared, clearing, ustate, todo, internal, refreshId,
                 ran, told>>

\* Third pass (and pop_ready): the first ready job.
Scan ==
  /\ pc = "scan"
  /\ IF idx > Len(pending)
       THEN pc' = "complete" /\ idx' = 1 /\ UNCHANGED <<current, pending>>
       ELSE IF Ready(pending[idx])
         THEN /\ current' = pending[idx]
              /\ pending' = RemoveAt(pending, idx)
              /\ pc' = "check"
              /\ idx' = 1
         ELSE idx' = idx + 1 /\ UNCHANGED <<pc, current, pending>>
  /\ UNCHANGED regVars
  /\ UNCHANGED <<shared, clearing, ustate, best, todo, internal, refreshId,
                 ran, told>>

\* Mutated: the job is not looked up again before it runs.
CheckLiveSkipped ==
  /\ pc = "check"
  /\ pc' = "mark"
  /\ UNCHANGED regVars
  /\ UNCHANGED <<shared, pending, clearing, ustate, idx, best, current, todo,
                 internal, refreshId, ran, told>>

\* run_ready_jobs: a job that vanished since it was picked is skipped.
CheckLive ==
  /\ pc = "check"
  /\ IF LiveOrInternal(current)
       THEN pc' = "mark" /\ UNCHANGED current
       ELSE pc' = "complete" /\ current' = NoJob
  /\ UNCHANGED regVars
  /\ UNCHANGED <<shared, pending, clearing, ustate, idx, best, todo, internal,
                 refreshId, ran, told>>

\* mark_running; its answer is not looked at.
Mark ==
  /\ pc = "mark"
  /\ IF Exported(current) THEN MarkRunning(current.id) ELSE UNCHANGED regVars
  /\ pc' = "run"
  /\ UNCHANGED <<shared, pending, clearing, ustate, idx, best, current, todo,
                 internal, refreshId, ran, told>>

\* The states a unit may be in after run_job: a start only acts on an
\* inactive or failed unit, a stop leaves it inactive, failed or still
\* deactivating, a restart does one after the other when it can.
AfterRun(kind, s) ==
  CASE kind = "start" ->
         IF s \in {"inactive", "failed"}
           THEN {"inactive", "activating", "active", "failed"} ELSE {s}
    [] kind = "stop" -> {"inactive", "failed"} \cup
                        (IF s = "inactive" THEN {} ELSE {"deactivating"})
    [] kind = "restart" ->
         IF s \in {"activating", "active"}
           THEN {"deactivating", "inactive", "activating", "active", "failed"}
         ELSE IF s \in {"inactive", "failed"}
           THEN {"inactive", "activating", "active", "failed"} ELSE {s}
    [] OTHER -> {s}

\* The jobs whose run may report an error: any but a no-op.  A stop of a mount,
\* swap or path unit can.
MayFail(kind) == kind \in {"start", "stop", "restart", "reload"}

\* immediate_job_result: the results of a job whose run succeeded, none when
\* the unit has still to settle.
ImmediateResult(kind, s) ==
  CASE kind \in {"nop", "reload"} -> {"done"}
    [] kind \in {"start", "restart"} ->
         IF s \in {"active", "inactive"} THEN {"done"}
         ELSE IF s \in {"failed", "maintenance"} THEN {"failed"} ELSE {}
    [] kind = "stop" ->
         IF s = "inactive" THEN {"done"}
         ELSE IF s \in {"failed", "maintenance"} THEN {"failed"} ELSE {}
    [] OTHER ->  \* isolate
         IF s \in {"failed", "maintenance"} THEN {"failed"} ELSE {}

\* run_job and what run_ready_jobs does with its outcome.  A run that reports an
\* error may have left the unit as it was.
Run ==
  /\ pc = "run"
  /\ \E ok \in IF MayFail(current.kind) THEN BOOLEAN ELSE {TRUE} :
     \E s \in AfterRun(current.kind, ustate[current.unit])
               \cup (IF ok THEN {} ELSE {ustate[current.unit]}) :
       /\ ustate' = [ustate EXCEPT ![current.unit] = s]
       /\ LET result == IF ok THEN ImmediateResult(current.kind, s)
                        ELSE {"failed"}
          IN  IF Exported(current) /\ result # {}
                THEN \E r \in result : Finish(current.id, r)
                ELSE UNCHANGED regVars
  /\ ran' = IF Exported(current) THEN Append(ran, current.id) ELSE ran
  /\ current' = NoJob
  /\ pc' = "complete"
  /\ UNCHANGED <<shared, pending, clearing, idx, best, todo, internal,
                 refreshId, told>>

\* Mutated: a start whose unit ends inactive is not over.
SettledResultForgetsInactive(kind, s) ==
  CASE kind \in {"nop", "reload"} -> {"done"}
    [] kind = "start" ->
         IF s = "active" THEN {"done"}
         ELSE IF s \in {"failed", "maintenance"} THEN {"failed"} ELSE {}
    [] kind \in {"stop", "restart"} -> ImmediateResult(kind, s)
    [] OTHER -> {}  \* isolate

\* settled_job_result: a running job whose unit has settled is over.
SettledResult(kind, s) ==
  CASE kind \in {"nop", "reload"} -> {"done"}
    [] kind = "start" ->
         IF s = "active" THEN {"done"}
         ELSE IF s \in {"inactive", "failed", "maintenance"}
           THEN {"failed"} ELSE {}
    [] kind \in {"stop", "restart"} -> ImmediateResult(kind, s)
    [] OTHER -> {}  \* isolate

\* Step 6: list the running jobs and decide their results ...
ListRunning ==
  /\ pc = "complete"
  /\ todo' = {p \in LiveIds \X Results :
                LET job == live[p[1]]
                IN  /\ job.state = "running"
                    /\ p[2] \in SettledResult(job.kind, ustate[job.unit])}
  /\ pc' = "finish"
  /\ UNCHANGED regVars
  /\ UNCHANGED <<shared, pending, clearing, ustate, idx, best, current,
                 internal, refreshId, ran, told>>

\* ... and finish them in identifier order, one lock each.
FinishSettled ==
  /\ pc = "finish"
  /\ \E p \in todo :
       /\ \A q \in todo : p[1] <= q[1]
       /\ Finish(p[1], p[2])
       /\ todo' = todo \ {p}
  /\ UNCHANGED <<shared, pending, clearing, ustate, pc, idx, best, current,
                 internal, refreshId, ran, told>>

FinishDone ==
  /\ pc = "finish"
  /\ todo = {}
  /\ pc' = "republish"
  /\ UNCHANGED regVars
  /\ UNCHANGED <<shared, pending, clearing, ustate, idx, best, current, todo,
                 internal, refreshId, ran, told>>

Manager ==
  \/ DrainShared \/ PublishEvents \/ ApplyUnitEvents \/ Order
  \/ Retain \/ RetainDone \/ Score \/ ScoreDone \/ Scan
  \/ CheckLive \/ Mark \/ Run
  \/ ListRunning \/ FinishSettled \/ FinishDone

Init ==
  /\ RegInit
  /\ shared = <<>> /\ pending = <<>> /\ clearing = {}
  /\ ustate = [u \in Units |-> "inactive"]
  /\ pc = "drain" /\ idx = 1 /\ best = 0 /\ current = NoJob /\ todo = {}
  /\ internal = 0 /\ refreshId = 1 /\ ran = <<>>
  /\ told = [id \in 1..IdMax |-> "none"]

Next == Client \/ CancelAllStep \/ Manager

Spec == Init /\ [][Next]_vars

(***************************************************************************)
(* Fairness: the manager thread keeps looping, cancel_all runs to its end,   *)
(* and no unit is caught half-way at every single pass of the loop (start    *)
(* and stop timeouts see to that; Service is about them).                   *)
(***************************************************************************)

SeenSettled(u) == pc = "apply" /\ ApplyUnitEvents /\ ustate'[u] \in Settled

FairSpec ==
  /\ Spec
  /\ WF_vars(Manager)
  /\ WF_vars(CancelAllStep)
  /\ \A u \in Units : SF_vars(SeenSettled(u))

(***************************************************************************)
(* Properties                                                              *)
(***************************************************************************)

Places(id) ==
  Cardinality({n \in 1..Len(shared) : shared[n].id = id})
  + Cardinality({n \in 1..Len(pending) : pending[n].id = id})
  + (IF current.id = id THEN 1 ELSE 0)

\* Type invariant of the queues and of the loop's locals.
TypeOK ==
  /\ RegTypeOK
  /\ shared \in Seq(Job) /\ pending \in Seq(Job)
  /\ clearing \subseteq 1..IdMax
  /\ ustate \in [Units -> UnitStates]
  /\ idx \in Nat /\ best \in Nat
  /\ current \in Job \cup {NoJob}
  /\ todo \subseteq (1..IdMax) \X Results
  /\ internal \in 0..MaxInternal
  /\ refreshId \in 1..nextId
  /\ pc \in {"check", "mark", "run"} => current.id < refreshId
  /\ told \in [1..IdMax -> {"none", "new", "changed", "removed"}]

\* No exported job is lost or doubled on its way through the two queues: a
\* waiting job is in exactly one place (shared queue, main queue, or in the
\* manager's hand) and a running one in none but the manager's hand, whatever
\* clients enqueue and cancel meanwhile.
NoJobLost ==
  \A id \in LiveIds :
    IF live[id].state = "waiting"
      THEN Places(id) = 1
      ELSE Places(id) = (IF current.id = id THEN 1 ELSE 0)

\* Ordering holds at the moment of execution: the exported job the manager is
\* about to run has no live predecessor among the jobs that existed when the
\* edges were rebuilt, though jobs were cancelled, finished and added since.
OrderRespected ==
  (/\ pc \in {"check", "mark", "run"}
   /\ current.id \in LiveIds
   /\ current.id < refreshId) =>
    \A j \in LiveIds : j < refreshId => ~MustPrecede(j, current.id, After)

\* The queue never locks itself up: as long as jobs are live, one of them has
\* no live predecessor left, whatever mix of starts, stops and restarts is
\* queued and however jobs are cancelled (refresh_ordering, finish).  It is
\* what acyclic After= has to guarantee; formal/agda postulates it.
SomeJobUnblocked ==
  LiveIds # {} => \E i \in LiveIds : GetBefore(i) = {}

\* A job that has left the registry before run_ready_jobs looked at it (it was
\* cancelled) is never executed, wherever its entry still is: in the shared
\* queue, in the main queue, or picked by pop_ready_by already.
CancelPreventsRun ==
  \A id \in 1..IdMax :
    LET Over == id < nextId /\ id \notin LiveIds
                /\ ~(current.id = id /\ pc \in {"mark", "run"})
        NotRun == id \notin ToSet(ran)
    IN  [](Over /\ NotRun => []NotRun)

\* The signals of a job tell its story in order and lag only by what is still
\* queued: JobNew first, JobRemoved last and once, and behind the queued
\* events the listener knows whether the job waits, runs or is gone.
SignalsInOrder ==
  LET Rank(t) == CASE t = "none" -> 0 [] t = "new" -> 1
                   [] t = "changed" -> 2 [] t = "removed" -> 3
      Mine(id) == {n \in 1..Len(events) : events[n].id = id}
      Truth(id) == IF id >= nextId THEN "none"
                   ELSE IF id \notin LiveIds THEN "removed"
                   ELSE IF live[id].state = "running" THEN "changed" ELSE "new"
  IN  \A id \in 1..IdMax :
        /\ LastTold(id) = Truth(id)
        /\ \A n \in Mine(id) :
             /\ Rank(events[n].type) > Rank(told[id])
             /\ told[id] = "none" /\ events[n].type # "new" =>
                  \E m \in Mine(id) : m < n /\ events[m].type = "new"
             /\ \A m \in Mine(id) :
                  m < n => Rank(events[m].type) < Rank(events[n].type)

\* Step 6 finishes "asynchronous jobs whose unit state has settled": once it
\* is through, no running job is about a settled unit.
SettledJobsFinished ==
  pc = "republish" =>
    \A id \in LiveIds :
      live[id].state = "running" => ustate[live[id].unit] \notin Settled

\* A running stop whose unit is up again: another job, or the exit of a starter,
\* got ahead of the end of the stop.
Overtaken(id) ==
  /\ id \in LiveIds
  /\ live[id].kind = "stop" /\ live[id].state = "running"
  /\ ustate[live[id].unit] = "active"


==============================================================================
