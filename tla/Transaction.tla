---------------------------- MODULE Transaction ----------------------------
(***************************************************************************)
(* Transactions over several units: the start jobs of boot, isolate          *)
(* requests, shutdown, and the targets that gate them (src/manager.rs,       *)
(* src/target.rs).                                                          *)
(*                                                                          *)
(* The jobs are JobRegistry's.  A loop of the manager is drain and apply,    *)
(* order, pick, run, activate targets and finish jobs, lifecycle, poll (the  *)
(* exits applied after the poll are those of the next round); what           *)
(* clients can do between the registry calls of one of these is JobQueue's   *)
(* subject, what goes on inside one service is Service's.  Here a service is *)
(* its state: it starts, fails, settles and is stopped.  The start order of  *)
(* a target is a constant; DepResolver computes it.                         *)
(***************************************************************************)
EXTENDS JobRegistry, SequencesExt

CONSTANTS
  Targets,        \* the units that are targets; the others are services
  Requires,       \* target -> its Requires=, in order
  After,          \* unit -> the units it is After= (inverse Before= included)
  StartOrder,     \* target that can be isolated -> resolve_start_order of it
  Ignored,        \* the units with IgnoreOnIsolate=
  Restarting,     \* the services with Restart=
  Returning,      \* the services a stop may leave active, see Progress
  ShutdownTarget, \* shutdown.target
  Usable,         \* whether it can be isolated: {TRUE}, {FALSE} or either
  Boot,           \* the start order queued before the loop begins
  ClientJobs,     \* the <<kind, unit>> of the jobs clients ask for
  MaxRestarts,    \* bound: restart timers armed (StartLimitBurst=)
  MaxShutdowns    \* bound: shutdown requests and signals

ASSUME TargetsAssumption ==
  /\ Targets \subseteq Units
  /\ Restarting \subseteq Units \ Targets /\ Returning \subseteq Units \ Targets
  /\ DOMAIN StartOrder \subseteq Targets
  /\ ShutdownTarget \in DOMAIN StartOrder
  /\ Usable \subseteq BOOLEAN
  /\ ClientJobs \subseteq {"start", "stop", "isolate"} \X Units
ASSUME TransactionAfterAssumption == After \in [Units -> SUBSET Units]

VARIABLES
  shared,    \* queue the clients and the restart timers append to
  pending,   \* the manager's own queue
  ustate,    \* unit -> lifecycle state
  timers,    \* services whose restart timer is armed
  restarts,  \* restart timers armed so far
  isolates,  \* id of a running isolate job -> the units it keeps
  pc,        \* where the manager is in its loop
  current,   \* the job taken out of `pending`, or NoJob
  left,      \* activating targets step 5 has still to look at
  asked,     \* a client has set shutdown_action
  shutdown,  \* pending_shutdown_result: "no", "pending", "done"
  shutdowns, \* shutdown requests so far
  disturbed  \* history: during the shutdown transaction something to start was
             \* queued, a restart timer armed, or a stopped service came back

txVars == <<shared, pending, ustate, timers, restarts, isolates, pc, current, left,
            asked, shutdown, shutdowns, disturbed>>
vars == <<regVars, txVars>>

Services == Units \ Targets
States == {"inactive", "activating", "active", "deactivating", "failed"}
Settled == {"inactive", "active", "failed"}
Job == [id : 0..IdMax, kind : Kinds, unit : Units]
NoJob == [id |-> -1, kind |-> "nop", unit |-> "none"]
Alive(job) == job.id = 0 \/ job.id \in LiveIds
Steps(kind, names) ==
  [n \in 1..Len(names) |-> [id |-> 0, kind |-> kind, unit |-> names[n]]]

(***************************************************************************)
(* Starting up, clients                                                    *)
(***************************************************************************)

\* enqueue_start of the boot target, before the loop.
EnqueueStart ==
  /\ pc = "boot"
  /\ IF nextId <= Len(Boot)
       THEN /\ Allocate("start", Boot[nextId], NoOwner)
            /\ pending' = Append(pending, [id |-> nextId, kind |-> "start",
                                           unit |-> Boot[nextId]])
            /\ UNCHANGED pc
       ELSE pc' = "drain" /\ UNCHANGED pending /\ UNCHANGED regVars
  /\ UNCHANGED <<shared, ustate, timers, restarts, isolates, current, left,
                 asked, shutdown, shutdowns, disturbed>>

Brings(kind) == kind \in {"start", "isolate"}

\* The steps of the loop that look at the registry and the shared queue.  A client
\* may call at any time; a call before another step is one before the next of these.
Looks == {"drain", "order", "lifecycle", "poll"}

\* enqueue_job of the control socket.
Enqueue(kind, unit) ==
  /\ pc \in Looks
  /\ Allocate(kind, unit, NoOwner)
  /\ shared' = Append(shared, [id |-> nextId, kind |-> kind, unit |-> unit])
  /\ disturbed' = (disturbed \/ (shutdown = "pending" /\ Brings(kind)))
  /\ UNCHANGED <<pending, ustate, timers, restarts, isolates, pc, current,
                 left, asked, shutdown, shutdowns>>

\* A client sets shutdown_action, which one step reads.
AskShutdown ==
  /\ pc = "lifecycle"
  /\ shutdowns < MaxShutdowns
  /\ shutdowns' = shutdowns + 1
  /\ asked' = TRUE
  /\ UNCHANGED regVars
  /\ UNCHANGED <<shared, pending, ustate, timers, restarts, isolates, pc, current,
                 left, shutdown, disturbed>>

Client ==
  \/ \E job \in ClientJobs : Enqueue(job[1], job[2])
  \/ AskShutdown

(***************************************************************************)
(* Services                                                                *)
(***************************************************************************)

\* What exits, readiness, timeouts, watchdogs, OOM kills and ResetFailed may
\* make of a service between two looks at it; Service says which of them when.
\* A stop does not always leave a service down: the starter of a Type=forking
\* service may exit cleanly after the stop, which completes the start, and with
\* ExitType=cgroup or RestartMode=direct the exit after a start timeout or a
\* watchdog does.
Progress(u) ==
  LET s == ustate[u]
      back == IF u \in Returning THEN {"active"} ELSE {}
  IN  CASE s = "activating" -> States
        [] s = "active" -> States \ {"activating"}
        [] s = "deactivating" -> {s, "inactive", "failed"} \cup back
        [] s = "failed" -> {s, "inactive", "deactivating"} \cup back
        [] s = "inactive" -> {s}

Moves ==
  {m \in [Units -> States] :
     \A u \in Units : IF u \in Targets THEN m[u] = ustate[u]
                      ELSE m[u] \in Progress(u)}

\* The services whose main process may have exited: their restart timer is armed
\* unless they were stopped or exited in a way that Restart= does not mind.
Exited(m) == {u \in Restarting : ustate[u] # "inactive" /\ m[u] \in Settled}

Returned(m) ==
  {u \in Services : ustate[u] \in {"deactivating", "failed"} /\ m[u] = "active"}

\* One look at the services: they are in states m, and the timers of `armed` run.
Look(m, armed) ==
  /\ m \in Moves /\ armed \subseteq Exited(m)
  /\ restarts + Cardinality(armed) <= MaxRestarts
  /\ restarts' = restarts + Cardinality(armed)
  /\ timers' = timers \cup armed

\* A restart timer fires while the loop polls: an unexported start job.  No
\* stop disarms it.
FireRestart(u) ==
  /\ pc = "poll"
  /\ u \in timers
  /\ timers' = timers \ {u}
  /\ shared' = Append(shared, [id |-> 0, kind |-> "start", unit |-> u])
  /\ UNCHANGED regVars
  /\ UNCHANGED <<pending, ustate, restarts, isolates, pc, current, left,
                 asked, shutdown, shutdowns, disturbed>>

(***************************************************************************)
(* Isolate and shutdown                                                    *)
(***************************************************************************)

Keep(t) == ToSet(StartOrder[t]) \cup Ignored

\* Mutated: a unit that is still starting is left to itself.
UnwantedSettled(t, us) ==
  {u \in Units \ Keep(t) : us[u] \in {"active", "failed"}}

\* The units an isolate stops: not kept, and up, starting or failed.
Unwanted(t, us) ==
  {u \in Units \ Keep(t) : us[u] \in {"active", "activating", "failed"}}

\* enqueue_isolate: the target is activating at once; stops, then the starts
\* of the target's closure, are queued as unexported steps.
IsolateState(t, us) == [us EXCEPT ![t] = "activating"]
IsolateSteps(t, us) ==
  Steps("stop", SetToSeq(Unwanted(t, us))) \o Steps("start", StartOrder[t])

\* begin_shutdown_transaction: isolate shutdown.target or, when that fails
\* (the file is missing, damaged or forbids it), stop whatever is up.
ShutdownState(us, usable) ==
  IF usable THEN IsolateState(ShutdownTarget, us) ELSE us

ShutdownSteps(us, usable) ==
  IF usable THEN IsolateSteps(ShutdownTarget, us)
  ELSE Steps("stop", SetToSeq({u \in Units :
               us[u] \in {"active", "activating", "failed"}}))

\* is_idle.
Idle(queue, us) ==
  /\ \A n \in 1..Len(queue) : ~Alive(queue[n])
  /\ shared = <<>>
  /\ LiveIds = {}
  /\ \A u \in Units : us[u] \in Settled

Disturbing ==
  \/ \E n \in 1..Len(pending) : Brings(pending[n].kind)
  \/ \E n \in 1..Len(shared) : Brings(shared[n].kind)
  \/ timers # {}

\* queue_shutdown_transaction with the units in states us; the loop goes on
\* at `next` unless nothing is left to do.
QueueShutdown(us, next) ==
  \E usable \in Usable :
    LET queue == pending \o ShutdownSteps(us, usable)
        over == Idle(queue, ShutdownState(us, usable))
    IN  /\ pending' = queue
        /\ ustate' = ShutdownState(us, usable)
        /\ shutdown' = IF over THEN "done" ELSE "pending"
        /\ pc' = IF over THEN "return" ELSE next

(***************************************************************************)
(* The manager's loop                                                      *)
(***************************************************************************)

\* Step 9 returns, or the loop begins; then steps 1 to 3: drain the shared queue,
\* apply exits, readiness and timeouts.
DrainShared ==
  /\ pc \in {"drain", "poll"}
  /\ pending' = pending \o SelectSeq(shared, Alive)
  /\ shared' = <<>>
  /\ \E m \in Moves, armed \in SUBSET Restarting :
       /\ Look(m, armed)
       /\ ustate' = m
       /\ disturbed' = (disturbed \/ (shutdown = "pending"
                                     /\ armed \cup Returned(m) # {}))
  /\ pc' = "order"
  /\ UNCHANGED regVars
  /\ UNCHANGED <<isolates, current, left, asked, shutdown, shutdowns>>

\* Step 4: rebuild the ordering ...
Order ==
  /\ pc = "order"
  /\ RefreshOrdering(After)
  /\ pc' = "pick"
  /\ UNCHANGED <<shared, pending, ustate, timers, restarts, isolates, current, left,
                 asked, shutdown, shutdowns, disturbed>>

\* Step 5 lists the activating targets, in no particular order, once a job has run
\* or none was ready.
ListTargets ==
  /\ left' = {t \in Targets : ustate'[t] = "activating"}
  /\ pc' = "activate"

\* A start waits for the units its own unit is After=, an exported job also
\* for the live jobs before it; an unexported one for none of them.
Ready(job) ==
  /\ Alive(job)
  /\ job.id = 0 \/ GetBefore(job.id) = {}
  /\ job.kind = "start" => \A d \in After[job.unit] : ustate[d] \in Settled

\* ... take one ready job, whichever the predictor prefers, and mark it
\* running ...
Pick ==
  /\ pc = "pick"
  /\ \E n \in 1..Len(pending) :
       /\ Ready(pending[n])
       /\ current' = pending[n]
       /\ pending' = SelectSeq(RemoveAt(pending, n), Alive)
       /\ IF pending[n].id = 0 THEN UNCHANGED regVars
                               ELSE MarkRunning(pending[n].id)
  /\ pc' = "run"
  /\ UNCHANGED <<shared, ustate, timers, restarts, isolates, left, asked, shutdown,
                 shutdowns, disturbed>>

PickNone ==
  /\ pc = "pick"
  /\ \A n \in 1..Len(pending) : ~Ready(pending[n])
  /\ pending' = SelectSeq(pending, Alive)
  /\ UNCHANGED regVars
  /\ UNCHANGED <<shared, ustate, timers, restarts, isolates, current, asked,
                 shutdown, shutdowns, disturbed>>
  /\ ListTargets

\* run_job: the states a start or a stop may leave its unit in.  A start of a
\* target always makes it activating; a start of a service that is not down
\* does nothing.  A stop waits for the processes on record, which a failed
\* service may still have, and a service on its way down may have lost.
AfterRun(kind, u) ==
  LET s == ustate[u]
  IN  CASE kind = "start" /\ u \in Targets -> {"activating"}
        [] kind = "start" /\ u \in Services ->
             IF s \in {"inactive", "failed"}
               THEN {"inactive", "activating", "active", "failed"} ELSE {s}
        [] kind = "stop" /\ u \in Services /\ s # "inactive" ->
             {"deactivating", "inactive"}
        [] OTHER -> {"inactive"}

\* A start of a service that is down may report an error, whatever it has done.
MayFail(kind, u) ==
  kind = "start" /\ u \in Services /\ ustate[u] \in {"inactive", "failed"}

\* immediate_job_result.
ImmediateResult(kind, s) ==
  CASE s = "failed" -> {"failed"}
    [] s = "inactive" /\ kind \in {"start", "stop"} -> {"done"}
    [] s = "active" /\ kind = "start" -> {"done"}
    [] OTHER -> {}

Conclude(result) ==
  IF current.id # 0 /\ result # {}
    THEN \E r \in result : Finish(current.id, r)
    ELSE UNCHANGED regVars

\* Mutated: the job stays in the manager's hand.
RunJobKeeps ==
  /\ pc = "run"
  /\ current.kind \in {"start", "stop"}
  /\ \E s \in AfterRun(current.kind, current.unit) :
       /\ ustate' = [ustate EXCEPT ![current.unit] = s]
       /\ \/ Conclude(ImmediateResult(current.kind, s))
          \/ MayFail(current.kind, current.unit) /\ Conclude({"failed"})
  /\ ListTargets
  /\ UNCHANGED <<shared, pending, timers, restarts, isolates, current,
                 asked, shutdown, shutdowns, disturbed>>

\* run_ready_jobs, for a start or a stop ...
RunJob ==
  /\ pc = "run"
  /\ current.kind \in {"start", "stop"}
  /\ \E s \in AfterRun(current.kind, current.unit) :
       /\ ustate' = [ustate EXCEPT ![current.unit] = s]
       /\ \/ Conclude(ImmediateResult(current.kind, s))
          \/ MayFail(current.kind, current.unit) /\ Conclude({"failed"})
  /\ current' = NoJob
  /\ ListTargets
  /\ UNCHANGED <<shared, pending, timers, restarts, isolates, asked, shutdown,
                 shutdowns, disturbed>>

\* ... and for an isolate request, which fails for a unit that is no target,
\* forbids isolation or has no start order.
RunIsolate ==
  LET t == current.unit
  IN  /\ pc = "run"
      /\ current.kind = "isolate"
      /\ IF t \in DOMAIN StartOrder
           THEN /\ isolates' = [i \in DOMAIN isolates \cup {current.id} |->
                                  IF i = current.id THEN Keep(t)
                                  ELSE isolates[i]]
                /\ ustate' = IsolateState(t, ustate)
                /\ pending' = pending \o IsolateSteps(t, ustate)
                /\ Conclude({})
           ELSE /\ Conclude({"failed"})
                /\ UNCHANGED <<isolates, ustate, pending>>
      /\ current' = NoJob
      /\ ListTargets
      /\ UNCHANGED <<shared, timers, restarts, asked, shutdown,
                     shutdowns, disturbed>>

\* Mutated: a failed requirement is waited for.
ActivationPatient(t) ==
  LET waits == SelectSeq(Requires[t],
                 LAMBDA d : d # t /\ ustate[d] \notin {"active", "inactive"})
  IN  IF waits = <<>> THEN "active" ELSE ustate[t]

\* try_activate_target: the first requirement that is neither up nor down
\* decides.
Activation(t) ==
  LET waits == SelectSeq(Requires[t],
                 LAMBDA d : d # t /\ ustate[d] \notin {"active", "inactive"})
  IN  IF waits = <<>> THEN "active"
      ELSE IF ustate[Head(waits)] = "failed" THEN "failed" ELSE ustate[t]

TryActivate ==
  /\ pc = "activate"
  /\ \E t \in left :
       /\ left' = left \ {t}
       /\ ustate' = [ustate EXCEPT ![t] = Activation(t)]
  /\ UNCHANGED regVars
  /\ UNCHANGED <<shared, pending, timers, restarts, isolates, pc, current, asked,
                 shutdown, shutdowns, disturbed>>

\* Mutated: a start whose unit ends inactive is not over.
SettledResultForgetsInactive(job) ==
  CASE ustate[job.unit] = "failed" -> {"failed"}
    [] job.kind = "start" /\ ustate[job.unit] = "active" -> {"done"}
    [] job.kind = "stop" /\ ustate[job.unit] = "inactive" -> {"done"}
    [] OTHER -> {}

\* settled_job_result.
SettledResult(job) ==
  CASE ustate[job.unit] = "failed" -> {"failed"}
    [] job.kind = "start" /\ ustate[job.unit] = "active" -> {"done"}
    [] job.kind = "start" /\ ustate[job.unit] = "inactive" -> {"failed"}
    [] job.kind = "stop" /\ ustate[job.unit] = "inactive" -> {"done"}
    [] OTHER -> {}

\* isolate_job_result.
IsolateResult(id) ==
  LET t == live[id].unit
      keep == isolates[id]
  IN  CASE id \notin DOMAIN isolates -> {}
        [] id \in DOMAIN isolates /\ ustate[t] = "failed" -> {"failed"}
        [] id \in DOMAIN isolates /\ ustate[t] # "failed"
             /\ \E u \in keep \ {t} : ustate[u] = "failed" -> {"dependency"}
        [] OTHER ->
             IF /\ ustate[t] = "active"
                /\ \A u \in Units \ keep : ustate[u] \in {"inactive", "failed"}
               THEN {"done"} ELSE {}

JobResult(id) ==
  IF live[id].kind = "isolate" THEN IsolateResult(id) ELSE SettledResult(live[id])

\* Step 6: the running jobs that are over, in the order of their identifiers.
Over == {id \in LiveIds : live[id].state = "running" /\ JobResult(id) # {}}

\* Finish them ...
FinishSettled ==
  /\ pc = "activate" /\ left = {}
  /\ \E id \in Over :
       /\ \A other \in Over : id <= other
       /\ \E r \in JobResult(id) : Finish(id, r)
  /\ UNCHANGED <<shared, pending, ustate, timers, restarts, isolates, pc, current,
                 left, asked, shutdown, shutdowns, disturbed>>

\* ... and forget the isolate jobs that are gone.
FinishDone ==
  /\ pc = "activate" /\ left = {}
  /\ Over = {}
  /\ isolates' = [i \in DOMAIN isolates \cap LiveIds |-> isolates[i]]
  /\ pc' = "lifecycle"
  /\ UNCHANGED regVars
  /\ UNCHANGED <<shared, pending, ustate, timers, restarts, current, left,
                 asked, shutdown, shutdowns, disturbed>>

\* Steps 7 and 8: publish, then requested_lifecycle_result.  The kernel
\* transition waits for is_idle.
Lifecycle ==
  /\ pc = "lifecycle"
  /\ DrainEvents
  /\ CASE shutdown = "pending" ->
            /\ IF Idle(pending, ustate)
                 THEN shutdown' = "done" /\ pc' = "return"
                 ELSE pc' = "poll" /\ UNCHANGED shutdown
            /\ UNCHANGED <<asked, pending, ustate, disturbed>>
       [] shutdown # "pending" /\ asked ->
            /\ QueueShutdown(ustate, "poll")
            /\ asked' = FALSE
            /\ disturbed' = Disturbing
       [] OTHER ->
            /\ pc' = "poll"
            /\ UNCHANGED <<asked, shutdown, pending, ustate, disturbed>>
  /\ UNCHANGED <<shared, timers, restarts, isolates, current, left, shutdowns>>

\* Step 9 returns with a shutdown signal, and step 2b applies the exits first.
PollSignal ==
  /\ pc = "poll"
  /\ shutdowns < MaxShutdowns
  /\ shutdowns' = shutdowns + 1
  /\ \E m \in Moves, armed \in SUBSET Restarting :
       /\ Look(m, armed)
       /\ QueueShutdown(m, "drain")
       /\ disturbed' = (Disturbing \/ armed # {})
  /\ UNCHANGED regVars
  /\ UNCHANGED <<shared, isolates, current, left, asked>>

Manager ==
  \/ EnqueueStart \/ DrainShared \/ Order \/ Pick \/ PickNone
  \/ RunJob \/ RunIsolate \/ TryActivate
  \/ FinishSettled \/ FinishDone \/ Lifecycle

Init ==
  /\ RegInit
  /\ shared = <<>> /\ pending = <<>> /\ current = NoJob
  /\ ustate = [u \in Units |-> "inactive"]
  /\ timers = {} /\ restarts = 0
  /\ isolates = [i \in {} |-> {}]
  /\ pc = "boot" /\ left = {}
  /\ asked = FALSE /\ shutdown = "no" /\ shutdowns = 0 /\ disturbed = FALSE

Next ==
  Client \/ Manager \/ PollSignal \/ (\E u \in Restarting : FireRestart(u))

Spec == Init /\ [][Next]_vars

(***************************************************************************)
(* Fairness: the loop keeps going, its poll lasting 30 seconds at most, and  *)
(* no service is caught half-way at every look at it: start and stop         *)
(* timeouts see to that (Service).                                          *)
(***************************************************************************)

SeenSettled(u) == DrainShared /\ ustate'[u] \in Settled

FairSpec ==
  /\ Spec
  /\ WF_vars(Manager)
  /\ \A u \in Services : SF_vars(SeenSettled(u))

(***************************************************************************)
(* Properties                                                              *)
(***************************************************************************)

\* Type invariant of the queues, the units and the loop's locals.
TypeOK ==
  /\ RegTypeOK
  /\ shared \in Seq(Job) /\ pending \in Seq(Job)
  /\ current \in Job \cup {NoJob}
  /\ pc = "run" <=> current # NoJob
  /\ ustate \in [Units -> States]
  /\ timers \subseteq Restarting /\ restarts \in 0..MaxRestarts
  /\ isolates \in [DOMAIN isolates -> SUBSET Units]
  /\ DOMAIN isolates \subseteq 1..IdMax
  /\ left \subseteq Targets
  /\ asked \in BOOLEAN /\ disturbed \in BOOLEAN
  /\ shutdown \in {"no", "pending", "done"}
  /\ shutdowns \in 0..MaxShutdowns

\* What the shutdown transaction is to keep up.
Spared == Keep(ShutdownTarget)

\* The shutdown transaction alone does its work: when no start was queued and
\* no restart timer armed as it began or since, and no service came back that was
\* on its way down, the kernel transition finds every unit stopped but those the
\* transaction keeps, though jobs, stops and failures interleave with it
\* (begin_shutdown_transaction, is_idle).
QuietShutdownStops ==
  shutdown = "done" /\ ~disturbed =>
    \A u \in Units \ Spared : ustate[u] \in {"inactive", "failed"}

\* Every supervised workload, that is every service, is stopped before the kernel
\* transition (the comment in begin_shutdown_transaction).
ShutdownStopsAll ==
  shutdown = "done" =>
    \A u \in Services \ Spared : ustate[u] \in {"inactive", "failed"}

\* A running job whose unit another job has settled otherwise: a stop of a unit
\* that is up, an isolate whose target is down or that has others beside it.
Overtaken(id) ==
  /\ live[id].state = "running"
  /\ LET u == live[id].unit
     IN  \/ live[id].kind = "stop" /\ ustate[u] = "active"
         \/ live[id].kind = "isolate" /\ ustate[u] = "inactive"
         \/ live[id].kind = "isolate" /\ \E v \in Units \ Keep(u) : ustate[v] = "active"

\* A shutdown transaction comes to its end, whatever clients start and stop and
\* services do meanwhile: is_idle holds the kernel transition back for ever only
\* if some job is overtaken, which settled_job_result and isolate_job_result do
\* not end.
ShutdownFinishes ==
  shutdown = "pending" ~> shutdown = "done" \/ \E id \in LiveIds : Overtaken(id)

\* No target is left activating for ever.
TargetSettles ==
  \A t \in Targets : ustate[t] = "activating" ~> ustate[t] # "activating"

==============================================================================
