----------------------------- MODULE JobRegistry -----------------------------
(***************************************************************************)
(* The registry of exported jobs (src/job.rs, JobRegistry).  It sits behind *)
(* one RwLock and is shared by the manager thread, the control-socket       *)
(* thread and the D-Bus threads; every method below holds the lock from its *)
(* first to its last line, so each is one step.                             *)
(*                                                                          *)
(* The two maps id -> set of ids are kept as sets of pairs: <<i, j>> is in  *)
(* `before` when j is listed under i.  Erasing an empty entry of a map is   *)
(* then invisible.  Job and unit names are abstract.                        *)
(***************************************************************************)
EXTENDS Integers, FiniteSets, Sequences

CONSTANTS
  Units,      \* names of the units jobs are about
  Owners,     \* D-Bus unique names of callers
  NoOwner,    \* the caller is anonymous (control socket, timers, sockets)
  IdMax       \* largest job identifier: 2^32 - 1 in the code

ASSUME IdMaxAssumption == IdMax \in Nat \ {0}
ASSUME NoOwnerAssumption == NoOwner \notin Owners

VARIABLES
  nextId,     \* identifier of the next exported job
  nInstalled, \* jobs installed so far
  nFailed,    \* jobs removed with a failure-counted result
  live,       \* id -> [kind, unit, state], for the live jobs
  owners,     \* {<<id, owner>>}
  before,     \* {<<i, j>> : j must finish before i may run}
  after,      \* {<<i, j>> : j is waiting for i}
  events      \* job events the manager has not published yet

regVars ==
  <<nextId, nInstalled, nFailed, live, owners, before, after, events>>

Kinds == {"nop", "start", "stop", "reload", "restart", "isolate"}
JobStates == {"waiting", "running"}
Results == {"done", "canceled", "timeout", "failed", "dependency", "skipped",
            "invalid", "frozen", "concurrency"}

JobInfo == [kind : Kinds, unit : Units, state : JobStates]
JobEvent == [type : {"new", "changed", "removed"}, id : 1..IdMax]

LiveIds == DOMAIN live

(***************************************************************************)
(* Ordering                                                                *)
(***************************************************************************)

\* A result the NFailedJobs counter counts (increments_failed_counter).
IncrementsFailedCounter(result) ==
  result \in {"failed", "invalid", "frozen", "concurrency"}

\* Stop and restart jobs are ordered against the direction of After=.
OrdersAsStop(kind) == kind \in {"stop", "restart"}

\* Mutated: a restart is ordered like a stop and like a start.
MustPrecedeRestartBoth(j, i, afters) ==
  /\ i # j
  /\ \/ live[i].kind # "stop" /\ live[j].unit \in afters[live[i].unit]
     \/ OrdersAsStop(live[j].kind) /\ live[i].unit \in afters[live[j].unit]

\* Live job j has to finish before live job i may run: i acts on a unit that
\* is After= j's and is not a stop, or j is a stop of a unit After= i's.
MustPrecede(j, i, afters) ==
  /\ i # j
  /\ \/ ~OrdersAsStop(live[i].kind) /\ live[j].unit \in afters[live[i].unit]
     \/ OrdersAsStop(live[j].kind) /\ live[i].unit \in afters[live[j].unit]

\* The live jobs that must finish before id (get_before); a job the registry
\* does not hold has none.
GetBefore(id) == {j \in LiveIds : <<id, j>> \in before}

\* The live jobs that wait for id (get_after).
GetAfter(id) == {j \in LiveIds : <<id, j>> \in after}

(***************************************************************************)
(* Operations                                                              *)
(***************************************************************************)

RegInit ==
  /\ nextId = 1
  /\ nInstalled = 0
  /\ nFailed = 0
  /\ live = [i \in {} |-> {}]
  /\ owners = {}
  /\ before = {}
  /\ after = {}
  /\ events = <<>>

\* Install a new job.  The identifier counter must not overflow: the code
\* panics there, before it has changed anything.
Allocate(kind, unit, owner) ==
  /\ nextId < IdMax
  /\ nextId' = nextId + 1
  /\ live' = [i \in LiveIds \cup {nextId} |->
                IF i = nextId
                  THEN [kind |-> kind, unit |-> unit, state |-> "waiting"]
                  ELSE live[i]]
  /\ nInstalled' = nInstalled + 1
  /\ owners' = owners \cup {<<nextId, o>> : o \in {owner} \ {NoOwner}}
  /\ events' = Append(events, [type |-> "new", id |-> nextId])
  /\ UNCHANGED <<nFailed, before, after>>

\* Mutated: a stop is not ordered against the direction of After=.
RefreshOrderingForward(afters) ==
  /\ before' = {p \in LiveIds \X LiveIds :
                 p[1] # p[2] /\ live[p[2]].unit \in afters[live[p[1]].unit]}
  /\ after' = {p \in LiveIds \X LiveIds :
                p[1] # p[2] /\ live[p[1]].unit \in afters[live[p[2]].unit]}
  /\ UNCHANGED <<nextId, nInstalled, nFailed, live, owners, events>>

\* Mutated: the edges of a stop are entered on one side only.
RefreshOrderingOneSided(afters) ==
  /\ before' = {p \in LiveIds \X LiveIds : MustPrecede(p[2], p[1], afters)}
  /\ after' = {p \in LiveIds \X LiveIds :
                /\ MustPrecede(p[1], p[2], afters)
                /\ ~OrdersAsStop(live[p[2]].kind)}
  /\ UNCHANGED <<nextId, nInstalled, nFailed, live, owners, events>>

\* Rebuild both ordering relations from the units' After= lists.
RefreshOrdering(afters) ==
  /\ before' = {p \in LiveIds \X LiveIds : MustPrecede(p[2], p[1], afters)}
  /\ after' = {p \in LiveIds \X LiveIds : MustPrecede(p[1], p[2], afters)}
  /\ UNCHANGED <<nextId, nInstalled, nFailed, live, owners, events>>

\* Mutated: the state change is announced though the job is gone.
MarkRunningBlind(id) ==
  /\ live' = IF id \in LiveIds THEN [live EXCEPT ![id].state = "running"]
             ELSE live
  /\ events' = Append(events, [type |-> "changed", id |-> id])
  /\ UNCHANGED <<nextId, nInstalled, nFailed, owners, before, after>>

\* Waiting -> running; nothing for a job that is gone or already running.
MarkRunning(id) ==
  /\ IF id \in LiveIds /\ live[id].state # "running"
       THEN /\ live' = [live EXCEPT ![id].state = "running"]
            /\ events' = Append(events, [type |-> "changed", id |-> id])
       ELSE UNCHANGED <<live, events>>
  /\ UNCHANGED <<nextId, nInstalled, nFailed, owners, before, after>>

\* Mutated: only the removed job's own edges go, not those that lead to it.
FinishKeepsEdges(id, result) ==
  IF id \in LiveIds
    THEN /\ live' = [i \in LiveIds \ {id} |-> live[i]]
         /\ nFailed' = nFailed
         /\ owners' = {p \in owners : p[1] # id}
         /\ before' = {p \in before : p[1] # id}
         /\ after' = {p \in after : p[1] # id}
         /\ events' = Append(events, [type |-> "removed", id |-> id])
         /\ UNCHANGED <<nextId, nInstalled>>
    ELSE UNCHANGED regVars

\* Remove a job, its owners and every edge that mentions it; nothing for a
\* job that is already gone.
Finish(id, result) ==
  IF id \in LiveIds
    THEN /\ live' = [i \in LiveIds \ {id} |-> live[i]]
         /\ nFailed' = IF IncrementsFailedCounter(result)
                         THEN nFailed + 1 ELSE nFailed
         /\ owners' = {p \in owners : p[1] # id}
         /\ before' = {p \in before : p[1] # id /\ p[2] # id}
         /\ after' = {p \in after : p[1] # id /\ p[2] # id}
         /\ events' = Append(events, [type |-> "removed", id |-> id])
         /\ UNCHANGED <<nextId, nInstalled>>
    ELSE UNCHANGED regVars

\* Hand every queued event to the publisher.
DrainEvents ==
  /\ events' = <<>>
  /\ UNCHANGED <<nextId, nInstalled, nFailed, live, owners, before, after>>

(***************************************************************************)
(* The registry on its own: any thread may call any method with any         *)
(* argument, in any order.                                                  *)
(***************************************************************************)

Afters == [Units -> SUBSET Units]

RegNext ==
  \/ \E k \in Kinds, u \in Units, o \in Owners \cup {NoOwner} :
       Allocate(k, u, o)
  \/ \E a \in Afters : RefreshOrdering(a)
  \/ \E id \in 1..IdMax : MarkRunning(id)
  \/ \E id \in 1..IdMax, r \in Results : Finish(id, r)
  \/ DrainEvents

RegSpec == RegInit /\ [][RegNext]_regVars

(***************************************************************************)
(* Properties                                                              *)
(***************************************************************************)

\* Type invariant of the registry's fields (JobRegistryInner).
RegTypeOK ==
  /\ nextId \in 1..IdMax
  /\ nInstalled \in Nat
  /\ nFailed \in Nat
  /\ LiveIds \subseteq 1..(nextId - 1)
  /\ live \in [LiveIds -> JobInfo]
  /\ owners \subseteq LiveIds \X Owners
  /\ before \subseteq LiveIds \X LiveIds
  /\ after \subseteq LiveIds \X LiveIds
  /\ events \in Seq(JobEvent)

\* What GetBefore of one job object lists and what GetAfter of another lists
\* agree: `before` and `after` stay each other's converse through refresh and
\* through every removal, so no job is waited for by a job that does not know
\* it, and none waits for a job that has been removed.
OrderingMirrored ==
  \A i, j \in 1..IdMax :
    /\ j \in GetBefore(i) <=> i \in GetAfter(j)
    /\ <<i, j>> \in before => i \in LiveIds /\ j \in LiveIds /\ i # j

\* Every job ever installed is live or was removed, and it is counted as
\* failed at most once: NFailedJobs plus the live jobs never exceed
\* NInstalledJobs.
CountersAgree ==
  /\ nInstalled = nextId - 1
  /\ nFailed + Cardinality(LiveIds) <= nInstalled

\* An identifier is never given out twice and a live job never changes what
\* it is about: between two states a job keeps its kind and unit, and only
\* goes from waiting to running (allocate, mark_running, finish).
JobIdentityStable ==
  [][\A i \in 1..IdMax :
       /\ i \in LiveIds /\ i \in LiveIds' =>
            /\ live'[i].kind = live[i].kind
            /\ live'[i].unit = live[i].unit
            /\ live[i].state = "running" => live'[i].state = "running"
       /\ i \notin LiveIds /\ i \in LiveIds' => i >= nextId]_regVars

=============================================================================
