---------------------------- MODULE DbusReadiness ----------------------------
(***************************************************************************)
(* Readiness of a Type=dbus service.  A task of the D-Bus thread              *)
(* (src/dbus/server.rs) reads the published snapshot every 50 ms, asks the    *)
(* bus whether the name of an activating unit has an owner, and tells the     *)
(* manager (src/manager.rs), which completes the start.  The question and     *)
(* its answer are two steps: anything may happen in between.  The start has   *)
(* no deadline here (TimeoutStartSec=infinity).                              *)
(***************************************************************************)
EXTENDS Integers

CONSTANT MaxStarts   \* bound: times the unit is started

VARIABLES
  state,     \* state of the unit
  main,      \* its process: the number of the start, 0 for none
  alive,     \* processes that run
  starts,    \* starts so far
  owner,     \* who owns BusName=: a process of the unit, Foreign, or 0 for none
  snapshot,  \* the state that is published
  event,     \* dbus_ready_events holds the unit
  reported,  \* reported_ready holds the unit
  answer,    \* "none", "asked", or name_has_owner's answer "yes" or "no"
  wanted,    \* jobs that clients and restart timers ask for
  pc,        \* step of the manager's loop
  seen,      \* history: since the unit was last published as activating, the task
             \* has found it published as something else
  quick      \* history: the unit was started when it had not been seen

taskVars == <<reported, answer>>
vars == <<state, main, alive, starts, owner, snapshot, event, taskVars, wanted, pc,
          seen, quick>>

\* Somebody on the bus who is no process of the unit.
Foreign == MaxStarts + 1

States == {"inactive", "activating", "active", "deactivating", "failed"}

(***************************************************************************)
(* The manager's loop                                                      *)
(***************************************************************************)

\* apply_child_exits: a process that is no longer there has been reaped.
ApplyExits ==
  /\ pc = "exits"
  /\ IF main # 0 /\ main \notin alive
       THEN /\ main' = 0
            /\ state' \in IF state = "failed" THEN {"failed"}
                          ELSE {"inactive", "failed"}
       ELSE UNCHANGED <<main, state>>
  /\ pc' = "ready"
  /\ UNCHANGED <<alive, starts, owner, snapshot, event, taskVars, wanted, seen, quick>>

\* apply_dbus_ready_events; ExecStartPost= may fail.
ApplyReady ==
  /\ pc = "ready"
  /\ event' = FALSE
  /\ state' \in IF event /\ state = "activating" THEN {"active", "failed"} ELSE {state}
  /\ pc' = "job"
  /\ UNCHANGED <<main, alive, starts, owner, snapshot, taskVars, wanted, seen, quick>>

\* start_service and stop_service; one job a round.
RunJob ==
  /\ pc = "job"
  /\ \/ wanted = {} /\ UNCHANGED <<state, main, alive, starts, wanted, quick>>
     \/ /\ "start" \in wanted
        /\ wanted' = wanted \ {"start"}
        /\ IF state \in {"inactive", "failed"} /\ starts < MaxStarts
             THEN /\ starts' = starts + 1
                  /\ main' = starts + 1
                  /\ alive' = alive \cup {starts + 1}
                  /\ state' = "activating"
                  /\ quick' = ~seen
             ELSE UNCHANGED <<state, main, alive, starts, quick>>
     \/ /\ "stop" \in wanted
        /\ wanted' = wanted \ {"stop"}
        /\ state' = IF main = 0 THEN "inactive" ELSE "deactivating"
        /\ UNCHANGED <<main, alive, starts, quick>>
  /\ pc' = "publish"
  /\ UNCHANGED <<owner, snapshot, event, taskVars, seen>>

\* publish_snapshot.
Publish ==
  /\ pc = "publish"
  /\ snapshot' = state
  /\ seen' = (seen /\ state # "activating")
  /\ pc' = "exits"
  /\ UNCHANGED <<state, main, alive, starts, owner, event, taskVars, wanted, quick>>

(***************************************************************************)
(* The task of the D-Bus thread                                            *)
(***************************************************************************)

\* Mutated: a unit counts as reported once it has been asked for.
TickEarly ==
  /\ answer = "none"
  /\ reported' = (snapshot = "activating")
  /\ answer' = IF snapshot = "activating" /\ ~reported THEN "asked" ELSE "none"
  /\ seen' = (seen \/ snapshot # "activating")
  /\ UNCHANGED <<state, main, alive, starts, owner, snapshot, event, wanted, pc, quick>>

\* poll_dbus_service_readiness up to the question.
Tick ==
  /\ answer = "none"
  /\ reported' = (reported /\ snapshot = "activating")
  /\ answer' = IF snapshot = "activating" /\ ~reported THEN "asked" ELSE "none"
  /\ seen' = (seen \/ snapshot # "activating")
  /\ UNCHANGED <<state, main, alive, starts, owner, snapshot, event, wanted, pc, quick>>

\* The bus daemon answers.
Answer ==
  /\ answer = "asked"
  /\ answer' = IF owner # 0 THEN "yes" ELSE "no"
  /\ UNCHANGED <<state, main, alive, starts, owner, snapshot, event, reported, wanted,
                 pc, seen, quick>>

\* ... and from the answer on.
Report ==
  /\ answer \in {"yes", "no"}
  /\ answer' = "none"
  /\ event' = (event \/ answer = "yes")
  /\ reported' = (reported \/ answer = "yes")
  /\ UNCHANGED <<state, main, alive, starts, owner, snapshot, wanted, pc, seen, quick>>

(***************************************************************************)
(* Clients and processes                                                   *)
(***************************************************************************)

Request(job) ==
  /\ job \notin wanted
  /\ wanted' = wanted \cup {job}
  /\ UNCHANGED <<state, main, alive, starts, owner, snapshot, event, taskVars, pc, seen, quick>>

\* The name is free for anybody on the bus to take.
TakeName(p) ==
  /\ p \in alive \cup {Foreign} /\ owner = 0
  /\ owner' = p
  /\ UNCHANGED <<state, main, alive, starts, snapshot, event, taskVars, wanted, pc, seen, quick>>

\* The name goes with the process.
Exit(p) ==
  /\ p \in alive \cup ({owner} \cap {Foreign})
  /\ alive' = alive \ {p}
  /\ owner' = IF owner = p THEN 0 ELSE owner
  /\ UNCHANGED <<state, main, starts, snapshot, event, taskVars, wanted, pc, seen, quick>>

Init ==
  /\ state = "inactive" /\ main = 0 /\ alive = {} /\ starts = 0 /\ owner = 0
  /\ snapshot = "inactive" /\ event = FALSE /\ reported = FALSE /\ answer = "none"
  /\ wanted = {} /\ pc = "exits" /\ seen = TRUE /\ quick = FALSE

Manager == ApplyExits \/ ApplyReady \/ RunJob \/ Publish
Task == Tick \/ Answer \/ Report
World ==
  \/ \E job \in {"start", "stop"} : Request(job)
  \/ \E p \in 1..Foreign : TakeName(p) \/ Exit(p)

Next == Manager \/ Task \/ World

Spec == Init /\ [][Next]_vars

\* The loop, the timer of the task and the bus daemon keep going.
FairSpec == Spec /\ WF_vars(Manager) /\ WF_vars(Task)

(***************************************************************************)
(* Properties                                                              *)
(***************************************************************************)

\* The types of the state.
TypeOK ==
  /\ state \in States /\ snapshot \in States
  /\ main \in 0..MaxStarts /\ starts \in 0..MaxStarts /\ alive \subseteq 1..MaxStarts
  /\ owner \in alive \cup {Foreign, 0} /\ event \in BOOLEAN /\ reported \in BOOLEAN
  /\ answer \in {"none", "asked", "yes", "no"} /\ wanted \subseteq {"start", "stop"}
  /\ pc \in {"exits", "ready", "job", "publish"} /\ {seen, quick} \subseteq BOOLEAN

\* A start whose name is owned, and stays owned, is completed, however the
\* question, its answer and the loop interleave: neither reported nor the events
\* taken before the unit was activating lose it.  Not so when the unit is started
\* again before the task has seen that the last start was over: it still counts as
\* reported (poll_dbus_service_readiness), and its name is not asked for any more.
NameCompletesStart ==
  (state = "activating" /\ owner # 0 /\ ~quick)
    ~> (state # "activating" \/ owner = 0)
=============================================================================
