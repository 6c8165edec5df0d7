------------------------------- MODULE Service -------------------------------
(***************************************************************************)
(* The life of one service: its unit record (src/service.rs), the handlers   *)
(* of the manager that change it (src/manager.rs), the timers they arm       *)
(* (src/restart.rs) and the signals they send (src/kill_context.rs).         *)
(*                                                                          *)
(* The manager is one thread.  `pc` walks through the steps of run_inner in  *)
(* their order; processes fork, exit and send notifications in between.      *)
(* Process identifiers and timer sources are drawn from finite sets and may  *)
(* be given out again once nothing refers to them, so neither restarts nor   *)
(* timers are bounded in number.  What a command or a process does (exit     *)
(* status, failing ExecStartPost=, ignored SIGTERM) is left open.            *)
(***************************************************************************)
EXTENDS Integers, FiniteSets, Sequences

CONSTANTS
  Pids,        \* process identifiers of the unit's processes (positive)
  Sources,     \* identifiers of timer sources (positive)
  Confs,       \* the services to consider, see Conf below
  Burst,       \* StartLimitBurst=, 0 for no limit
  MaxSocket,   \* bound: notifications waiting in the socket
  MaxDelayed,  \* bound: restart timers that are told apart
  MaxTimers    \* bound: timers that may be left armed when a client asks or
               \* memory runs out

VARIABLES
  conf,        \* the unit file, its processes and its clients
  rec,         \* the unit record, see Record below
  startT,      \* start_timeouts entry, 0 for none
  stopT,       \* stop_timeouts entry, 0 for none
  armed,       \* {<<source, phase>>}: timers that have not fired
  fired,       \* service_timeout_events: {<<source, phase>>}
  proc,        \* pid -> "free", "alive", "dying" (picked by the OOM killer)
               \* or how it ended, when not yet reaped
  killed,      \* pids with a final kill signal pending
  exits,       \* {<<pid, outcome>>}: reaped, not yet applied
  socket,      \* notifications sent: <<sender, message>>
  notes,       \* authenticated notifications: NotifyServer's pending
  registered,  \* pids NotifyServer accepts for the unit
  pidFile,     \* pid named by PIDFile=, 0 when not ready, -1 when invalid
  turnedEmpty, \* cgroup.events has changed to populated 0
  emptyEvent,  \* cgroup_empty_events holds the unit
  oomKill,     \* memory.events has changed
  oomStopping, \* oom_stopping holds the unit
  oomRecent,   \* oom_recent holds the unit, and has not expired
  rearmed,     \* history: an OOM teardown has armed a stop timer anew while the
               \* event of the one before was waiting to be applied
  restartPending,
  delayed,     \* restart timers that have not fired
  jobs,        \* queued jobs; "again" is the unexported start
  pc           \* step of the manager's loop

timerVars == <<startT, stopT, armed, fired>>
procVars == <<proc, killed>>
noteVars == <<socket, notes, registered>>
oomVars == <<oomKill, oomStopping, oomRecent, rearmed>>
vars == <<conf, rec, timerVars, procVars, exits, noteVars, pidFile,
          turnedEmpty, emptyEvent, oomVars, restartPending, delayed, jobs, pc>>

States == {"inactive", "activating", "active", "deactivating", "failed"}
\* How a process ends; "oom" is a signal too, sent by the kernel.
Outcomes == {"clean", "code", "signal", "oom"}
Results == {"success", "resources", "timeout", "watchdog", "exit-code",
            "signal", "oom-kill", "protocol", "start-limit-hit"}
Phases == {"start", "stop", "abort"}

Operations == {"terminate", "abort", "kill"}

\* The settings the handlers look at.  restartOn is Restart= as the set of
\* results that ask for a restart; commands says whether a condition, one of
\* the commands around the main process, or its spawn can fail; limits
\* whether resource controls are asked for; forks whether the service's
\* processes start others, starved whether they may run out of memory.  asks
\* is what clients may ask for, says the notifications its processes may
\* send, each a set of fields.
Fields == {"ready", "stopping", "watchdog", "mainpid"}
Conf ==
  [type : {"simple", "oneshot", "forking", "notify"}, restartOn : SUBSET Results,
   direct : BOOLEAN, cgroupExit : BOOLEAN, remain : BOOLEAN, pidFile : BOOLEAN,
   guess : BOOLEAN, startMode : Operations, stopMode : Operations \ {"kill"},
   watchdog : BOOLEAN, oomPolicy : {"continue", "stop", "kill"},
   killMode : {"control-group", "mixed", "process", "none"},
   sigkill : BOOLEAN, commands : BOOLEAN, limits : BOOLEAN,
   forks : BOOLEAN, starved : BOOLEAN,
   asks : SUBSET {"start", "stop", "restart", "reset"}, says : SUBSET SUBSET Fields]

Record ==
  [state : States, main : Pids \cup {0}, control : Pids \cup {0},
   result : Results, stop : BOOLEAN, petted : BOOLEAN, barked : BOOLEAN,
   starts : 0..Burst]

\* A notification: the fields it sets, and the process MAINPID= names.
Message == [fields : SUBSET Fields, pid : Pids \cup {0}]

Alive == {p \in Pids : proc[p] \in {"alive", "dying"}}
Populated == Alive # {}
Tracked(r) == {r.main, r.control} \ {0}

\* Signalling a pid succeeds until it has been reaped.
Exists(p) == p # 0 /\ proc[p] # "free"

\* A pid nothing refers to.
FreshPid(p) ==
  /\ proc[p] = "free"
  /\ p \notin Tracked(rec) \cup registered
  /\ \A o \in Outcomes : <<p, o>> \notin exits
  /\ p # pidFile
  /\ \A n \in 1..Len(socket) : socket[n][1] # p /\ socket[n][2].pid # p
  /\ \A n \in 1..Len(notes) : notes[n].pid # p

NewPids == {p \in Pids : FreshPid(p)}
NewPid == CHOOSE p \in NewPids : \A q \in NewPids : p <= q

\* A timer source nothing refers to.  Sources are only compared for equality,
\* so which one is taken does not matter.
NewSource ==
  LET used == {startT, stopT} \cup {t[1] : t \in armed \cup fired}
  IN  CHOOSE s \in Sources \ used : \A t \in Sources \ used : s <= t

(***************************************************************************)
(* Timers: start_timeouts and stop_timeouts                                *)
(***************************************************************************)

Disarm(s, timers) == {t \in timers : t[1] # s}

CancelStart == startT' = 0 /\ armed' = Disarm(startT, armed)

CancelBoth ==
  /\ startT' = 0
  /\ stopT' = 0
  /\ armed' = Disarm(startT, Disarm(stopT, armed))

\* Mutated: the timer armed before is not cancelled.
ArmStopKeeps(phase, timers) ==
  /\ stopT' = NewSource
  /\ armed' = timers \cup {<<NewSource, phase>>}

\* arm_service_stop_timeout: one stop timer at a time.  `timers` are those
\* the handler has left so far.
ArmStop(phase, timers) ==
  /\ stopT' = NewSource
  /\ armed' = Disarm(stopT, timers) \cup {<<NewSource, phase>>}

(***************************************************************************)
(* The unit record (src/service.rs).  An operator below gives the records    *)
(* a function may leave behind.                                             *)
(***************************************************************************)

\* run_stop_post: a failing ExecStopPost= makes the unit failed.
RunStopPost(r) ==
  {r} \cup (IF conf.commands THEN {[r EXCEPT !.state = "failed"]} ELSE {})

ResultOf(outcome) ==
  CASE outcome = "clean" -> "success"
    [] outcome = "code" -> "exit-code"
    [] outcome \in {"signal", "oom"} -> "signal"

\* The record before activation has spawned anything.
Fresh(r) == [r EXCEPT !.result = "success", !.stop = FALSE, !.main = 0,
                      !.control = 0]

\* activate_with_notify_in_cgroup up to the spawn: a failed condition, a
\* skipping ExecCondition=, a failing command, or (oneshot) everything.
ActivateWithoutSpawn(r) ==
  (IF conf.commands
     THEN {[r EXCEPT !.state = "inactive"], [Fresh(r) EXCEPT !.state = "inactive"],
           [Fresh(r) EXCEPT !.state = "failed"]}
     ELSE {})
  \cup (IF conf.type = "oneshot"
          THEN {[Fresh(r) EXCEPT !.state = "failed"],
                [Fresh(r) EXCEPT !.state =
                   IF conf.remain THEN "active" ELSE "inactive"]}
          ELSE {})

\* ... and from the spawn on, with p the new process.  A simple service whose
\* ExecStartPost= fails is failed with its process still recorded.
ActivateSpawned(r, p) ==
  CASE conf.type = "simple" ->
         {[Fresh(r) EXCEPT !.main = p, !.state = s] :
            s \in {"active"} \cup (IF conf.commands THEN {"failed"} ELSE {})}
    [] conf.type = "notify" ->
         {[Fresh(r) EXCEPT !.main = p, !.state = "activating"]}
    [] conf.type = "forking" ->
         {[Fresh(r) EXCEPT !.control = p, !.state = "activating"]}
    [] OTHER -> {}

\* The state table of on_child_exit.
ExitState(r, outcome) ==
  CASE r.state \in {"activating", "active"} ->
         IF outcome = "clean" THEN "inactive" ELSE "failed"
    [] r.state = "deactivating" -> IF r.stop THEN "inactive" ELSE "failed"
    [] r.state = "failed" -> "failed"
    [] OTHER -> "inactive"

\* ExitType=cgroup: the unit outlives its main process.
StaysForCgroup(r) == conf.cgroupExit /\ ~r.stop /\ Populated

\* on_child_exit for the main process.
OnChildExit(r, outcome) ==
  LET result == IF r.result \in {"resources", "timeout"} THEN r.result
                ELSE IF r.barked THEN "watchdog"
                ELSE IF r.stop THEN "success"
                ELSE ResultOf(outcome)
      gone == [r EXCEPT !.main = 0, !.result = result]
      direct == conf.direct /\ ~r.stop /\ result \in conf.restartOn
      over == [gone EXCEPT !.state = IF direct THEN "active"
                                     ELSE ExitState(r, outcome)]
  IN  IF StaysForCgroup(r)
        THEN {[gone EXCEPT !.state = "active"]}
        ELSE {[q EXCEPT !.stop = FALSE] : q \in RunStopPost(over)}

\* finish_forking_start and fail_forking_start.
FailForking(r, result) ==
  RunStopPost([r EXCEPT !.state = "failed", !.result = result])

FinishForking(r, p) ==
  LET adopted == [r EXCEPT !.main = p]
  IN  {[adopted EXCEPT !.state = "active", !.result = "success"]}
      \cup (IF conf.commands THEN FailForking(adopted, "exit-code") ELSE {})

\* Mutated: the process the PID file names is not looked for.
PidFileWritten == pidFile # 0

\* read_pid_file and guess_main_pid_from_cgroup.
PidFileReady == pidFile = -1 \/ Exists(pidFile)
Guess == IF conf.guess /\ Cardinality(Alive) = 1
           THEN CHOOSE p \in Alive : TRUE ELSE 0

\* on_forking_control_exit for the starter process.
OnControlExit(r, outcome) ==
  LET gone == [r EXCEPT !.control = 0]
  IN  IF outcome # "clean" THEN FailForking(gone, ResultOf(outcome))
      ELSE IF ~conf.pidFile THEN FinishForking(gone, Guess)
      ELSE IF ~PidFileReady THEN {gone}
      ELSE IF pidFile = -1 THEN FailForking(gone, "protocol")
      ELSE FinishForking(gone, pidFile)

\* finish_timeout_failure.
FinishTimeout(r, result) ==
  {[q EXCEPT !.stop = FALSE] :
     q \in RunStopPost([r EXCEPT !.main = 0, !.control = 0,
                                 !.state = "failed", !.result = result])}

\* Mutated: the limit is one too high.
AutomaticRestartOnce(r) ==
  IF r.result \notin conf.restartOn THEN {<<r, FALSE>>}
  ELSE {<<[r EXCEPT !.starts = n + 1], TRUE>> : n \in {m \in {r.starts, 0} : m <= Burst}}

\* automatic_restart_delay: the records it may leave, with the answer whether
\* a restart is to be scheduled.  The limit's window may have run out.
AutomaticRestart(r) ==
  IF r.result \notin conf.restartOn THEN {<<r, FALSE>>}
  ELSE IF Burst = 0 THEN {<<r, TRUE>>}
  ELSE {IF n + 1 > Burst
          THEN <<[r EXCEPT !.state = "failed", !.result = "start-limit-hit",
                           !.starts = n], FALSE>>
          ELSE <<[r EXCEPT !.starts = n + 1], TRUE>> : n \in {r.starts, 0}}

Schedule(wanted) ==
  delayed' = IF wanted /\ delayed < MaxDelayed THEN delayed + 1 ELSE delayed

(***************************************************************************)
(* Helpers of the manager                                                  *)
(***************************************************************************)

\* The steps of run_inner that change a service, in order.  A step that cannot
\* have anything to do is passed over: what it would look at is changed by
\* the manager only, or not at all for this unit.
Steps == <<"top", "reap", "oom1", "exits1", "pidfile", "timeouts", "notify",
           "dog", "job", "poll", "oom2", "exits2", "empty">>
Busy(step) ==
  CASE step = "top" -> "reset" \in conf.asks
    [] step \in {"oom1", "oom2"} -> conf.starved
    [] step \in {"exits1", "exits2"} -> exits' # {}
    [] step = "pidfile" -> conf.type = "forking"
    [] step = "timeouts" -> fired' # {}
    [] step = "notify" -> notes' # <<>>
    [] step = "dog" -> conf.watchdog
    [] step = "empty" -> emptyEvent'
    [] OTHER -> TRUE

\* Go to the first such step from number n on.
ProceedFrom(n) ==
  LET ahead == {m \in n..Len(Steps) : Busy(Steps[m])}
      around == {m \in 1..2 : Busy(Steps[m])}
      First(S) == CHOOSE m \in S : \A k \in S : m <= k
  IN  pc' = Steps[First(IF ahead = {} THEN around ELSE ahead)]
StepNumber == CHOOSE n \in 1..Len(Steps) : Steps[n] = pc
Proceed == ProceedFrom(StepNumber + 1)
Stay == ProceedFrom(StepNumber)

\* signal_primary and signal_cgroup_members: who gets a signal.
Signalled(r, operation) ==
  IF conf.killMode = "none" \/ (operation = "kill" /\ ~conf.sigkill) THEN {}
  ELSE {p \in Tracked(r) : Exists(p)} \cup
       (IF \/ conf.killMode = "control-group"
           \/ conf.killMode = "mixed" /\ operation = "kill"
          THEN Alive ELSE {})

\* cleanup_unit_cgroup_if_empty, for the record r: forget the OOM state and
\* the monitors of an empty cgroup that need not stay.
MustRemain(r) ==
  r.state \in {"activating", "deactivating", "failed"} \/ Tracked(r) # {}

CleanupCgroup(r, stopping, recent) ==
  IF MustRemain(r) \/ Populated
    THEN oomStopping' = stopping /\ oomRecent' = recent /\ UNCHANGED turnedEmpty
    ELSE oomStopping' = FALSE /\ oomRecent' = FALSE /\ turnedEmpty' = FALSE

\* finalize_timeout_without_exit.  `start` and `stop` are the entries left in
\* start_timeouts and stop_timeouts.
Finalize(r, start, stop, result) ==
  /\ startT' = 0 /\ stopT' = 0
  /\ armed' = Disarm(start, Disarm(stop, armed))
  /\ registered' = registered \ {r.main}
  /\ rec' \in FinishTimeout(r, result)
  /\ pidFile' = 0

\* Mutated: nothing waits for the signal to work.
EscalateOnce(r, start, stop, operation) ==
  /\ rec' = r
  /\ startT' = start /\ stopT' = stop
  /\ killed' = IF operation = "kill" THEN killed \cup (Signalled(r, operation) \cap Alive)
              ELSE killed
  /\ UNCHANGED <<armed, registered, pidFile>>

\* Send the signal of `operation` and wait, or finish at once when there is
\* nobody to signal.  apply_final_kill ("kill") arms no timer.
Escalate(r, start, stop, operation) ==
  LET targets == Signalled(r, operation)
      result == IF r.result = "watchdog" THEN "watchdog" ELSE "timeout"
  IN  IF targets = {}
        THEN Finalize(r, start, stop, result) /\ UNCHANGED killed
        ELSE /\ rec' = r
             /\ startT' = start
             /\ IF operation = "kill"
                  THEN /\ killed' = killed \cup (targets \cap Alive)
                       /\ stopT' = stop
                       /\ UNCHANGED armed
                  ELSE /\ ArmStop(IF operation = "abort" THEN "abort"
                                 ELSE "stop", armed)
                       /\ UNCHANGED killed
             /\ UNCHANGED <<registered, pidFile>>

\* Forget the watchdog.
Quiet(r) == [r EXCEPT !.petted = FALSE, !.barked = FALSE]

\* effective_notify_access.
NotifyAccess == conf.type = "notify" \/ conf.watchdog

\* Mutated: the teardown is forgotten.
OomAdjustedBriefly(r) ==
  IF oomRecent THEN [r EXCEPT !.result = "oom-kill"] ELSE r

\* What an OOM kill makes of an exit.
OomAdjusted(r) ==
  IF oomStopping \/ oomRecent
    THEN [r EXCEPT !.result = "oom-kill",
                   !.state = IF r.state = "active" THEN "active" ELSE "failed"]
    ELSE r

(***************************************************************************)
(* Jobs                                                                    *)
(***************************************************************************)

\* start_service for an inactive or failed record r.  `timers` are the timers
\* left by what the same job did before.
StartFrom(r, timers) ==
  LET r0 == Quiet([r EXCEPT !.state = "activating"])
      limited == [r EXCEPT !.state = "failed", !.result = "resources"]
      idle == Disarm(startT, timers)
      NoTimer == startT' = 0 /\ armed' = idle
  IN  \/ \E q \in ActivateWithoutSpawn(r0) \cup
                   (IF conf.limits THEN {limited} ELSE {}) :
           /\ rec' = q
           /\ NoTimer
           /\ CleanupCgroup(q, oomStopping, oomRecent)
           /\ registered' = IF NotifyAccess /\ q.state # "failed"
                              THEN registered \cup ({q.main} \ {0})
                              ELSE registered
           /\ UNCHANGED proc
      \/ \E q \in ActivateSpawned(r0, NewPid) :
           /\ proc' = [proc EXCEPT ![NewPid] = "alive"]
           /\ UNCHANGED <<oomStopping, oomRecent, turnedEmpty>>
           /\ \/ /\ q.state # "failed"
                 /\ rec' = [q EXCEPT !.petted = conf.watchdog
                                              /\ q.state = "active"]
                 /\ registered' = IF NotifyAccess
                                    THEN registered \cup ({q.main} \ {0})
                                    ELSE registered
                 /\ IF q.state = "activating"
                      THEN /\ startT' = NewSource
                           /\ armed' = idle \cup {<<NewSource, "start">>}
                      ELSE NoTimer
              \/ /\ q.state = "failed"     \* ExecStartPost= failed
                 /\ rec' = q
                 /\ NoTimer
                 /\ UNCHANGED registered
              \/ /\ q.state # "failed"     \* the cgroup cannot be joined
                 /\ conf.limits
                 /\ rec' = [q EXCEPT !.state = "failed",
                                     !.result = "resources"]
                 /\ NoTimer
                 /\ registered' = registered \ {NewPid}

\* Mutated: a unit on its way down can be started.
StartServiceEager ==
  /\ IF rec.state \notin {"activating", "active"}
       THEN StartFrom(rec, armed)
       ELSE UNCHANGED <<rec, startT, armed, proc, registered, oomStopping,
                        oomRecent, turnedEmpty>>
  /\ UNCHANGED <<stopT, restartPending>>

\* start_service: nothing unless the unit is inactive or failed.
StartService ==
  /\ IF rec.state \in {"inactive", "failed"}
       THEN StartFrom(rec, armed)
       ELSE UNCHANGED <<rec, startT, armed, proc, registered, oomStopping,
                        oomRecent, turnedEmpty>>
  /\ UNCHANGED <<stopT, restartPending>>

\* deactivate_with_notify_in_cgroup, without and with a process.
Stopped(r) == RunStopPost([Quiet(r) EXCEPT !.stop = TRUE, !.state = "inactive"])
Stopping(r) == [Quiet(r) EXCEPT !.stop = TRUE, !.state = "deactivating"]

StopService(r) ==
  IF Tracked(r) = {}
    THEN rec' \in Stopped(r) /\ CancelBoth
    ELSE /\ rec' = Stopping(r)
         /\ startT' = 0
         /\ ArmStop("stop", Disarm(startT, armed))

\* restart_unit: start at once when there is no process to wait for, or leave
\* the start to the exit of the process.
RestartUnit ==
  CASE rec.state \in {"inactive", "failed"} -> StartService
    [] rec.state \in {"activating", "active"} /\ Tracked(rec) = {} ->
         /\ restartPending' = FALSE
         /\ stopT' = 0
         /\ \E q \in Stopped(rec) : StartFrom(q, Disarm(stopT, armed))
    [] OTHER ->
         /\ restartPending' = (Tracked(rec) # {})
         /\ IF rec.state = "deactivating"
              THEN UNCHANGED <<rec, startT, stopT, armed>>
              ELSE StopService(rec)
         /\ UNCHANGED <<proc, registered, oomStopping, oomRecent, turnedEmpty>>

\* The jobs that can run: the bound on processes may make one wait.
Runnable ==
  {job \in jobs \ {"reset"} :
     \/ job = "stop" \/ NewPids # {}
     \/ rec.state \notin {"inactive", "failed"} /\ Tracked(rec) # {}}

\* Step 4: one job a round.
RunJob ==
  /\ pc = "job"
  /\ \/ /\ Runnable = {}
        /\ UNCHANGED <<rec, startT, stopT, armed, proc, registered, oomStopping,
                       oomRecent, turnedEmpty, restartPending, jobs>>
     \/ \E job \in Runnable :
          /\ jobs' = jobs \ {job}
          /\ \/ job \in {"start", "again"} /\ StartService
             \/ job = "restart" /\ RestartUnit
             \/ /\ job = "stop"
                /\ StopService(rec)
                /\ UNCHANGED <<proc, registered, oomStopping, oomRecent,
                               turnedEmpty, restartPending>>
  /\ UNCHANGED <<conf, fired, killed, exits, socket, notes, pidFile,
                 emptyEvent, oomKill, rearmed, delayed>>
  /\ Proceed

(***************************************************************************)
(* Events the manager applies                                              *)
(***************************************************************************)

\* apply_reset_failed_requests.
ResetFailed ==
  /\ pc = "top"
  /\ jobs' = jobs \ {"reset"}
  /\ IF "reset" \in jobs
       THEN /\ restartPending' = FALSE
            /\ rec' = [rec EXCEPT
                 !.state = IF rec.state = "failed" THEN "inactive" ELSE rec.state,
                 !.starts = 0, !.barked = FALSE, !.result = "success"]
            /\ CleanupCgroup(rec', oomStopping, oomRecent)
       ELSE UNCHANGED <<restartPending, rec, oomStopping, oomRecent, turnedEmpty>>
  /\ UNCHANGED <<conf, timerVars, procVars, exits, noteVars, pidFile, emptyEvent,
                 oomKill, rearmed, delayed>>
  /\ Proceed

\* Reaping takes every process that has ended.
Zombies == {p \in Pids : proc[p] \in Outcomes}
ReapAll ==
  /\ exits' = exits \cup {<<p, proc[p]>> : p \in Zombies}
  /\ proc' = [p \in Pids |-> IF p \in Zombies THEN "free" ELSE proc[p]]

\* Step 2a: reap_children.
ReapChildren ==
  /\ pc = "reap"
  /\ ReapAll
  /\ UNCHANGED <<conf, rec, timerVars, killed, noteVars, pidFile, turnedEmpty,
                 emptyEvent, oomVars, restartPending, delayed, jobs>>
  /\ Proceed

\* sync_oom_counters, where the record of an OOM kill may expire, and
\* apply_oom_events.
ApplyOom ==
  /\ pc \in {"oom1", "oom2"}
  /\ oomKill' = FALSE
  /\ rearmed' = (rearmed \/ /\ oomKill /\ conf.oomPolicy # "continue"
                            /\ \E e \in fired : e[2] # "start")
  /\ IF oomKill
       THEN LET r == [rec EXCEPT !.result = "oom-kill"]
            IN  /\ oomRecent' = TRUE
                /\ IF conf.oomPolicy = "continue"
                     THEN /\ rec' = r
                          /\ UNCHANGED <<oomStopping, startT, stopT, armed>>
                     ELSE oomStopping' = TRUE /\ StopService(r)
                /\ killed' = IF conf.oomPolicy = "kill" THEN killed \cup Alive
                             ELSE killed
       ELSE /\ oomRecent' \in {oomRecent, FALSE}
            /\ UNCHANGED <<rec, oomStopping, startT, stopT, armed, killed>>
  /\ UNCHANGED <<conf, fired, proc, exits, noteVars, pidFile, turnedEmpty,
                 emptyEvent, restartPending, delayed, jobs>>
  /\ Proceed

\* apply_child_exits for the process that starts a forking service.
ControlExit(outcome) ==
  LET explicit == rec.stop /\ ~oomStopping /\ ~oomRecent
      waiting == outcome = "clean" /\ conf.pidFile /\ ~PidFileReady
  IN  \E q \in OnControlExit(rec, outcome) :
        /\ startT' = IF q.state = "activating" THEN startT ELSE 0
        /\ stopT' = IF explicit THEN 0 ELSE stopT
        /\ armed' = {t \in armed : /\ t[1] = startT => q.state = "activating"
                                   /\ t[1] = stopT => ~explicit}
        /\ pidFile' = IF q.state = "failed" /\ ~waiting THEN 0 ELSE pidFile
        /\ IF OomAdjusted(q).state = "failed" /\ ~explicit
             THEN \E again \in AutomaticRestart(OomAdjusted(q)) :
                    rec' = again[1] /\ Schedule(again[2])
             ELSE rec' = OomAdjusted(q) /\ UNCHANGED delayed
        /\ UNCHANGED <<registered, restartPending, jobs>>

\* Mutated: an explicit stop does not prevent the restart.
MainExitRestarts(outcome) ==
  \E q \in {Quiet(OomAdjusted(r)) : r \in OnChildExit(rec, outcome)} :
    /\ CancelBoth
    /\ \E again \in AutomaticRestart(q) : rec' = again[1] /\ Schedule(again[2])
    /\ UNCHANGED <<registered, pidFile, restartPending, jobs>>

\* Mutated: an explicit stop makes the pending restart wait for another exit.
MainExitStops(outcome) ==
  \E q \in {Quiet(OomAdjusted(r)) : r \in OnChildExit(rec, outcome)} :
    /\ CancelBoth
    /\ rec' = q
    /\ restartPending' = (restartPending /\ rec.stop)
    /\ jobs' = IF restartPending /\ ~rec.stop THEN jobs \cup {"again"} ELSE jobs
    /\ registered' = registered \ {rec.main}
    /\ UNCHANGED <<pidFile, delayed>>

\* ... and for the main process.
MainExit(outcome) ==
  LET explicit == rec.stop /\ ~oomStopping /\ ~oomRecent
  IN  \E q \in {Quiet(OomAdjusted(r)) : r \in OnChildExit(rec, outcome)} :
        /\ CancelBoth
        /\ registered' = registered \ {rec.main}
        /\ pidFile' = IF StaysForCgroup(rec) THEN pidFile ELSE 0
        /\ restartPending' = FALSE
        /\ jobs' = IF restartPending THEN jobs \cup {"again"} ELSE jobs
        /\ IF restartPending \/ explicit
             THEN rec' = q /\ UNCHANGED delayed
             ELSE \E again \in AutomaticRestart(q) :
                    rec' = again[1] /\ Schedule(again[2])

ApplyExit ==
  /\ pc \in {"exits1", "exits2"}
  /\ \E e \in exits :
       /\ exits' = exits \ {e}
       /\ \/ e[1] = rec.control /\ ControlExit(e[2])
          \/ e[1] = rec.main /\ e[1] # rec.control /\ MainExit(e[2])
          \/ /\ e[1] \notin Tracked(rec)
             /\ UNCHANGED <<rec, startT, stopT, armed, registered, pidFile,
                            restartPending, delayed, jobs>>
       /\ IF e[1] \in Tracked(rec)
            THEN CleanupCgroup(rec', oomStopping, oomRecent /\ oomStopping)
            ELSE UNCHANGED <<oomStopping, oomRecent, turnedEmpty>>
  /\ UNCHANGED <<conf, fired, procVars, socket, notes, emptyEvent, oomKill,
                 rearmed>>
  /\ Stay

\* cleanup_empty_cgroups.  The call before the poll finds nothing: the events
\* are put there by the poll, and the call after it takes them.
CleanupEmpty ==
  /\ pc = "empty"
  /\ emptyEvent' = FALSE
  /\ LET completes == /\ conf.cgroupExit
                      /\ Tracked(rec) = {}
                      /\ rec.state \in {"active", "activating"}
                      /\ ~Populated
          timedOut == /\ rec.state = "deactivating"
                      /\ Tracked(rec) = {}
                      /\ rec.result \in {"timeout", "watchdog"}
          daemonGone == /\ conf.type = "forking"
                        /\ rec.state = "active"
                        /\ Tracked(rec) = {}
          over == [rec EXCEPT !.state = IF rec.stop \/ rec.result = "success"
                                          THEN "inactive" ELSE "failed"]
      IN  IF ~emptyEvent
            THEN UNCHANGED <<rec, delayed, pidFile, oomStopping, oomRecent,
                             turnedEmpty>>
            ELSE /\ CASE completes ->
                           \E q \in RunStopPost(over) :
                             \E again \in AutomaticRestart([q EXCEPT !.stop = FALSE]) :
                               rec' = again[1] /\ Schedule(again[2])
                      [] ~completes /\ timedOut ->
                           rec' \in FinishTimeout(rec, rec.result) /\ UNCHANGED delayed
                      [] ~completes /\ daemonGone ->
                           /\ rec' \in RunStopPost([rec EXCEPT !.state = "inactive",
                                                               !.result = "success"])
                           /\ UNCHANGED delayed
                      [] OTHER -> UNCHANGED <<rec, delayed>>
                 /\ pidFile' = IF completes \/ timedOut \/ daemonGone THEN 0
                               ELSE pidFile
                 /\ CleanupCgroup(rec', oomStopping, oomRecent)
  /\ UNCHANGED <<conf, timerVars, procVars, exits, noteVars, oomKill,
                 rearmed, restartPending, jobs>>
  /\ Proceed

\* retry_pending_forking_pid_files.
RetryPidFile ==
  /\ pc = "pidfile"
  /\ IF /\ conf.type = "forking" /\ conf.pidFile
        /\ rec.state = "activating" /\ Tracked(rec) = {}
        /\ PidFileReady
       THEN /\ CancelStart
            /\ IF pidFile = -1
                 THEN /\ rec' \in FailForking(rec, "protocol")
                      /\ pidFile' = 0
                      /\ UNCHANGED registered
                 ELSE /\ rec' \in FinishForking(rec, pidFile)
                      /\ pidFile' = IF rec'.state = "failed" THEN 0 ELSE pidFile
                      /\ registered' = IF NotifyAccess /\ rec'.state = "active"
                                         THEN registered \cup {pidFile}
                                         ELSE registered
       ELSE UNCHANGED <<rec, startT, armed, pidFile, registered>>
  /\ UNCHANGED <<conf, stopT, fired, procVars, exits, socket, notes, turnedEmpty,
                 emptyEvent, oomVars, restartPending, delayed, jobs>>
  /\ Proceed

\* Mutated: the deadline signals, and leaves the unit activating.
StartDeadlineForgets(source) ==
  /\ startT' = 0
  /\ UNCHANGED <<rec, stopT, armed, killed, registered, pidFile>>

\* apply_service_timeout_event: the entry of the unit is removed before its
\* source is compared.
StartDeadline(source) ==
  IF startT = source /\ rec.state = "activating"
    THEN Escalate([rec EXCEPT !.state = "deactivating", !.result = "timeout",
                              !.stop = FALSE, !.petted = FALSE],
                  0, stopT, conf.startMode)
    ELSE /\ startT' = 0
         /\ UNCHANGED <<rec, stopT, armed, killed, registered, pidFile>>

StopDeadline(source, phase) ==
  IF stopT = source /\ rec.state = "deactivating"
    THEN IF phase = "stop"
           THEN Escalate([rec EXCEPT !.result = "timeout"], startT, 0,
                         IF conf.stopMode = "abort" THEN "abort" ELSE "kill")
           ELSE Escalate(rec, startT, 0, "kill")
    ELSE /\ stopT' = 0
         /\ UNCHANGED <<rec, startT, armed, killed, registered, pidFile>>

ApplyTimeout ==
  /\ pc = "timeouts"
  /\ \E e \in fired :
       /\ fired' = fired \ {e}
       /\ IF e[2] = "start" THEN StartDeadline(e[1]) ELSE StopDeadline(e[1], e[2])
  /\ UNCHANGED <<conf, proc, exits, socket, notes, turnedEmpty, emptyEvent,
                 oomVars, restartPending, delayed, jobs>>
  /\ Stay

\* apply_notify_events for one notification m: MAINPID=, WATCHDOG=1, then
\* STOPPING=1 or else READY=1.
Notified(m) ==
  LET moved == "mainpid" \in m.fields /\ rec.main # m.pid
      named == IF moved THEN [rec EXCEPT !.main = m.pid] ELSE rec
      petted == IF "watchdog" \in m.fields /\ conf.watchdog
                  THEN [named EXCEPT !.petted = TRUE, !.barked = FALSE] ELSE named
      stops == "stopping" \in m.fields /\ rec.state \in {"active", "activating"}
      ready == /\ "ready" \in m.fields /\ conf.type = "notify"
               /\ rec.state = "activating" /\ ~stops
  IN  /\ CASE stops ->
               /\ rec' = [Quiet(petted) EXCEPT !.state = "deactivating"]
               /\ startT' = 0
               /\ IF Tracked(petted) # {}
                    THEN ArmStop("stop", Disarm(startT, armed))
                    ELSE armed' = Disarm(startT, armed) /\ UNCHANGED stopT
          [] ready ->
               /\ \/ rec' = [petted EXCEPT !.state = "active", !.result = "success",
                               !.petted = conf.watchdog \/ petted.petted,
                               !.barked = ~conf.watchdog /\ petted.barked]
                  \/ /\ conf.commands      \* ExecStartPost= failed
                     /\ rec' = [petted EXCEPT !.state = "failed",
                                              !.result = "exit-code"]
               /\ CancelStart
               /\ UNCHANGED stopT
          [] OTHER -> rec' = petted /\ UNCHANGED <<startT, stopT, armed>>
      /\ registered' =
           CASE moved /\ rec.main \in registered ->
                  (registered \ {rec.main}) \cup {m.pid}
             [] moved /\ rec.main = 0 /\ NotifyAccess -> registered \cup {m.pid}
             [] OTHER -> registered

ApplyNotify ==
  /\ pc = "notify"
  /\ Notified(Head(notes))
  /\ notes' = Tail(notes)
  /\ UNCHANGED <<conf, fired, procVars, exits, socket, pidFile, turnedEmpty,
                 emptyEvent, oomVars, restartPending, delayed, jobs>>
  /\ Stay

\* expire_watchdogs.
ExpireWatchdog ==
  /\ pc = "dog"
  /\ \/ UNCHANGED <<rec, startT, stopT, armed, killed, registered, pidFile>>
     \/ /\ conf.watchdog /\ rec.petted /\ ~rec.barked /\ rec.main # 0
        /\ Escalate([rec EXCEPT !.barked = TRUE, !.result = "watchdog",
                                !.stop = FALSE, !.state = "deactivating"],
                    startT, stopT, "abort")
  /\ UNCHANGED <<conf, fired, proc, exits, socket, notes, turnedEmpty, emptyEvent,
                 oomVars, restartPending, delayed, jobs>>
  /\ Proceed

\* Step 9: run_once_timeout.  Some of the armed timers fire, every process
\* that has ended is reaped, notifications of registered senders are kept.
Poll(timers, restarts) ==
  /\ pc = "poll"
  /\ fired' = fired \cup timers
  /\ armed' = armed \ timers
  /\ ReapAll
  /\ LET Known(n) == n[1] \in registered
         kept == SelectSeq(socket, Known)
     IN  notes' = notes \o [n \in 1..Len(kept) |-> kept[n][2]]
  /\ socket' = <<>>
  /\ emptyEvent' = (turnedEmpty /\ ~Populated)
  /\ turnedEmpty' = FALSE
  /\ delayed' = delayed - restarts
  /\ jobs' = IF restarts > 0 THEN jobs \cup {"again"} ELSE jobs
  /\ UNCHANGED <<conf, rec, startT, stopT, killed, registered, pidFile, oomVars,
                 restartPending>>
  /\ Proceed

PollAny == \E timers \in SUBSET armed, n \in {0, 1} :
             n <= delayed /\ Poll(timers, n)

(***************************************************************************)
(* Clients and the processes of the service                                *)
(***************************************************************************)

Request(job) ==
  /\ job \in conf.asks \ jobs
  /\ Cardinality(armed) <= MaxTimers
  /\ jobs' = jobs \cup {job}
  /\ UNCHANGED <<conf, rec, timerVars, procVars, exits, noteVars, pidFile,
                 turnedEmpty, emptyEvent, oomVars, restartPending, delayed, pc>>

Fork ==
  /\ conf.forks
  /\ Alive \ killed # {}
  /\ NewPids # {}
  /\ proc' = [proc EXCEPT ![NewPid] = "alive"]
  /\ UNCHANGED <<conf, rec, timerVars, killed, exits, noteVars, pidFile,
                 turnedEmpty, emptyEvent, oomVars, restartPending, delayed, jobs, pc>>

\* The kernel is out of memory: memory.events changes, then the process ends.
OomKill(p) ==
  /\ conf.starved
  /\ Cardinality(armed) <= MaxTimers
  /\ proc[p] = "alive"
  /\ proc' = [proc EXCEPT ![p] = "dying"]
  /\ oomKill' = TRUE
  /\ UNCHANGED <<conf, rec, timerVars, killed, exits, noteVars, pidFile, turnedEmpty,
                 emptyEvent, oomStopping, oomRecent, rearmed, restartPending, delayed,
                 jobs, pc>>

\* A process ends by itself or because of a signal.  One with SIGKILL pending
\* can only die of it.
Exit(p, outcome) ==
  /\ p \in Alive
  /\ outcome = "oom" <=> proc[p] = "dying"
  /\ p \in killed => outcome \in {"signal", "oom"}
  /\ proc' = [proc EXCEPT ![p] = outcome]
  /\ killed' = killed \ {p}
  /\ turnedEmpty' = (turnedEmpty \/ Alive = {p})
  /\ UNCHANGED <<conf, rec, timerVars, exits, noteVars, pidFile, emptyEvent,
                 oomVars, restartPending, delayed, jobs, pc>>

Send(p, fields, named) ==
  /\ p \in Alive
  /\ named \in IF "mainpid" \in fields THEN Alive ELSE {0}
  /\ Len(socket) < MaxSocket
  /\ socket' = Append(socket, <<p, [fields |-> fields, pid |-> named]>>)
  /\ UNCHANGED <<conf, rec, timerVars, procVars, exits, notes, registered, pidFile,
                 turnedEmpty, emptyEvent, oomVars, restartPending, delayed, jobs, pc>>

\* A process writes PIDFile=: a process of the service, or nonsense.
WritePidFile(p) ==
  /\ conf.pidFile /\ pidFile = 0
  /\ Alive # {}
  /\ p \in Alive \cup {-1}
  /\ pidFile' = p
  /\ UNCHANGED <<conf, rec, timerVars, procVars, exits, noteVars, turnedEmpty,
                 emptyEvent, oomVars, restartPending, delayed, jobs, pc>>

(***************************************************************************)
(* Specification                                                           *)
(***************************************************************************)

Init ==
  /\ conf \in Confs
  /\ rec = [state |-> "inactive", main |-> 0, control |-> 0, result |-> "success",
            stop |-> FALSE, petted |-> FALSE, barked |-> FALSE, starts |-> 0]
  /\ startT = 0 /\ stopT = 0 /\ armed = {} /\ fired = {}
  /\ proc = [p \in Pids |-> "free"] /\ killed = {} /\ exits = {}
  /\ socket = <<>> /\ notes = <<>> /\ registered = {} /\ pidFile = 0
  /\ turnedEmpty = FALSE /\ emptyEvent = FALSE
  /\ oomKill = FALSE /\ oomStopping = FALSE /\ oomRecent = FALSE /\ rearmed = FALSE
  /\ restartPending = FALSE /\ delayed = 0 /\ jobs = {} /\ pc = "reap"

Manager ==
  \/ ResetFailed \/ ReapChildren \/ ApplyOom \/ ApplyExit
  \/ CleanupEmpty \/ RetryPidFile \/ ApplyTimeout
  \/ ApplyNotify \/ ExpireWatchdog \/ RunJob \/ PollAny

World ==
  \/ \E job \in conf.asks : Request(job)
  \/ Fork
  \/ \E p \in Pids : OomKill(p) \/ \E outcome \in Outcomes : Exit(p, outcome)
  \/ \E p \in Pids, fields \in conf.says, named \in Pids \cup {0} :
       Send(p, fields, named)
  \/ \E p \in Pids \cup {-1} : WritePidFile(p)

Next == Manager \/ World

Spec == Init /\ [][Next]_vars

\* The manager keeps running; a timer that stays armed fires; a killed
\* process dies; clients stop asking at some time (every Stop job arms the
\* stop timer anew, so endless requests put the escalation off for ever).
Fairness ==
  /\ WF_vars(Manager)
  /\ SF_vars(armed # {} /\ Poll(armed, 0))
  /\ SF_vars(delayed > 0 /\ Poll({}, 1))
  /\ \A p \in Pids : WF_vars(/\ p \in killed \/ proc[p] = "dying"
                             /\ Exit(p, "signal") \/ Exit(p, "oom"))
  /\ <>[][\A job \in conf.asks : ~Request(job)]_vars

FairSpec == Spec /\ Fairness

(***************************************************************************)
(* Properties                                                              *)
(***************************************************************************)

\* The types of the state.
TypeOK ==
  /\ conf \in Conf /\ rec \in Record
  /\ startT \in Sources \cup {0} /\ stopT \in Sources \cup {0}
  /\ armed \subseteq Sources \X Phases /\ fired \subseteq Sources \X Phases
  /\ proc \in [Pids -> {"free", "alive", "dying"} \cup Outcomes]
  /\ killed \subseteq Alive /\ exits \subseteq Pids \X Outcomes
  /\ \A n \in 1..Len(socket) : socket[n] \in Pids \X Message
  /\ \A n \in 1..Len(notes) : notes[n] \in Message
  /\ registered \subseteq Pids /\ pidFile \in Pids \cup {0, -1}
  /\ {turnedEmpty, emptyEvent, oomKill, oomStopping, oomRecent, rearmed,
      restartPending} \subseteq BOOLEAN
  /\ delayed \in 0..MaxDelayed /\ jobs \subseteq conf.asks \cup {"again"}

\* The exit of p has not been applied yet, or is certain to come.
Leaving(p) ==
  p \in killed \/ proc[p] \in Outcomes \cup {"dying"} \/ \E e \in exits : e[1] = p

\* Two things part a stop timer from its entry in stop_timeouts.  The exit of the
\* starter of a forking service leaves the stop timer of a failed start armed.  And
\* an OOM teardown that finds an overdue stop replaces the timer and the entry; the
\* event of the old timer then removes the new entry before it is compared.
EntriesKept == conf.type # "forking" /\ ~rearmed

\* Every armed timer is the one the manager has on file for its phase
\* (start_timeouts, stop_timeouts): none can fire without being recognised.
TimersOwned ==
  EntriesKept => \A t \in armed : t[1] = IF t[2] = "start" THEN startT ELSE stopT

\* A unit is never activating without a start deadline that will be applied:
\* every path of start_service, READY=1, STOPPING=1, PID-file retries and
\* exits that cancels the start timer also leaves the activating state.
ActivationBounded ==
  rec.state = "activating" => <<startT, "start">> \in armed \cup fired

\* While a deactivating unit has a process, either a stop or abort deadline
\* that the manager will recognise is ahead (stop_timeouts: "Stop-timeout source
\* for each service waiting for processes to exit"), or a process is on its way
\* out: the stop, start and watchdog deadlines of apply_service_timeout_event and
\* expire_watchdogs hand over to each other, and the escalation to SIGKILL is
\* never lost.
StopEscalates ==
  EntriesKept /\ rec.state = "deactivating" /\ Tracked(rec) # {} =>
    \/ \E phase \in {"stop", "abort"} : <<stopT, phase>> \in armed \cup fired
    \/ \E p \in Tracked(rec) : Leaving(p)

\* Every process on record is there, or its exit is still to be applied, and
\* a started service of one process has it on record: the two batches of
\* apply_child_exits lose no exit.
TrackedKnown ==
  /\ \A p \in Tracked(rec) : proc[p] = "alive" \/ Leaving(p)
  /\ conf.type \in {"simple", "notify"} /\ rec.state \in {"activating", "active"}
       => conf.direct \/ conf.cgroupExit \/ rec.main # 0

\* "Start a unit again only after its current process has deactivated": a
\* job never spawns a process while the one on record is alive.  A start that
\* fails after its spawn (ExecStartPost=, the cgroup) is left out: it is failed
\* with its process still alive.
SpawnWhenGone ==
  [][~conf.commands /\ ~conf.limits /\ RunJob /\ proc' # proc
       => Tracked(rec) \cap Alive = {}]_vars

\* An explicit stop is carried through: until the processes are gone nothing
\* turns it into another state, and its end schedules no restart (a restart
\* request or an OOM kill in between aside).  Not so for a forking service,
\* whose starter's exit completes the start, nor with a watchdog, which
\* WATCHDOG=1 sets going again during the stop.
StopRespected ==
  [][/\ conf.type # "forking" /\ ~conf.watchdog
     /\ rec.stop /\ rec.state = "deactivating"
     /\ ~restartPending /\ ~oomKill /\ ~oomRecent /\ ~oomStopping
     => \/ rec'.stop /\ rec'.state = "deactivating"
        \/ rec'.state \in {"inactive", "failed"} /\ delayed' <= delayed]_vars

\* "a kernel OOM kill is never mistaken for an ordinary SIGKILL": whatever the
\* order of the kill, the process's end and the two places that reap it, a
\* main process killed by the kernel gives the result oom-kill (or a start
\* limit hit by the restart that follows).  Under OOMPolicy=continue the
\* manager remembers the kill for a limited time only.
OomRecognised ==
  [][conf.oomPolicy # "continue" =>
       \A e \in exits \ exits' : e[2] = "oom" /\ e[1] = rec.main
         => rec'.result \in {"oom-kill", "start-limit-hit"}]_vars

\* What is being stopped stops, even when its process ignores every signal
\* but SIGKILL: the deadlines of apply_stop_deadline follow each other.
StopCompletes == rec.state = "deactivating" ~> rec.state # "deactivating"

\* What is being started settles: readiness, an exit or the start deadline
\* takes the unit out of activating.
StartCompletes == rec.state = "activating" ~> rec.state # "activating"

\* A restart job that waits for its process in restart_pending is taken up
\* again: the exit of the process queues the start.
RestartContinues == restartPending ~> ~restartPending

\* A restart timer activates the service: it does not stay active without a
\* process.
RestartActivates ==
  rec.state = "active" /\ Tracked(rec) = {} ~>
    rec.state # "active" \/ Tracked(rec) # {}
==============================================================================
