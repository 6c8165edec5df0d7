-------------------------- MODULE SocketActivation --------------------------
(***************************************************************************)
(* A socket unit and the service it triggers: listeners and trigger limit    *)
(* (src/socket_unit.rs), their sources in the event loop                     *)
(* (src/event/loop_.rs), and the handlers of the manager that switch the      *)
(* sources off while the service runs and on again when it ends              *)
(* (src/manager.rs, set_trigger_sockets_enabled).                            *)
(*                                                                          *)
(* The inside of the service is left to Service: here it has a process or   *)
(* none.  Queued jobs of one kind count as one.                              *)
(***************************************************************************)
EXTENDS Integers, FiniteSets

CONSTANTS
  Listeners,    \* the Listen*= addresses of the socket unit
  Services,     \* the services to consider, see Kind below
  MaxQueue      \* bound: jobs that may be queued when a client asks for one

VARIABLES
  kind,         \* the service and the limit of its socket
  sock,         \* state of the socket unit
  enabled,      \* listeners whose source reports readiness
  readable,     \* listeners with a connection waiting
  hits,         \* TriggerLimit's count
  tripped,      \* TriggerLimit's tripped
  batch,        \* readiness returned by epoll_wait, not yet dispatched
  svc,          \* state of the service; "activating" waits for READY=1 or the bus
                \* name, otherwise activating counts as active
  mainProc,     \* process on record, see Process below
  holds,        \* processes that hold the current listeners: {"main", "other"}
  again,        \* restart_pending holds the service
  queue,        \* queued jobs: <<unit, kind>>
  step,         \* step of the manager's loop
  dropped       \* history: with the sources off, the process on record was dropped
                \* from it without its exit being applied

socketVars == <<sock, enabled, readable, hits, tripped>>
serviceVars == <<svc, mainProc, holds, again>>
listenVars == <<kind, socketVars, batch, serviceVars, queue, step, dropped>>

\* What the handlers look at: fails says whether a Condition*= may be false,
\* whether a command run before or after the main one may fail, and whether the
\* cgroup of a unit with resource controls may; kill that KillMode= is not none;
\* burst is TriggerLimitBurst=.  A forking service names its daemon in PIDFile=;
\* "notify" stands for Type=notify and Type=dbus.
Kind == [type : {"simple", "oneshot", "forking", "notify"},
         fails : SUBSET {"condition", "command", "cgroup"}, kill : BOOLEAN, burst : Nat]

Process == {"none", "starter", "starter-ended", "alive", "ended"}
UnitJobs == {"socket", "service"} \X {"start", "stop", "restart"}

\* collect_listen_fds_for: what a process that is started is given.
Given == {p \in {"main"} : sock = "active"}

\* Forget the main process, which may live on.
Leave ==
  {p \in {"other"} : "other" \in holds \/ ("main" \in holds /\ mainProc = "alive")}

\* The record of the process has changed other than by its exit.
Record ==
  dropped' = /\ enabled' = {} /\ mainProc' = "none"
             /\ dropped \/ mainProc # "none"

(***************************************************************************)
(* The socket unit                                                         *)
(***************************************************************************)

\* activate_socket: bind, register a source for each listener; or fail with
\* nothing left open.
ActivateSocket ==
  \/ /\ sock' = "active" /\ enabled' = Listeners /\ readable' = {}
     /\ hits' = 0 /\ tripped' = FALSE
  \/ /\ sock' = "inactive" /\ enabled' = {} /\ readable' = {}
     /\ UNCHANGED <<hits, tripped>>

\* deactivate_socket.
DeactivateSocket ==
  /\ sock' = "inactive" /\ enabled' = {} /\ readable' = {}
  /\ UNCHANGED <<hits, tripped>>

\* run_job for a socket unit.  A process that was given the listeners keeps
\* what it was given, which is no longer what clients reach.
RunSocketJob(job) ==
  /\ \/ job = "start" /\ sock = "inactive" /\ ActivateSocket /\ UNCHANGED holds
     \/ job = "start" /\ sock = "active" /\ UNCHANGED <<socketVars, holds>>
     \/ job = "stop" /\ DeactivateSocket /\ holds' = {}
     \/ job = "restart" /\ ActivateSocket /\ holds' = {}
  /\ UNCHANGED <<svc, mainProc, again>>

\* Mutated: the limit is one too high.
AdmitOneMore(expired) ==
  LET count == IF expired THEN 0 ELSE hits
  IN  IF kind.burst = 0
        THEN queue' = queue \cup {<<"service", "start">>} /\ UNCHANGED <<hits, tripped>>
      ELSE IF count <= kind.burst
        THEN /\ hits' = count + 1
             /\ queue' = queue \cup {<<"service", "start">>}
             /\ UNCHANGED tripped
      ELSE /\ hits' = count
           /\ tripped' = TRUE
           /\ queue' = IF tripped THEN queue ELSE queue \cup {<<"socket", "stop">>}

\* TriggerLimit::admit and on_io; `expired` says that the limit's interval is
\* over.
Admit(expired) ==
  LET count == IF expired THEN 0 ELSE hits
  IN  IF kind.burst = 0
        THEN queue' = queue \cup {<<"service", "start">>} /\ UNCHANGED <<hits, tripped>>
      ELSE IF count < kind.burst
        THEN /\ hits' = count + 1
             /\ queue' = queue \cup {<<"service", "start">>}
             /\ UNCHANGED tripped
      ELSE /\ hits' = count
           /\ tripped' = TRUE
           /\ queue' = IF tripped THEN queue ELSE queue \cup {<<"socket", "stop">>}

(***************************************************************************)
(* The service                                                             *)
(***************************************************************************)

\* start_service without a process: there is no cgroup, a condition is false, a
\* command fails after the record is cleared, or (oneshot) the commands are run
\* at once and may accept connections.  The sources stay as they are, unless a
\* refused start finds an earlier process on record.
StartsNothing ==
  \/ /\ "cgroup" \in kind.fails
     /\ svc' = "failed"
     /\ UNCHANGED <<mainProc, holds, enabled, readable>>
  \/ /\ "condition" \in kind.fails
     /\ svc' = "inactive"
     /\ enabled' = IF mainProc = "none" THEN enabled ELSE {}
     /\ UNCHANGED <<mainProc, holds, readable>>
  \/ /\ "command" \in kind.fails
     /\ svc' \in {"inactive", "failed"}
     /\ mainProc' = "none"
     /\ holds' = Leave
     /\ UNCHANGED <<enabled, readable>>
  \/ /\ kind.type = "oneshot"
     /\ svc' \in {"inactive", "failed", "active"}
     /\ mainProc' = "none"
     /\ holds' = Leave
     /\ readable' \in SUBSET readable
     /\ UNCHANGED enabled

\* The state and the process of a start that has spawned.
Spawned ==
  /\ mainProc' = IF kind.type = "forking" THEN "starter" ELSE "alive"
  /\ holds' = Leave \cup Given

\* ... with one, but ExecStartPost= fails or the process cannot join its cgroup:
\* the sources stay as they are.
StartFails ==
  /\ \/ kind.type = "simple" /\ "command" \in kind.fails
     \/ kind.type # "oneshot" /\ "cgroup" \in kind.fails
  /\ svc' = "failed"
  /\ Spawned
  /\ UNCHANGED <<enabled, readable>>

\* Mutated: the sources stay on.
SpawnsLoud ==
  /\ kind.type # "oneshot"
  /\ svc' = IF kind.type = "notify" THEN "activating" ELSE "active"
  /\ Spawned
  /\ UNCHANGED <<enabled, readable>>

\* ... with one: the sources are switched off.
Spawns ==
  /\ kind.type # "oneshot"
  /\ svc' = IF kind.type = "notify" THEN "activating" ELSE "active"
  /\ Spawned
  /\ enabled' = {}
  /\ UNCHANGED readable

\* start_service of a unit that is down.
StartTriggered == StartsNothing \/ StartFails \/ Spawns

Down == svc \in {"inactive", "failed"}

\* run_service_job and restart_unit.
RunTriggeredJob(job) ==
  /\ \/ job \in {"start", "restart"} /\ Down /\ StartTriggered /\ UNCHANGED again
     \/ job = "start" /\ ~Down /\ UNCHANGED <<serviceVars, enabled, readable>>
     \/ /\ job = "stop"
        /\ svc' = IF mainProc = "none" THEN "inactive" ELSE "deactivating"
        /\ UNCHANGED <<mainProc, holds, again, enabled, readable>>
     \/ /\ job = "restart" /\ ~Down
        /\ IF mainProc = "none"
             THEN again' = FALSE /\ StartTriggered
             ELSE /\ again' = TRUE
                  /\ svc' = "deactivating"
                  /\ UNCHANGED <<mainProc, holds, enabled, readable>>
  /\ UNCHANGED <<sock, hits, tripped>>

\* Mutated: the sources are not switched on again.
ApplyServiceExitMute ==
  /\ step = "exits"
  /\ IF mainProc = "ended"
       THEN /\ svc' \in {"inactive", "failed"}
            /\ mainProc' = "none"
            /\ again' = FALSE
            /\ queue' = IF again THEN queue \cup {<<"service", "start">>} ELSE queue
       ELSE UNCHANGED <<svc, mainProc, again, queue>>
  /\ step' = "deadline"
  /\ UNCHANGED <<kind, socketVars, batch, holds, dropped>>

\* apply_child_exits: the exit of the process on record, starter or main,
\* switches the sources on.  A starter that has ended well leaves its daemon.
ApplyServiceExit ==
  /\ step = "exits"
  /\ CASE mainProc = "ended" ->
            /\ svc' \in {"failed"} \cup (IF svc = "failed" THEN {} ELSE {"inactive"})
            /\ mainProc' = "none"
            /\ again' = FALSE
            /\ queue' = IF again THEN queue \cup {<<"service", "start">>} ELSE queue
            /\ UNCHANGED holds
       [] mainProc = "starter-ended" ->
            /\ \/ svc' = "active" /\ mainProc' = "alive" /\ UNCHANGED holds
               \/ svc' = "failed" /\ mainProc' = "none" /\ holds' = holds \ {"main"}
            /\ UNCHANGED <<again, queue>>
       [] OTHER -> UNCHANGED <<serviceVars, queue>>
  /\ enabled' = IF sock = "active" /\ mainProc \in {"ended", "starter-ended"}
                  THEN Listeners ELSE enabled
  /\ dropped' = (dropped /\ enabled' = {})
  /\ step' = "deadline"
  /\ UNCHANGED <<kind, sock, readable, hits, tripped, batch>>

\* apply_stop_deadline where nothing may be signalled
\* (finalize_timeout_without_exit): the process is forgotten.
ApplyStopDeadline(due) ==
  /\ step = "deadline"
  /\ IF due /\ ~kind.kill /\ svc = "deactivating"
       THEN /\ svc' = "failed"
            /\ mainProc' = "none"
            /\ holds' = Leave
       ELSE UNCHANGED <<svc, mainProc, holds>>
  /\ step' = "ready"
  /\ UNCHANGED <<kind, socketVars, batch, again, queue>>
  /\ Record

\* apply_notify_events and apply_dbus_ready_events: READY=1 or the bus name
\* completes the start, unless ExecStartPost= fails, which leaves the process on
\* record and the sources off.
ApplyReadiness(done) ==
  /\ step = "ready"
  /\ IF done /\ svc = "activating"
       THEN svc' \in {"active"} \cup {f \in {"failed"} : "command" \in kind.fails}
       ELSE UNCHANGED svc
  /\ step' = "job"
  /\ UNCHANGED <<kind, socketVars, batch, mainProc, holds, again, queue, dropped>>

(***************************************************************************)
(* The loop                                                                *)
(***************************************************************************)

\* Step 4: one job a round.
Dispatch(unit, job) ==
  /\ step = "job"
  /\ <<unit, job>> \in queue
  /\ queue' = queue \ {<<unit, job>>}
  /\ IF unit = "socket" THEN RunSocketJob(job) ELSE RunTriggeredJob(job)
  /\ step' = "poll"
  /\ UNCHANGED <<kind, batch>>
  /\ Record

NoJobReady ==
  /\ step = "job" /\ queue = {}
  /\ step' = "poll"
  /\ UNCHANGED <<kind, socketVars, batch, serviceVars, queue, dropped>>

\* run_once_timeout: epoll_wait, then one handler after the other.
PollSources ==
  /\ step = "poll"
  /\ batch' = readable \cap enabled
  /\ step' = IF batch' = {} THEN "exits" ELSE "dispatch"
  /\ UNCHANGED <<kind, socketVars, serviceVars, queue, dropped>>

DispatchIo(l, expired) ==
  /\ step = "dispatch"
  /\ l \in batch
  /\ batch' = batch \ {l}
  /\ Admit(expired)
  /\ step' = IF batch' = {} THEN "exits" ELSE "dispatch"
  /\ UNCHANGED <<kind, sock, enabled, readable, serviceVars, dropped>>

(***************************************************************************)
(* Clients and processes                                                   *)
(***************************************************************************)

AskFor(unit, job) ==
  /\ Cardinality(queue) <= MaxQueue
  /\ queue' = queue \cup {<<unit, job>>}
  /\ UNCHANGED <<kind, socketVars, batch, serviceVars, step, dropped>>

Connect(l) ==
  /\ sock = "active"
  /\ readable' = readable \cup {l}
  /\ UNCHANGED <<kind, sock, enabled, hits, tripped, batch, serviceVars, queue, step, dropped>>

\* A process that holds the listener takes the connection.
Accept(l) ==
  /\ l \in readable
  /\ \/ "main" \in holds /\ mainProc \in {"alive", "starter-ended"}
     \/ "other" \in holds
  /\ readable' = readable \ {l}
  /\ UNCHANGED <<kind, sock, enabled, hits, tripped, batch, serviceVars, queue, step, dropped>>

MainEnds ==
  /\ \/ mainProc = "alive" /\ mainProc' = "ended" /\ holds' = holds \ {"main"}
     \/ mainProc = "starter" /\ mainProc' = "starter-ended" /\ UNCHANGED holds
  /\ UNCHANGED <<kind, socketVars, batch, svc, again, queue, step, dropped>>

OthersEnd ==
  /\ "other" \in holds
  /\ holds' = holds \ {"other"}
  /\ UNCHANGED <<kind, socketVars, batch, svc, mainProc, again, queue, step, dropped>>

(***************************************************************************)
(* Specification                                                           *)
(***************************************************************************)

ListenInit ==
  /\ kind \in Services
  /\ sock = "inactive" /\ enabled = {} /\ readable = {} /\ hits = 0 /\ tripped = FALSE
  /\ batch = {} /\ svc = "inactive" /\ mainProc = "none" /\ holds = {} /\ again = FALSE
  /\ queue = {} /\ step = "exits" /\ dropped = FALSE

Loop ==
  \/ ApplyServiceExit
  \/ \E due \in BOOLEAN : ApplyStopDeadline(due) \/ ApplyReadiness(due)
  \/ \E job \in UnitJobs : Dispatch(job[1], job[2])
  \/ NoJobReady
  \/ PollSources
  \/ \E l \in Listeners, expired \in BOOLEAN : DispatchIo(l, expired)

Outside ==
  \/ \E job \in UnitJobs : AskFor(job[1], job[2])
  \/ \E l \in Listeners : Connect(l) \/ Accept(l)
  \/ MainEnds \/ OthersEnd

ListenNext == Loop \/ Outside

StopEnds == svc = "deactivating" /\ kind.kill /\ MainEnds

\* The loop keeps running and runs what the socket queues, a process that is being
\* stopped ends (SIGKILL), and the readiness of a listener that nobody serves comes
\* back before the limit's interval is over.
ListenFairness ==
  /\ WF_listenVars(Loop) /\ WF_listenVars(StopEnds)
  /\ SF_listenVars(Dispatch("service", "start")) /\ SF_listenVars(Dispatch("socket", "stop"))
  /\ \A l \in Listeners : SF_listenVars(DispatchIo(l, FALSE))

ListenSpec == ListenInit /\ [][ListenNext]_listenVars /\ ListenFairness

(***************************************************************************)
(* Properties                                                              *)
(***************************************************************************)

\* The types of the state.
ListenTypeOK ==
  /\ kind \in Kind /\ sock \in {"inactive", "active"}
  /\ enabled \cup readable \cup batch \subseteq Listeners
  /\ hits \in 0..kind.burst /\ tripped \in BOOLEAN
  /\ svc \in {"inactive", "activating", "active", "deactivating", "failed"}
  /\ mainProc \in Process /\ holds \subseteq {"main", "other"} /\ again \in BOOLEAN
  /\ queue \subseteq UnitJobs /\ dropped \in BOOLEAN
  /\ step \in {"exits", "deadline", "ready", "job", "poll", "dispatch"}

\* Sources are switched off "to stop level-triggered listener readiness from
\* repeatedly starting a service that already owns the activation fd": none is
\* on while the service runs with the listeners clients reach, through restarts
\* of either unit.  Not so for a forking service: the exit of its starter
\* switches them on (apply_child_exits).
SocketsQuiet ==
  /\ kind.type # "forking" /\ svc \in {"activating", "active"}
  /\ mainProc = "alive" /\ "main" \in holds
  => enabled = {}

\* A process has the listeners that clients reach.
Held ==
  \/ "main" \in holds /\ mainProc \in {"starter", "starter-ended", "alive"}
  \/ "other" \in holds

\* Nobody who connects is left with no process to turn to: while a connection
\* stays waiting, a process with its listener is there again and again, though it
\* may end or never accept.  A service that dies, cannot be started, was running
\* before the socket was opened or comes back without accepting is started again,
\* or the trigger limit stops the socket.  Not so once the process on record was
\* dropped with the sources off: only the exit of a process on record switches
\* them on (apply_child_exits).  For the same reason not while the process of a
\* failed start lives on, nor without a trigger limit.
ConnectionServed ==
  kind.burst > 0 =>
    \A l \in Listeners :
      <>[](l \in readable /\ ~dropped) =>
        []<>Held \/ <>[](Down /\ mainProc = "alive")
=============================================================================
