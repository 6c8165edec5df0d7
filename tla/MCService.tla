------------------------------ MODULE MCService ------------------------------
(* Instances of Service for TLC. *)
EXTENDS Service

Plain ==
  [type |-> "simple", restartOn |-> {}, direct |-> FALSE, cgroupExit |-> FALSE,
   remain |-> FALSE, pidFile |-> FALSE, guess |-> FALSE,
   startMode |-> "terminate", stopMode |-> "terminate", watchdog |-> FALSE,
   oomPolicy |-> "continue", killMode |-> "control-group", sigkill |-> TRUE,
   commands |-> FALSE, limits |-> FALSE, forks |-> FALSE, starved |-> FALSE,
   asks |-> {"start", "stop"}, says |-> {}]

Failures == Results \ {"success"}
Ready == {{"ready"}}

\* Services of one process, with and without readiness, watchdog, automatic
\* restart and patience.
Single == [Plain EXCEPT !.asks = {"start", "stop", "restart"}]
SingleConfs ==
  {[Single EXCEPT !.restartOn = Failures],
   [Plain EXCEPT !.type = "notify", !.watchdog = TRUE, !.stopMode = "abort",
                 !.says = {{"ready"}, {"watchdog"}}],
   [Single EXCEPT !.type = "notify", !.startMode = "abort",
                  !.restartOn = Failures, !.says = Ready],
   [Plain EXCEPT !.type = "notify", !.startMode = "kill", !.killMode = "process",
                 !.says = {{"ready"}, {"stopping"}}]}

\* A starter and its daemon, found by PIDFile= or by guessing.
ForkingConfs ==
  {[Plain EXCEPT !.type = "forking", !.pidFile = TRUE, !.commands = TRUE,
                 !.forks = TRUE, !.startMode = "kill"],
   [Plain EXCEPT !.type = "forking", !.guess = TRUE, !.forks = TRUE,
                 !.killMode = "mixed"]}

\* Commands that fail, resource controls, a unit that outlives its main
\* process, KillMode=none.
OtherConfs ==
  {[Plain EXCEPT !.type = "oneshot", !.remain = TRUE, !.asks = {"start", "stop", "reset"}],
   [Plain EXCEPT !.type = "notify", !.commands = TRUE, !.limits = TRUE,
                 !.says = Ready],
   [Plain EXCEPT !.cgroupExit = TRUE, !.forks = TRUE, !.restartOn = Failures],
   [Plain EXCEPT !.watchdog = TRUE, !.killMode = "none", !.sigkill = FALSE]}

\* Memory that runs out, and a service that goes on, is stopped or is killed.
OomConfs ==
  {[Plain EXCEPT !.starved = TRUE, !.oomPolicy = policy, !.restartOn = Failures,
                 !.asks = {"start", "reset"}] :
     policy \in {"continue", "stop", "kill"}}
  \cup {[Plain EXCEPT !.starved = TRUE, !.oomPolicy = "stop"],
        [Plain EXCEPT !.starved = TRUE, !.oomPolicy = "stop", !.forks = TRUE,
                      !.killMode = "mixed", !.asks = {"start"}]}

AllConfs == SingleConfs \cup ForkingConfs \cup OtherConfs \cup OomConfs

\* Liveness: services of one process, and KillMode=process.
LiveConfs ==
  {[Single EXCEPT !.says = {{"stopping"}}],
   [Single EXCEPT !.type = "notify", !.startMode = "abort", !.stopMode = "abort",
                  !.killMode = "process", !.says = {{"ready"}, {"stopping"}}]}

\* The setting that disagrees with a comment of the source.
Started == [Plain EXCEPT !.asks = {"start"}]
DirectConfs == {[Started EXCEPT !.direct = TRUE, !.restartOn = Failures]}
==============================================================================
