---------------------------- MODULE MCActivation ----------------------------
(* How a start is triggered and how it is completed, for TLC: a socket unit     *)
(* with its service, and a service that is ready when it owns its bus name.     *)
(* The two share nothing and are explored one after the other: `part` says      *)
(* which moves.                                                                 *)
EXTENDS DbusReadiness, SocketActivation

VARIABLE part

Triggered == [type |-> "simple", fails |-> {}, kill |-> TRUE, burst |-> 1]
SomeServices ==
  {[Triggered EXCEPT !.fails = f] : f \in {{"condition", "command"}, {"cgroup"}}}
  \cup {[Triggered EXCEPT !.type = t] : t \in {"oneshot", "forking"}}
  \cup {[Triggered EXCEPT !.type = "notify", !.fails = {"command"}, !.kill = FALSE],
        [Triggered EXCEPT !.burst = 0]}

allVars == <<vars, listenVars, part>>
OnBus(A) == part = "bus" /\ A /\ UNCHANGED <<listenVars, part>>
OnSocket(A) == part = "socket" /\ A /\ UNCHANGED <<vars, part>>

ActivationInit == Init /\ ListenInit /\ part \in {"bus", "socket"}
ActivationNext == OnBus(Next) \/ OnSocket(ListenNext)

\* FairSpec and ListenSpec, each for its part of the state.
ActivationSpec ==
  /\ ActivationInit /\ [][ActivationNext]_allVars
  /\ WF_allVars(OnBus(Manager) \/ OnSocket(Loop))
  /\ WF_allVars(OnBus(Task) \/ OnSocket(StopEnds))
  /\ SF_allVars(OnSocket(Dispatch("service", "start")))
  /\ SF_allVars(OnSocket(Dispatch("socket", "stop")))
  /\ \A l \in Listeners : SF_allVars(OnSocket(DispatchIo(l, FALSE)))

\* The types of both parts.
TypesOK == TypeOK /\ ListenTypeOK
=============================================================================
