------------------------------- MODULE MCLogin -------------------------------
(* The login manager for TLC.  Its sessions and its locks share nothing but the *)
(* process, and are explored one after the other: `part` says which moves.      *)
EXTENDS LoginSessions, Inhibitors

VARIABLE part

LoginInit == Init /\ LockInit /\ part \in {"sessions", "locks"}

LoginNext ==
  \/ part = "sessions" /\ Next /\ UNCHANGED <<lockVars, part>>
  \/ part = "locks" /\ LockNext /\ UNCHANGED <<vars, part>>

LoginSpec ==
  /\ LoginInit /\ [][LoginNext]_<<vars, lockVars, part>>
  /\ \A r \in Requests :
       /\ WF_lockVars(part = "locks" /\ Handle(r) /\ UNCHANGED <<vars, part>>)
       /\ SF_lockVars(part = "locks" /\ Answer(r) /\ UNCHANGED <<vars, part>>)
  /\ \A n \in Interfaces :
       WF_lockVars(part = "locks" /\ SetterRuns(n) /\ UNCHANGED <<vars, part>>)

\* The types of both parts.
LoginTypesOK == TypeOK /\ LockTypeOK
=============================================================================
