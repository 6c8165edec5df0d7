---------------------------- MODULE MCTransaction ----------------------------
(* Instances of Transaction for TLC: a shutdown target, and a boot target that  *)
(* requires one service or two.                                                *)
EXTENDS Transaction

MCTargets == {"default", "shutdown"}
MCUnits == MCTargets \cup {"s1"}
MCRequires == [t \in Targets |-> IF t = "default" THEN <<"s1">> ELSE <<>>]

TwoServices == MCTargets \cup {"s1", "s2"}
TwoRequires == [t \in Targets |-> IF t = "default" THEN <<"s1", "s2">> ELSE <<>>]

MCStartOrder == [t \in Targets |-> Append(Requires[t], t)]
MCBoot == StartOrder["default"]

\* Jobs of clients.
SomeJobs == {"start", "stop"} \X {"s1"} \cup {<<"isolate", "default">>, <<"stop", "default">>}
StopJobs == {<<"stop", "s1">>}

\* Without and with After= between the target and what it requires.
MCAfter == [u \in Units |-> {}]
OrderedAfter == [u \in Units |-> IF u = "default" THEN {"s1"} ELSE {}]
==============================================================================
