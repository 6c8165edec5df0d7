------------------------------ MODULE Inhibitors ------------------------------
(***************************************************************************)
(* Inhibitor locks and the way of a power-off request.  The login manager    *)
(* (src/bin/rustd-logind.rs) keeps the locks; its PowerOff, Reboot and Halt   *)
(* look at them and call the manager (src/dbus/manager_iface.rs), which asks  *)
(* the login manager for its locks before it lets the shutdown begin.  Each   *)
(* message is a step of its own.  The login manager may be killed and started *)
(* again.                                                                    *)
(*                                                                          *)
(* An interface object of the login manager is behind a read-write lock of   *)
(* the D-Bus library: a `&self` method holds it shared to its end, over its   *)
(* awaits, a `&mut self` setter exclusively, and a setter that waits goes     *)
(* before the methods that come after it.                                     *)
(***************************************************************************)
EXTENDS Integers, Functions, FiniteSets

CONSTANTS
  Lockers,     \* programs that take locks, one at a time each
  Requests,    \* power requests under way at the same time
  Interfaces,  \* the bus names over which locks are taken: "compat", "native"
  MaxLocks,    \* bound: locks given out per interface in one life
  MaxRuns      \* bound: times the login manager is started

VARIABLES
  table,      \* inhibitors: number -> [locker, blocks]
  nextLock,   \* interface -> next_inhibitor
  serving,    \* the login manager runs
  run,        \* how often it has been started
  setting,    \* interfaces with a property setter that waits
  open,       \* lockers that keep the descriptor they were given
  blocking,   \* history: those of them whose lock blocks a shutdown
  pc,         \* request -> where it is
  asked,      \* request -> interface whose power_off waits for it, or "none"
  shutdown,   \* shutdown_action has been stored
  held,       \* history: request -> lockers that have blocked ever since it was made
  unheard     \* history: requests whose question failed with the login manager there

lockManager == <<table, nextLock, serving, run>>
requests == <<pc, asked, unheard>>
lockVars == <<lockManager, setting, open, blocking, requests, shutdown, held>>

Lock == [locker : Lockers, blocks : BOOLEAN]
Steps == {"idle", "forwarded", "listing", "blocked", "clear"}

(***************************************************************************)
(* The lock of an interface                                                *)
(***************************************************************************)

\* The requests whose methods hold the interface shared.
Readers(n) == {r \in Requests : asked[r] = n}

\* A `&self` method may begin.
Enters(n) == serving /\ n \notin setting

\* set_wall_message and set_enable_wall_messages: the setter arrives...
SetProperty(n) ==
  /\ Enters(n)
  /\ setting' = setting \cup {n}
  /\ UNCHANGED <<lockManager, open, blocking, requests, shutdown, held>>

\* ... and runs when nobody holds the interface.
SetterRuns(n) ==
  /\ n \in setting /\ Readers(n) = {}
  /\ setting' = setting \ {n}
  /\ UNCHANGED <<lockManager, open, blocking, requests, shutdown, held>>

(***************************************************************************)
(* The table of locks                                                      *)
(***************************************************************************)

\* recv with MSG_PEEK on the read end of the lock's pipe: not a socket, whether
\* the other end is open or not.
Peek(i) == "ENOTSOCK"

\* reap_inhibitors: a lock is to go when its pipe is at its end.
Reap(t) == Restrict(t, {i \in DOMAIN t : Peek(i) \notin {"eof", "EBADF"}})

\* Mutated: locks of mode "delay" count, those of mode "block" do not.
BlockedByDelay(t) == \E i \in DOMAIN t : ~t[i].blocks

\* Some lock blocks a shutdown (mode "block", for "shutdown" or
\* "handle-power-key"); a lock of any other kind does not count.
Blocked(t) == \E i \in DOMAIN t : t[i].blocks

\* inhibit: the number is the interface's own, the table is shared.
Inhibit(c, n, blocks) ==
  /\ Enters(n) /\ c \notin open /\ nextLock[n] < MaxLocks
  /\ open' = open \cup {c}
  /\ blocking' = IF blocks THEN blocking \cup {c} ELSE blocking
  /\ nextLock' = [nextLock EXCEPT ![n] = @ + 1]
  /\ table' = LET t == Reap(table)
              IN  [i \in DOMAIN t \cup {nextLock[n]} |->
                     IF i = nextLock[n] THEN [locker |-> c, blocks |-> blocks] ELSE t[i]]
  /\ UNCHANGED <<serving, run, setting, requests, shutdown, held>>

\* The program closes its descriptor, or exits.
CloseLock(c) ==
  /\ c \in open
  /\ open' = open \ {c}
  /\ blocking' = blocking \ {c}
  /\ held' = [r \in Requests |-> held[r] \ {c}]
  /\ UNCHANGED <<lockManager, setting, requests, shutdown>>

\* list_inhibitors, for another client.
ListInhibitors(n) ==
  /\ Enters(n)
  /\ table' = Reap(table)
  /\ UNCHANGED <<nextLock, serving, run, setting, open, blocking, requests, shutdown, held>>

(***************************************************************************)
(* A power request                                                         *)
(***************************************************************************)

\* The request goes on; at its end its method, if there is one, returns.
Goto(r, step) ==
  /\ pc' = [pc EXCEPT ![r] = step]
  /\ asked' = IF step = "idle" THEN [asked EXCEPT ![r] = "none"] ELSE asked

\* power_off, reboot or halt of the login manager, up to its call of the manager.
\* A call that a lock blocks ends here.
AskLogind(r, n) ==
  /\ Enters(n) /\ pc[r] = "idle" /\ ~shutdown
  /\ table' = Reap(table)
  /\ ~Blocked(table')
  /\ pc' = [pc EXCEPT ![r] = "forwarded"]
  /\ asked' = [asked EXCEPT ![r] = n]
  /\ held' = [held EXCEPT ![r] = blocking]
  /\ UNCHANGED <<nextLock, serving, run, setting, open, blocking, unheard, shutdown>>

\* The same methods of the manager, called by a client.
AskManager(r) ==
  /\ pc[r] = "idle" /\ ~shutdown
  /\ Goto(r, "forwarded")
  /\ held' = [held EXCEPT ![r] = blocking]
  /\ UNCHANGED <<lockManager, setting, open, blocking, unheard, shutdown>>

\* request_system_shutdown: the caller is authorized, or is not.
Authorize(r) ==
  /\ pc[r] = "forwarded"
  /\ \E step \in {"listing", "idle"} : Goto(r, step)
  /\ UNCHANGED <<lockManager, setting, open, blocking, unheard, shutdown, held>>

\* Mutated: list_inhibitors takes the interface exclusively.
AnswerAlone(r) ==
  /\ pc[r] = "listing" /\ Enters("compat") /\ Readers("compat") = {}
  /\ table' = Reap(table)
  /\ Goto(r, IF Blocked(table') THEN "blocked" ELSE "clear")
  /\ UNCHANGED <<nextLock, serving, run, setting, open, blocking, unheard, shutdown, held>>

\* shutdown_blocked_by_inhibitors: the login manager answers ListInhibitors...
Answer(r) ==
  /\ pc[r] = "listing" /\ Enters("compat")
  /\ table' = Reap(table)
  /\ Goto(r, IF Blocked(table') THEN "blocked" ELSE "clear")
  /\ UNCHANGED <<nextLock, serving, run, setting, open, blocking, unheard, shutdown, held>>

\* ... or is not there, or the call fails otherwise, which does not block.
NoAnswer(r) ==
  /\ pc[r] = "listing"
  /\ Goto(r, "clear")
  /\ unheard' = IF serving THEN unheard \cup {r} ELSE unheard
  /\ UNCHANGED <<lockManager, setting, open, blocking, shutdown, held>>

\* The rest of request_system_shutdown.
Decide(r) ==
  /\ pc[r] \in {"blocked", "clear"}
  /\ shutdown' = (shutdown \/ pc[r] = "clear")
  /\ Goto(r, "idle")
  /\ unheard' = unheard \ {r}
  /\ UNCHANGED <<lockManager, setting, open, blocking, held>>

(***************************************************************************)
(* The run of the login manager                                           *)
(***************************************************************************)

\* The table goes with the process; descriptors of its locks mean nothing more.
LockManagerKilled ==
  /\ serving /\ run < MaxRuns
  /\ serving' = FALSE
  /\ table' = [i \in {} |-> {}]
  /\ nextLock' = [n \in Interfaces |-> 0]
  /\ open' = {} /\ blocking' = {} /\ setting' = {}
  /\ asked' = [r \in Requests |-> "none"]
  /\ held' = [r \in Requests |-> {}]
  /\ UNCHANGED <<run, pc, unheard, shutdown>>

LockManagerStart ==
  /\ ~serving
  /\ serving' = TRUE
  /\ run' = run + 1
  /\ UNCHANGED <<table, nextLock, setting, open, blocking, requests, shutdown, held>>

LockInit ==
  /\ table = [i \in {} |-> {}] /\ nextLock = [n \in Interfaces |-> 0]
  /\ serving = TRUE /\ run = 1 /\ open = {} /\ blocking = {} /\ setting = {}
  /\ pc = [r \in Requests |-> "idle"] /\ asked = [r \in Requests |-> "none"]
  /\ shutdown = FALSE /\ held = [r \in Requests |-> {}] /\ unheard = {}

LockNext ==
  \/ \E c \in Lockers, n \in Interfaces, b \in BOOLEAN : Inhibit(c, n, b)
  \/ \E c \in Lockers : CloseLock(c)
  \/ \E n \in Interfaces : SetProperty(n) \/ SetterRuns(n) \/ ListInhibitors(n)
  \/ \E r \in Requests, n \in Interfaces : AskLogind(r, n)
  \/ \E r \in Requests :
       AskManager(r) \/ Authorize(r) \/ Answer(r) \/ NoAnswer(r) \/ Decide(r)
  \/ LockManagerKilled \/ LockManagerStart

LockSpec == LockInit /\ [][LockNext]_lockVars

\* Messages arrive and are handled; the call of a login manager that is not there
\* fails; whoever waits for an interface has a turn.
Handle(r) == Authorize(r) \/ (~serving /\ NoAnswer(r)) \/ Decide(r)
LockFairSpec ==
  /\ LockSpec
  /\ \A r \in Requests : WF_lockVars(Handle(r)) /\ SF_lockVars(Answer(r))
  /\ \A n \in Interfaces : WF_lockVars(SetterRuns(n))

(***************************************************************************)
(* Properties                                                              *)
(***************************************************************************)

\* The types of the state.
LockTypeOK ==
  /\ DOMAIN table \subseteq 0..(MaxLocks - 1) /\ table \in [DOMAIN table -> Lock]
  /\ nextLock \in [Interfaces -> 0..MaxLocks]
  /\ serving \in BOOLEAN /\ run \in 1..MaxRuns
  /\ open \subseteq Lockers /\ blocking \subseteq open
  /\ pc \in [Requests -> Steps] /\ shutdown \in BOOLEAN
  /\ asked \in [Requests -> Interfaces \cup {"none"}] /\ setting \subseteq Interfaces
  /\ held \in [Requests -> SUBSET Lockers] /\ unheard \subseteq Requests

\* A power request is let through only if no blocking lock was held all the time
\* since it was made: neither the two looks at the table nor the locks that come
\* and go between them let one be overlooked, as long as the login manager lives,
\* the manager's question reaches it and locks are taken over one interface.
InhibitorRespected ==
  \A r \in Requests \ unheard : pc[r] = "clear" => held[r] = {}

\* A setter waits for a request's method, and whatever comes next for the setter.
SetterInTheWay == "compat" \in setting /\ Readers("compat") # {}

\* Every power request is answered, though the login manager's method waits for
\* the manager, which asks the login manager in turn: list_inhibitors shares the
\* interface with the methods that wait.  Not so once a property of the login
\* manager is set in between: the setter waits for the method, list_inhibitors for
\* the setter and the method for list_inhibitors.
PowerAnswered ==
  \A r \in Requests : pc[r] # "idle" ~> pc[r] = "idle" \/ SetterInTheWay
=============================================================================
