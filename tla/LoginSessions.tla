---------------------------- MODULE LoginSessions ----------------------------
(***************************************************************************)
(* Sessions of the login manager (src/bin/rustd-logind.rs) and the files it  *)
(* keeps them in (src/logind/mod.rs).  Handlers run on one thread and give   *)
(* way only where they await, so each is one step, except CreateSession: it  *)
(* writes the session, then waits for the manager to start the user's        *)
(* manager, and the other handlers run meanwhile.  Any file operation may     *)
(* fail, which ends the handler there.  The daemon may be killed at any      *)
(* point and is started again over the files it left; killed inside a        *)
(* handler, it leaves what an error at that place leaves.                    *)
(*                                                                          *)
(* Session n is the file "rn"; the temporary file of its writer,              *)
(* "rn.tmp.<pid>", follows it in the sorted directory.  The summaries in     *)
(* users/ and seats/, written anew from sessions/ by every save and remove,  *)
(* are left out, as are the descriptors in session_refs: the daemon reads     *)
(* neither.  So are the objects of users and seats, which hold nothing.       *)
(***************************************************************************)
EXTENDS Integers, FiniteSets, FiniteSetsExt, Functions

CONSTANTS
  Clients,     \* login programs, each the leader of the session it asks for
  Uids,        \* users with a passwd record
  Root,        \* uid 0
  Seats,       \* names of seats
  Seat0,       \* the local seat
  Holdings,    \* what a session may hold: its control, devices
  None,        \* no session
  MaxSession,  \* bound: session numbers given out in one life of the daemon
  MaxLives,    \* bound: times the daemon is started
  MaxErrors    \* bound: handlers ended by an error of a file operation

ASSUME Seat0Assumption == Seat0 \in Seats /\ Root \in Uids
ASSUME BoundsAssumption == MaxSession \in Nat \ {0} /\ MaxLives \in Nat \ {0}
                           /\ MaxErrors \in Nat

VARIABLES
  sessions,     \* sessions/: file -> record
  up,           \* the daemon runs
  life,         \* how often it has been started
  nextSession,  \* NEXT_SESSION
  errors,       \* handlers ended by an error so far
  objects,      \* session objects on the bus: file -> what it holds (SessionState)
  starting,     \* CreateSession calls that await the user's manager
  awaits,       \* client -> session its CreateSession call is about
  mine,         \* client -> session it was given
  stale,        \* history: clients whose session is of an earlier life
  revoked       \* history: clients whose session somebody else has ended

daemon == <<up, life, nextSession, objects, starting>>
clients == <<awaits, mine, stale, revoked>>
vars == <<sessions, errors, daemon, clients>>

Numbers == 1..MaxSession
File(n) == (MaxLives + 1) * n
Ids == {File(n) : n \in Numbers}
Files == {i + l : i \in Ids, l \in 0..MaxLives}

\* The temporary file under which this life of the daemon writes a session; those
\* for sessions that are a temporary file themselves are left out.
Temporary(id) == {f \in {id + life} : id \in Ids}

\* The fields that are read again; LOCKED, TYPE and DISPLAY are only reported.
\* Process 0 is nobody's.
Session == [uid : Uids, seat : Seats, leader : Clients \cup {None}]

\* Mutated: no default for the seat.
BlankSeatless == [uid |-> Root, seat |-> None, leader |-> None]

\* from_map of an empty file.
Blank == [uid |-> Root, seat |-> Seat0, leader |-> None]

Listed == DOMAIN sessions

\* f without the keys outside S.
Only(f, S) == Restrict(f, DOMAIN f \cap S)

With(f, key, value) ==
  [k \in DOMAIN f \cup {key} |-> IF k = key THEN value ELSE f[k]]

(***************************************************************************)
(* The files                                                               *)
(***************************************************************************)

\* The directory after save, to its end.
Saved(all, id, record) == With(Only(all, Files \ Temporary(id)), id, record)

\* ... and where save fails: before the file is written, when it has been opened,
\* before the rename, or in rebuild_summaries.  A file is written at once.
Unsaved(all, id, record) ==
  {all, Saved(all, id, record)}
    \cup {With(all, f, r) : f \in Temporary(id), r \in {Blank, record}}

\* What is gone of S where a remove fails: they are removed in order.
Unremoved(S) == {{i \in S : i < m} : m \in S}

Fails == errors < MaxErrors /\ errors' = errors + 1
Succeeds == UNCHANGED errors

(***************************************************************************)
(* CreateSession                                                           *)
(***************************************************************************)

\* Mutated: the first free number is taken again.
FreeNumbersReused == {n \in Numbers : File(n) \notin Listed}

\* Mutated: the files of an earlier life are not looked at.
FreeNumbersUnchecked == {n \in Numbers : n >= nextSession}

\* The candidates of create_session's loop that are free.
FreeNumbers == {n \in Numbers : n >= nextSession /\ File(n) \notin Listed}

\* create_session up to the await.  The runtime directory has been made; a user
\* without passwd record or an unsafe directory ends the call before this.
CreateSession(c, uid, seat) ==
  /\ up /\ awaits[c] = None /\ mine[c] = None
  /\ FreeNumbers # {}
  /\ LET n == Min(FreeNumbers)
         record == [uid |-> uid, seat |-> seat, leader |-> c]
     IN  /\ nextSession' = n + 1
         /\ \/ /\ Succeeds
               /\ sessions' = Saved(sessions, File(n), record)
               /\ starting' = starting \cup {File(n)}
               /\ awaits' = [awaits EXCEPT ![c] = File(n)]
            \/ /\ Fails
               /\ sessions' \in Unsaved(sessions, File(n), record)
               /\ UNCHANGED <<starting, awaits>>
  /\ revoked' = revoked \ {c}
  /\ UNCHANGED <<up, life, objects, mine, stale>>

\* The caller of the session's CreateSession, if it still waits.
Waiting(id) == {c \in Clients : awaits[c] = id}

NoLongerWaiting(id) == [c \in Clients |-> IF c \in Waiting(id) THEN None ELSE awaits[c]]

\* Mutated: sessions share one SessionState.
PublishShared(id) ==
  objects' = With(objects, id, UNION {objects[i] : i \in DOMAIN objects})

\* The object of a session is put on the bus; one that is there already stays as
\* it is.
Publish(id) ==
  objects' = With(objects, id, IF id \in DOMAIN objects THEN objects[id] ELSE {})

\* The call ends without a session for its caller: start_user_manager failed, or
\* the pipe could not be made, in which case alone the session is taken back.
CreateFails(id) ==
  /\ up /\ id \in starting
  /\ starting' = starting \ {id}
  /\ awaits' = NoLongerWaiting(id)
  /\ \/ Succeeds /\ UNCHANGED <<sessions, objects>>
     \/ Succeeds /\ Publish(id) /\ sessions' = Only(sessions, Files \ {id})
     \/ Fails /\ Publish(id) /\ UNCHANGED sessions
  /\ UNCHANGED <<up, life, nextSession, mine, stale, revoked>>

\* The rest of create_session; the caller gets the session, if it waits.
CreateReplies(id) ==
  /\ up /\ id \in starting
  /\ starting' = starting \ {id}
  /\ Publish(id)
  /\ awaits' = NoLongerWaiting(id)
  /\ mine' = [c \in Clients |-> IF c \in Waiting(id) THEN id ELSE mine[c]]
  /\ UNCHANGED <<sessions, errors, up, life, nextSession, stale, revoked>>

\* pam_rustd waits for five seconds; CreateSession goes on.
GiveUp(c) ==
  /\ awaits[c] # None
  /\ awaits' = [awaits EXCEPT ![c] = None]
  /\ UNCHANGED <<sessions, errors, daemon, mine, stale, revoked>>

\* The login program goes away without closing its session.
Vanish(c) ==
  /\ mine[c] # None
  /\ mine' = [mine EXCEPT ![c] = None]
  /\ revoked' = revoked \ {c}
  /\ stale' = stale \ {c}
  /\ UNCHANGED <<sessions, errors, daemon, awaits>>

(***************************************************************************)
(* The other handlers                                                      *)
(***************************************************************************)

\* The sessions S are removed, one by one; the leaders are sent SIGTERM.
End(S, closing) ==
  \E gone \in Unremoved(S) \cup {S} :
    /\ IF gone = S THEN Succeeds ELSE Fails
    /\ sessions' = Only(sessions, Files \ gone)
    /\ revoked' = (revoked \cup {c \in Clients : mine[c] \in gone \/ awaits[c] \in gone})
                    \ closing
    /\ stale' = stale \ closing
    /\ UNCHANGED <<daemon, awaits>>

\* pam_sm_close_session.
Close(c) ==
  /\ up /\ mine[c] # None
  /\ mine' = [mine EXCEPT ![c] = None]
  /\ End({mine[c]}, {c})

\* release_session, terminate_session and the object's terminate; the file need
\* not be there.
TerminateSession(id) ==
  /\ up
  /\ End({id}, {})
  /\ UNCHANGED mine

\* terminate_user and the object's terminate.
TerminateUser(uid) ==
  /\ up
  /\ LET S == {i \in Listed : sessions[i].uid = uid}
     IN  S # {} /\ End(S, {})
  /\ UNCHANGED mine

\* terminate_seat and the object's terminate.
TerminateSeat(seat) ==
  /\ up
  /\ LET S == {i \in Listed : sessions[i].seat = seat}
     IN  S # {} /\ End(S, {})
  /\ UNCHANGED mine

\* The sessions S written again, with what they hold.
Rewritten(S) == Only(sessions, Files \ UNION {Temporary(i) : i \in S})

\* set_locked for each of S, in order, up to the first that fails.
SetLocked(S) ==
  /\ up /\ S # {}
  /\ \/ Succeeds /\ sessions' = Rewritten(S)
     \/ Fails /\ \E i \in S :
          sessions' \in Unsaved(Rewritten({j \in S : j < i}), i, sessions[i])
  /\ UNCHANGED <<daemon, clients>>

\* lock_sessions and unlock_sessions.
LockSessions == SetLocked(Listed)

\* set_locked_hint, set_type and set_display of one session.
SetHint(id) == SetLocked({id} \cap Listed)

\* take_control, and take_device if the node can be opened.
Take(id, h) ==
  /\ up /\ id \in DOMAIN objects /\ id \in Listed
  /\ objects' = [objects EXCEPT ![id] = @ \cup {h}]
  /\ UNCHANGED <<sessions, errors, up, life, nextSession, starting, clients>>

\* release_control and release_device, also after the session has ended.
Release(id, h) ==
  /\ up /\ id \in DOMAIN objects
  /\ objects' = [objects EXCEPT ![id] = @ \ {h}]
  /\ UNCHANGED <<sessions, errors, up, life, nextSession, starting, clients>>

(***************************************************************************)
(* The life of the daemon                                                  *)
(***************************************************************************)

\* The process is gone; every call that waits gets an error from the bus.
Killed ==
  /\ up /\ life < MaxLives
  /\ up' = FALSE
  /\ objects' = Only(objects, {})
  /\ starting' = {}
  /\ awaits' = [c \in Clients |-> None]
  /\ UNCHANGED <<sessions, errors, life, nextSession, mine, stale, revoked>>

\* main: every file of sessions/ becomes a session object.
Start ==
  /\ ~up
  /\ up' = TRUE
  /\ life' = life + 1
  /\ nextSession' = 1
  /\ objects' = [i \in Listed |-> {}]
  /\ stale' = {c \in Clients : mine[c] # None}
  /\ UNCHANGED <<sessions, errors, starting, awaits, mine, revoked>>

(***************************************************************************)
(* Specification                                                           *)
(***************************************************************************)

Init ==
  /\ sessions = [i \in {} |-> {}] /\ errors = 0
  /\ up = TRUE /\ life = 1 /\ nextSession = 1
  /\ objects = [i \in {} |-> {}] /\ starting = {}
  /\ awaits = [c \in Clients |-> None] /\ mine = [c \in Clients |-> None]
  /\ stale = {} /\ revoked = {}

Login ==
  \/ \E c \in Clients, u \in Uids, s \in Seats : CreateSession(c, u, s)
  \/ \E id \in Ids : CreateReplies(id) \/ CreateFails(id)
  \/ \E c \in Clients : GiveUp(c) \/ Vanish(c) \/ Close(c)

Administration ==
  \/ \E id \in Files : TerminateSession(id)
  \/ \E u \in Uids : TerminateUser(u)
  \/ \E s \in Seats : TerminateSeat(s)
  \/ \E id \in Files : SetHint(id)
  \/ LockSessions

Desktop == \E id \in Files, h \in Holdings : Take(id, h) \/ Release(id, h)

Next == Login \/ Administration \/ Desktop \/ Killed \/ Start

Spec == Init /\ [][Next]_vars

(***************************************************************************)
(* Properties                                                              *)
(***************************************************************************)

\* The types of the state.
TypeOK ==
  /\ Listed \subseteq Files /\ sessions \in [Listed -> Session]
  /\ up \in BOOLEAN /\ life \in 1..MaxLives /\ nextSession \in 1..(MaxSession + 1)
  /\ DOMAIN objects \subseteq Files /\ objects \in [DOMAIN objects -> SUBSET Holdings]
  /\ starting \subseteq Ids /\ errors \in 0..MaxErrors
  /\ awaits \in [Clients -> Ids \cup {None}] /\ mine \in [Clients -> Ids \cup {None}]
  /\ stale \subseteq Clients /\ revoked \subseteq Clients

\* A login program keeps the session it was given until somebody ends it: no
\* other login, no rewriting of records, no write that fails half-way, no death
\* and restart of the daemon (which counts from one again) takes its file away or
\* gives it to another.
SessionKept ==
  \A c \in Clients :
    mine[c] # None /\ c \notin revoked =>
      mine[c] \in Listed /\ sessions[mine[c]].leader = c

\* As long as the daemon lives, a program that closes its session never closes
\* another's, even if its own has been ended long ago: numbers are not reused.
\* (After a restart they are.)
ClosesOwn ==
  \A c \in Clients :
    mine[c] \in Listed /\ c \notin stale => sessions[mine[c]].leader = c

\* A session begins without controller and without open devices, although the
\* object of a session that has ended stays on the bus with what it holds.  In
\* the first life only: later, main has put objects on the bus for sessions of
\* earlier lives, and their numbers come up again once they have ended.
NewSessionFresh ==
  [][\A c \in Clients :
       life = 1 /\ mine[c] = None /\ mine'[c] # None =>
         objects'[mine'[c]] = {}]_vars
=============================================================================
