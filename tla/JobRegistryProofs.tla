-------------------------- MODULE JobRegistryProofs --------------------------
(***************************************************************************)
(* Proofs about the job registry, for any number of jobs and units and any  *)
(* sequence of calls.                                                       *)
(***************************************************************************)
EXTENDS JobRegistry, FiniteSetTheorems, WellFoundedInduction, TLAPS

(***************************************************************************)
(* Each method preserves the type invariant.                               *)
(***************************************************************************)

LEMMA AllocateType ==
  ASSUME RegTypeOK, NEW k \in Kinds, NEW u \in Units,
         NEW o \in Owners \cup {NoOwner}, Allocate(k, u, o)
  PROVE  RegTypeOK'
<1>1. LiveIds' = LiveIds \cup {nextId} /\ nextId' = nextId + 1
  BY DEF Allocate, LiveIds
<1>2. nextId' \in 1..IdMax /\ nextId \in 1..(nextId' - 1)
  BY <1>1, IdMaxAssumption DEF RegTypeOK, Allocate
<1>3. LiveIds' \subseteq 1..(nextId' - 1)
  BY <1>1, <1>2 DEF RegTypeOK
<1>4. live' \in [LiveIds' -> JobInfo]
  BY <1>1 DEF RegTypeOK, Allocate, JobInfo, JobStates
<1>5. owners' \subseteq LiveIds' \X Owners
  BY <1>1 DEF RegTypeOK, Allocate
<1>6. events' \in Seq(JobEvent)
  <2>1. [type |-> "new", id |-> nextId] \in JobEvent
    BY DEF RegTypeOK, JobEvent
  <2>2. QED
    BY <2>1 DEF RegTypeOK, Allocate
<1>7. before' \subseteq LiveIds' \X LiveIds' /\ after' \subseteq LiveIds' \X LiveIds'
  BY <1>1 DEF RegTypeOK, Allocate
<1>8. nInstalled' \in Nat /\ nFailed' \in Nat
  BY DEF RegTypeOK, Allocate
<1>9. QED
  BY <1>2, <1>3, <1>4, <1>5, <1>6, <1>7, <1>8 DEF RegTypeOK

LEMMA RefreshType ==
  ASSUME RegTypeOK, NEW a, RefreshOrdering(a)
  PROVE  RegTypeOK'
BY DEF RegTypeOK, RefreshOrdering, LiveIds

LEMMA MarkRunningType ==
  ASSUME RegTypeOK, NEW i, MarkRunning(i)
  PROVE  RegTypeOK'
<1>1. LiveIds' = LiveIds
  BY DEF RegTypeOK, MarkRunning, LiveIds
<1>2. live' \in [LiveIds' -> JobInfo]
  BY <1>1 DEF RegTypeOK, MarkRunning, JobInfo, JobStates
<1>3. events' \in Seq(JobEvent)
  <2>1. i \in LiveIds => [type |-> "changed", id |-> i] \in JobEvent
    BY IdMaxAssumption DEF JobEvent, RegTypeOK
  <2>2. \/ events' = Append(events, [type |-> "changed", id |-> i])
           /\ i \in LiveIds
        \/ events' = events
    BY DEF MarkRunning
  <2>3. events \in Seq(JobEvent)
    BY DEF RegTypeOK
  <2>4. QED
    BY <2>1, <2>2, <2>3
<1>4. QED
  BY <1>1, <1>2, <1>3 DEF RegTypeOK, MarkRunning

LEMMA FinishType ==
  ASSUME RegTypeOK, NEW i, NEW r, Finish(i, r)
  PROVE  RegTypeOK'
<1>1. CASE i \in LiveIds
  <2>1. LiveIds' = LiveIds \ {i}
    BY <1>1 DEF Finish, LiveIds
  <2>2. live' \in [LiveIds' -> JobInfo]
    BY <1>1, <2>1 DEF RegTypeOK, Finish
  <2>3. events' \in Seq(JobEvent)
    <3>1. [type |-> "removed", id |-> i] \in JobEvent
      BY <1>1, IdMaxAssumption DEF JobEvent, RegTypeOK
    <3>2. events' = Append(events, [type |-> "removed", id |-> i])
      BY <1>1 DEF Finish
    <3>3. events \in Seq(JobEvent)
      BY DEF RegTypeOK
    <3>4. QED
      BY <3>1, <3>2, <3>3
  <2>4. /\ owners' \subseteq LiveIds' \X Owners
        /\ before' \subseteq LiveIds' \X LiveIds'
        /\ after' \subseteq LiveIds' \X LiveIds'
    BY <1>1, <2>1 DEF RegTypeOK, Finish
  <2>5. nFailed' \in Nat
    BY <1>1 DEF RegTypeOK, Finish
  <2>6. QED
    BY <1>1, <2>1, <2>2, <2>3, <2>4, <2>5 DEF RegTypeOK, Finish
<1>2. CASE i \notin LiveIds
  BY <1>2 DEF RegTypeOK, Finish, regVars, LiveIds
<1>3. QED
  BY <1>1, <1>2

LEMMA DrainType ==
  ASSUME RegTypeOK, DrainEvents
  PROVE  RegTypeOK'
BY DEF RegTypeOK, DrainEvents, LiveIds

\* The registry's fields stay well-typed under any sequence of calls: in
\* particular owners and ordering edges only ever mention live jobs, and live
\* identifiers are below the next one to be given out.
THEOREM RegistryTypeCorrect == RegSpec => []RegTypeOK
<1>1. RegInit => RegTypeOK
  BY IdMaxAssumption DEF RegInit, RegTypeOK, LiveIds, JobInfo
<1>2. RegTypeOK /\ [RegNext]_regVars => RegTypeOK'
  <2> SUFFICES ASSUME RegTypeOK, [RegNext]_regVars PROVE RegTypeOK'
    OBVIOUS
  <2>1. ASSUME NEW k \in Kinds, NEW u \in Units,
               NEW o \in Owners \cup {NoOwner}, Allocate(k, u, o)
        PROVE  RegTypeOK'
    BY <2>1, AllocateType
  <2>2. ASSUME NEW a \in Afters, RefreshOrdering(a) PROVE RegTypeOK'
    BY <2>2, RefreshType
  <2>3. ASSUME NEW i \in 1..IdMax, MarkRunning(i) PROVE RegTypeOK'
    BY <2>3, MarkRunningType
  <2>4. ASSUME NEW i \in 1..IdMax, NEW r \in Results, Finish(i, r)
        PROVE  RegTypeOK'
    BY <2>4, FinishType
  <2>5. CASE DrainEvents
    BY <2>5, DrainType
  <2>6. CASE UNCHANGED regVars
    BY <2>6 DEF RegTypeOK, regVars, LiveIds
  <2>7. QED
    BY <2>1, <2>2, <2>3, <2>4, <2>5, <2>6 DEF RegNext
<1>3. QED
  BY <1>1, <1>2, PTL DEF RegSpec

(***************************************************************************)
(* The two ordering relations.                                             *)
(***************************************************************************)

\* The inductive form of OrderingMirrored: the relations are converse, run
\* between live jobs and are irreflexive.
Mirrored ==
  /\ \A i, j \in LiveIds : <<i, j>> \in before <=> <<j, i>> \in after
  /\ \A i \in LiveIds : <<i, i>> \notin before

LEMMA MirroredGives ==
  ASSUME RegTypeOK, Mirrored
  PROVE  OrderingMirrored
BY DEF RegTypeOK, Mirrored, OrderingMirrored, GetBefore, GetAfter

LEMMA MirroredStep ==
  ASSUME RegTypeOK, Mirrored, [RegNext]_regVars
  PROVE  Mirrored'
<1>1. ASSUME NEW k \in Kinds, NEW u \in Units,
             NEW o \in Owners \cup {NoOwner}, Allocate(k, u, o)
      PROVE  Mirrored'
  <2>1. /\ LiveIds' = LiveIds \cup {nextId} /\ nextId \notin LiveIds
        /\ before' = before /\ after' = after
    BY <1>1 DEF Allocate, LiveIds, RegTypeOK
  <2>2. before \subseteq LiveIds \X LiveIds /\ after \subseteq LiveIds \X LiveIds
    BY DEF RegTypeOK
  <2>3. QED
    BY <2>1, <2>2 DEF Mirrored
<1>2. ASSUME NEW a \in Afters, RefreshOrdering(a) PROVE Mirrored'
  BY <1>2 DEF RefreshOrdering, Mirrored, MustPrecede, LiveIds
<1>3. ASSUME NEW i \in 1..IdMax, MarkRunning(i) PROVE Mirrored'
  <2>1. LiveIds' = LiveIds
    BY <1>3 DEF RegTypeOK, MarkRunning, LiveIds
  <2>2. QED
    BY <1>3, <2>1 DEF MarkRunning, Mirrored
<1>4. ASSUME NEW i \in 1..IdMax, NEW r \in Results, Finish(i, r)
      PROVE  Mirrored'
  <2>1. CASE i \in LiveIds
    <3>1. LiveIds' = LiveIds \ {i}
      BY <1>4, <2>1 DEF Finish, LiveIds
    <3>2. /\ before' = {p \in before : p[1] # i /\ p[2] # i}
          /\ after' = {p \in after : p[1] # i /\ p[2] # i}
      BY <1>4, <2>1 DEF Finish
    <3>3. QED
      BY <3>1, <3>2 DEF Mirrored
  <2>2. CASE i \notin LiveIds
    BY <1>4, <2>2 DEF Finish, regVars, Mirrored, LiveIds
  <2>3. QED
    BY <2>1, <2>2
<1>5. CASE DrainEvents
  BY <1>5 DEF DrainEvents, Mirrored, LiveIds
<1>6. CASE UNCHANGED regVars
  BY <1>6 DEF regVars, Mirrored, LiveIds
<1>7. QED
  BY <1>1, <1>2, <1>3, <1>4, <1>5, <1>6 DEF RegNext

\* get_before and get_after always tell the same story, for any number of
\* jobs and any After= relations, through every removal.
THEOREM OrderingStaysMirrored == RegSpec => []OrderingMirrored
<1>1. RegInit => Mirrored
  BY DEF RegInit, Mirrored, LiveIds
<1>2. QED
  BY <1>1, MirroredStep, MirroredGives, RegistryTypeCorrect, PTL DEF RegSpec

(***************************************************************************)
(* Identity of jobs.                                                       *)
(***************************************************************************)

\* Identifiers are never reused and a live job never changes its kind, its
\* unit, or goes back from running to waiting.
THEOREM JobIdentity == RegSpec => JobIdentityStable
<1> DEFINE Stable(i) ==
      /\ i \in LiveIds /\ i \in LiveIds' =>
           /\ live'[i].kind = live[i].kind
           /\ live'[i].unit = live[i].unit
           /\ live[i].state = "running" => live'[i].state = "running"
      /\ i \notin LiveIds /\ i \in LiveIds' => i >= nextId
<1>1. ASSUME RegTypeOK, [RegNext]_regVars, NEW i \in 1..IdMax
      PROVE  Stable(i)
  <2>1. ASSUME NEW k \in Kinds, NEW u \in Units,
               NEW o \in Owners \cup {NoOwner}, Allocate(k, u, o)
        PROVE  Stable(i)
    <3>1. /\ LiveIds' = LiveIds \cup {nextId} /\ nextId \notin LiveIds
          /\ nextId \in Int
          /\ \A j \in LiveIds : live'[j] = live[j]
      BY <1>1, <2>1 DEF Allocate, LiveIds, RegTypeOK
    <3>2. QED
      BY <3>1
  <2>2. ASSUME NEW a \in Afters, RefreshOrdering(a) PROVE Stable(i)
    BY <2>2 DEF RefreshOrdering, LiveIds
  <2>3. ASSUME NEW n \in 1..IdMax, MarkRunning(n) PROVE Stable(i)
    <3>1. /\ LiveIds' = LiveIds
          /\ \A j \in LiveIds : /\ live'[j].kind = live[j].kind
                                 /\ live'[j].unit = live[j].unit
                                 /\ \/ live'[j].state = live[j].state
                                    \/ live'[j].state = "running"
      <4>1. LiveIds' = LiveIds
        BY <1>1, <2>3 DEF RegTypeOK, MarkRunning, LiveIds
      <4>2. \/ live' = live
            \/ live' = [live EXCEPT ![n].state = "running"] /\ n \in LiveIds
        BY <2>3 DEF MarkRunning
      <4>3. live \in [LiveIds -> JobInfo]
        BY <1>1 DEF RegTypeOK
      <4>4. QED
        BY <4>1, <4>2, <4>3 DEF JobInfo
    <3>2. QED
      BY <3>1
  <2>4. ASSUME NEW n \in 1..IdMax, NEW r \in Results, Finish(n, r)
        PROVE  Stable(i)
    <3>1. CASE n \in LiveIds
      <4>1. LiveIds' = LiveIds \ {n} /\ \A j \in LiveIds' : live'[j] = live[j]
        BY <2>4, <3>1 DEF Finish, LiveIds
      <4>2. QED
        BY <4>1
    <3>2. CASE n \notin LiveIds
      BY <2>4, <3>2 DEF Finish, regVars, LiveIds
    <3>3. QED
      BY <3>1, <3>2
  <2>5. CASE DrainEvents
    BY <2>5 DEF DrainEvents, LiveIds
  <2>6. CASE UNCHANGED regVars
    BY <2>6 DEF regVars, LiveIds
  <2>7. QED
    BY <1>1, <2>1, <2>2, <2>3, <2>4, <2>5, <2>6 DEF RegNext
<1>2. RegTypeOK /\ [RegNext]_regVars => [\A i \in 1..IdMax : Stable(i)]_regVars
  BY <1>1
<1>3. QED
  BY <1>2, RegistryTypeCorrect, PTL DEF RegSpec, JobIdentityStable

(***************************************************************************)
(* Counters.                                                               *)
(***************************************************************************)

LEMMA LiveFinite ==
  ASSUME RegTypeOK
  PROVE  IsFiniteSet(LiveIds) /\ Cardinality(LiveIds) \in Nat
<1>1. IsFiniteSet(1..(nextId - 1))
  BY FS_Interval DEF RegTypeOK
<1>2. IsFiniteSet(LiveIds)
  BY <1>1, FS_Subset DEF RegTypeOK
<1>3. QED
  BY <1>2, FS_CardinalityType

LEMMA CountersStep ==
  ASSUME RegTypeOK, CountersAgree, [RegNext]_regVars
  PROVE  CountersAgree'
<1>0. IsFiniteSet(LiveIds) /\ Cardinality(LiveIds) \in Nat
  BY LiveFinite
<1>1. ASSUME NEW k \in Kinds, NEW u \in Units,
             NEW o \in Owners \cup {NoOwner}, Allocate(k, u, o)
      PROVE  CountersAgree'
  <2>1. LiveIds' = LiveIds \cup {nextId} /\ nextId \notin LiveIds
    BY <1>1 DEF Allocate, LiveIds, RegTypeOK
  <2>2. Cardinality(LiveIds') = Cardinality(LiveIds) + 1
    BY <1>0, <2>1, FS_AddElement
  <2>3. QED
    BY <1>0, <1>1, <2>2 DEF Allocate, CountersAgree, RegTypeOK
<1>2. ASSUME NEW a \in Afters, RefreshOrdering(a) PROVE CountersAgree'
  BY <1>2 DEF RefreshOrdering, CountersAgree, LiveIds
<1>3. ASSUME NEW i \in 1..IdMax, MarkRunning(i) PROVE CountersAgree'
  <2>1. LiveIds' = LiveIds
    BY <1>3 DEF RegTypeOK, MarkRunning, LiveIds
  <2>2. QED
    BY <1>3, <2>1 DEF MarkRunning, CountersAgree
<1>4. ASSUME NEW i \in 1..IdMax, NEW r \in Results, Finish(i, r)
      PROVE  CountersAgree'
  <2>1. CASE i \in LiveIds
    <3>1. LiveIds' = LiveIds \ {i}
      BY <1>4, <2>1 DEF Finish, LiveIds
    <3>2. Cardinality(LiveIds') = Cardinality(LiveIds) - 1
      BY <1>0, <2>1, <3>1, FS_RemoveElement
    <3>3. QED
      BY <1>0, <1>4, <2>1, <3>2 DEF Finish, CountersAgree, RegTypeOK
  <2>2. CASE i \notin LiveIds
    BY <1>4, <2>2 DEF Finish, regVars, CountersAgree, LiveIds
  <2>3. QED
    BY <2>1, <2>2
<1>5. CASE DrainEvents
  BY <1>5 DEF DrainEvents, CountersAgree, LiveIds
<1>6. CASE UNCHANGED regVars
  BY <1>6 DEF regVars, CountersAgree, LiveIds
<1>7. QED
  BY <1>1, <1>2, <1>3, <1>4, <1>5, <1>6 DEF RegNext

\* NInstalledJobs counts every job once, and NFailedJobs plus the live jobs
\* never exceed it.
THEOREM CountersStayConsistent == RegSpec => []CountersAgree
<1>1. RegInit => CountersAgree
  BY FS_EmptySet DEF RegInit, CountersAgree, LiveIds
<1>2. QED
  BY <1>1, CountersStep, RegistryTypeCorrect, PTL DEF RegSpec

(***************************************************************************)
(* Acyclic After= leaves some job unblocked.  `rank` is a numbering of the   *)
(* units that After= descends, as every acyclic relation on finitely many   *)
(* units has one.  A stop of a unit gets the height N - rank, any other job *)
(* N + 1 + rank: waiting always leads to a smaller height.                  *)
(***************************************************************************)

Height(i, rank, N) ==
  IF OrdersAsStop(live[i].kind) THEN N - rank[live[i].unit]
  ELSE N + 1 + rank[live[i].unit]

LEMMA PrecedeDescends ==
  ASSUME NEW N \in Nat, NEW rank \in [Units -> 0..N],
         NEW afters \in Afters,
         \A u \in Units : \A d \in afters[u] : rank[d] < rank[u],
         live \in [LiveIds -> JobInfo],
         NEW i \in LiveIds, NEW j \in LiveIds, MustPrecede(j, i, afters)
  PROVE  Height(j, rank, N) < Height(i, rank, N)
<1>1. /\ live[i].unit \in Units /\ live[j].unit \in Units
      /\ rank[live[i].unit] \in 0..N /\ rank[live[j].unit] \in 0..N
  BY DEF JobInfo
<1>2. CASE /\ ~OrdersAsStop(live[i].kind)
           /\ live[j].unit \in afters[live[i].unit]
  <2>1. rank[live[j].unit] < rank[live[i].unit]
    BY <1>1, <1>2
  <2>2. QED
    BY <1>1, <1>2, <2>1 DEF Height
<1>3. CASE /\ OrdersAsStop(live[j].kind)
           /\ live[i].unit \in afters[live[j].unit]
  <2>1. rank[live[i].unit] < rank[live[j].unit]
    BY <1>1, <1>3
  <2>2. QED
    BY <1>1, <1>3, <2>1 DEF Height
<1>4. QED
  BY <1>2, <1>3 DEF MustPrecede

\* The obligation formal/agda/RustD/Job/Ordering.agda postulates as
\* acyclicHasReady, for the ordering relation the code really builds: in any
\* non-empty set of live jobs one need not wait for any other.
LEMMA AcyclicHasReady ==
  ASSUME NEW N \in Nat, NEW rank \in [Units -> 0..N],
         NEW afters \in Afters,
         \A u \in Units : \A d \in afters[u] : rank[d] < rank[u],
         live \in [LiveIds -> JobInfo], LiveIds # {}
  PROVE  \E i \in LiveIds : \A j \in LiveIds : ~MustPrecede(j, i, afters)
<1> DEFINE h(i) == Height(i, rank, N)
<1> DEFINE H == {h(i) : i \in LiveIds}
<1>1. \A i \in LiveIds : h(i) \in Nat
  BY DEF Height, JobInfo
<1>2. H \subseteq Nat /\ H # {}
  BY <1>1
<1>3. PICK x \in H : \A y \in H : ~(<<y, x>> \in OpToRel(<, Nat))
  <2> HIDE DEF H
  <2>1. QED
    BY <1>2, NatLessThanWellFounded, WFMin
<1>4. PICK i \in LiveIds : x = h(i)
  BY <1>3
<1>5. ASSUME NEW j \in LiveIds, MustPrecede(j, i, afters) PROVE FALSE
  <2>1. h(j) < h(i)
    BY <1>5, PrecedeDescends
  <2>2. <<h(j), h(i)>> \in OpToRel(<, Nat)
    <3> HIDE DEF h
    <3>1. QED
      BY <1>1, <2>1 DEF OpToRel
  <2>3. QED
    BY <1>3, <1>4, <2>2
<1>6. QED
  BY <1>4, <1>5

=============================================================================
