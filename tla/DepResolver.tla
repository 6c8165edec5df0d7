----------------------------- MODULE DepResolver -----------------------------
(***************************************************************************)
(* The dependency resolver (src/deps.rs): a depth-first walk over Requires=  *)
(* and Wants= that gives the order in which the units of a transaction are    *)
(* started.  The recursion of Resolver::resolve is a stack of frames, one     *)
(* for each call that has not returned.                                      *)
(***************************************************************************)
EXTENDS Integers, Sequences, FiniteSets

CONSTANTS
  Names,    \* unit names
  Target,   \* the unit to start, already loaded (load_unit)
  Graphs    \* the unit files to consider, see Graph

ASSUME TargetAssumption == Target \in Names

\* What the unit files say: the dependencies in the order they are written,
\* the units the registry holds and the ones that have a file.
Graph ==
  [requires : [Names -> Seq(Names)], wants : [Names -> Seq(Names)],
   known : SUBSET Names, files : SUBSET Names]

ASSUME GraphsAssumption ==
  \A g \in Graphs : g \in Graph /\ Target \in g.known

VARIABLES
  graph,
  extra,     \* units loaded on the way
  visited, onStack,
  broken,    \* edges dropped because they close a cycle
  order,     \* the result
  stack,     \* frames [unit, requires, wants]: what is left to look at
  status     \* "running", "done" or "error"

vars == <<graph, extra, visited, onStack, broken, order, stack, status>>

Loaded == graph.known \cup extra
Frame == [unit : Names, requires : Seq(Names), wants : Seq(Names)]
Top == stack[Len(stack)]
Pop == SubSeq(stack, 1, Len(stack) - 1)

\* The frame of a new call, from deps_for.
FrameOf(u) ==
  [unit |-> u, requires |-> graph.requires[u], wants |-> graph.wants[u]]

\* Mutated: only the unit that closes the cycle is remembered.
ResolveUnit(dep, frames) ==
  CASE dep \in visited -> stack' = frames /\ UNCHANGED <<onStack, broken>>
    [] dep \in onStack \ visited ->
         /\ broken' = broken \cup {dep}
         /\ stack' = frames
         /\ UNCHANGED onStack
    [] OTHER ->
         /\ stack' = Append(frames, FrameOf(dep))
         /\ onStack' = onStack \cup {dep}
         /\ UNCHANGED broken

\* Mutated: the edge back is remembered the wrong way round.
ResolveSwapped(dep, frames) ==
  CASE dep \in visited -> stack' = frames /\ UNCHANGED <<onStack, broken>>
    [] dep \in onStack \ visited ->
         /\ broken' = broken \cup {<<dep, frames[Len(frames)].unit>>}
         /\ stack' = frames
         /\ UNCHANGED onStack
    [] OTHER ->
         /\ stack' = Append(frames, FrameOf(dep))
         /\ onStack' = onStack \cup {dep}
         /\ UNCHANGED broken

\* A call of resolve for `dep`, made by the unit of the last of `frames`: what
\* has been visited is skipped, what is being visited closes a cycle.
Resolve(dep, frames) ==
  CASE dep \in visited -> stack' = frames /\ UNCHANGED <<onStack, broken>>
    [] dep \in onStack \ visited ->
         /\ broken' = broken \cup {<<frames[Len(frames)].unit, dep>>}
         /\ stack' = frames
         /\ UNCHANGED onStack
    [] OTHER ->
         /\ stack' = Append(frames, FrameOf(dep))
         /\ onStack' = onStack \cup {dep}
         /\ UNCHANGED broken

\* ensure_loaded.
EnsureLoaded(dep) ==
  extra' = IF dep \in graph.files \ Loaded THEN extra \cup {dep} ELSE extra

\* Mutated: Requires= is not loaded.
VisitRequiredKnown ==
  /\ status = "running"
  /\ Top.requires # <<>>
  /\ LET dep == Head(Top.requires)
         frames == Append(Pop, [Top EXCEPT !.requires = Tail(Top.requires)])
     IN  IF dep \in Loaded
           THEN Resolve(dep, frames) /\ UNCHANGED <<status, extra>>
           ELSE /\ status' = "error"
                /\ UNCHANGED <<extra, stack, onStack, broken>>
  /\ UNCHANGED <<graph, visited, order>>

\* The next Requires= of the unit on top.
VisitRequired ==
  /\ status = "running"
  /\ Top.requires # <<>>
  /\ LET dep == Head(Top.requires)
         frames == Append(Pop, [Top EXCEPT !.requires = Tail(Top.requires)])
     IN  IF dep \in Loaded \cup graph.files
           THEN EnsureLoaded(dep) /\ Resolve(dep, frames) /\ UNCHANGED status
           ELSE /\ status' = "error"
                /\ UNCHANGED <<extra, stack, onStack, broken>>
  /\ UNCHANGED <<graph, visited, order>>

\* Mutated: a unit without a file is tried again.
VisitWantedAgain ==
  /\ status = "running"
  /\ Top.requires = <<>> /\ Top.wants # <<>>
  /\ LET dep == Head(Top.wants)
         frames == Append(Pop, [Top EXCEPT !.wants = Tail(Top.wants)])
     IN  /\ EnsureLoaded(dep)
         /\ IF dep \in Loaded \cup graph.files
              THEN Resolve(dep, frames)
              ELSE UNCHANGED <<stack, onStack, broken>>
  /\ UNCHANGED <<graph, visited, order, status>>

\* ... then the next Wants=.
VisitWanted ==
  /\ status = "running"
  /\ Top.requires = <<>> /\ Top.wants # <<>>
  /\ LET dep == Head(Top.wants)
         frames == Append(Pop, [Top EXCEPT !.wants = Tail(Top.wants)])
     IN  /\ EnsureLoaded(dep)
         /\ IF dep \in Loaded \cup graph.files
              THEN Resolve(dep, frames)
              ELSE stack' = frames /\ UNCHANGED <<onStack, broken>>
  /\ UNCHANGED <<graph, visited, order, status>>

\* Mutated: the unit stays marked as being visited.
ReturnStays ==
  /\ status = "running"
  /\ Top.requires = <<>> /\ Top.wants = <<>>
  /\ order' = Append(order, Top.unit)
  /\ stack' = Pop
  /\ status' = IF Len(stack) = 1 THEN "done" ELSE "running"
  /\ UNCHANGED <<graph, extra, broken, visited, onStack>>

\* ... then the call returns and the unit is in the order.
Return ==
  /\ status = "running"
  /\ Top.requires = <<>> /\ Top.wants = <<>>
  /\ onStack' = onStack \ {Top.unit}
  /\ visited' = visited \cup {Top.unit}
  /\ order' = Append(order, Top.unit)
  /\ stack' = Pop
  /\ status' = IF Len(stack) = 1 THEN "done" ELSE "running"
  /\ UNCHANGED <<graph, extra, broken>>

Init ==
  /\ graph \in Graphs
  /\ extra = {} /\ visited = {} /\ onStack = {Target} /\ broken = {}
  /\ order = <<>> /\ stack = <<FrameOf(Target)>> /\ status = "running"

Next == VisitRequired \/ VisitWanted \/ Return

Spec == Init /\ [][Next]_vars
FairSpec == Spec /\ WF_vars(Next)

(***************************************************************************)
(* Properties                                                              *)
(***************************************************************************)

\* The types of the state.
TypeOK ==
  /\ graph \in Graph /\ extra \subseteq Names
  /\ visited \subseteq Names /\ onStack \subseteq Names
  /\ broken \subseteq Names \X Names
  /\ order \in Seq(Names) /\ stack \in Seq(Frame)
  /\ status \in {"running", "done", "error"}

\* u requires d, or wants d and d can be loaded.
Needs(g, u, d) ==
  \/ \E n \in 1..Len(g.requires[u]) : g.requires[u][n] = d
  \/ d \in g.known \cup g.files /\ \E n \in 1..Len(g.wants[u]) : g.wants[u][n] = d

\* "all dependencies before the unit that depends on them", except where the
\* edge has been dropped and reported because it closes a cycle.
DependenciesFirst ==
  \A n \in 1..Len(order) : \A d \in Names :
    Needs(graph, order[n], d) =>
      \/ <<order[n], d>> \in broken
      \/ \E m \in 1..(n - 1) : order[m] = d

\* No unit is started twice, and "The target itself is the last element".
OrderedOnce ==
  /\ \A m, n \in 1..Len(order) : order[m] = order[n] => m = n
  /\ status = "done" => order # <<>> /\ order[Len(order)] = Target

\* The chains of dependencies: d can be reached from the unit u.
Reach(u) ==
  LET Step(S) == S \cup {d \in Names : \E s \in S : Needs(graph, s, d)}
      reach[n \in 0..Cardinality(Names)] ==
        IF n = 0 THEN {u} ELSE Step(reach[n - 1])
  IN  reach[Cardinality(Names)]

\* The result is "the full transitive closure of units that must be started",
\* and it is an error exactly when a Requires= in it cannot be loaded.
ClosureComplete ==
  LET all == Reach(Target)
      here == graph.known \cup graph.files
  IN  /\ status = "done" => {order[n] : n \in 1..Len(order)} = all
      /\ status # "running" => (status = "error" <=> ~(all \subseteq here))

\* "a cycle drops the edge that closes it": only edges that lie on a cycle are
\* dropped.
OnlyCyclesBroken ==
  \A e \in broken : Needs(graph, e[1], e[2]) /\ e[1] \in Reach(e[2])

\* The walk ends, whatever cycles the unit files contain.
Resolves == <>(status # "running")
=============================================================================
