-------------------------- MODULE DepResolverProofs --------------------------
(***************************************************************************)
(* The order that the dependency resolver computes, for every set of unit    *)
(* files.  The invariant says of each call that has not returned how far it   *)
(* has come.                                                                *)
(***************************************************************************)
EXTENDS DepResolver, SequenceTheorems, TLAPS

\* d is still to be looked at by the call f.
Left(g, f, d) ==
  \/ \E n \in 1..Len(f.requires) : f.requires[n] = d
  \/ d \in g.known \cup g.files /\ \E n \in 1..Len(f.wants) : f.wants[n] = d

\* What is known about the dependency d of the unit of frame i.
Handled(i, d) ==
  \/ d \in visited
  \/ <<stack[i].unit, d>> \in broken
  \/ Left(graph, stack[i], d)
  \/ i < Len(stack) /\ stack[i + 1].unit = d

\* The calls that have not returned are those of the units on the stack.
StackInv ==
  /\ onStack = {stack[n].unit : n \in 1..Len(stack)}
  /\ \A m, n \in 1..Len(stack) : stack[m].unit = stack[n].unit => m = n
  /\ visited = {order[n] : n \in 1..Len(order)}
  /\ visited \cap onStack = {}
  /\ stack # <<>> => stack[1].unit = Target
  /\ status = "running" => stack # <<>>
  /\ status = "done" => stack = <<>>

ProgressInv ==
  \A i \in 1..Len(stack) : \A d \in Names :
    Needs(graph, stack[i].unit, d) => Handled(i, d)

OnceInv ==
  /\ \A m, n \in 1..Len(order) : order[m] = order[n] => m = n
  /\ status = "done" => order # <<>> /\ order[Len(order)] = Target

DInv == TypeOK /\ StackInv /\ ProgressInv /\ OnceInv /\ DependenciesFirst

\* A list is its head and its tail.
LEMMA HeadTail ==
  ASSUME NEW S, NEW s \in Seq(S), s # <<>>
  PROVE  /\ Head(s) \in S /\ Tail(s) \in Seq(S)
         /\ Len(s) \in Nat /\ Len(s) > 0 /\ Len(Tail(s)) = Len(s) - 1
         /\ Head(s) = s[1]
         /\ \A n \in 1..Len(Tail(s)) : Tail(s)[n] = s[n + 1]
         /\ \A d : (\E n \in 1..Len(s) : s[n] = d) <=>
                   (d = Head(s) \/ \E n \in 1..Len(Tail(s)) : Tail(s)[n] = d)
PROOF
<1>1. /\ Head(s) \in S /\ Tail(s) \in Seq(S)
      /\ Len(s) \in Nat /\ Len(s) > 0 /\ Len(Tail(s)) = Len(s) - 1
      /\ Head(s) = s[1]
  OBVIOUS
<1>2. \A n \in 1..Len(Tail(s)) : Tail(s)[n] = s[n + 1]
  OBVIOUS
<1>3. ASSUME NEW d, NEW n \in 1..Len(s), s[n] = d
      PROVE  d = Head(s) \/ \E m \in 1..Len(Tail(s)) : Tail(s)[m] = d
  <2>1. CASE n = 1
    BY <1>1, <1>3, <2>1
  <2>2. CASE n # 1
    <3>1. n - 1 \in 1..Len(Tail(s)) /\ (n - 1) + 1 = n
      BY <1>1, <1>3, <2>2
    <3> QED BY <3>1, <1>2, <1>3
  <2> QED BY <2>1, <2>2
<1>4. ASSUME NEW d, NEW n \in 1..Len(Tail(s)), Tail(s)[n] = d
      PROVE  \E m \in 1..Len(s) : s[m] = d
  <2>1. n + 1 \in 1..Len(s)
    BY <1>1
  <2> QED BY <2>1, <1>2, <1>4
<1> QED BY <1>1, <1>2, <1>3, <1>4

\* The last frame and the ones below it.
LEMMA TopPop ==
  ASSUME TypeOK, stack # <<>>
  PROVE  /\ Len(stack) \in Nat \ {0}
         /\ Top \in Frame
         /\ Pop \in Seq(Frame) /\ Len(Pop) = Len(stack) - 1
         /\ \A n \in 1..Len(Pop) : Pop[n] = stack[n]
PROOF
<1>1. stack \in Seq(Frame) /\ Len(stack) \in Nat \ {0}
  BY DEF TypeOK
<1>2. Len(stack) \in 1..Len(stack)
  BY <1>1
<1>3. Top \in Frame
  BY <1>1, <1>2 DEF Top
<1>4. \A i \in 1..(Len(stack) - 1) : stack[i] \in Frame
  BY <1>1
<1> DEFINE k == Len(stack) - 1
<1>5. 1 \in Int /\ k \in Int
  BY <1>1
<1>6. /\ SubSeq(stack, 1, k) \in Seq(Frame)
      /\ Len(SubSeq(stack, 1, k)) = IF 1 <= k THEN k - 1 + 1 ELSE 0
      /\ \A i \in 1..(k - 1 + 1) : SubSeq(stack, 1, k)[i] = stack[1 + i - 1]
  <2> HIDE DEF k
  <2>1. \A i \in 1..k : stack[i] \in Frame
    BY <1>4 DEF k
  <2> QED BY <1>5, <2>1, SubSeqProperties
<1>7. Pop \in Seq(Frame) /\ Len(Pop) = k
  <2>1. k \in Nat
    BY <1>1
  <2> HIDE DEF k
  <2>2. Pop = SubSeq(stack, 1, k)
    BY DEF Pop, k
  <2>3. CASE k = 0
    BY <2>1, <2>2, <2>3, <1>6
  <2>4. CASE k # 0
    BY <2>1, <2>2, <2>4, <1>6
  <2> QED BY <2>3, <2>4
<1>8. ASSUME NEW n \in 1..k PROVE Pop[n] = stack[n]
  <2>1. n \in 1..(k - 1 + 1) /\ 1 + n - 1 = n
    BY <1>1
  <2>2. SubSeq(stack, 1, k)[n] = stack[1 + n - 1]
    BY <2>1, <1>6
  <2> QED BY <2>1, <2>2 DEF Pop
<1> QED BY <1>1, <1>3, <1>7, <1>8

\* What the walk is working on does not change its past.
LEMMA PastKept ==
  ASSUME DInv, UNCHANGED <<graph, visited, order, status>>, broken \subseteq broken'
  PROVE  OnceInv' /\ DependenciesFirst'
PROOF
<1>1. OnceInv'
  BY DEF DInv, OnceInv
<1>2. DependenciesFirst'
  BY DEF DInv, DependenciesFirst
<1> QED BY <1>1, <1>2

\* A dependency of the unit on top is dealt with at once.
LEMMA LookedAt ==
  ASSUME DInv, stack # <<>>, TypeOK',
         UNCHANGED <<graph, visited, order, status, onStack>>,
         broken \subseteq broken',
         Len(stack') = Len(stack),
         stack'[Len(stack)].unit = Top.unit,
         \A n \in 1..(Len(stack) - 1) : stack'[n] = stack[n],
         \A d \in Names : Left(graph, Top, d) =>
           \/ Left(graph, stack'[Len(stack)], d)
           \/ d \in visited
           \/ <<Top.unit, d>> \in broken'
  PROVE  DInv'
PROOF
<1> DEFINE L == Len(stack)
<1>1. L \in Nat \ {0}
  BY TopPop DEF DInv
<1>2. \A n \in 1..L : stack'[n].unit = stack[n].unit
  <2> TAKE n \in 1..L
  <2>1. CASE n = L
    BY <2>1 DEF Top
  <2>2. CASE n # L
    BY <2>2, <1>1
  <2> QED BY <2>1, <2>2
<1>3. stack' # <<>>
  BY <1>1 DEF TypeOK
<1>4. StackInv'
  <2>1. onStack' = {stack'[n].unit : n \in 1..Len(stack')}
    BY <1>1, <1>2 DEF DInv, StackInv
  <2>2. \A m, n \in 1..Len(stack') : stack'[m].unit = stack'[n].unit => m = n
    BY <1>1, <1>2 DEF DInv, StackInv
  <2>3. stack'[1].unit = Target
    BY <1>1, <1>2 DEF DInv, StackInv
  <2>4. status' # "done"
    BY DEF DInv, StackInv
  <2>5. /\ visited' = {order'[n] : n \in 1..Len(order')}
        /\ visited' \cap onStack' = {}
    BY DEF DInv, StackInv
  <2> QED BY <2>1, <2>2, <2>3, <2>4, <2>5, <1>3 DEF StackInv
<1>5. ProgressInv'
  <2> SUFFICES ASSUME NEW i \in 1..L, NEW d \in Names,
                      Needs(graph, stack'[i].unit, d)
               PROVE  Handled(i, d)'
    BY DEF ProgressInv
  <2>1. Handled(i, d)
    BY <1>2 DEF DInv, ProgressInv
  <2>2. i < L /\ stack[i + 1].unit = d => i < Len(stack') /\ stack'[i + 1].unit = d
    BY <1>1, <1>2
  <2>3. Left(graph, stack[i], d) =>
          \/ Left(graph, stack'[i], d)
          \/ d \in visited
          \/ <<stack[i].unit, d>> \in broken'
    <3>1. CASE i = L
      BY <3>1 DEF Top
    <3>2. CASE i # L
      BY <3>2, <1>1
    <3> QED BY <3>1, <3>2
  <2> QED BY <2>1, <2>2, <2>3, <1>2 DEF Handled
<1> QED BY <1>4, <1>5, PastKept DEF DInv

\* A dependency of the unit on top is gone into.
LEMMA GoneInto ==
  ASSUME DInv, stack # <<>>, TypeOK',
         NEW dep \in Names, dep \notin visited \cup onStack,
         UNCHANGED <<graph, visited, order, status, broken>>,
         onStack' = onStack \cup {dep},
         Len(stack') = Len(stack) + 1,
         stack'[Len(stack) + 1] = FrameOf(dep),
         stack'[Len(stack)].unit = Top.unit,
         \A n \in 1..(Len(stack) - 1) : stack'[n] = stack[n],
         \A d \in Names : Left(graph, Top, d) =>
           d = dep \/ Left(graph, stack'[Len(stack)], d)
  PROVE  DInv'
PROOF
<1> DEFINE L == Len(stack)
<1>1. L \in Nat \ {0}
  BY TopPop DEF DInv
<1>2. \A n \in 1..L : stack'[n].unit = stack[n].unit
  <2> TAKE n \in 1..L
  <2>1. CASE n = L
    BY <2>1 DEF Top
  <2>2. CASE n # L
    BY <2>2, <1>1
  <2> QED BY <2>1, <2>2
<1>3. stack'[L + 1].unit = dep
  BY DEF FrameOf
<1>4. stack' # <<>>
  BY <1>1 DEF TypeOK
<1>5. \A n \in 1..L : stack[n].unit # dep
  BY DEF DInv, StackInv
<1>6. StackInv'
  <2>1. onStack' = {stack'[n].unit : n \in 1..(L + 1)}
    <3>1. onStack = {stack[n].unit : n \in 1..L}
      BY DEF DInv, StackInv
    <3>2. ASSUME NEW u \in onStack' PROVE \E n \in 1..(L + 1) : stack'[n].unit = u
      <4>1. CASE u = dep
        BY <4>1, <1>1, <1>3
      <4>2. CASE u \in onStack
        <5>1. PICK n \in 1..L : stack[n].unit = u
          BY <4>2, <3>1
        <5> QED BY <5>1, <1>1, <1>2
      <4> QED BY <3>2, <4>1, <4>2
    <3>3. ASSUME NEW n \in 1..(L + 1) PROVE stack'[n].unit \in onStack'
      <4>1. CASE n = L + 1
        BY <4>1, <1>3
      <4>2. CASE n # L + 1
        <5>1. n \in 1..L
          BY <4>2, <1>1
        <5> QED BY <5>1, <1>2, <3>1
      <4> QED BY <4>1, <4>2
    <3> QED BY <3>2, <3>3
  <2>2. ASSUME NEW m \in 1..(L + 1), NEW n \in 1..(L + 1),
               stack'[m].unit = stack'[n].unit
        PROVE  m = n
    <3>1. CASE m = L + 1 /\ n \in 1..L
      BY <2>2, <3>1, <1>2, <1>3, <1>5
    <3>2. CASE n = L + 1 /\ m \in 1..L
      BY <2>2, <3>2, <1>2, <1>3, <1>5
    <3>3. CASE m \in 1..L /\ n \in 1..L
      BY <2>2, <3>3, <1>2 DEF DInv, StackInv
    <3> QED BY <3>1, <3>2, <3>3, <1>1
  <2>3. stack'[1].unit = Target
    BY <1>1, <1>2 DEF DInv, StackInv
  <2>4. status' # "done"
    BY DEF DInv, StackInv
  <2>5. /\ visited' = {order'[n] : n \in 1..Len(order')}
        /\ visited' \cap onStack' = {}
    BY DEF DInv, StackInv
  <2> QED BY <2>1, <2>2, <2>3, <2>4, <2>5, <1>4 DEF StackInv
<1>7. ProgressInv'
  <2> SUFFICES ASSUME NEW i \in 1..(L + 1), NEW d \in Names,
                      Needs(graph, stack'[i].unit, d)
               PROVE  Handled(i, d)'
    BY DEF ProgressInv
  <2>1. CASE i = L + 1
    <3>1. Left(graph, stack'[i], d)
      BY <2>1, <1>3 DEF FrameOf, Left, Needs
    <3> QED BY <3>1 DEF Handled
  <2>2. CASE i \in 1..L
    <3>1. Handled(i, d)
      BY <2>2, <1>2 DEF DInv, ProgressInv
    <3>2. i < L /\ stack[i + 1].unit = d => i < Len(stack') /\ stack'[i + 1].unit = d
      BY <2>2, <1>1, <1>2
    <3>3. Left(graph, stack[i], d) =>
            \/ Left(graph, stack'[i], d)
            \/ i < Len(stack') /\ stack'[i + 1].unit = d
      <4>1. CASE i = L
        BY <4>1, <1>1, <1>3 DEF Top
      <4>2. CASE i # L
        BY <4>2, <2>2, <1>1
      <4> QED BY <4>1, <4>2
    <3> QED BY <2>2, <3>1, <3>2, <3>3, <1>2 DEF Handled
  <2> QED BY <2>1, <2>2, <1>1
<1>8. OnceInv' /\ DependenciesFirst'
  BY PastKept
<1> QED BY <1>6, <1>7, <1>8 DEF DInv

\* The frames below the top with a new frame on top of them.
LEMMA Replaced ==
  ASSUME TypeOK, stack # <<>>, NEW f \in Frame
  PROVE  /\ Append(Pop, f) \in Seq(Frame)
         /\ Len(Append(Pop, f)) = Len(stack)
         /\ Append(Pop, f)[Len(stack)] = f
         /\ \A n \in 1..(Len(stack) - 1) : Append(Pop, f)[n] = stack[n]
PROOF
<1>1. /\ Len(stack) \in Nat \ {0} /\ Pop \in Seq(Frame) /\ Len(Pop) = Len(stack) - 1
      /\ \A n \in 1..Len(Pop) : Pop[n] = stack[n]
  BY TopPop
<1>2. /\ Append(Pop, f) \in Seq(Frame)
      /\ Len(Append(Pop, f)) = Len(Pop) + 1
      /\ Append(Pop, f)[Len(Pop) + 1] = f
      /\ \A n \in 1..Len(Pop) : Append(Pop, f)[n] = Pop[n]
  BY <1>1, AppendProperties
<1> QED BY <1>1, <1>2

\* A call of resolve for a dependency taken from the frame on top.
LEMMA ResolveKeeps ==
  ASSUME DInv, status = "running", NEW dep \in Names, NEW f \in Frame,
         f.unit = Top.unit,
         \A d \in Names : Left(graph, Top, d) => d = dep \/ Left(graph, f, d),
         Resolve(dep, Append(Pop, f)),
         UNCHANGED <<graph, visited, order, status>>, extra' \subseteq Names
  PROVE  DInv'
PROOF
<1> DEFINE frames == Append(Pop, f)
           L == Len(stack)
<1>1. TypeOK /\ stack # <<>> /\ L \in Nat \ {0}
  BY TopPop DEF DInv, StackInv
<1>2. /\ frames \in Seq(Frame) /\ Len(frames) = L /\ frames[L] = f
      /\ \A n \in 1..(L - 1) : frames[n] = stack[n]
  BY <1>1, Replaced
<1>3. FrameOf(dep) \in Frame
  BY <1>1 DEF TypeOK, Graph, Frame, FrameOf
<1> HIDE DEF frames
<1>4. CASE dep \in visited
  <2>1. stack' = frames /\ UNCHANGED <<onStack, broken>>
    BY <1>4 DEF Resolve, frames
  <2>2. TypeOK'
    BY <1>1, <1>2, <2>1 DEF TypeOK
  <2> QED BY <1>1, <1>2, <1>4, <2>1, <2>2, LookedAt
<1>5. CASE dep \in onStack \ visited
  <2>1. stack' = frames /\ UNCHANGED onStack /\ broken' = broken \cup {<<Top.unit, dep>>}
    BY <1>2, <1>5 DEF Resolve, frames
  <2>2. Top.unit \in Names
    BY <1>1, TopPop DEF Frame
  <2>3. TypeOK'
    BY <1>1, <1>2, <2>1, <2>2 DEF TypeOK
  <2> QED BY <1>1, <1>2, <2>1, <2>3, LookedAt
<1>6. CASE dep \notin visited \cup onStack
  <2>1. stack' = Append(frames, FrameOf(dep)) /\ onStack' = onStack \cup {dep}
        /\ UNCHANGED broken
    BY <1>6 DEF Resolve, frames
  <2>2. /\ stack' \in Seq(Frame) /\ Len(stack') = L + 1
        /\ stack'[L + 1] = FrameOf(dep)
        /\ \A n \in 1..L : stack'[n] = frames[n]
    BY <2>1, <1>2, <1>3, AppendProperties
  <2>3. TypeOK'
    BY <1>1, <2>1, <2>2 DEF TypeOK
  <2>4. stack'[L] = f /\ \A n \in 1..(L - 1) : stack'[n] = stack[n]
    BY <1>1, <1>2, <2>2
  <2> QED BY <1>1, <1>6, <2>1, <2>2, <2>3, <2>4, GoneInto
<1> QED BY <1>4, <1>5, <1>6

\* The call of the unit on top returns.
LEMMA ReturnKeeps ==
  ASSUME DInv, Return
  PROVE  DInv'
PROOF
<1> DEFINE L == Len(stack)
           K == Len(order)
           u == Top.unit
<1>1. TypeOK /\ stack # <<>> /\ L \in Nat \ {0}
  BY TopPop DEF DInv, StackInv, Return
<1>2. /\ u \in Names /\ Top \in Frame
      /\ Pop \in Seq(Frame) /\ Len(Pop) = L - 1
      /\ \A n \in 1..(L - 1) : Pop[n] = stack[n]
  BY <1>1, TopPop DEF Frame
<1>3. /\ order \in Seq(Names) /\ K \in Nat
      /\ order' \in Seq(Names) /\ Len(order') = K + 1 /\ order'[K + 1] = u
      /\ \A n \in 1..K : order'[n] = order[n]
  <2>1. order \in Seq(Names) /\ K \in Nat /\ order' = Append(order, u)
    BY <1>1 DEF TypeOK, Return
  <2> QED BY <2>1, <1>2, AppendProperties
<1>4. /\ onStack' = onStack \ {u} /\ visited' = visited \cup {u} /\ stack' = Pop
      /\ status' = (IF L = 1 THEN "done" ELSE "running")
      /\ UNCHANGED <<graph, extra, broken>>
  BY DEF Return
<1>5. Top.requires = <<>> /\ Top.wants = <<>>
  BY DEF Return
<1> HIDE DEF L, K, u
<1>6. u = stack[L].unit
  BY DEF u, L, Top
<1>7. u \in onStack /\ u \notin visited /\ \A n \in 1..K : order[n] # u
  <2>1. u \in onStack
    BY <1>1, <1>6 DEF DInv, StackInv, L
  <2> QED BY <2>1 DEF DInv, StackInv, K
<1>8. TypeOK'
  BY <1>1, <1>2, <1>3, <1>4 DEF TypeOK
<1>9. StackInv'
  <2>1. onStack' = {stack'[n].unit : n \in 1..(L - 1)}
    <3>1. onStack = {stack[n].unit : n \in 1..L}
      BY DEF DInv, StackInv, L
    <3>2. ASSUME NEW w \in onStack' PROVE \E n \in 1..(L - 1) : stack'[n].unit = w
      <4>1. PICK n \in 1..L : stack[n].unit = w
        BY <3>1, <1>4
      <4>2. n # L
        BY <4>1, <1>4, <1>6
      <4> QED BY <4>1, <4>2, <1>1, <1>2, <1>4
    <3>3. ASSUME NEW n \in 1..(L - 1) PROVE stack'[n].unit \in onStack'
      <4>1. n \in 1..L /\ L \in 1..L /\ n # L
        BY <1>1
      <4>2. stack[n].unit # u
        BY <4>1, <1>6 DEF DInv, StackInv, L
      <4> QED BY <4>1, <4>2, <3>1, <1>2, <1>4
    <3> QED BY <3>2, <3>3
  <2>2. \A m, n \in 1..(L - 1) : stack'[m].unit = stack'[n].unit => m = n
    BY <1>1, <1>2, <1>4 DEF DInv, StackInv, L
  <2>3. visited' = {order'[n] : n \in 1..(K + 1)}
    BY <1>3, <1>4 DEF DInv, StackInv, K
  <2>4. visited' \cap onStack' = {}
    BY <1>4 DEF DInv, StackInv
  <2>5. stack' # <<>> => stack'[1].unit = Target
    BY <1>1, <1>2, <1>4 DEF DInv, StackInv, L
  <2>6. (status' = "running" => stack' # <<>>) /\ (status' = "done" => stack' = <<>>)
    BY <1>1, <1>2, <1>4
  <2> QED BY <2>1, <2>2, <2>3, <2>4, <2>5, <2>6, <1>2, <1>3, <1>4 DEF StackInv
<1>10. ProgressInv'
  <2> SUFFICES ASSUME NEW i \in 1..(L - 1), NEW d \in Names,
                      Needs(graph, stack'[i].unit, d)
               PROVE  Handled(i, d)'
    BY <1>2, <1>4 DEF ProgressInv
  <2>1. stack'[i] = stack[i] /\ i \in 1..L
    BY <1>1, <1>2, <1>4
  <2>2. Handled(i, d)
    BY <2>1 DEF DInv, ProgressInv, L
  <2>3. i < L /\ stack[i + 1].unit = d =>
          d \in visited' \/ (i < Len(stack') /\ stack'[i + 1].unit = d)
    <3>1. CASE i + 1 = L
      BY <3>1, <1>4, <1>6
    <3>2. CASE i + 1 # L
      BY <3>2, <1>1, <1>2, <1>4
    <3> QED BY <3>1, <3>2
  <2> QED BY <2>1, <2>2, <2>3, <1>4 DEF Handled, L
<1>11. OnceInv'
  <2>1. ASSUME NEW m \in 1..(K + 1), NEW n \in 1..(K + 1), order'[m] = order'[n]
        PROVE  m = n
    <3>1. CASE m \in 1..K /\ n \in 1..K
      BY <2>1, <3>1, <1>3 DEF DInv, OnceInv, K
    <3>2. CASE m = K + 1 /\ n \in 1..K
      BY <2>1, <3>2, <1>3, <1>7
    <3>3. CASE n = K + 1 /\ m \in 1..K
      BY <2>1, <3>3, <1>3, <1>7
    <3> QED BY <3>1, <3>2, <3>3, <1>3
  <2>2. status' = "done" => order' # <<>> /\ order'[Len(order')] = Target
    BY <1>1, <1>3, <1>4, <1>6 DEF DInv, StackInv, L
  <2> QED BY <2>1, <2>2, <1>3 DEF OnceInv
<1>12. DependenciesFirst'
  <2> SUFFICES ASSUME NEW n \in 1..(K + 1), NEW d \in Names,
                      Needs(graph, order'[n], d)
               PROVE  \/ <<order'[n], d>> \in broken
                      \/ \E m \in 1..(n - 1) : order'[m] = d
    BY <1>3, <1>4 DEF DependenciesFirst
  <2>1. CASE n \in 1..K
    <3>1. <<order[n], d>> \in broken \/ \E m \in 1..(n - 1) : order[m] = d
      BY <2>1, <1>3 DEF DInv, DependenciesFirst, K
    <3>2. order'[n] = order[n] /\ \A m \in 1..(n - 1) : order'[m] = order[m]
      BY <2>1, <1>3
    <3> QED BY <3>1, <3>2
  <2>2. CASE n = K + 1
    <3>1. Handled(L, d)
      BY <2>2, <1>1, <1>3, <1>6 DEF DInv, ProgressInv, L
    <3>2. ~Left(graph, stack[L], d)
      BY <1>5 DEF Left, Top, L
    <3>3. d \in visited \/ <<u, d>> \in broken
      BY <1>1, <1>6, <3>1, <3>2 DEF Handled, L
    <3>4. d \in visited => \E m \in 1..K : order[m] = d
      BY DEF DInv, StackInv, K
    <3>5. d \in visited => \E m \in 1..(n - 1) : order'[m] = d
      BY <2>2, <3>4, <1>3
    <3> QED BY <2>2, <3>3, <3>5, <1>3
  <2> QED BY <2>1, <2>2, <1>3
<1> QED BY <1>8, <1>9, <1>10, <1>11, <1>12 DEF DInv

\* The invariant is inductive.
LEMMA DInvInit == Init => DInv
PROOF
<1> SUFFICES ASSUME Init PROVE DInv
  OBVIOUS
<1> DEFINE f == FrameOf(Target)
<1>1. /\ graph \in Graph /\ extra = {} /\ visited = {} /\ onStack = {Target}
      /\ broken = {} /\ order = <<>> /\ stack = <<f>> /\ status = "running"
  BY GraphsAssumption DEF Init
<1>2. f \in Frame /\ f.unit = Target
  BY <1>1, TargetAssumption DEF Graph, Frame, FrameOf
<1>3. \A d : Needs(graph, Target, d) => Left(graph, f, d)
  BY DEF Needs, Left, FrameOf
<1> HIDE DEF f
<1>4. stack \in Seq(Frame) /\ Len(stack) = 1 /\ stack[1] = f
  BY <1>1, <1>2
<1>5. TypeOK
  BY <1>1, <1>4, TargetAssumption DEF TypeOK
<1>6. StackInv
  BY <1>1, <1>2, <1>4 DEF StackInv
<1>7. ProgressInv
  BY <1>2, <1>3, <1>4 DEF ProgressInv, Handled
<1>8. OnceInv /\ DependenciesFirst
  BY <1>1 DEF OnceInv, DependenciesFirst
<1> QED BY <1>5, <1>6, <1>7, <1>8 DEF DInv

\* An error leaves the walk where it is.
LEMMA SameKept ==
  ASSUME DInv, TypeOK', UNCHANGED <<graph, visited, order, stack, onStack, broken>>,
         UNCHANGED status \/ status' = "error"
  PROVE  DInv'
PROOF
<1>1. StackInv'
  BY DEF DInv, StackInv
<1>2. ProgressInv'
  BY DEF DInv, ProgressInv, Handled
<1>3. OnceInv'
  BY DEF DInv, OnceInv
<1>4. DependenciesFirst'
  BY DEF DInv, DependenciesFirst
<1> QED BY <1>1, <1>2, <1>3, <1>4 DEF DInv

LEMMA DInvNext == DInv /\ [Next]_vars => DInv'
PROOF
<1> SUFFICES ASSUME DInv, [Next]_vars PROVE DInv'
  OBVIOUS
<1>1. CASE VisitRequired
  <2> DEFINE dep == Head(Top.requires)
             f == [Top EXCEPT !.requires = Tail(Top.requires)]
  <2>1. status = "running" /\ Top.requires # <<>> /\ UNCHANGED <<graph, visited, order>>
    BY <1>1 DEF VisitRequired
  <2>2. stack # <<>> /\ TypeOK /\ Top \in Frame
    BY <2>1, TopPop DEF DInv, StackInv
  <2>3. Top.requires \in Seq(Names)
    BY <2>2 DEF Frame
  <2>4. /\ dep \in Names /\ Tail(Top.requires) \in Seq(Names)
        /\ \A d : (\E n \in 1..Len(Top.requires) : Top.requires[n] = d) <=>
                  (d = dep \/ \E n \in 1..Len(Tail(Top.requires)) :
                                  Tail(Top.requires)[n] = d)
    BY <2>1, <2>3, HeadTail
  <2>5. /\ f \in Frame /\ f.unit = Top.unit /\ f.requires = Tail(Top.requires)
        /\ f.wants = Top.wants
    BY <2>2, <2>4 DEF Frame
  <2>6. CASE dep \in Loaded \cup graph.files
    <3>1. EnsureLoaded(dep) /\ Resolve(dep, Append(Pop, f)) /\ UNCHANGED status
      BY <1>1, <2>6 DEF VisitRequired
    <3>2. extra' \subseteq Names
      BY <2>2, <2>4, <3>1 DEF EnsureLoaded, TypeOK
    <3> HIDE DEF dep, f
    <3>3. \A d \in Names : Left(graph, Top, d) => d = dep \/ Left(graph, f, d)
      BY <2>4, <2>5 DEF Left
    <3> QED BY <2>1, <2>4, <2>5, <3>1, <3>2, <3>3, ResolveKeeps
  <2>7. CASE dep \notin Loaded \cup graph.files
    <3>1. status' = "error" /\ UNCHANGED <<extra, stack, onStack, broken>>
      BY <1>1, <2>7 DEF VisitRequired
    <3>2. TypeOK'
      BY <2>1, <2>2, <3>1 DEF TypeOK
    <3> QED BY <2>1, <3>1, <3>2, SameKept
  <2> QED BY <2>6, <2>7
<1>2. CASE VisitWanted
  <2> DEFINE dep == Head(Top.wants)
             f == [Top EXCEPT !.wants = Tail(Top.wants)]
  <2>1. status = "running" /\ Top.wants # <<>> /\ EnsureLoaded(dep)
        /\ UNCHANGED <<graph, visited, order, status>>
    BY <1>2 DEF VisitWanted
  <2>2. stack # <<>> /\ TypeOK /\ Top \in Frame
    BY <2>1, TopPop DEF DInv, StackInv
  <2>3. Top.wants \in Seq(Names)
    BY <2>2 DEF Frame
  <2>4. /\ dep \in Names /\ Tail(Top.wants) \in Seq(Names)
        /\ \A d : (\E n \in 1..Len(Top.wants) : Top.wants[n] = d) <=>
                  (d = dep \/ \E n \in 1..Len(Tail(Top.wants)) :
                                  Tail(Top.wants)[n] = d)
    BY <2>1, <2>3, HeadTail
  <2>5. /\ f \in Frame /\ f.unit = Top.unit /\ f.requires = Top.requires
        /\ f.wants = Tail(Top.wants)
    BY <2>2, <2>4 DEF Frame
  <2>6. extra' \subseteq Names
    BY <2>1, <2>2, <2>4 DEF EnsureLoaded, TypeOK
  <2>7. \A d \in Names : Left(graph, Top, d) =>
          (d = dep /\ dep \in graph.known \cup graph.files) \/ Left(graph, f, d)
    <3> HIDE DEF dep, f
    <3> QED BY <2>4, <2>5 DEF Left
  <2>8. CASE dep \in Loaded \cup graph.files
    <3>1. Resolve(dep, Append(Pop, f))
      BY <1>2, <2>8 DEF VisitWanted
    <3> HIDE DEF dep, f
    <3> QED BY <2>1, <2>4, <2>5, <2>6, <2>7, <3>1, ResolveKeeps
  <2>9. CASE dep \notin Loaded \cup graph.files
    <3>1. stack' = Append(Pop, f) /\ UNCHANGED <<onStack, broken>>
      BY <1>2, <2>9 DEF VisitWanted
    <3>2. dep \notin graph.known \cup graph.files
      BY <2>9 DEF Loaded
    <3> HIDE DEF dep, f
    <3>3. /\ stack' \in Seq(Frame) /\ Len(stack') = Len(stack)
          /\ stack'[Len(stack)] = f
          /\ \A n \in 1..(Len(stack) - 1) : stack'[n] = stack[n]
      BY <2>2, <2>5, <3>1, Replaced
    <3>4. TypeOK'
      BY <2>1, <2>2, <2>6, <3>1, <3>3 DEF TypeOK
    <3> QED BY <2>1, <2>2, <2>5, <2>7, <3>1, <3>2, <3>3, <3>4, LookedAt
  <2> QED BY <2>8, <2>9
<1>3. CASE Return
  BY <1>3, ReturnKeeps
<1>4. CASE UNCHANGED vars
  <2>1. TypeOK'
    BY <1>4 DEF vars, DInv, TypeOK
  <2> QED BY <1>4, <2>1, SameKept DEF vars
<1> QED BY <1>1, <1>2, <1>3, <1>4 DEF Next

\* Type correctness of the walk (src/deps.rs, Resolver), for all unit files.
THEOREM ResolverTypeCorrect == Spec => []TypeOK
PROOF
<1>1. DInv => TypeOK
  BY DEF DInv
<1> QED BY <1>1, DInvInit, DInvNext, PTL DEF Spec

\* For all unit files, in the order that resolve_start_order computes every
\* unit comes after the units it requires or wants, except along edges that
\* report_cycle has dropped.
THEOREM DependenciesComeFirst == Spec => []DependenciesFirst
PROOF
<1>1. DInv => DependenciesFirst
  BY DEF DInv
<1> QED BY <1>1, DInvInit, DInvNext, PTL DEF Spec

\* For all unit files, resolve_start_order names no unit twice and the target
\* last.
THEOREM OrderNamesUnitsOnce == Spec => []OrderedOnce
PROOF
<1>1. DInv => OrderedOnce
  BY DEF DInv, OnceInv, OrderedOnce
<1> QED BY <1>1, DInvInit, DInvNext, PTL DEF Spec
=============================================================================
