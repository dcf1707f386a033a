---------------------------- MODULE AlgorithmProofs ----------------------------
(***************************************************************************)
(* Proofs about two algorithms, for every input: the loops that select a   *)
(* task, and analyze, which orders resources by their dependencies.        *)
(***************************************************************************)
EXTENDS SchedulingScan, DependencyAnalyzer, ListProofs

-------------------------------------------------------------------------------
(***************************************************************************)
(* SchedulingScan.  The single pass of selectNext returns what the         *)
(* declarative `Selected` of SchedulingPolicy says, for every list of      *)
(* tasks, set of held locks and policy.  Orchestrator uses `Selected`;     *)
(* this is why it may.                                                     *)
(***************************************************************************)


\* Each policy compares by a strict weak order: the comparison is
\* asymmetric, and a task that beats the best one beats all that the best one
\* does not lose to.
LEMMA BeatsWeakOrder ==
  ASSUME NEW p \in PolicyNames,
         NEW a \in DescriptorType, NEW b \in DescriptorType, NEW c \in DescriptorType
  PROVE  /\ ~(Beats(p, a, b) /\ Beats(p, b, a))
         /\ Beats(p, a, b) /\ ~Beats(p, c, b) => Beats(p, a, c)
         /\ ~Beats(p, a, b) /\ ~Beats(p, b, c) => ~Beats(p, a, c)
BY DEF Beats, FifoBeats, DeadlineBeats, PriorityBeats, PolicyNames, DescriptorType

\* Every element of a list is a descriptor.
LEMMA ListElements ==
  ASSUME NEW l \in Lists
  PROVE  /\ Len(l) \in Nat /\ DOMAIN l = 1..Len(l)
         /\ \A k \in DOMAIN l : l[k] \in DescriptorType
<1>1. PICK n \in 0..MaxTasks : l \in [1..n -> TaskDescriptors]
  BY DEF Lists
<1>2. n \in Nat /\ MaxTasks \in Nat
  BY BoundsAssumption
<1>3. l \in Seq(TaskDescriptors) /\ Len(l) = n
  BY <1>1, <1>2
<1> QED
  BY <1>1, <1>2, <1>3, DescriptorsAssumption

\* The scan's variables keep their types (SchedulingPolicy.h, the loops' i and
\* best).
LEMMA Typing == ScanSpec => []ScanTypeOK
<1>1. ScanInit => ScanTypeOK
  BY ListElements DEF ScanInit, ScanTypeOK
<1>2. ScanTypeOK /\ [ScanNext]_scanVars => ScanTypeOK'
  <2> SUFFICES ASSUME ScanTypeOK, [ScanNext]_scanVars PROVE ScanTypeOK'
    OBVIOUS
  <2>1. Len(tasks) \in Nat
    BY ListElements DEF ScanTypeOK
  <2> QED
    BY <2>1 DEF ScanTypeOK, ScanNext, Iterate, Return, scanVars
<1> QED
  BY <1>1, <1>2, PTL DEF ScanSpec

\* One iteration keeps the winner of the tasks seen so far.
LEMMA IterateKeepsWinner ==
  ScanTypeOK /\ PrefixWinner /\ Iterate => PrefixWinner'
<1> SUFFICES ASSUME ScanTypeOK, PrefixWinner, Iterate PROVE PrefixWinner'
  OBVIOUS
<1> DEFINE seen == RunnableIn(tasks, i - 1, held, NowMs)
<1>1. /\ Len(tasks) \in Nat /\ DOMAIN tasks = 1..Len(tasks)
      /\ \A k \in DOMAIN tasks : tasks[k] \in DescriptorType
  BY ListElements DEF ScanTypeOK
<1>2. /\ i \in 1..Len(tasks) /\ i' = i + 1 /\ tasks' = tasks
      /\ held' = held /\ policy' = policy
  BY <1>1 DEF ScanTypeOK, Iterate
<1>3. RunnableIn(tasks, i', held, NowMs) \in SUBSET (1..Len(tasks))
  BY <1>1 DEF RunnableIn
<1>4. RunnableIn(tasks, i' - 1, held, NowMs) =
        seen \cup {k \in {i} : Candidate(tasks[i])}
  BY <1>1, <1>2 DEF RunnableIn, Candidate
<1>5. CASE ~Candidate(tasks[i])
  <2>1. best' = best /\ RunnableIn(tasks, i' - 1, held, NowMs) = seen
    BY <1>4, <1>5 DEF Iterate
  <2> QED
    BY <2>1, <1>2 DEF PrefixWinner
<1>6. CASE Candidate(tasks[i]) /\ best = 0
  <2>1. seen = {} /\ best' = i
    BY <1>6 DEF PrefixWinner, Iterate
  <2>2. RunnableIn(tasks, i' - 1, held, NowMs) = {i}
    BY <2>1, <1>4, <1>6
  <2> QED
    BY <2>1, <2>2, <1>2 DEF PrefixWinner, Wins
<1>7. CASE Candidate(tasks[i]) /\ best # 0
  <2>1. Wins(policy, tasks, seen, best)
    BY <1>7 DEF PrefixWinner
  <2>2. best \in seen /\ seen \subseteq 1..(i - 1) /\ seen \subseteq DOMAIN tasks
    BY <2>1, <1>1, <1>2 DEF Wins, RunnableIn
  <2>3. RunnableIn(tasks, i' - 1, held, NowMs) = seen \cup {i}
    BY <1>4, <1>7
  <2>4. policy \in PolicyNames
    BY DEF ScanTypeOK
  <2>5. CASE Beats(policy, tasks[i], tasks[best])
    <3>1. best' = i
      BY <2>5, <1>7 DEF Iterate, Prefers
    <3>2. ASSUME NEW j \in seen PROVE j < i /\ Beats(policy, tasks[i], tasks[j])
      <4>1. j < i /\ j \in 1..Len(tasks) /\ best \in 1..Len(tasks)
        BY <2>2, <1>1, <1>2
      <4>2. j = best \/ ~Beats(policy, tasks[j], tasks[best])
        <5>1. CASE j < best
          BY <5>1, <4>1, <2>1, <2>4, <1>1, BeatsWeakOrder DEF Wins
        <5>2. CASE j > best
          BY <5>2, <4>1, <2>1 DEF Wins
        <5> QED
          BY <5>1, <5>2, <4>1
      <4> QED
        BY <4>1, <4>2, <2>4, <2>5, <1>1, <1>2, BeatsWeakOrder
    <3> QED
      BY <3>1, <3>2, <2>3, <1>2 DEF PrefixWinner, Wins
  <2>6. CASE ~Beats(policy, tasks[i], tasks[best])
    <3>1. best' = best
      BY <2>6, <1>7 DEF Iterate, Prefers
    <3> QED
      BY <3>1, <2>1, <2>2, <2>3, <2>6, <1>1, <1>2 DEF PrefixWinner, Wins
  <2> QED
    BY <2>5, <2>6
<1> QED
  BY <1>5, <1>6, <1>7

\* After every iteration best is the winner of the tasks seen so far.
THEOREM ScanInvariant == ScanSpec => []PrefixWinner
<1>1. ScanInit => PrefixWinner
  <2> SUFFICES ASSUME ScanInit PROVE PrefixWinner
    OBVIOUS
  <2>1. DOMAIN tasks = 1..Len(tasks)
    BY ListElements DEF ScanInit
  <2> QED
    BY <2>1 DEF ScanInit, PrefixWinner, RunnableIn
<1>2. ScanTypeOK /\ PrefixWinner /\ [ScanNext]_scanVars => PrefixWinner'
  <2>1. CASE Iterate
    BY <2>1, IterateKeepsWinner
  <2>2. CASE UNCHANGED scanVars
    BY <2>2 DEF PrefixWinner, scanVars
  <2> QED
    BY <2>1, <2>2 DEF ScanNext, Return
<1> QED
  BY <1>1, <1>2, Typing, PTL DEF ScanSpec

\* selectNext returns the task the policy puts first among the runnable ones,
\* and nothing only if none is runnable (SchedulingPolicy.h, selectNext).
THEOREM ScanReturnsWinner == ScanSpec => []ReturnsWinner
<1>1. ScanTypeOK /\ PrefixWinner => ReturnsWinner
  <2> SUFFICES ASSUME ScanTypeOK, PrefixWinner, Returned PROVE ReturnsWinner
    BY DEF ReturnsWinner
  <2>1. Len(tasks) \in Nat /\ DOMAIN tasks = 1..Len(tasks) /\ i = Len(tasks) + 1
    BY ListElements DEF ScanTypeOK, Returned
  <2>2. RunnableIn(tasks, i - 1, held, NowMs) =
          {k \in DOMAIN tasks : IsRunnable(tasks[k], held, NowMs)}
    BY <2>1 DEF RunnableIn
  <2> QED
    BY <2>2 DEF PrefixWinner, ReturnsWinner, Selected, Wins
<1> QED
  BY <1>1, ScanInvariant, Typing, PTL

-------------------------------------------------------------------------------
(***************************************************************************)
(* ResourceDependencyAnalyzer.  What analyze keeps is said of values, not  *)
(* of variables: of a graph g, names vis seen, activations st, nodes ns.   *)
(***************************************************************************)
KnownIn(g, id) == id \in DOMAIN g /\ g[id] # Unknown

Succ(g, id) == IF KnownIn(g, id) THEN ToSet(g[id]) ELSE {}

Reach(g, S) ==
  {id \in DOMAIN g :
     \A C \in SUBSET DOMAIN g :
        S \subseteq C /\ (\A c \in C : Succ(g, c) \subseteq C) => id \in C}

LEMMA SameGraph ==
  /\ \A id : Known(id) <=> KnownIn(graph, id)
  /\ \A id : Successors(id) = Succ(graph, id)
  /\ \A S : ReachedFrom(S) = Reach(graph, S)
<1>1. \A id : Known(id) <=> KnownIn(graph, id)
  BY DEF Known, KnownIn
<1>2. \A id : Successors(id) = Succ(graph, id)
  BY <1>1 DEF Successors, Succ
<1>3. ASSUME NEW S PROVE ReachedFrom(S) = Reach(graph, S)
  BY <1>2 DEF ReachedFrom, Reach
<1> QED
  BY <1>1, <1>2, <1>3

LEMMA SuccTyped ==
  ASSUME NEW g \in Graphs, NEW id
  PROVE  /\ Succ(g, id) \subseteq DOMAIN g
         /\ KnownIn(g, id) => /\ g[id] \in Seq(DOMAIN g) /\ Len(g[id]) \in Nat
                              /\ \A d : d \in Succ(g, id) <=> \E j \in 1..Len(g[id]) : g[id][j] = d
<1>1. CASE ~KnownIn(g, id)
  BY <1>1 DEF Succ
<1>2. CASE KnownIn(g, id)
  <2>1. g[id] \in Seq(DOMAIN g)
    BY <1>2, GraphsAssumption DEF KnownIn
  <2>2. DOMAIN g[id] = 1..Len(g[id]) /\ Len(g[id]) \in Nat
    BY <2>1
  <2>3. Succ(g, id) = {g[id][j] : j \in 1..Len(g[id])}
    BY <2>2, <1>2 DEF Succ, ToSet
  <2>4. \A j \in 1..Len(g[id]) : g[id][j] \in DOMAIN g
    BY <2>1
  <2> QED
    BY <2>1, <2>2, <2>3, <2>4
<1> QED
  BY <1>1, <1>2

\* Reach is the least set that contains the names and what its names depend on.
LEMMA ReachContains ==
  ASSUME NEW g \in Graphs, NEW S, S \subseteq DOMAIN g
  PROVE  S \subseteq Reach(g, S) /\ Reach(g, S) \subseteq DOMAIN g
BY DEF Reach

LEMMA ReachFollows ==
  ASSUME NEW g \in Graphs, NEW S, NEW id \in Reach(g, S)
  PROVE  Succ(g, id) \subseteq Reach(g, S)
<1> SUFFICES ASSUME NEW d \in Succ(g, id),
                    NEW C \in SUBSET DOMAIN g, S \subseteq C, \A c \in C : Succ(g, c) \subseteq C
             PROVE  d \in C
  BY SuccTyped DEF Reach
<1>1. id \in C
  BY DEF Reach
<1> QED
  BY <1>1

LEMMA ReachLeast ==
  ASSUME NEW g \in Graphs, NEW S, NEW C, C \subseteq DOMAIN g, S \subseteq C,
         \A c \in C : Succ(g, c) \subseteq C
  PROVE  Reach(g, S) \subseteq C
BY DEF Reach

LEMMA ReachTransitive ==
  ASSUME NEW g \in Graphs, NEW S, NEW T, T \subseteq Reach(g, S)
  PROVE  Reach(g, T) \subseteq Reach(g, S)
<1>1. Reach(g, S) \subseteq DOMAIN g
  BY DEF Reach
<1>2. \A c \in Reach(g, S) : Succ(g, c) \subseteq Reach(g, S)
  BY ReachFollows
<1> QED
  BY <1>1, <1>2, ReachLeast

LEMMA ReachOfNothing ==
  ASSUME NEW g \in Graphs
  PROVE  Reach(g, {}) = {}
<1>1. Reach(g, {}) \subseteq {}
  BY ReachLeast
<1> QED
  BY <1>1

-------------------------------------------------------------------------------
\* buildTree.
NodeSeq(g) == Seq([resourceId : DOMAIN g, strongDependencies : Seq(DOMAIN g)])

IdsIn(ns) == {ns[k].resourceId : k \in 1..Len(ns)}

DepsOf(ns, k) == ToSet(ns[k].strongDependencies)

IdsDiffer(ns) == \A k, l \in 1..Len(ns) : ns[k].resourceId = ns[l].resourceId => k = l

\* A dependency has a node before, or the name depends on itself.
PostOrder(g, ns) ==
  \A k \in 1..Len(ns) : \A d \in Succ(g, ns[k].resourceId) :
    \/ ~KnownIn(g, d)
    \/ \E l \in 1..Len(ns) : l < k /\ ns[l].resourceId = d
    \/ ns[k].resourceId \in Reach(g, Succ(g, ns[k].resourceId))

\* The activations are of different names that have no node; each is reached from those
\* below it, and has called what it says.
StackOK(g, vis, st, ns) ==
  /\ st \in Seq([id : DOMAIN g, done : Nat])
  /\ \A p \in 1..Len(st) :
       /\ KnownIn(g, st[p].id) /\ st[p].id \in vis /\ st[p].id \notin IdsIn(ns)
       /\ st[p].done <= Len(g[st[p].id])
       /\ \A j \in 1..st[p].done : g[st[p].id][j] \in vis
  /\ \A p, q \in 1..Len(st) : st[p].id = st[q].id => p = q
  /\ \A p, q \in 1..Len(st) : p < q => st[q].id \in Reach(g, Succ(g, st[p].id))

NodesOK(g, vis, ns) ==
  /\ ns \in NodeSeq(g) /\ IdsDiffer(ns) /\ PostOrder(g, ns)
  /\ \A k \in 1..Len(ns) :
       /\ KnownIn(g, ns[k].resourceId) /\ ns[k].resourceId \in vis
       /\ ns[k].strongDependencies = g[ns[k].resourceId]
       /\ Succ(g, ns[k].resourceId) \subseteq vis

\* A registered name that was seen has an activation or a node.
SeenOK(g, vis, st, ns) ==
  /\ vis \subseteq DOMAIN g
  /\ \A id \in vis : KnownIn(g, id) => id \in IdsIn(ns) \/ \E p \in 1..Len(st) : st[p].id = id

BuildOK(g, vis, st, ns) == StackOK(g, vis, st, ns) /\ NodesOK(g, vis, ns) /\ SeenOK(g, vis, st, ns)

\* A call of buildTree, with the activations as they are when it is made.
LEMMA CallKeeps ==
  ASSUME NEW g \in Graphs, NEW vis, NEW fr, NEW ns, NEW id \in DOMAIN g,
         NodesOK(g, vis, ns), SeenOK(g, vis, fr, ns), StackOK(g, vis \cup {id}, fr, ns),
         \A p \in 1..Len(fr) : fr[p].id \in vis,
         fr # <<>> => id \in Succ(g, fr[Len(fr)].id)
  PROVE  BuildOK(g, vis \cup {id},
                 IF id \in vis \/ ~KnownIn(g, id) THEN fr ELSE Append(fr, [id |-> id, done |-> 0]), ns)
<1> DEFINE v == vis \cup {id}
<1>1. NodesOK(g, v, ns)
  <2>1. \A k \in 1..Len(ns) : Succ(g, ns[k].resourceId) \subseteq v
    BY DEF NodesOK
  <2> QED
    BY <2>1 DEF NodesOK
<1>2. CASE id \in vis \/ ~KnownIn(g, id)
  <2>1. SeenOK(g, v, fr, ns)
    BY <1>2 DEF SeenOK
  <2> QED
    BY <1>1, <1>2, <2>1 DEF BuildOK
<1>3. CASE id \notin vis /\ KnownIn(g, id)
  <2> DEFINE L == Len(fr)
             frame == [id |-> id, done |-> 0]
             st == Append(fr, frame)
  <2>1. fr \in Seq([id : DOMAIN g, done : Nat]) /\ L \in Nat
    BY DEF StackOK
  <2>2. frame \in [id : DOMAIN g, done : Nat] /\ frame.id = id /\ frame.done = 0
    OBVIOUS
  <2> HIDE DEF frame
  <2>3. /\ st \in Seq([id : DOMAIN g, done : Nat]) /\ Len(st) = L + 1
        /\ st[L + 1] = frame /\ \A p \in 1..L : st[p] = fr[p]
    BY <2>1, <2>2
  <2> HIDE DEF st
  <2>4. \A p \in 1..L + 1 : p = L + 1 \/ p \in 1..L
    BY <2>1
  <2>5. id \notin IdsIn(ns)
    BY <1>3 DEF NodesOK, IdsIn
  <2>6. Len(g[id]) \in Nat
    BY <1>3, SuccTyped
  <2>7. ASSUME NEW p \in 1..L + 1
        PROVE  /\ KnownIn(g, st[p].id) /\ st[p].id \in v /\ st[p].id \notin IdsIn(ns)
               /\ st[p].done <= Len(g[st[p].id])
               /\ \A j \in 1..st[p].done : g[st[p].id][j] \in v
    <3>1. CASE p = L + 1
      <4>1. st[p].id = id /\ st[p].done = 0
        BY <3>1, <2>2, <2>3
      <4>2. \A j \in 1..0 : g[id][j] \in v
        OBVIOUS
      <4> HIDE DEF v
      <4>3. id \in v
        BY DEF v
      <4> QED
        BY <4>1, <4>2, <4>3, <2>5, <2>6, <1>3
    <3>2. CASE p \in 1..L
      <4>1. st[p] = fr[p]
        BY <3>2, <2>3
      <4> QED
        BY <3>2, <4>1 DEF StackOK
    <3> QED
      BY <3>1, <3>2, <2>4
  <2>8. ASSUME NEW p \in 1..L + 1, NEW q \in 1..L + 1, st[p].id = st[q].id PROVE p = q
    <3>1. \A r \in 1..L : st[r].id = fr[r].id /\ st[r].id # id
      BY <2>3, <1>3
    <3>2. st[L + 1].id = id
      BY <2>2, <2>3
    <3>3. \A r, s \in 1..L : fr[r].id = fr[s].id => r = s
      BY DEF StackOK
    <3> QED
      BY <3>1, <3>2, <3>3, <2>4, <2>8
  <2>9. ASSUME NEW p \in 1..L + 1, NEW q \in 1..L + 1, p < q
        PROVE  st[q].id \in Reach(g, Succ(g, st[p].id))
    <3>0. p \in 1..L
      <4> HIDE DEF L
      <4> QED
        BY <2>9, <2>1
    <3>1. p \in 1..L /\ st[p] = fr[p]
      BY <3>0, <2>3
    <3>2. CASE q \in 1..L
      <4>1. st[q] = fr[q]
        BY <3>2, <2>3
      <4> QED
        BY <3>1, <3>2, <4>1, <2>9 DEF StackOK
    <3>3. CASE q = L + 1
      <4>1. st[q].id = id
        BY <3>3, <2>2, <2>3
      <4>2. L \in 1..L /\ fr # <<>>
        BY <3>1, <2>1
      <4>3. id \in Succ(g, fr[L].id)
        BY <4>2
      <4>4. Succ(g, fr[p].id) \subseteq DOMAIN g
        BY SuccTyped
      <4>5. CASE p = L
        BY <4>1, <4>3, <4>4, <4>5, <3>1, ReachContains
      <4>6. CASE p # L
        <5>1. fr[L].id \in Reach(g, Succ(g, fr[p].id))
          BY <4>2, <4>6, <3>1, <2>1 DEF StackOK
        <5>2. Succ(g, fr[L].id) \subseteq Reach(g, Succ(g, fr[p].id))
          BY <5>1, ReachFollows
        <5> QED
          BY <5>2, <4>1, <4>3, <3>1
      <4> QED
        BY <4>5, <4>6
    <3> QED
      BY <3>2, <3>3, <2>4
  <2>10. StackOK(g, v, st, ns)
    BY <2>3, <2>7, <2>8, <2>9 DEF StackOK
  <2>11. SeenOK(g, v, st, ns)
    <3>1. ASSUME NEW n \in v, KnownIn(g, n) PROVE n \in IdsIn(ns) \/ \E p \in 1..Len(st) : st[p].id = n
      <4>1. CASE n = id
        <5>1. L + 1 \in 1..Len(st) /\ st[L + 1].id = n
          BY <4>1, <2>1, <2>2, <2>3
        <5> QED
          BY <5>1
      <4>2. CASE n \in vis
        <5>1. n \in IdsIn(ns) \/ \E p \in 1..L : fr[p].id = n
          BY <4>2, <3>1 DEF SeenOK
        <5>2. \A p \in 1..L : p \in 1..Len(st) /\ st[p] = fr[p]
          BY <2>1, <2>3
        <5> QED
          BY <5>1, <5>2
      <4> QED
        BY <4>1, <4>2
    <3>2. v \subseteq DOMAIN g
      BY DEF SeenOK
    <3> QED
      BY <3>1, <3>2 DEF SeenOK
  <2> QED
    BY <1>1, <1>3, <2>10, <2>11 DEF BuildOK, st, frame
<1> QED
  BY <1>2, <1>3

\* The top activation has its next dependency visited.
LEMMA AdvanceKeeps ==
  ASSUME NEW g \in Graphs, NEW vis, NEW st, NEW ns, BuildOK(g, vis, st, ns), st # <<>>,
         st[Len(st)].done < Len(g[st[Len(st)].id])
  PROVE  LET top == st[Len(st)]
             d == g[top.id][top.done + 1]
             fr == [st EXCEPT ![Len(st)].done = @ + 1]
         IN  /\ StackOK(g, vis \cup {d}, fr, ns) /\ SeenOK(g, vis, fr, ns)
             /\ \A p \in 1..Len(fr) : fr[p].id \in vis
             /\ fr # <<>> /\ d \in Succ(g, fr[Len(fr)].id) /\ d \in DOMAIN g
<1> DEFINE L == Len(st)
           top == st[L]
           n == top.done + 1
           d == g[top.id][n]
           fr == [st EXCEPT ![L].done = @ + 1]
           F == [id : DOMAIN g, done : Nat]
<1>1. st \in Seq(F) /\ L \in Nat /\ L \in 1..L
  BY DEF BuildOK, StackOK
<1>0. top \in F
  <2> HIDE DEF F
  <2> QED
    BY <1>1
<1>2. top \in F /\ top.done \in Nat /\ KnownIn(g, top.id) /\ n \in 1..Len(g[top.id])
  <2>1. top \in F
    BY <1>0
  <2>2. KnownIn(g, top.id)
    BY <1>1 DEF BuildOK, StackOK
  <2>3. Len(g[top.id]) \in Nat
    BY <2>2, SuccTyped
  <2> QED
    BY <2>1, <2>2, <2>3
<1>3. d \in Succ(g, top.id) /\ d \in DOMAIN g
  BY <1>2, SuccTyped
<1>4. /\ fr \in Seq(F) /\ Len(fr) = L
      /\ \A p \in 1..L : fr[p].id = st[p].id
      /\ \A p \in 1..L : p # L => fr[p] = st[p]
      /\ fr[L].done = n
  <2>1. fr = [st EXCEPT ![L] = [top EXCEPT !.done = n]]
    BY <1>1
  <2> DEFINE e == [top EXCEPT !.done = n]
  <2>2. e \in F /\ e.id = top.id /\ e.done = n
    BY <1>2
  <2>3. fr = [st EXCEPT ![L] = e]
    BY <2>1
  <2> HIDE DEF e, fr
  <2>4. fr \in Seq(F) /\ Len(fr) = L /\ fr[L] = e /\ \A p \in 1..L : p # L => fr[p] = st[p]
    BY <1>1, <2>2, <2>3
  <2> QED
    BY <2>2, <2>4, <1>1
<1> HIDE DEF fr
<1>5. ASSUME NEW p \in 1..L
      PROVE  /\ KnownIn(g, fr[p].id) /\ fr[p].id \in vis \cup {d} /\ fr[p].id \notin IdsIn(ns)
             /\ fr[p].done <= Len(g[fr[p].id])
             /\ \A j \in 1..fr[p].done : g[fr[p].id][j] \in vis \cup {d}
  <2>1. /\ KnownIn(g, st[p].id) /\ st[p].id \in vis /\ st[p].id \notin IdsIn(ns)
        /\ st[p].done <= Len(g[st[p].id]) /\ \A j \in 1..st[p].done : g[st[p].id][j] \in vis
    BY DEF BuildOK, StackOK
  <2>2. CASE p # L
    BY <2>1, <2>2, <1>4
  <2>3. CASE p = L
    <3>1. fr[p].id = top.id /\ fr[p].done = n
      BY <2>3, <1>4
    <3>2. n <= Len(g[top.id])
      BY <1>2
    <3>3. ASSUME NEW j \in 1..n PROVE g[top.id][j] \in vis \cup {d}
      <4>1. CASE j = n
        BY <4>1
      <4>2. CASE j # n
        <5>1. j \in 1..top.done
          BY <4>2, <1>2
        <5> QED
          BY <5>1, <2>1, <2>3
      <4> QED
        BY <4>1, <4>2
    <3> HIDE DEF n, d, top
    <3>4. st[p] = top
      BY <2>3 DEF top
    <3> QED
      BY <3>1, <3>2, <3>3, <3>4, <2>1
  <2> QED
    BY <2>2, <2>3
<1>6. StackOK(g, vis \cup {d}, fr, ns)
  <2>1. \A p, q \in 1..L : st[p].id = st[q].id => p = q
    BY DEF BuildOK, StackOK
  <2>2. \A p, q \in 1..L : p < q => st[q].id \in Reach(g, Succ(g, st[p].id))
    BY DEF BuildOK, StackOK
  <2> HIDE DEF d, L
  <2>3. \A p, q \in 1..L : fr[p].id = fr[q].id => p = q
    BY <2>1, <1>4
  <2>4. \A p, q \in 1..L : p < q => fr[q].id \in Reach(g, Succ(g, fr[p].id))
    BY <2>2, <1>4
  <2> QED
    BY <2>3, <2>4, <1>4, <1>5 DEF StackOK
<1>7. SeenOK(g, vis, fr, ns)
  <2>1. SeenOK(g, vis, st, ns)
    BY DEF BuildOK
  <2>2. \A p \in 1..Len(st) : p \in 1..Len(fr) /\ fr[p].id = st[p].id
    BY <1>4
  <2> QED
    BY <2>1, <2>2 DEF SeenOK
<1>8. \A p \in 1..Len(fr) : fr[p].id \in vis
  BY <1>4 DEF BuildOK, StackOK
<1>9. fr # <<>> /\ fr[Len(fr)].id = top.id
  BY <1>1, <1>4
<1> QED
  BY <1>3, <1>6, <1>7, <1>8, <1>9 DEF fr

\* The node of the top activation is added when all of its dependencies were visited.
LEMMA AddNodeKeeps ==
  ASSUME NEW g \in Graphs, NEW vis, NEW st, NEW ns, BuildOK(g, vis, st, ns), st # <<>>,
         st[Len(st)].done = Len(g[st[Len(st)].id])
  PROVE  LET top == st[Len(st)]
         IN  BuildOK(g, vis, Front(st), Append(ns, ResourceNode(top.id, g[top.id])))
<1> DEFINE L == Len(st)
           N == Len(ns)
           id == st[L].id
           rest == Front(st)
           F == [id : DOMAIN g, done : Nat]
           R == [resourceId : DOMAIN g, strongDependencies : Seq(DOMAIN g)]
           node == ResourceNode(id, g[id])
           ms == Append(ns, node)
<1>1. st \in Seq(F) /\ L \in Nat /\ L \in 1..L /\ ns \in Seq(R) /\ N \in Nat
  BY DEF BuildOK, StackOK, NodesOK, NodeSeq
<1>2. /\ KnownIn(g, id) /\ id \in vis /\ id \notin IdsIn(ns) /\ id \in DOMAIN g
      /\ \A j \in 1..Len(g[id]) : g[id][j] \in vis
  <2>1. L \in 1..Len(st) /\ st[L].done = Len(g[id])
    BY <1>1
  <2>2. /\ KnownIn(g, st[L].id) /\ st[L].id \in vis /\ st[L].id \notin IdsIn(ns)
        /\ \A j \in 1..st[L].done : g[st[L].id][j] \in vis
    BY <2>1, Zenon DEF BuildOK, StackOK
  <2> QED
    BY <2>1, <2>2 DEF KnownIn
<1>3. rest \in Seq(F) /\ Len(rest) = L - 1 /\ \A p \in 1..L - 1 : rest[p] = st[p]
  <2> HIDE DEF F
  <2> QED
    BY <1>1, FrontFacts
<1>4. node \in R /\ node.resourceId = id /\ node.strongDependencies = g[id]
  BY <1>2, SuccTyped DEF ResourceNode
<1> HIDE DEF node
<1>5. ms \in Seq(R) /\ Len(ms) = N + 1 /\ ms[N + 1] = node /\ \A k \in 1..N : ms[k] = ns[k]
  BY <1>1, <1>4
<1> HIDE DEF ms, rest, id, L, N
<1>6. \A k \in 1..N + 1 : k = N + 1 \/ k \in 1..N
  BY <1>1
<1>7. IdsIn(ms) = IdsIn(ns) \cup {id}
  <2>1. IdsIn(ms) = {ms[k].resourceId : k \in 1..N + 1} /\ IdsIn(ns) = {ns[k].resourceId : k \in 1..N}
    BY <1>5 DEF IdsIn, N
  <2>2. \A k \in 1..N + 1 : ms[k].resourceId \in IdsIn(ns) \cup {id}
    BY <2>1, <1>4, <1>5, <1>6
  <2>3. \A k \in 1..N : k \in 1..N + 1 /\ ns[k].resourceId = ms[k].resourceId
    BY <1>1, <1>5
  <2>4. N + 1 \in 1..N + 1 /\ ms[N + 1].resourceId = id
    BY <1>1, <1>4, <1>5
  <2> QED
    BY <2>1, <2>2, <2>3, <2>4
<1>8. Succ(g, id) \subseteq vis
  BY <1>2, SuccTyped
<1>9. StackOK(g, vis, rest, ms)
  <2>1. \A p \in 1..L - 1 : p \in 1..L /\ p # L
    BY <1>1
  <2>2. \A p \in 1..L : st[p].id = id => p = L
    BY <1>1 DEF BuildOK, StackOK, id, L
  <2>3. \A p \in 1..L - 1 : rest[p].id \notin IdsIn(ms)
    BY <2>1, <2>2, <1>3, <1>7 DEF BuildOK, StackOK, L
  <2>4. ASSUME NEW p \in 1..L - 1
        PROVE  /\ KnownIn(g, rest[p].id) /\ rest[p].id \in vis
               /\ rest[p].done <= Len(g[rest[p].id])
               /\ \A j \in 1..rest[p].done : g[rest[p].id][j] \in vis
    <3>1. rest[p] = st[p] /\ p \in 1..Len(st)
      BY <1>3, <2>1 DEF L
    <3> QED
      BY <3>1 DEF BuildOK, StackOK
  <2>5. \A p, q \in 1..L - 1 : rest[p].id = rest[q].id => p = q
    BY <2>1, <1>3 DEF BuildOK, StackOK, L
  <2>6. \A p, q \in 1..L - 1 : p < q => rest[q].id \in Reach(g, Succ(g, rest[p].id))
    BY <2>1, <1>3 DEF BuildOK, StackOK, L
  <2> QED
    BY <2>3, <2>4, <2>5, <2>6, <1>3 DEF StackOK
<1>10. SeenOK(g, vis, rest, ms)
  <2>1. ASSUME NEW x \in vis, KnownIn(g, x)
        PROVE  x \in IdsIn(ms) \/ \E p \in 1..Len(rest) : rest[p].id = x
    <3>1. x \in IdsIn(ns) \/ \E p \in 1..L : st[p].id = x
      BY <2>1 DEF BuildOK, SeenOK, L
    <3>2. CASE x \in IdsIn(ns) \/ x = id
      BY <3>2, <1>7
    <3>3. CASE x \notin IdsIn(ns) /\ x # id
      <4>1. PICK p \in 1..L : st[p].id = x
        BY <3>1, <3>3
      <4>2. p # L
        BY <4>1, <3>3 DEF id
      <4>3. p \in 1..L - 1
        BY <4>2, <1>1
      <4> QED
        BY <4>1, <4>3, <1>3
    <3> QED
      BY <3>2, <3>3
  <2> QED
    BY <2>1 DEF BuildOK, SeenOK
<1>11. PostOrder(g, ms)
  <2> SUFFICES ASSUME NEW k \in 1..N + 1, NEW d \in Succ(g, ms[k].resourceId), KnownIn(g, d)
               PROVE  \/ \E l \in 1..N + 1 : l < k /\ ms[l].resourceId = d
                      \/ ms[k].resourceId \in Reach(g, Succ(g, ms[k].resourceId))
    BY <1>5 DEF PostOrder
  <2>1. CASE k \in 1..N
    <3>1. ms[k] = ns[k]
      BY <2>1, <1>5
    <3>2. \/ \E l \in 1..N : l < k /\ ns[l].resourceId = d
          \/ ns[k].resourceId \in Reach(g, Succ(g, ns[k].resourceId))
      BY <2>1, <3>1 DEF BuildOK, NodesOK, PostOrder, N
    <3>3. \A l \in 1..N : l \in 1..N + 1 /\ ms[l] = ns[l]
      BY <1>1, <1>5
    <3> QED
      BY <3>1, <3>2, <3>3
  <2>2. CASE k = N + 1
    <3>1. ms[k].resourceId = id /\ d \in vis
      BY <2>2, <1>4, <1>5, <1>8
    <3>2. d \in IdsIn(ns) \/ \E p \in 1..L : st[p].id = d
      BY <3>1 DEF BuildOK, SeenOK, L
    <3>3. CASE d \in IdsIn(ns)
      <4>1. PICK l \in 1..N : ns[l].resourceId = d
        BY <3>3 DEF IdsIn, N
      <4>2. l \in 1..N + 1 /\ l < k /\ ms[l] = ns[l]
        BY <2>2, <1>1, <1>5
      <4> QED
        BY <4>1, <4>2
    <3>4. CASE \E p \in 1..L : st[p].id = d
      <4>1. PICK p \in 1..L : st[p].id = d
        BY <3>4
      <4>2. d \in Succ(g, id) /\ Succ(g, id) \subseteq DOMAIN g
        BY <3>1, SuccTyped
      <4>3. Succ(g, id) \subseteq Reach(g, Succ(g, id))
        BY <4>2, ReachContains
      <4>4. CASE p = L
        <5>1. d = id
          BY <4>1, <4>4 DEF id
        <5> QED
          BY <5>1, <4>2, <4>3, <3>1
      <4>5. CASE p # L
        <5>1. p < L /\ L \in 1..Len(st) /\ p \in 1..Len(st)
          BY <4>5, <1>1 DEF L
        <5>2. id \in Reach(g, Succ(g, d))
          BY <5>1, <4>1 DEF BuildOK, StackOK, id
        <5>3. Succ(g, d) \subseteq Reach(g, Succ(g, id))
          BY <4>2, <4>3, ReachFollows
        <5>4. id \in Reach(g, Succ(g, id))
          BY <5>2, <5>3, ReachTransitive
        <5> QED
          BY <5>4, <3>1
      <4> QED
        BY <4>4, <4>5
    <3> QED
      BY <3>2, <3>3, <3>4
  <2> QED
    BY <2>1, <2>2, <1>6
<1>12. NodesOK(g, vis, ms)
  <2>1. ASSUME NEW k \in 1..N + 1
        PROVE  /\ KnownIn(g, ms[k].resourceId) /\ ms[k].resourceId \in vis
               /\ ms[k].strongDependencies = g[ms[k].resourceId]
               /\ Succ(g, ms[k].resourceId) \subseteq vis
    <3>1. CASE k \in 1..N
      BY <3>1, <1>5 DEF BuildOK, NodesOK, N
    <3>2. CASE k = N + 1
      <4>1. ms[k].resourceId = id /\ ms[k].strongDependencies = g[id]
        BY <3>2, <1>4, <1>5
      <4> QED
        BY <4>1, <1>2, <1>8
    <3> QED
      BY <3>1, <3>2, <1>6
  <2>2. IdsDiffer(ms)
    <3>1. \A k, l \in 1..N : ns[k].resourceId = ns[l].resourceId => k = l
      BY DEF BuildOK, NodesOK, IdsDiffer, N
    <3>2. \A k \in 1..N : ns[k].resourceId # id
      BY <1>2 DEF IdsIn, N
    <3>3. ms[N + 1].resourceId = id /\ \A k \in 1..N : ms[k].resourceId = ns[k].resourceId
      BY <1>4, <1>5
    <3>4. ASSUME NEW k \in 1..N + 1, NEW l \in 1..N + 1, ms[k].resourceId = ms[l].resourceId PROVE k = l
      BY <3>1, <3>2, <3>3, <3>4, <1>6
    <3> QED
      BY <3>4, <1>5 DEF IdsDiffer
  <2>3. ms \in NodeSeq(g)
    BY <1>5 DEF NodeSeq
  <2> QED
    BY <2>1, <2>2, <2>3, <1>5, <1>11 DEF NodesOK
<1>13. BuildOK(g, vis, rest, ms)
  BY <1>9, <1>10, <1>12 DEF BuildOK
<1> QED
  BY <1>13 DEF rest, ms, node, id, L

\* What buildTree leaves: every registered name seen has one node.
TreeOK(g, vis, ns) ==
  /\ vis \subseteq DOMAIN g
  /\ ns \in NodeSeq(g) /\ IdsDiffer(ns)
  /\ IdsIn(ns) = {id \in vis : KnownIn(g, id)}
  /\ \A id \in vis : Succ(g, id) \subseteq vis

\* A node lists at least what its name depends on, and nothing that it does not reach.
ExpandOK(g, ns) ==
  \A k \in 1..Len(ns) :
    /\ Succ(g, ns[k].resourceId) \subseteq DepsOf(ns, k)
    /\ DepsOf(ns, k) \subseteq Reach(g, Succ(g, ns[k].resourceId))

\* The first n nodes list what their dependencies list.
ClosedUpTo(ns, n) ==
  \A k \in 1..n : \A l \in 1..Len(ns) :
    ns[l].resourceId \in DepsOf(ns, k) => DepsOf(ns, l) \subseteq DepsOf(ns, k)

ClosureOK(g, ns) ==
  \A k \in 1..Len(ns) : DepsOf(ns, k) = Reach(g, Succ(g, ns[k].resourceId))

LEMMA BuiltTree ==
  ASSUME NEW g \in Graphs, NEW vis, NEW ns, BuildOK(g, vis, <<>>, ns)
  PROVE  TreeOK(g, vis, ns) /\ PostOrder(g, ns) /\ ExpandOK(g, ns)
<1>1. IdsIn(ns) = {id \in vis : KnownIn(g, id)}
  <2>1. ASSUME NEW id \in vis, KnownIn(g, id) PROVE id \in IdsIn(ns)
    <3>1. 1..Len(<<>>) = {}
      OBVIOUS
    <3> QED
      BY <2>1, <3>1 DEF BuildOK, SeenOK
  <2>2. ASSUME NEW id \in IdsIn(ns) PROVE id \in vis /\ KnownIn(g, id)
    BY DEF BuildOK, NodesOK, IdsIn
  <2> QED
    BY <2>1, <2>2
<1>2. ASSUME NEW id \in vis PROVE Succ(g, id) \subseteq vis
  <2>1. CASE KnownIn(g, id)
    <3>1. PICK k \in 1..Len(ns) : ns[k].resourceId = id
      BY <1>1, <2>1 DEF IdsIn
    <3> QED
      BY <3>1 DEF BuildOK, NodesOK
  <2>2. CASE ~KnownIn(g, id)
    BY <2>2 DEF Succ
  <2> QED
    BY <2>1, <2>2
<1>3. TreeOK(g, vis, ns)
  BY <1>1, <1>2 DEF TreeOK, BuildOK, SeenOK, NodesOK
<1>4. ASSUME NEW k \in 1..Len(ns)
      PROVE  /\ Succ(g, ns[k].resourceId) \subseteq DepsOf(ns, k)
             /\ DepsOf(ns, k) \subseteq Reach(g, Succ(g, ns[k].resourceId))
  <2>1. DepsOf(ns, k) = Succ(g, ns[k].resourceId)
    BY DEF BuildOK, NodesOK, DepsOf, Succ
  <2>2. Succ(g, ns[k].resourceId) \subseteq DOMAIN g
    BY SuccTyped
  <2> QED
    BY <2>1, <2>2, ReachContains
<1> QED
  BY <1>3, <1>4 DEF BuildOK, NodesOK, ExpandOK

LEMMA ReachStaysSeen ==
  ASSUME NEW g \in Graphs, NEW vis, NEW ns, TreeOK(g, vis, ns), NEW S, S \subseteq vis
  PROVE  Reach(g, S) \subseteq vis
BY ReachLeast DEF TreeOK

-------------------------------------------------------------------------------
\* expandTree.

LEMMA NodeFacts ==
  ASSUME NEW g \in Graphs, NEW ns \in NodeSeq(g), NEW k \in 1..Len(ns)
  PROVE  /\ ns[k].resourceId \in DOMAIN g /\ ns[k].strongDependencies \in Seq(DOMAIN g)
         /\ ns[k] = ResourceNode(ns[k].resourceId, ns[k].strongDependencies)
         /\ DepsOf(ns, k) \subseteq DOMAIN g
         /\ DepsOf(ns, k) = {ns[k].strongDependencies[j] : j \in 1..Len(ns[k].strongDependencies)}
<1> DEFINE R == [resourceId : DOMAIN g, strongDependencies : Seq(DOMAIN g)]
<1>1. ns[k] \in R
  <2>1. ns \in Seq(R)
    BY DEF NodeSeq
  <2> HIDE DEF R
  <2> QED
    BY <2>1
<1>2. /\ ns[k].resourceId \in DOMAIN g /\ ns[k].strongDependencies \in Seq(DOMAIN g)
      /\ ns[k] = ResourceNode(ns[k].resourceId, ns[k].strongDependencies)
  BY <1>1 DEF ResourceNode
<1> DEFINE deps == ns[k].strongDependencies
<1>3. deps \in Seq(DOMAIN g)
  BY <1>2
<1>4. DepsOf(ns, k) = ToSet(deps)
  BY DEF DepsOf
<1> HIDE DEF deps
<1>5. DOMAIN deps = 1..Len(deps) /\ \A j \in 1..Len(deps) : deps[j] \in DOMAIN g
  BY <1>3
<1>6. ToSet(deps) = {deps[j] : j \in 1..Len(deps)}
  BY <1>5 DEF ToSet
<1> QED
  BY <1>2, <1>4, <1>5, <1>6 DEF deps

\* What the dependency at a place of the node's list adds.
LEMMA NewDepsFacts ==
  ASSUME NEW g \in Graphs, NEW ns \in NodeSeq(g), nodes = ns, IdsDiffer(ns),
         NEW k \in 1..Len(ns), NEW id
  PROVE  /\ NewDeps(ns[k], id) \in Seq(DOMAIN g)
         /\ \A d : d \in ToSet(NewDeps(ns[k], id)) <=>
              /\ d \notin DepsOf(ns, k)
              /\ \E l \in 1..Len(ns) : ns[l].resourceId = id /\ d \in DepsOf(ns, l)
<1> DEFINE of == {l \in DOMAIN nodes : nodes[l].resourceId = id}
<1>0. of = {l \in 1..Len(ns) : ns[l].resourceId = id}
  BY DEF NodeSeq
<1>1. CASE of = {}
  <2>1. NewDeps(ns[k], id) = <<>>
    BY <1>1 DEF NewDeps
  <2>2. ToSet(<<>>) = {} /\ <<>> \in Seq(DOMAIN g)
    BY DEF ToSet
  <2> QED
    BY <2>1, <2>2, <1>0, <1>1
<1>2. CASE of # {}
  <2> DEFINE l == CHOOSE x \in of : TRUE
             deps == ns[l].strongDependencies
             S == {j \in DOMAIN deps : ~DependsDirectly(ns[k], deps[j])}
  <2>1. l \in 1..Len(ns) /\ ns[l].resourceId = id
    BY <1>0, <1>2
  <2>2. NewDeps(ns[k], id) = Picked(deps, S)
    BY <1>2 DEF NewDeps
  <2> HIDE DEF l
  <2>3. deps \in Seq(DOMAIN g) /\ DepsOf(ns, l) = {deps[j] : j \in 1..Len(deps)}
    BY <2>1, NodeFacts
  <2> HIDE DEF deps
  <2>4. DOMAIN deps = 1..Len(deps)
    BY <2>3
  <2>5. S = {j \in 1..Len(deps) : deps[j] \notin DepsOf(ns, k)}
    BY <2>4 DEF DependsDirectly, DepsOf
  <2> HIDE DEF S
  <2>6. Picked(deps, S) \in Seq(DOMAIN g)
    BY <2>3, PickedFacts
  <2>7. ToSet(Picked(deps, S)) = {deps[j] : j \in S \cap (1..Len(deps))}
    BY <2>3, PickedElements
  <2>8. \A m \in 1..Len(ns) : ns[m].resourceId = id => m = l
    BY <2>1 DEF IdsDiffer
  <2>9. ASSUME NEW d
        PROVE  d \in ToSet(Picked(deps, S)) <=>
                 /\ d \notin DepsOf(ns, k)
                 /\ \E m \in 1..Len(ns) : ns[m].resourceId = id /\ d \in DepsOf(ns, m)
    <3>1. d \in ToSet(Picked(deps, S)) <=> d \notin DepsOf(ns, k) /\ d \in DepsOf(ns, l)
      BY <2>3, <2>5, <2>7
    <3>2. (\E m \in 1..Len(ns) : ns[m].resourceId = id /\ d \in DepsOf(ns, m)) <=> d \in DepsOf(ns, l)
      BY <2>1, <2>8
    <3> QED
      BY <3>1, <3>2
  <2> QED
    BY <2>2, <2>6, <2>9
<1> QED
  BY <1>1, <1>2

LEMMA TransitiveFacts ==
  ASSUME NEW g \in Graphs, NEW ns \in NodeSeq(g), nodes = ns, IdsDiffer(ns),
         NEW k \in 1..Len(ns)
  PROVE  /\ TransitiveDeps(ns[k]) \in Seq(DOMAIN g)
         /\ \A d : d \in ToSet(TransitiveDeps(ns[k])) <=>
              /\ d \notin DepsOf(ns, k)
              /\ \E l \in 1..Len(ns) : ns[l].resourceId \in DepsOf(ns, k) /\ d \in DepsOf(ns, l)
<1> DEFINE deps == ns[k].strongDependencies
           lists == [j \in DOMAIN deps |-> NewDeps(ns[k], deps[j])]
<1>1. deps \in Seq(DOMAIN g) /\ DepsOf(ns, k) = {deps[j] : j \in 1..Len(deps)}
  BY NodeFacts
<1>2. TransitiveDeps(ns[k]) = FlattenSeq(lists)
  BY DEF TransitiveDeps
<1> HIDE DEF deps
<1>3. DOMAIN deps = 1..Len(deps) /\ Len(deps) \in Nat
  BY <1>1
<1>4. \A j \in 1..Len(deps) : NewDeps(ns[k], deps[j]) \in Seq(DOMAIN g)
  BY NewDepsFacts
<1>5. /\ lists \in Seq(Seq(DOMAIN g)) /\ Len(lists) = Len(deps)
      /\ \A j \in 1..Len(deps) : lists[j] = NewDeps(ns[k], deps[j])
  BY <1>3, <1>4
<1> HIDE DEF lists
<1>6. /\ FlattenSeq(lists) \in Seq(DOMAIN g)
      /\ \A d : d \in ToSet(FlattenSeq(lists)) <=> \E j \in 1..Len(lists) : d \in ToSet(lists[j])
  BY <1>5, FlattenFacts
<1>7. ASSUME NEW d
      PROVE  d \in ToSet(FlattenSeq(lists)) <=>
               /\ d \notin DepsOf(ns, k)
               /\ \E l \in 1..Len(ns) : ns[l].resourceId \in DepsOf(ns, k) /\ d \in DepsOf(ns, l)
  <2>1. ASSUME NEW j \in 1..Len(deps)
        PROVE  d \in ToSet(lists[j]) <=>
                 /\ d \notin DepsOf(ns, k)
                 /\ \E l \in 1..Len(ns) : ns[l].resourceId = deps[j] /\ d \in DepsOf(ns, l)
    <3>1. lists[j] = NewDeps(ns[k], deps[j])
      BY <1>5
    <3>2. \A x : x \in ToSet(NewDeps(ns[k], deps[j])) <=>
              /\ x \notin DepsOf(ns, k)
              /\ \E l \in 1..Len(ns) : ns[l].resourceId = deps[j] /\ x \in DepsOf(ns, l)
      BY NewDepsFacts
    <3> QED
      BY <3>1, <3>2, Zenon
  <2>2. d \in ToSet(FlattenSeq(lists)) <=> \E j \in 1..Len(deps) : d \in ToSet(lists[j])
    BY <1>5, <1>6
  <2> QED
    BY <2>1, <2>2, <1>1
<1> QED
  BY <1>2, <1>6, <1>7

\* A node gets more dependencies.
Extended(ns, k, t) == [ns EXCEPT ![k].strongDependencies = @ \o t]

LEMMA ExtendedNode ==
  ASSUME NEW g \in Graphs, NEW ns \in NodeSeq(g), NEW k \in 1..Len(ns), NEW t \in Seq(DOMAIN g)
  PROVE  LET ms == Extended(ns, k, t)
         IN  /\ ms \in NodeSeq(g) /\ Len(ms) = Len(ns)
             /\ \A l \in 1..Len(ns) : ms[l].resourceId = ns[l].resourceId
             /\ \A l \in 1..Len(ns) : l # k => DepsOf(ms, l) = DepsOf(ns, l)
             /\ DepsOf(ms, k) = DepsOf(ns, k) \cup ToSet(t)
             /\ t = <<>> => ms = ns
<1> DEFINE R == [resourceId : DOMAIN g, strongDependencies : Seq(DOMAIN g)]
           ms == Extended(ns, k, t)
           deps == ns[k].strongDependencies \o t
           node == [ns[k] EXCEPT !.strongDependencies = deps]
<1>1. ns \in Seq(R)
  BY DEF NodeSeq
<1>2. /\ ns[k].resourceId \in DOMAIN g /\ ns[k].strongDependencies \in Seq(DOMAIN g)
      /\ ns[k] = ResourceNode(ns[k].resourceId, ns[k].strongDependencies)
  BY NodeFacts
<1>3. deps \in Seq(DOMAIN g) /\ ToSet(deps) = DepsOf(ns, k) \cup ToSet(t)
  BY <1>2, ConcatElements DEF DepsOf
<1>4. t = <<>> => deps = ns[k].strongDependencies
  BY <1>2
<1>5. ms = [ns EXCEPT ![k] = node]
  BY DEF Extended
<1> HIDE DEF deps
<1>6. node = ResourceNode(ns[k].resourceId, deps)
  BY <1>2 DEF ResourceNode
<1>7. node \in R /\ node.resourceId = ns[k].resourceId /\ node.strongDependencies = deps
  BY <1>2, <1>3, <1>6 DEF ResourceNode
<1>8. t = <<>> => node = ns[k]
  BY <1>2, <1>4, <1>6
<1> HIDE DEF node, ms
<1>9. /\ ms \in Seq(R) /\ Len(ms) = Len(ns) /\ ms[k] = node
      /\ \A l \in 1..Len(ns) : l # k => ms[l] = ns[l]
  <2> HIDE DEF R
  <2> QED
    BY <1>1, <1>5, <1>7
<1>10. t = <<>> => ms = ns
  <2> HIDE DEF R
  <2> QED
    BY <1>1, <1>5, <1>8
<1>11. ms \in NodeSeq(g)
  BY <1>9 DEF NodeSeq
<1>12. \A l \in 1..Len(ns) : ms[l].resourceId = ns[l].resourceId
  BY <1>7, <1>9
<1>13. \A l \in 1..Len(ns) : l # k => DepsOf(ms, l) = DepsOf(ns, l)
  BY <1>9 DEF DepsOf
<1>14. DepsOf(ms, k) = DepsOf(ns, k) \cup ToSet(t)
  BY <1>3, <1>7, <1>9 DEF DepsOf
<1> QED
  BY <1>9, <1>10, <1>11, <1>12, <1>13, <1>14 DEF ms

LEMMA ExpandKeeps ==
  ASSUME NEW g \in Graphs, NEW vis, NEW ns, TreeOK(g, vis, ns), PostOrder(g, ns), ExpandOK(g, ns),
         nodes = ns, NEW k \in 1..Len(ns)
  PROVE  LET t == TransitiveDeps(ns[k])
             ms == Extended(ns, k, t)
         IN  /\ TreeOK(g, vis, ms) /\ PostOrder(g, ms) /\ ExpandOK(g, ms) /\ Len(ms) = Len(ns)
             /\ t = <<>> /\ ClosedUpTo(ns, k - 1) => ClosedUpTo(ms, k)
<1> DEFINE t == TransitiveDeps(ns[k])
           ms == Extended(ns, k, t)
<1>1. ns \in NodeSeq(g) /\ IdsDiffer(ns)
  BY DEF TreeOK
<1>2. /\ t \in Seq(DOMAIN g)
      /\ \A d : d \in ToSet(t) <=>
              /\ d \notin DepsOf(ns, k)
              /\ \E l \in 1..Len(ns) : ns[l].resourceId \in DepsOf(ns, k) /\ d \in DepsOf(ns, l)
  BY <1>1, TransitiveFacts
<1> HIDE DEF t
<1>3. /\ ms \in NodeSeq(g) /\ Len(ms) = Len(ns)
      /\ \A l \in 1..Len(ns) : ms[l].resourceId = ns[l].resourceId
      /\ \A l \in 1..Len(ns) : l # k => DepsOf(ms, l) = DepsOf(ns, l)
      /\ DepsOf(ms, k) = DepsOf(ns, k) \cup ToSet(t)
      /\ t = <<>> => ms = ns
  BY <1>1, <1>2, ExtendedNode
<1> HIDE DEF ms
<1>4. IdsIn(ms) = IdsIn(ns)
  BY <1>3 DEF IdsIn
<1>5. TreeOK(g, vis, ms)
  BY <1>3, <1>4 DEF TreeOK, IdsDiffer
<1>6. PostOrder(g, ms)
  BY <1>3 DEF PostOrder
<1>7. ASSUME NEW l \in 1..Len(ns)
      PROVE  /\ Succ(g, ms[l].resourceId) \subseteq DepsOf(ms, l)
             /\ DepsOf(ms, l) \subseteq Reach(g, Succ(g, ms[l].resourceId))
  <2> DEFINE reach == Reach(g, Succ(g, ns[l].resourceId))
  <2>1. Succ(g, ns[l].resourceId) \subseteq DepsOf(ns, l) /\ DepsOf(ns, l) \subseteq reach
    BY DEF ExpandOK
  <2>2. CASE l # k
    BY <2>1, <2>2, <1>3
  <2>3. CASE l = k
    <3>1. ASSUME NEW d \in ToSet(t) PROVE d \in reach
      <4>1. PICK m \in 1..Len(ns) : ns[m].resourceId \in DepsOf(ns, k) /\ d \in DepsOf(ns, m)
        BY <1>2
      <4>2. d \in Reach(g, Succ(g, ns[m].resourceId))
        BY <4>1 DEF ExpandOK
      <4>3. ns[m].resourceId \in reach
        BY <4>1, <2>1, <2>3
      <4>4. Succ(g, ns[m].resourceId) \subseteq reach
        BY <4>3, ReachFollows
      <4> HIDE DEF reach
      <4>5. Reach(g, Succ(g, ns[m].resourceId)) \subseteq reach
        BY <4>4, ReachTransitive DEF reach
      <4> QED
        BY <4>2, <4>5
    <3> QED
      BY <2>1, <2>3, <3>1, <1>3
  <2> QED
    BY <2>2, <2>3
<1>8. ExpandOK(g, ms)
  BY <1>3, <1>7 DEF ExpandOK
<1>9. ASSUME t = <<>>, ClosedUpTo(ns, k - 1) PROVE ClosedUpTo(ms, k)
  <2>1. ms = ns /\ ToSet(t) = {}
    BY <1>3, <1>9 DEF ToSet
  <2>2. \A l \in 1..Len(ns) : ns[l].resourceId \in DepsOf(ns, k) => DepsOf(ns, l) \subseteq DepsOf(ns, k)
    BY <1>2, <2>1
  <2>3. \A m \in 1..k : m = k \/ m \in 1..k - 1
    OBVIOUS
  <2> QED
    BY <2>1, <2>2, <2>3, <1>9 DEF ClosedUpTo
<1> QED
  BY <1>3, <1>5, <1>6, <1>8, <1>9 DEF t, ms

\* When a pass changes nothing the lists are closed.
LEMMA PassGivesClosure ==
  ASSUME NEW g \in Graphs, NEW vis, NEW ns, TreeOK(g, vis, ns), ExpandOK(g, ns),
         ClosedUpTo(ns, Len(ns))
  PROVE  ClosureOK(g, ns)
<1> SUFFICES ASSUME NEW k \in 1..Len(ns)
             PROVE  DepsOf(ns, k) = Reach(g, Succ(g, ns[k].resourceId))
  BY DEF ClosureOK
<1> DEFINE C == DepsOf(ns, k)
           S == Succ(g, ns[k].resourceId)
<1>1. S \subseteq C /\ C \subseteq Reach(g, S)
  BY DEF ExpandOK
<1>2. ns[k].resourceId \in vis /\ S \subseteq vis
  BY DEF TreeOK, IdsIn
<1>3. C \subseteq vis /\ C \subseteq DOMAIN g
  BY <1>1, <1>2, ReachStaysSeen DEF TreeOK
<1>4. ASSUME NEW c \in C PROVE Succ(g, c) \subseteq C
  <2>1. CASE ~KnownIn(g, c)
    BY <2>1 DEF Succ
  <2>2. CASE KnownIn(g, c)
    <3>1. PICK l \in 1..Len(ns) : ns[l].resourceId = c
      BY <1>3, <2>2 DEF TreeOK, IdsIn
    <3>2. Succ(g, c) \subseteq DepsOf(ns, l)
      BY <3>1 DEF ExpandOK
    <3>3. DepsOf(ns, l) \subseteq C
      BY <3>1 DEF ClosedUpTo
    <3> QED
      BY <3>2, <3>3
  <2> QED
    BY <2>1, <2>2
<1> HIDE DEF C, S
<1>5. Reach(g, S) \subseteq C
  BY <1>1, <1>3, <1>4, ReachLeast
<1> QED
  BY <1>1, <1>5, Zenon DEF C, S

-------------------------------------------------------------------------------
\* The checks.

LEMMA CycleNodes ==
  ASSUME NEW g \in Graphs, NEW vis, NEW ns, TreeOK(g, vis, ns), ClosureOK(g, ns)
  PROVE  (\E id \in vis : id \in Reach(g, Succ(g, id)))
           <=> \E k \in 1..Len(ns) : ns[k].resourceId \in DepsOf(ns, k)
<1>1. ASSUME NEW id \in vis, id \in Reach(g, Succ(g, id))
      PROVE  \E k \in 1..Len(ns) : ns[k].resourceId \in DepsOf(ns, k)
  <2>1. KnownIn(g, id)
    BY <1>1, ReachOfNothing DEF Succ
  <2>2. PICK k \in 1..Len(ns) : ns[k].resourceId = id
    BY <2>1 DEF TreeOK, IdsIn
  <2> QED
    BY <1>1, <2>2 DEF ClosureOK
<1>2. ASSUME NEW k \in 1..Len(ns), ns[k].resourceId \in DepsOf(ns, k)
      PROVE  \E id \in vis : id \in Reach(g, Succ(g, id))
  <2>1. ns[k].resourceId \in vis
    BY DEF TreeOK, IdsIn
  <2> QED
    BY <1>2, <2>1 DEF ClosureOK
<1> QED
  BY <1>1, <1>2

\* The check for self-references has found every cycle.
LEMMA NoTwoOnCycle ==
  ASSUME NEW g \in Graphs, NEW ns, ClosureOK(g, ns),
         \A k \in 1..Len(ns) : ns[k].resourceId \notin DepsOf(ns, k)
  PROVE  \A k, l \in 1..Len(ns) :
           ~(ns[l].resourceId \in DepsOf(ns, k) /\ ns[k].resourceId \in DepsOf(ns, l))
<1> SUFFICES ASSUME NEW k \in 1..Len(ns), NEW l \in 1..Len(ns),
                    ns[l].resourceId \in DepsOf(ns, k), ns[k].resourceId \in DepsOf(ns, l)
             PROVE  FALSE
  OBVIOUS
<1>1. ns[l].resourceId \in Reach(g, Succ(g, ns[k].resourceId))
  BY DEF ClosureOK
<1>2. Succ(g, ns[l].resourceId) \subseteq Reach(g, Succ(g, ns[k].resourceId))
  BY <1>1, ReachFollows
<1>3. Reach(g, Succ(g, ns[l].resourceId)) \subseteq Reach(g, Succ(g, ns[k].resourceId))
  BY <1>2, ReachTransitive
<1> QED
  BY <1>3 DEF ClosureOK

Ordered(ns) == \A k, l \in 1..Len(ns) : ns[l].resourceId \in DepsOf(ns, k) => l < k

\* Without cycles the order in which buildTree adds nodes has dependencies first.
LEMMA PostOrderIsOrder ==
  ASSUME NEW g \in Graphs, NEW vis, NEW ns, TreeOK(g, vis, ns), ClosureOK(g, ns), PostOrder(g, ns),
         \A k \in 1..Len(ns) : ns[k].resourceId \notin DepsOf(ns, k)
  PROVE  Ordered(ns)
<1> SUFFICES ASSUME NEW k \in 1..Len(ns), NEW l \in 1..Len(ns), ns[l].resourceId \in DepsOf(ns, k)
             PROVE  l < k
  BY DEF Ordered
<1> DEFINE C == {d \in DOMAIN g : KnownIn(g, d) => \E m \in 1..Len(ns) : m < k /\ ns[m].resourceId = d}
<1>0. Len(ns) \in Nat
  BY DEF TreeOK, NodeSeq
<1>1. ASSUME NEW m \in 1..Len(ns), m <= k PROVE Succ(g, ns[m].resourceId) \subseteq C
  <2> SUFFICES ASSUME NEW d \in Succ(g, ns[m].resourceId), KnownIn(g, d)
               PROVE  \E n \in 1..Len(ns) : n < k /\ ns[n].resourceId = d
    BY SuccTyped
  <2>1. ns[m].resourceId \notin Reach(g, Succ(g, ns[m].resourceId))
    BY DEF ClosureOK
  <2>2. PICK n \in 1..Len(ns) : n < m /\ ns[n].resourceId = d
    BY <2>1 DEF PostOrder
  <2> QED
    BY <2>2, <1>1, <1>0
<1>2. ASSUME NEW c \in C PROVE Succ(g, c) \subseteq C
  <2>1. CASE ~KnownIn(g, c)
    BY <2>1 DEF Succ
  <2>2. CASE KnownIn(g, c)
    <3>1. PICK m \in 1..Len(ns) : m < k /\ ns[m].resourceId = c
      BY <2>2
    <3>2. m <= k
      BY <3>1, <1>0
    <3> QED
      BY <3>1, <3>2, <1>1
  <2> QED
    BY <2>1, <2>2
<1>3. Succ(g, ns[k].resourceId) \subseteq C
  BY <1>0, <1>1
<1>4. C \subseteq DOMAIN g
  OBVIOUS
<1> HIDE DEF C
<1>5. Reach(g, Succ(g, ns[k].resourceId)) \subseteq C
  BY <1>2, <1>3, <1>4, ReachLeast
<1>6. ns[l].resourceId \in C
  BY <1>5 DEF ClosureOK
<1>7. KnownIn(g, ns[l].resourceId)
  BY DEF TreeOK, IdsIn
<1>8. PICK m \in 1..Len(ns) : m < k /\ ns[m].resourceId = ns[l].resourceId
  BY <1>6, <1>7 DEF C
<1>9. m = l
  BY <1>8 DEF TreeOK, IdsDiffer
<1> QED
  BY <1>8, <1>9

-------------------------------------------------------------------------------
\* The sort.  A name is sorted or ready once, and when its node waits for nothing; a node
\* waits for as many dependencies as its list is long, less those sorted.
SortOK(ns, pend, rdy, srt) ==
  /\ srt \in Seq(IdsIn(ns)) /\ rdy \in Seq(IdsIn(ns)) /\ pend \in [1..Len(ns) -> Int]
  /\ \A p, q \in 1..Len(srt) : srt[p] = srt[q] => p = q
  /\ \A p, q \in 1..Len(rdy) : rdy[p] = rdy[q] => p = q
  /\ ToSet(srt) \cap ToSet(rdy) = {}
  /\ \A k \in 1..Len(ns) :
       pend[k] = Len(ns[k].strongDependencies) - Cardinality(DepsOf(ns, k) \cap ToSet(srt))
  /\ \A k \in 1..Len(ns) : ns[k].resourceId \in ToSet(srt) \cup ToSet(rdy) => pend[k] = 0
  /\ \A k \in 1..Len(ns) : \A p \in 1..Len(srt) : srt[p] = ns[k].resourceId =>
       \A d \in DepsOf(ns, k) : \E q \in 1..Len(srt) : q < p /\ srt[q] = d

\* A node that waits for nothing has all of its dependencies sorted.
LEMMA NothingPending ==
  ASSUME NEW g \in Graphs, NEW ns \in NodeSeq(g), NEW S, NEW k \in 1..Len(ns),
         Len(ns[k].strongDependencies) - Cardinality(DepsOf(ns, k) \cap S) = 0
  PROVE  DepsOf(ns, k) \subseteq S
<1> DEFINE deps == ns[k].strongDependencies
           D == DepsOf(ns, k)
<1>1. deps \in Seq(DOMAIN g) /\ D = ToSet(deps)
  BY NodeFacts DEF DepsOf
<1>2. IsFiniteSet(D) /\ Cardinality(D) \in Nat /\ Cardinality(D) <= Len(deps) /\ Len(deps) \in Nat
  BY <1>1, ElementsCounted
<1> HIDE DEF D, deps
<1>3. D \cap S \in SUBSET D
  OBVIOUS
<1>4. IsFiniteSet(D \cap S) /\ Cardinality(D \cap S) <= Cardinality(D)
      /\ (Cardinality(D) = Cardinality(D \cap S) => D = D \cap S)
  BY <1>2, <1>3, FS_Subset
<1>5. Cardinality(D \cap S) \in Nat
  BY <1>4, FS_CardinalityType
<1>6. Cardinality(D \cap S) = Len(deps)
  BY <1>2, <1>5 DEF D, deps
<1>7. D = D \cap S
  BY <1>2, <1>4, <1>5, <1>6
<1> QED
  BY <1>7 DEF D

LEMMA IdsCounted ==
  ASSUME NEW g \in Graphs, NEW ns \in NodeSeq(g), IdsDiffer(ns)
  PROVE  IsFiniteSet(IdsIn(ns)) /\ Cardinality(IdsIn(ns)) = Len(ns) /\ Len(ns) \in Nat
<1> DEFINE ids == [k \in 1..Len(ns) |-> ns[k].resourceId]
<1>1. Len(ns) \in Nat /\ \A k \in 1..Len(ns) : ns[k].resourceId \in DOMAIN g
  BY NodeFacts DEF NodeSeq
<1>2. /\ ids \in Seq(DOMAIN g) /\ Len(ids) = Len(ns) /\ DOMAIN ids = 1..Len(ns)
      /\ \A k \in 1..Len(ns) : ids[k] = ns[k].resourceId
  BY <1>1
<1> HIDE DEF ids
<1>3. ToSet(ids) = IdsIn(ns)
  BY <1>2 DEF ToSet, IdsIn
<1>4. \A k, l \in 1..Len(ids) : ids[k] = ids[l] => k = l
  BY <1>2 DEF IdsDiffer
<1> QED
  BY <1>1, <1>2, <1>3, <1>4, ElementsCounted

\* No more names are sorted and ready than there are nodes; if as many are sorted, all are.
LEMMA SortBounded ==
  ASSUME NEW g \in Graphs, NEW ns \in NodeSeq(g), IdsDiffer(ns), NEW pend, NEW rdy, NEW srt,
         SortOK(ns, pend, rdy, srt)
  PROVE  /\ Len(srt) + Len(rdy) <= Len(ns)
         /\ Len(srt) = Len(ns) => ToSet(srt) = IdsIn(ns)
<1>1. srt \in Seq(IdsIn(ns)) /\ rdy \in Seq(IdsIn(ns)) /\ Len(srt) \in Nat /\ Len(rdy) \in Nat
  BY DEF SortOK
<1>2. IsFiniteSet(ToSet(srt)) /\ Cardinality(ToSet(srt)) = Len(srt)
  BY <1>1, ElementsCounted DEF SortOK
<1>3. IsFiniteSet(ToSet(rdy)) /\ Cardinality(ToSet(rdy)) = Len(rdy)
  BY <1>1, ElementsCounted DEF SortOK
<1>4. ToSet(srt) \cup ToSet(rdy) \in SUBSET IdsIn(ns) /\ ToSet(srt) \in SUBSET IdsIn(ns)
  BY <1>1 DEF ToSet
<1>5. IsFiniteSet(IdsIn(ns)) /\ Cardinality(IdsIn(ns)) = Len(ns) /\ Len(ns) \in Nat
  BY IdsCounted
<1>6. ToSet(srt) \cap ToSet(rdy) = {} /\ Cardinality({}) = 0
  BY FS_EmptySet DEF SortOK
<1>7. Cardinality(ToSet(srt) \cup ToSet(rdy)) = Len(srt) + Len(rdy)
  <2>1. Cardinality(ToSet(srt) \cup ToSet(rdy))
          = Cardinality(ToSet(srt)) + Cardinality(ToSet(rdy)) - Cardinality(ToSet(srt) \cap ToSet(rdy))
    BY <1>2, <1>3, FS_Union
  <2>2. Cardinality(ToSet(srt) \cap ToSet(rdy)) = 0
    BY <1>6
  <2> QED
    BY <2>1, <2>2, <1>1, <1>2, <1>3
<1>8. Cardinality(ToSet(srt) \cup ToSet(rdy)) <= Cardinality(IdsIn(ns))
  BY <1>4, <1>5, FS_Subset
<1>9. Cardinality(IdsIn(ns)) = Cardinality(ToSet(srt)) => IdsIn(ns) = ToSet(srt)
  BY <1>4, <1>5, FS_Subset
<1> QED
  BY <1>2, <1>5, <1>7, <1>8, <1>9

LEMMA SortBegins ==
  ASSUME NEW g \in Graphs, NEW ns \in NodeSeq(g), nodes = ns,
         NEW rdy \in SetToSeqs({nodes[k].resourceId : k \in {k \in DOMAIN nodes : DepCount(nodes[k]) = 0}}),
         IdsDiffer(ns)
  PROVE  SortOK(ns, [k \in DOMAIN nodes |-> DepCount(nodes[k])], rdy, <<>>)
<1> DEFINE free == {nodes[k].resourceId : k \in {k \in DOMAIN nodes : DepCount(nodes[k]) = 0}}
           pend == [k \in DOMAIN nodes |-> DepCount(nodes[k])]
           n == Cardinality(free)
<1>1. DOMAIN nodes = 1..Len(ns) /\ Len(ns) \in Nat
  BY DEF NodeSeq
<1>2. \A k \in 1..Len(ns) : Len(ns[k].strongDependencies) \in Nat
  BY NodeFacts
<1>3. pend \in [1..Len(ns) -> Int] /\ \A k \in 1..Len(ns) : pend[k] = Len(ns[k].strongDependencies)
  BY <1>1, <1>2 DEF DepCount
<1>4. free \subseteq IdsIn(ns) /\ \A k \in 1..Len(ns) : ns[k].resourceId \in free => pend[k] = 0
  BY <1>1, <1>3 DEF IdsIn, IdsDiffer, DepCount
<1>5. IsFiniteSet(free)
  BY <1>4, IdsCounted, FS_Subset
<1> HIDE DEF free
<1>6. n \in Nat
  BY <1>5, FS_CardinalityType
<1>7. rdy \in [1..n -> free] /\ \A p, q \in 1..n : p # q => rdy[p] # rdy[q]
  BY DEF SetToSeqs, free
<1> HIDE DEF n, pend
<1>8. rdy \in Seq(IdsIn(ns)) /\ Len(rdy) = n /\ ToSet(rdy) \subseteq free
  BY <1>4, <1>6, <1>7 DEF ToSet
<1>9. <<>> \in Seq(IdsIn(ns)) /\ Len(<<>>) = 0 /\ ToSet(<<>>) = {} /\ Cardinality({}) = 0
  BY FS_EmptySet DEF ToSet
<1>10. \A k \in 1..Len(ns) :
         pend[k] = Len(ns[k].strongDependencies) - Cardinality(DepsOf(ns, k) \cap ToSet(<<>>))
  <2> SUFFICES ASSUME NEW k \in 1..Len(ns)
               PROVE  pend[k] = Len(ns[k].strongDependencies) - Cardinality(DepsOf(ns, k) \cap ToSet(<<>>))
    OBVIOUS
  <2>1. DepsOf(ns, k) \cap ToSet(<<>>) = {}
    BY <1>9
  <2>2. Cardinality(DepsOf(ns, k) \cap ToSet(<<>>)) = 0
    BY <2>1, <1>9, Zenon
  <2> QED
    BY <2>2, <1>2, <1>3
<1>11. \A p \in 1..Len(<<>>) : FALSE
  BY <1>9
<1>12. \A k \in 1..Len(ns) : ns[k].resourceId \in ToSet(<<>>) \cup ToSet(rdy) => pend[k] = 0
  BY <1>4, <1>8, <1>9
<1>13. \A p, q \in 1..Len(rdy) : rdy[p] = rdy[q] => p = q
  BY <1>7, <1>8
<1>14. ToSet(<<>>) \cap ToSet(rdy) = {}
  BY <1>9
<1>15. SortOK(ns, pend, rdy, <<>>)
  BY <1>3, <1>8, <1>9, <1>10, <1>11, <1>12, <1>13, <1>14, Zenon DEF SortOK
<1> QED
  BY <1>15 DEF pend

\* A name is taken off the queue.  The nodes that wait for nothing else follow it.
LEMMA SortKeeps ==
  ASSUME NEW g \in Graphs, NEW ns \in NodeSeq(g), IdsDiffer(ns), NEW pend, NEW rdy, NEW srt,
         SortOK(ns, pend, rdy, srt), rdy # <<>>,
         NEW pend2, NEW freed,
         freed = {k \in 1..Len(ns) : Head(rdy) \in DepsOf(ns, k) /\ pend[k] = 1},
         pend2 = [k \in 1..Len(ns) |-> pend[k] - IF Head(rdy) \in DepsOf(ns, k) THEN 1 ELSE 0]
  PROVE  SortOK(ns, pend2, Tail(rdy) \o Picked([k \in 1..Len(ns) |-> ns[k].resourceId], freed),
                Append(srt, Head(rdy)))
<1> DEFINE I == IdsIn(ns)
           N == Len(ns)
           id == Head(rdy)
           ids == [k \in 1..N |-> ns[k].resourceId]
           new == Picked(ids, freed)
           rest == Tail(rdy)
           srt2 == Append(srt, id)
           rdy2 == rest \o new
           L == Len(srt)
           M == Len(rdy)
<1>0. N \in Nat
  BY DEF NodeSeq
<1>1. srt \in Seq(I) /\ rdy \in Seq(I) /\ L \in Nat /\ M \in Nat /\ M >= 1
  BY DEF SortOK
<1>2. id \in I /\ id = rdy[1] /\ rest \in Seq(I) /\ Len(rest) = M - 1
      /\ \A p \in 1..M - 1 : rest[p] = rdy[p + 1]
  BY <1>1
<1>3. ids \in Seq(I) /\ Len(ids) = N /\ \A k \in 1..N : ids[k] = ns[k].resourceId
  BY <1>0 DEF IdsIn
<1> HIDE DEF ids, rest, id, I
<1>4. PICK pos \in [1..Len(new) -> freed \cap (1..Len(ids))] :
        /\ \A p \in 1..Len(new) : new[p] = ids[pos[p]]
        /\ \A p, q \in 1..Len(new) : p < q => pos[p] < pos[q]
  <2>1. PickedOf(new, ids, freed, Len(ids))
    BY <1>3, PickedFacts
  <2> QED
    BY <2>1, Zenon DEF PickedOf
<1>5. new \in Seq(I) /\ Len(new) \in Nat
  BY <1>3, PickedFacts
<1> HIDE DEF new, L, M
<1>6. /\ srt2 \in Seq(I) /\ Len(srt2) = L + 1 /\ srt2[L + 1] = id
      /\ \A p \in 1..L : srt2[p] = srt[p]
  BY <1>1, <1>2 DEF L
<1>7. /\ rdy2 \in Seq(I) /\ Len(rdy2) = M - 1 + Len(new)
      /\ \A p \in 1..M - 1 : rdy2[p] = rdy[p + 1]
      /\ \A p \in 1..Len(new) : rdy2[M - 1 + p] = new[p]
  <2>1. rest \in Seq(I) /\ new \in Seq(I) /\ rdy2 = rest \o new
    BY <1>2, <1>5
  <2> HIDE DEF rdy2
  <2>2. rdy2 \in Seq(I) /\ Len(rdy2) = Len(rest) + Len(new)
    BY ONLY <2>1, SMTT(20)
  <2>3. \A p \in 1..Len(rest) : rdy2[p] = rest[p]
    BY ONLY <2>1, SMTT(20)
  <2>4. \A p \in 1..Len(new) : rdy2[Len(rest) + p] = new[p]
    BY ONLY <2>1, SMTT(20)
  <2> QED
    BY <2>2, <2>3, <2>4, <1>2
<1> HIDE DEF srt2, rdy2
<1>8. /\ ToSet(srt) = {srt[p] : p \in 1..L} /\ ToSet(rdy) = {rdy[p] : p \in 1..M}
      /\ ToSet(srt2) = {srt2[p] : p \in 1..L + 1}
  <2>1. ToSet(srt) = {srt[p] : p \in 1..L} /\ ToSet(rdy) = {rdy[p] : p \in 1..M}
    BY <1>1, ElementsAt DEF L, M
  <2>2. ToSet(srt2) = {srt2[p] : p \in 1..Len(srt2)}
    BY <1>6, ElementsAt
  <2> QED
    BY <2>1, <2>2, <1>6
<1>9. ToSet(srt2) = ToSet(srt) \cup {id}
  <2>1. \A p \in 1..L + 1 : p = L + 1 \/ p \in 1..L
    BY <1>1
  <2>2. \A p \in 1..L : p \in 1..L + 1
    BY <1>1
  <2>3. L + 1 \in 1..L + 1
    BY <1>1
  <2>4. ToSet(srt2) \subseteq ToSet(srt) \cup {id}
    BY <2>1, <1>6, <1>8
  <2>5. ToSet(srt) \cup {id} \subseteq ToSet(srt2)
    BY <2>2, <2>3, <1>6, <1>8
  <2> QED
    BY <2>4, <2>5
<1>10. id \in ToSet(rdy) /\ id \notin ToSet(srt)
  <2>1. 1 \in 1..M
    BY <1>1
  <2>2. id \in ToSet(rdy)
    BY <2>1, <1>2, <1>8
  <2>3. ToSet(srt) \cap ToSet(rdy) = {}
    BY DEF SortOK
  <2> QED
    BY <2>2, <2>3
<1>11. ASSUME NEW k \in 1..N, pend[k] = 0 PROVE DepsOf(ns, k) \subseteq ToSet(srt)
  <2>1. Len(ns[k].strongDependencies) - Cardinality(DepsOf(ns, k) \cap ToSet(srt)) = 0
    BY <1>11 DEF SortOK
  <2> QED
    BY <2>1, NothingPending
<1>12. \A k \in 1..N : /\ id \in DepsOf(ns, k) => pend2[k] = pend[k] - 1
                       /\ id \notin DepsOf(ns, k) => pend2[k] = pend[k]
                       /\ pend[k] \in Int
  BY DEF SortOK, id
<1>13. pend2 \in [1..N -> Int]
  BY <1>12
<1>14. \A k \in 1..N : pend[k] = 0 => pend2[k] = 0
  BY <1>10, <1>11, <1>12
<1>15. ASSUME NEW k \in 1..N
       PROVE  pend2[k] = Len(ns[k].strongDependencies) - Cardinality(DepsOf(ns, k) \cap ToSet(srt2))
  <2> DEFINE D == DepsOf(ns, k)
             n == Len(ns[k].strongDependencies)
  <2>1. pend[k] = n - Cardinality(D \cap ToSet(srt))
    BY DEF SortOK
  <2>2. IsFiniteSet(D) /\ n \in Nat
    BY NodeFacts, ElementsCounted DEF DepsOf
  <2>3. IsFiniteSet(D \cap ToSet(srt))
    BY <2>2, FS_Intersection
  <2>4. Cardinality(D \cap ToSet(srt)) \in Nat
    BY <2>3, FS_CardinalityType
  <2>5. CASE id \notin D
    <3>1. D \cap ToSet(srt2) = D \cap ToSet(srt)
      BY <2>5, <1>9
    <3> QED
      BY <3>1, <2>1, <2>5, <1>12
  <2>6. CASE id \in D
    <3>1. D \cap ToSet(srt2) = (D \cap ToSet(srt)) \cup {id}
      BY <2>6, <1>9
    <3>2. Cardinality((D \cap ToSet(srt)) \cup {id}) = Cardinality(D \cap ToSet(srt)) + 1
      BY <2>3, <1>10, FS_AddElement
    <3>3. Cardinality(D \cap ToSet(srt2)) = Cardinality(D \cap ToSet(srt)) + 1
      BY <3>1, <3>2
    <3>4. pend2[k] = pend[k] - 1
      BY <2>6, <1>12
    <3> HIDE DEF D, n
    <3> QED
      BY <3>3, <3>4, <2>1, <2>2, <2>4 DEF D, n
  <2> QED
    BY <2>5, <2>6
\* What is new was neither sorted nor ready, and waits for nothing now.
<1>16. ASSUME NEW p \in 1..Len(new)
       PROVE  /\ pos[p] \in 1..N /\ new[p] = ns[pos[p]].resourceId /\ pend2[pos[p]] = 0
              /\ new[p] \notin ToSet(srt) \cup ToSet(rdy)
  <2>1. pos[p] \in freed /\ pos[p] \in 1..N
    BY <1>3, <1>4
  <2>2. new[p] = ns[pos[p]].resourceId
    BY <2>1, <1>3, <1>4
  <2>3. id \in DepsOf(ns, pos[p]) /\ pend[pos[p]] = 1
    BY <2>1 DEF id
  <2>4. pend2[pos[p]] = 0
    BY <2>1, <2>3, <1>12
  <2>5. new[p] \notin ToSet(srt) \cup ToSet(rdy)
    BY <2>1, <2>2, <2>3 DEF SortOK
  <2> QED
    BY <2>1, <2>2, <2>4, <2>5
<1>17. \A p, q \in 1..Len(new) : new[p] = new[q] => p = q
  <2> SUFFICES ASSUME NEW p \in 1..Len(new), NEW q \in 1..Len(new), new[p] = new[q] PROVE p = q
    OBVIOUS
  <2>0. /\ pos[p] \in 1..N /\ new[p] = ns[pos[p]].resourceId
        /\ pos[q] \in 1..N /\ new[q] = ns[pos[q]].resourceId
    BY <1>16
  <2>1. pos[p] = pos[q]
    <3>1. ns[pos[p]].resourceId = ns[pos[q]].resourceId
      BY <2>0
    <3> QED
      BY <2>0, <3>1, Zenon DEF IdsDiffer
  <2>2. p < q \/ p = q \/ q < p
    BY <1>5
  <2> QED
    BY <2>1, <2>2, <1>4
<1>18. \A p \in 1..Len(rdy2) : p \in 1..M - 1 \/ (p - (M - 1) \in 1..Len(new) /\ M - 1 + (p - (M - 1)) = p)
  BY <1>1, <1>5, <1>7
<1>19. \A p \in 1..M - 1 : rdy2[p] \in ToSet(rdy) /\ rdy2[p] # id
  <2> SUFFICES ASSUME NEW p \in 1..M - 1 PROVE rdy2[p] \in ToSet(rdy) /\ rdy2[p] # id
    OBVIOUS
  <2>1. p + 1 \in 1..M /\ 1 \in 1..M /\ p + 1 # 1
    BY <1>1
  <2>2. rdy[p + 1] # rdy[1]
    BY <2>1 DEF SortOK, M
  <2> QED
    BY <2>1, <2>2, <1>2, <1>7, <1>8
<1>20. \A p \in 1..Len(rdy2) : \/ p \in 1..M - 1 /\ rdy2[p] = rdy[p + 1]
                               \/ p - (M - 1) \in 1..Len(new) /\ rdy2[p] = new[p - (M - 1)]
  BY <1>7, <1>18
<1>21. \A p, q \in 1..Len(rdy2) : rdy2[p] = rdy2[q] => p = q
  <2> SUFFICES ASSUME NEW p \in 1..Len(rdy2), NEW q \in 1..Len(rdy2), rdy2[p] = rdy2[q] PROVE p = q
    OBVIOUS
  <2>0. Len(rdy2) \in Nat
    BY <1>1, <1>5, <1>7
  <2>1. CASE p \in 1..M - 1 /\ q \in 1..M - 1
    <3>1. p + 1 \in 1..M /\ q + 1 \in 1..M /\ rdy[p + 1] = rdy[q + 1]
      BY <2>1, <1>1, <1>7
    <3>2. p + 1 = q + 1
      BY <3>1 DEF SortOK, M
    <3> QED
      BY <3>2, <2>0
  <2>2. CASE p \in 1..M - 1 /\ q \notin 1..M - 1
    <3>1. q - (M - 1) \in 1..Len(new) /\ rdy2[q] = new[q - (M - 1)]
      BY <2>2, <1>20
    <3>2. rdy2[q] \notin ToSet(rdy)
      BY <3>1, <1>16
    <3> QED
      BY <3>2, <2>2, <1>19
  <2>3. CASE p \notin 1..M - 1 /\ q \in 1..M - 1
    <3>1. p - (M - 1) \in 1..Len(new) /\ rdy2[p] = new[p - (M - 1)]
      BY <2>3, <1>20
    <3>2. rdy2[p] \notin ToSet(rdy)
      BY <3>1, <1>16
    <3> QED
      BY <3>2, <2>3, <1>19
  <2>4. CASE p \notin 1..M - 1 /\ q \notin 1..M - 1
    <3>1. /\ p - (M - 1) \in 1..Len(new) /\ rdy2[p] = new[p - (M - 1)]
          /\ q - (M - 1) \in 1..Len(new) /\ rdy2[q] = new[q - (M - 1)]
      BY <2>4, <1>20
    <3>2. p - (M - 1) = q - (M - 1)
      BY <3>1, <1>17
    <3> QED
      BY <3>2, <2>0, <1>1
  <2> QED
    BY <2>1, <2>2, <2>3, <2>4
<1>22. ToSet(rdy2) = {rdy2[p] : p \in 1..Len(rdy2)}
  BY <1>7 DEF ToSet
<1>23. \A p \in 1..Len(rdy2) : rdy2[p] \notin ToSet(srt2)
  <2> SUFFICES ASSUME NEW p \in 1..Len(rdy2) PROVE rdy2[p] \notin ToSet(srt) /\ rdy2[p] # id
    BY <1>9
  <2>0. ToSet(srt) \cap ToSet(rdy) = {}
    BY DEF SortOK
  <2>1. CASE p \in 1..M - 1
    BY <2>0, <2>1, <1>19
  <2>2. CASE p \notin 1..M - 1
    <3> DEFINE n == p - (M - 1)
    <3> HIDE DEF n
    <3>1. n \in 1..Len(new) /\ rdy2[p] = new[n]
      BY <2>2, <1>20 DEF n
    <3>2. new[n] \notin ToSet(srt) /\ new[n] \notin ToSet(rdy)
      BY <3>1, <1>16
    <3> QED
      BY <3>1, <3>2, <1>10
  <2> QED
    BY <2>1, <2>2
<1>24. ToSet(srt2) \cap ToSet(rdy2) = {}
  BY <1>22, <1>23
<1>25. ASSUME NEW k \in 1..N, ns[k].resourceId \in ToSet(srt2) \cup ToSet(rdy2)
       PROVE  pend2[k] = 0
  <2>1. CASE ns[k].resourceId \in ToSet(srt) \cup ToSet(rdy)
    BY <2>1, <1>14 DEF SortOK
  <2>2. CASE ns[k].resourceId \notin ToSet(srt) \cup ToSet(rdy)
    <3>1. ns[k].resourceId \in ToSet(rdy2)
      BY <2>2, <1>25, <1>9, <1>10
    <3>2. PICK p \in 1..Len(rdy2) : rdy2[p] = ns[k].resourceId
      BY <3>1, <1>22
    <3>3. p \notin 1..M - 1
      BY <3>2, <2>2, <1>19
    <3>4. p - (M - 1) \in 1..Len(new) /\ rdy2[p] = new[p - (M - 1)]
      BY <3>3, <1>20
    <3> DEFINE n == p - (M - 1)
    <3> HIDE DEF n
    <3>5. pos[n] \in 1..N /\ new[n] = ns[pos[n]].resourceId /\ pend2[pos[n]] = 0 /\ new[n] = ns[k].resourceId
      BY <3>2, <3>4, <1>16 DEF n
    <3>6. pos[n] = k
      BY <3>5 DEF IdsDiffer
    <3> QED
      BY <3>5, <3>6
  <2> QED
    BY <2>1, <2>2
<1>26. \A p, q \in 1..Len(srt2) : srt2[p] = srt2[q] => p = q
  <2> SUFFICES ASSUME NEW p \in 1..L + 1, NEW q \in 1..L + 1, srt2[p] = srt2[q] PROVE p = q
    BY <1>6
  <2>1. \A r \in 1..L : srt[r] # id
    BY <1>8, <1>10
  <2>2. \A r, s \in 1..L : srt[r] = srt[s] => r = s
    BY DEF SortOK, L
  <2>3. \A r \in 1..L + 1 : r = L + 1 \/ r \in 1..L
    BY <1>1
  <2> QED
    BY <2>1, <2>2, <2>3, <1>6
<1>27. ASSUME NEW k \in 1..N, NEW p \in 1..Len(srt2), srt2[p] = ns[k].resourceId,
              NEW d \in DepsOf(ns, k)
       PROVE  \E q \in 1..Len(srt2) : q < p /\ srt2[q] = d
  <2>1. \A q \in 1..L : q \in 1..Len(srt2) /\ srt2[q] = srt[q]
    BY <1>1, <1>6
  <2>2. CASE p \in 1..L
    <3>1. PICK q \in 1..L : q < p /\ srt[q] = d
      <4>1. p \in 1..Len(srt) /\ srt[p] = ns[k].resourceId
        BY <2>1, <2>2, <1>27 DEF L
      <4> QED
        BY <4>1 DEF SortOK, L
    <3> QED
      BY <3>1, <2>1
  <2>3. CASE p = L + 1
    <3>1. ns[k].resourceId = id
      BY <2>3, <1>6, <1>27
    <3>2. pend[k] = 0
      BY <3>1, <1>10 DEF SortOK
    <3>3. d \in ToSet(srt)
      BY <3>2, <1>11
    <3>4. PICK q \in 1..L : srt[q] = d
      BY <3>3, <1>8
    <3>5. q < p
      BY <2>3, <1>1
    <3> QED
      BY <3>4, <3>5, <2>1
  <2> QED
    BY <2>2, <2>3, <1>1, <1>6
<1>28. SortOK(ns, pend2, rdy2, srt2)
  BY <1>6, <1>7, <1>13, <1>15, <1>21, <1>24, <1>25, <1>26, <1>27, Zenon DEF SortOK, I
<1> QED
  BY <1>28 DEF rdy2, srt2, new, ids, rest, id

\* With every name sorted the nodes come in that order.
LEMMA SortedNodes ==
  ASSUME NEW g \in Graphs, NEW vis, NEW ns, TreeOK(g, vis, ns), ClosureOK(g, ns), nodes = ns,
         NEW pend, NEW rdy, NEW srt, SortOK(ns, pend, rdy, srt), Len(srt) = Len(ns)
  PROVE  LET ms == [k \in DOMAIN srt |-> NodeOf(srt[k])]
         IN  TreeOK(g, vis, ms) /\ ClosureOK(g, ms) /\ Ordered(ms) /\ Len(ms) = Len(ns)
<1> DEFINE ms == [k \in DOMAIN srt |-> NodeOf(srt[k])]
           R == [resourceId : DOMAIN g, strongDependencies : Seq(DOMAIN g)]
<1>1. ns \in NodeSeq(g) /\ IdsDiffer(ns) /\ ns \in Seq(R) /\ Len(ns) \in Nat
  BY DEF TreeOK, NodeSeq
<1>2. srt \in Seq(IdsIn(ns)) /\ DOMAIN srt = 1..Len(ns) /\ ToSet(srt) = IdsIn(ns)
      /\ ToSet(srt) = {srt[p] : p \in 1..Len(ns)}
  <2>1. srt \in Seq(IdsIn(ns))
    BY DEF SortOK
  <2>2. ToSet(srt) = IdsIn(ns)
    BY <1>1, SortBounded
  <2> QED
    BY <2>1, <2>2, ElementsAt
<1>3. ASSUME NEW p \in 1..Len(ns)
      PROVE  \E k \in 1..Len(ns) : ns[k].resourceId = srt[p] /\ NodeOf(srt[p]) = ns[k]
  <2>1. srt[p] \in IdsIn(ns)
    BY <1>2
  <2>2. PICK k \in 1..Len(ns) : ns[k].resourceId = srt[p]
    BY <2>1 DEF IdsIn
  <2>3. ToSet(ns) = {ns[l] : l \in 1..Len(ns)}
    <3> HIDE DEF R
    <3> QED
      BY <1>1, ElementsAt
  <2> DEFINE n == CHOOSE n \in ToSet(ns) : n.resourceId = srt[p]
  <2>4. n \in ToSet(ns) /\ n.resourceId = srt[p]
    BY <2>2, <2>3
  <2>5. NodeOf(srt[p]) = n
    BY DEF NodeOf
  <2> HIDE DEF n
  <2>6. PICK l \in 1..Len(ns) : ns[l] = n
    BY <2>3, <2>4
  <2>7. l = k
    BY <2>2, <2>4, <2>6, <1>1 DEF IdsDiffer
  <2> QED
    BY <2>2, <2>5, <2>6, <2>7
<1>4. ASSUME NEW p \in 1..Len(ns)
      PROVE  \E k \in 1..Len(ns) : ns[k].resourceId = srt[p] /\ ms[p] = ns[k]
  BY <1>2, <1>3
<1>5. ms \in Seq(R) /\ Len(ms) = Len(ns)
  <2>1. \A k \in 1..Len(ns) : ns[k] \in R
    <3> HIDE DEF R
    <3> QED
      BY <1>1
  <2>2. ms = [p \in 1..Len(ns) |-> ms[p]]
    BY <1>2
  <2> HIDE DEF ms, R
  <2>3. \A p \in 1..Len(ns) : ms[p] \in R
    BY <2>1, <1>4
  <2> QED
    BY <2>2, <2>3, <1>1
<1> HIDE DEF ms
<1>6. \A p \in 1..Len(ns) : ms[p].resourceId = srt[p]
  BY <1>4
<1>7. IdsIn(ms) = IdsIn(ns)
  BY <1>2, <1>5, <1>6 DEF IdsIn
<1>8. IdsDiffer(ms)
  BY <1>2, <1>5, <1>6 DEF IdsDiffer, SortOK
<1>9. TreeOK(g, vis, ms)
  BY <1>5, <1>7, <1>8 DEF TreeOK, NodeSeq
<1>10. ASSUME NEW p \in 1..Len(ns) PROVE DepsOf(ms, p) = Reach(g, Succ(g, ms[p].resourceId))
  <2>1. PICK k \in 1..Len(ns) : ms[p] = ns[k]
    BY <1>4
  <2> QED
    BY <2>1 DEF ClosureOK, DepsOf
<1>11. ASSUME NEW p \in 1..Len(ns), NEW q \in 1..Len(ns), ms[q].resourceId \in DepsOf(ms, p)
       PROVE  q < p
  <2>1. PICK k \in 1..Len(ns) : ns[k].resourceId = srt[p] /\ ms[p] = ns[k]
    BY <1>4
  <2>2. srt[q] \in DepsOf(ns, k)
    BY <2>1, <1>6, <1>11 DEF DepsOf
  <2>3. PICK r \in 1..Len(srt) : r < p /\ srt[r] = srt[q]
    BY <2>1, <2>2 DEF SortOK
  <2>4. r = q
    BY <2>3 DEF SortOK
  <2> QED
    BY <2>3, <2>4
<1>12. ClosureOK(g, ms) /\ Ordered(ms)
  BY <1>5, <1>10, <1>11 DEF ClosureOK, Ordered
<1> QED
  BY <1>5, <1>9, <1>12 DEF ms

-------------------------------------------------------------------------------
\* The invariant of analyze, part by part of it.
AnalyzerTypes ==
  /\ graph \in Graphs /\ request \in Seq(DOMAIN graph)
  /\ stage \in {"build", "expand", "check", "sort", "done"}
  /\ changed \in BOOLEAN /\ hasCycle \in BOOLEAN /\ error \in BOOLEAN
  /\ at \in 1..Len(nodes) + 1

Building ==
  stage = "build" => BuildOK(graph, visited, stack, nodes) /\ at = 1 /\ ~changed

TreeBuilt == stage # "build" => TreeOK(graph, visited, nodes) /\ stack = <<>>

Expanding ==
  stage = "expand" =>
    /\ PostOrder(graph, nodes) /\ ExpandOK(graph, nodes)
    /\ ~changed => ClosedUpTo(nodes, at - 1)

Closed ==
  /\ stage \in {"check", "sort"} => PostOrder(graph, nodes)
  /\ stage \in {"check", "sort", "done"} => ClosureOK(graph, nodes)

SelfDependent(ns) == \E k \in 1..Len(ns) : ns[k].resourceId \in DepsOf(ns, k)

NotSorting ==
  stage \in {"build", "expand", "check"} => ~error /\ ready = <<>> /\ sorted = <<>>

Sorting ==
  stage = "sort" =>
    ~error /\ ~SelfDependent(nodes) /\ SortOK(nodes, pending, ready, sorted)

Answered ==
  stage = "done" =>
    /\ error <=> SelfDependent(nodes)
    /\ ~error => Ordered(nodes)
    /\ Len(sorted) + Len(ready) <= Len(nodes)

AnalyzerInv ==
  /\ AnalyzerTypes /\ Building /\ TreeBuilt /\ Expanding /\ Closed
  /\ NotSorting /\ Sorting /\ Answered

\* The three steps of buildTree keep everything if they keep what is built.
LEMMA BuildStep ==
  ASSUME AnalyzerInv, stage = "build", BuildOK(graph, visited', stack', nodes'),
         request' \in Seq(DOMAIN graph),
         UNCHANGED <<graph, stage, at, changed, hasCycle, error, ready, sorted>>
  PROVE  AnalyzerInv'
<1>1. /\ graph \in Graphs /\ changed \in BOOLEAN /\ hasCycle \in BOOLEAN /\ error \in BOOLEAN
      /\ at = 1 /\ ~changed /\ ~error /\ ready = <<>> /\ sorted = <<>>
  BY DEF AnalyzerInv, AnalyzerTypes, Building, NotSorting
<1>2. nodes' \in NodeSeq(graph)
  BY DEF BuildOK, NodesOK
<1>3. Len(nodes') \in Nat
  BY <1>2 DEF NodeSeq
<1>4. /\ graph' = graph /\ stage' = "build" /\ at' = 1 /\ changed' = changed
      /\ hasCycle' = hasCycle /\ error' = error /\ ready' = ready /\ sorted' = sorted
  BY <1>1
<1>5. AnalyzerTypes'
  BY <1>1, <1>3, <1>4 DEF AnalyzerTypes
<1>6. Building'
  BY <1>1, <1>4 DEF Building
<1>7. TreeBuilt' /\ Expanding' /\ Closed' /\ Sorting' /\ Answered'
  BY <1>4 DEF TreeBuilt, Expanding, Closed, Sorting, Answered
<1>8. NotSorting'
  BY <1>1, <1>4 DEF NotSorting
<1> QED
  BY <1>5, <1>6, <1>7, <1>8 DEF AnalyzerInv

LEMMA NoActivations ==
  ASSUME NEW g, NEW vis, NEW ns
  PROVE  StackOK(g, vis, <<>>, ns)
<1>1. <<>> \in Seq([id : DOMAIN g, done : Nat]) /\ Len(<<>>) = 0 /\ \A p \in 1..0 : FALSE
  OBVIOUS
<1> QED
  BY <1>1 DEF StackOK

LEMMA VisitRequestedKeeps ==
  ASSUME AnalyzerInv, VisitRequested
  PROVE  AnalyzerInv'
<1> DEFINE id == Head(request)
<1>1. /\ graph \in Graphs /\ stage = "build" /\ stack = <<>> /\ request \in Seq(DOMAIN graph)
      /\ BuildOK(graph, visited, <<>>, nodes) /\ nodes' = nodes
      /\ visited' = visited \cup {id}
      /\ stack' = IF id \in visited \/ ~KnownIn(graph, id) THEN <<>>
                  ELSE Append(<<>>, [id |-> id, done |-> 0])
      /\ request # <<>> /\ request' = Tail(request)
      /\ UNCHANGED <<graph, stage, at, changed, hasCycle, error, ready, sorted>>
  BY SameGraph DEF AnalyzerInv, AnalyzerTypes, Building, VisitRequested, Call
<1>2. id \in DOMAIN graph /\ request' \in Seq(DOMAIN graph)
  BY <1>1
<1> HIDE DEF id
<1>3. NodesOK(graph, visited, nodes) /\ SeenOK(graph, visited, <<>>, nodes)
  BY <1>1 DEF BuildOK
<1>4. StackOK(graph, visited \cup {id}, <<>>, nodes)
  BY NoActivations
<1>5. \A p \in 1..Len(<<>>) : <<>>[p].id \in visited
  OBVIOUS
<1>6. BuildOK(graph, visited \cup {id},
              IF id \in visited \/ ~KnownIn(graph, id) THEN <<>>
              ELSE Append(<<>>, [id |-> id, done |-> 0]), nodes)
  BY <1>1, <1>2, <1>3, <1>4, <1>5, CallKeeps
<1>7. BuildOK(graph, visited', stack', nodes')
  BY <1>1, <1>6
<1> QED
  BY <1>1, <1>2, <1>7, BuildStep

LEMMA TopIsLast ==
  ASSUME AnalyzerInv, stage = "build"
  PROVE  Top = stack[Len(stack)]
BY DEF Top, Last

LEMMA VisitDependencyKeeps ==
  ASSUME AnalyzerInv, VisitDependency
  PROVE  AnalyzerInv'
<1> DEFINE top == stack[Len(stack)]
           d == graph[top.id][top.done + 1]
           fr == [stack EXCEPT ![Len(stack)].done = @ + 1]
<1>1. /\ graph \in Graphs /\ stage = "build" /\ stack # <<>>
      /\ BuildOK(graph, visited, stack, nodes) /\ nodes' = nodes
      /\ request' = request /\ request \in Seq(DOMAIN graph)
      /\ UNCHANGED <<graph, stage, at, changed, hasCycle, error, ready, sorted>>
  BY DEF AnalyzerInv, AnalyzerTypes, Building, VisitDependency
<1>2. Top = top
  BY <1>1, TopIsLast
<1>3. /\ top.done < Len(graph[top.id]) /\ visited' = visited \cup {d}
      /\ stack' = IF d \in visited \/ ~KnownIn(graph, d) THEN fr
                  ELSE Append(fr, [id |-> d, done |-> 0])
  BY <1>2, SameGraph DEF VisitDependency, Call
<1>4. /\ StackOK(graph, visited \cup {d}, fr, nodes) /\ SeenOK(graph, visited, fr, nodes)
      /\ \A p \in 1..Len(fr) : fr[p].id \in visited
      /\ fr # <<>> /\ d \in Succ(graph, fr[Len(fr)].id) /\ d \in DOMAIN graph
  BY <1>1, <1>3, AdvanceKeeps
<1>5. NodesOK(graph, visited, nodes)
  BY <1>1 DEF BuildOK
<1> HIDE DEF d, fr
<1>6. BuildOK(graph, visited \cup {d},
              IF d \in visited \/ ~KnownIn(graph, d) THEN fr
              ELSE Append(fr, [id |-> d, done |-> 0]), nodes)
  BY <1>1, <1>4, <1>5, CallKeeps
<1>7. BuildOK(graph, visited', stack', nodes')
  BY <1>1, <1>3, <1>6
<1> QED
  BY <1>1, <1>7, BuildStep

LEMMA AddNodeStep ==
  ASSUME AnalyzerInv, AddNode
  PROVE  AnalyzerInv'
<1> DEFINE top == stack[Len(stack)]
<1>1. /\ graph \in Graphs /\ stage = "build" /\ stack # <<>>
      /\ BuildOK(graph, visited, stack, nodes) /\ visited' = visited
      /\ request' = request /\ request \in Seq(DOMAIN graph)
      /\ UNCHANGED <<graph, stage, at, changed, hasCycle, error, ready, sorted>>
  BY DEF AnalyzerInv, AnalyzerTypes, Building, AddNode
<1>2. Top = top
  BY <1>1, TopIsLast
<1>3. /\ top.done = Len(graph[top.id]) /\ stack' = Front(stack)
      /\ nodes' = Append(nodes, ResourceNode(top.id, graph[top.id]))
  BY <1>2 DEF AddNode
<1>4. BuildOK(graph, visited, Front(stack), Append(nodes, ResourceNode(top.id, graph[top.id])))
  BY <1>1, <1>3, AddNodeKeeps
<1>5. BuildOK(graph, visited', stack', nodes')
  BY <1>1, <1>3, <1>4
<1> QED
  BY <1>1, <1>5, BuildStep

LEMMA BuiltKeeps ==
  ASSUME AnalyzerInv, Built
  PROVE  AnalyzerInv'
<1>1. /\ graph \in Graphs /\ BuildOK(graph, visited, <<>>, nodes)
      /\ stage = "build" /\ stage' = "expand" /\ stack = <<>> /\ at = 1
      /\ UNCHANGED <<graph, request, visited, stack, nodes, at, changed, hasCycle, error,
                     pending, ready, sorted>>
  BY DEF AnalyzerInv, AnalyzerTypes, Building, Built
<1>2. TreeOK(graph, visited, nodes) /\ PostOrder(graph, nodes) /\ ExpandOK(graph, nodes)
  BY <1>1, BuiltTree
<1>3. ClosedUpTo(nodes, at - 1)
  BY <1>1 DEF ClosedUpTo
<1>4. AnalyzerTypes'
  BY <1>1 DEF AnalyzerInv, AnalyzerTypes
<1>5. TreeBuilt' /\ Expanding'
  BY <1>1, <1>2, <1>3 DEF TreeBuilt, Expanding
<1>6. Building' /\ Closed' /\ Sorting' /\ Answered'
  BY <1>1 DEF Building, Closed, Sorting, Answered
<1>7. NotSorting'
  BY <1>1 DEF AnalyzerInv, NotSorting
<1> QED
  BY <1>4, <1>5, <1>6, <1>7 DEF AnalyzerInv

LEMMA ExpandNodeKeeps ==
  ASSUME AnalyzerInv, ExpandNode
  PROVE  AnalyzerInv'
<1> DEFINE t == TransitiveDeps(nodes[at])
<1>1. /\ graph \in Graphs /\ stage = "expand" /\ at \in 1..Len(nodes) + 1 /\ at <= Len(nodes)
      /\ TreeOK(graph, visited, nodes) /\ PostOrder(graph, nodes) /\ ExpandOK(graph, nodes)
      /\ stack = <<>> /\ (~changed => ClosedUpTo(nodes, at - 1)) /\ changed \in BOOLEAN
      /\ ~error /\ ready = <<>> /\ sorted = <<>>
  BY DEF AnalyzerInv, AnalyzerTypes, TreeBuilt, Expanding, NotSorting, ExpandNode
<1>2. Len(nodes) \in Nat
  BY <1>1 DEF TreeOK, NodeSeq
<1>3. at \in 1..Len(nodes) /\ at \in Nat
  BY <1>1, <1>2
<1>4. /\ TreeOK(graph, visited, Extended(nodes, at, t))
      /\ PostOrder(graph, Extended(nodes, at, t)) /\ ExpandOK(graph, Extended(nodes, at, t))
      /\ Len(Extended(nodes, at, t)) = Len(nodes)
      /\ t = <<>> /\ ClosedUpTo(nodes, at - 1) => ClosedUpTo(Extended(nodes, at, t), at)
  BY <1>1, <1>3, ExpandKeeps
<1>5. nodes' = Extended(nodes, at, t)
  BY DEF ExpandNode, Extended
<1>6. /\ changed' = (changed \/ t # <<>>) /\ at' = at + 1
      /\ UNCHANGED <<graph, request, stage, visited, stack, hasCycle, error, pending, ready, sorted>>
  BY DEF ExpandNode
<1> HIDE DEF t
<1>7. /\ TreeOK(graph, visited, nodes') /\ PostOrder(graph, nodes') /\ ExpandOK(graph, nodes')
      /\ Len(nodes') = Len(nodes)
      /\ t = <<>> /\ ClosedUpTo(nodes, at - 1) => ClosedUpTo(nodes', at)
  BY <1>4, <1>5
<1>8. at' \in 1..Len(nodes') + 1 /\ at' - 1 = at
  BY <1>2, <1>3, <1>6, <1>7
<1>9. changed' \in BOOLEAN /\ (~changed' => ~changed /\ t = <<>>)
  BY <1>1, <1>6
<1>10. ~changed' => ClosedUpTo(nodes', at' - 1)
  BY <1>1, <1>7, <1>8, <1>9
<1>11. AnalyzerTypes'
  <2>1. /\ graph \in Graphs /\ request \in Seq(DOMAIN graph) /\ hasCycle \in BOOLEAN
        /\ stage \in {"build", "expand", "check", "sort", "done"} /\ error \in BOOLEAN
    BY DEF AnalyzerInv, AnalyzerTypes
  <2> QED
    BY <1>6, <1>8, <1>9, <2>1, Zenon DEF AnalyzerTypes
<1>12. TreeBuilt' /\ Expanding'
  BY <1>1, <1>6, <1>7, <1>10 DEF TreeBuilt, Expanding
<1>13. Building' /\ Closed' /\ Sorting' /\ Answered'
  BY <1>1, <1>6 DEF Building, Closed, Sorting, Answered
<1>14. NotSorting'
  BY <1>1, <1>6 DEF NotSorting
<1> QED
  BY <1>11, <1>12, <1>13, <1>14 DEF AnalyzerInv

LEMMA ExpandAgainKeeps ==
  ASSUME AnalyzerInv, ExpandAgain
  PROVE  AnalyzerInv'
<1>1. /\ graph \in Graphs /\ stage = "expand" /\ at \in 1..Len(nodes) + 1 /\ at > Len(nodes)
      /\ TreeOK(graph, visited, nodes) /\ PostOrder(graph, nodes) /\ ExpandOK(graph, nodes)
      /\ stack = <<>> /\ (~changed => ClosedUpTo(nodes, at - 1)) /\ changed \in BOOLEAN
      /\ ~error /\ ready = <<>> /\ sorted = <<>>
  BY DEF AnalyzerInv, AnalyzerTypes, TreeBuilt, Expanding, NotSorting, ExpandAgain
<1>2. Len(nodes) \in Nat
  BY <1>1 DEF TreeOK, NodeSeq
<1>3. /\ stage' = (IF changed THEN "expand" ELSE "check") /\ at' = 1 /\ changed' = FALSE
      /\ UNCHANGED <<graph, request, visited, stack, nodes, hasCycle, error, pending, ready, sorted>>
  BY DEF ExpandAgain
<1>4. AnalyzerTypes'
  <2>1. /\ graph \in Graphs /\ request \in Seq(DOMAIN graph) /\ hasCycle \in BOOLEAN
        /\ error \in BOOLEAN
    BY DEF AnalyzerInv, AnalyzerTypes
  <2>2. stage' \in {"build", "expand", "check", "sort", "done"} /\ changed' \in BOOLEAN
    BY <1>1, <1>3
  <2>3. at' \in 1..Len(nodes') + 1
    BY <1>2, <1>3
  <2> QED
    BY <1>3, <2>1, <2>2, <2>3, Zenon DEF AnalyzerTypes
<1>5. ClosedUpTo(nodes, at' - 1)
  BY <1>3 DEF ClosedUpTo
<1>6. ~changed => ClosureOK(graph, nodes)
  <2>1. at - 1 = Len(nodes)
    BY <1>1, <1>2
  <2> QED
    BY <2>1, <1>1, PassGivesClosure
<1>7. TreeBuilt' /\ Expanding' /\ Closed'
  BY <1>1, <1>3, <1>5, <1>6 DEF TreeBuilt, Expanding, Closed
<1>8. Building' /\ Sorting' /\ Answered' /\ NotSorting'
  BY <1>1, <1>3 DEF Building, Sorting, Answered, NotSorting
<1> QED
  BY <1>4, <1>7, <1>8 DEF AnalyzerInv

\* What the checks and the sort ask of the nodes.
LEMMA SelfChecked ==
  ASSUME NEW g \in Graphs, NEW ns \in NodeSeq(g)
  PROVE  (\E n \in ToSet(ns) : DependsDirectly(n, n.resourceId)) <=> SelfDependent(ns)
<1> DEFINE R == [resourceId : DOMAIN g, strongDependencies : Seq(DOMAIN g)]
<1>1. ns \in Seq(R)
  BY DEF NodeSeq
<1> HIDE DEF R
<1>2. ToSet(ns) = {ns[k] : k \in 1..Len(ns)}
  BY <1>1, ElementsAt
<1> QED
  BY <1>2 DEF SelfDependent, DependsDirectly, DepsOf

LEMMA NoComponent ==
  ASSUME NEW g \in Graphs, NEW ns \in NodeSeq(g), nodes = ns, ClosureOK(g, ns), ~SelfDependent(ns)
  PROVE  StronglyConnected = FALSE
<1> DEFINE R == [resourceId : DOMAIN g, strongDependencies : Seq(DOMAIN g)]
<1>1. ns \in Seq(R)
  BY DEF NodeSeq
<1> HIDE DEF R
<1>2. ToSet(ns) = {ns[k] : k \in 1..Len(ns)}
  BY <1>1, ElementsAt
<1>3. \A k, l \in 1..Len(ns) :
        ~(ns[l].resourceId \in DepsOf(ns, k) /\ ns[k].resourceId \in DepsOf(ns, l))
  BY NoTwoOnCycle DEF SelfDependent
<1> SUFFICES ASSUME NEW n \in ToSet(ns), NEW o \in ToSet(ns),
                    DependsDirectly(n, o.resourceId), DependsDirectly(o, n.resourceId)
             PROVE  FALSE
  BY DEF StronglyConnected
<1>4. PICK k \in 1..Len(ns) : n = ns[k]
  BY <1>2
<1>5. PICK l \in 1..Len(ns) : o = ns[l]
  BY <1>2
<1> QED
  BY <1>3, <1>4, <1>5 DEF DependsDirectly, DepsOf

LEMMA ReferencesItselfKeeps ==
  ASSUME AnalyzerInv, ReferencesItself
  PROVE  AnalyzerInv'
<1>1. /\ graph \in Graphs /\ stage = "check" /\ stage' = "done" /\ error' = TRUE
      /\ TreeOK(graph, visited, nodes) /\ ClosureOK(graph, nodes) /\ stack = <<>>
      /\ ready = <<>> /\ sorted = <<>>
      /\ UNCHANGED <<graph, request, visited, stack, nodes, at, changed, hasCycle,
                     pending, ready, sorted>>
  BY DEF AnalyzerInv, AnalyzerTypes, TreeBuilt, Closed, NotSorting, ReferencesItself
<1>2. nodes \in NodeSeq(graph)
  BY <1>1 DEF TreeOK
<1>3. Len(nodes) \in Nat
  BY <1>2 DEF NodeSeq
<1>4. SelfDependent(nodes)
  BY <1>1, <1>2, SelfChecked DEF ReferencesItself
<1>5. AnalyzerTypes'
  BY <1>1 DEF AnalyzerInv, AnalyzerTypes
<1>6. TreeBuilt' /\ Closed' /\ Building' /\ Expanding' /\ Sorting' /\ NotSorting'
  BY <1>1 DEF TreeBuilt, Closed, Building, Expanding, Sorting, NotSorting
<1>7. Answered'
  BY <1>1, <1>3, <1>4 DEF Answered
<1> QED
  BY <1>5, <1>6, <1>7 DEF AnalyzerInv

LEMMA CheckCyclesKeeps ==
  ASSUME AnalyzerInv, CheckCycles
  PROVE  AnalyzerInv'
<1>1. /\ graph \in Graphs /\ stage = "check" /\ stage' = "sort" /\ sorted = <<>>
      /\ TreeOK(graph, visited, nodes) /\ PostOrder(graph, nodes) /\ ClosureOK(graph, nodes)
      /\ stack = <<>>
      /\ hasCycle' = StronglyConnected /\ error' = StronglyConnected
      /\ pending' = [k \in DOMAIN nodes |-> DepCount(nodes[k])]
      /\ ready' \in SetToSeqs({nodes[k].resourceId :
                                 k \in {k \in DOMAIN nodes : DepCount(nodes[k]) = 0}})
      /\ UNCHANGED <<graph, request, visited, stack, nodes, at, changed, sorted>>
  BY DEF AnalyzerInv, AnalyzerTypes, TreeBuilt, Closed, NotSorting, CheckCycles
<1>2. nodes \in NodeSeq(graph) /\ IdsDiffer(nodes)
  BY <1>1 DEF TreeOK
<1>3. ~SelfDependent(nodes)
  BY <1>1, <1>2, SelfChecked DEF CheckCycles
<1>4. StronglyConnected = FALSE
  BY <1>1, <1>2, <1>3, NoComponent
<1>5. SortOK(nodes, pending', ready', <<>>)
  BY <1>1, <1>2, SortBegins
<1>6. AnalyzerTypes'
  BY <1>1, <1>4 DEF AnalyzerInv, AnalyzerTypes
<1>7. Sorting'
  BY <1>1, <1>3, <1>4, <1>5 DEF Sorting
<1>8. TreeBuilt' /\ Closed' /\ Building' /\ Expanding' /\ Answered' /\ NotSorting'
  BY <1>1 DEF TreeBuilt, Closed, Building, Expanding, Answered, NotSorting
<1> QED
  BY <1>6, <1>7, <1>8 DEF AnalyzerInv

LEMMA SortNextKeeps ==
  ASSUME AnalyzerInv, SortNext
  PROVE  AnalyzerInv'
<1> DEFINE freed == {k \in 1..Len(nodes) : Head(ready) \in DepsOf(nodes, k) /\ pending[k] = 1}
           pend2 == [k \in 1..Len(nodes) |->
                       pending[k] - IF Head(ready) \in DepsOf(nodes, k) THEN 1 ELSE 0]
           rdy2 == Tail(ready) \o Picked([k \in 1..Len(nodes) |-> nodes[k].resourceId], freed)
           srt2 == Append(sorted, Head(ready))
<1>1. /\ graph \in Graphs /\ stage = "sort" /\ ready # <<>> /\ ~error /\ ~SelfDependent(nodes)
      /\ TreeOK(graph, visited, nodes) /\ PostOrder(graph, nodes) /\ ClosureOK(graph, nodes)
      /\ stack = <<>> /\ SortOK(nodes, pending, ready, sorted)
      /\ UNCHANGED <<graph, request, stage, visited, stack, nodes, at, changed, hasCycle, error>>
  BY DEF AnalyzerInv, AnalyzerTypes, TreeBuilt, Closed, Sorting, SortNext
<1>2. nodes \in NodeSeq(graph) /\ IdsDiffer(nodes)
  BY <1>1 DEF TreeOK
<1>3. DOMAIN nodes = 1..Len(nodes)
  BY <1>2 DEF NodeSeq
<1>4. \A k : DependsDirectly(nodes[k], Head(ready)) <=> Head(ready) \in DepsOf(nodes, k)
  BY DEF DependsDirectly, DepsOf
<1>5. sorted' = srt2 /\ pending' = pend2 /\ ready' = rdy2
  <2> DEFINE freed1 == {k \in DOMAIN nodes : DependsDirectly(nodes[k], Head(ready)) /\ pending[k] = 1}
             pend1 == [k \in DOMAIN nodes |->
                         pending[k] - IF DependsDirectly(nodes[k], Head(ready)) THEN 1 ELSE 0]
  <2>1. /\ sorted' = srt2 /\ pending' = pend1
        /\ ready' = Tail(ready) \o Picked([k \in DOMAIN nodes |-> nodes[k].resourceId], freed1)
    BY DEF SortNext
  <2>2. freed1 = freed
    BY <1>3, <1>4
  <2>3. pend1 = pend2
    BY <1>3, <1>4
  <2> QED
    BY <2>1, <2>2, <2>3, <1>3
<1>6. SortOK(nodes, pend2, rdy2, srt2)
  BY <1>1, <1>2, SortKeeps
<1>7. SortOK(nodes, pending', ready', sorted')
  BY <1>5, <1>6
<1>8. AnalyzerTypes'
  BY <1>1 DEF AnalyzerInv, AnalyzerTypes
<1>9. Sorting'
  BY <1>1, <1>7 DEF Sorting
<1>10. TreeBuilt' /\ Closed' /\ Building' /\ Expanding' /\ Answered' /\ NotSorting'
  BY <1>1 DEF TreeBuilt, Closed, Building, Expanding, Answered, NotSorting
<1> QED
  BY <1>8, <1>9, <1>10 DEF AnalyzerInv

LEMMA SortedKeeps ==
  ASSUME AnalyzerInv, Sorted
  PROVE  AnalyzerInv'
<1> DEFINE ms == [k \in DOMAIN sorted |-> NodeOf(sorted[k])]
<1>1. /\ graph \in Graphs /\ stage = "sort" /\ stage' = "done" /\ ready = <<>> /\ ~error
      /\ TreeOK(graph, visited, nodes) /\ PostOrder(graph, nodes) /\ ClosureOK(graph, nodes)
      /\ stack = <<>> /\ SortOK(nodes, pending, ready, sorted) /\ ~SelfDependent(nodes)
      /\ nodes' = (IF Len(sorted) = Len(nodes) THEN ms ELSE nodes)
      /\ UNCHANGED <<graph, request, visited, stack, at, changed, hasCycle, error,
                     pending, ready, sorted>>
  BY DEF AnalyzerInv, AnalyzerTypes, TreeBuilt, Closed, Sorting, Sorted
<1>2. nodes \in NodeSeq(graph) /\ IdsDiffer(nodes)
  BY <1>1 DEF TreeOK
<1>3. Len(sorted) + Len(ready) <= Len(nodes)
  BY <1>1, <1>2, SortBounded
<1>4. /\ TreeOK(graph, visited, nodes') /\ ClosureOK(graph, nodes') /\ Ordered(nodes')
      /\ Len(nodes') = Len(nodes)
  <2>1. CASE Len(sorted) = Len(nodes)
    <3>1. nodes' = ms
      BY <1>1, <2>1
    <3>2. TreeOK(graph, visited, ms) /\ ClosureOK(graph, ms) /\ Ordered(ms) /\ Len(ms) = Len(nodes)
      BY <1>1, <2>1, SortedNodes
    <3> QED
      BY <3>1, <3>2
  <2>2. CASE Len(sorted) # Len(nodes)
    <3>1. nodes' = nodes
      BY <1>1, <2>2
    <3>2. \A k \in 1..Len(nodes) : nodes[k].resourceId \notin DepsOf(nodes, k)
      BY <1>1 DEF SelfDependent
    <3>3. Ordered(nodes)
      BY <1>1, <3>2, PostOrderIsOrder
    <3> QED
      BY <1>1, <3>1, <3>3
  <2> QED
    BY <2>1, <2>2
<1>5. Len(nodes) \in Nat
  BY <1>2 DEF NodeSeq
<1>6. ~SelfDependent(nodes')
  <2> SUFFICES ASSUME NEW k \in 1..Len(nodes'), nodes'[k].resourceId \in DepsOf(nodes', k)
               PROVE  FALSE
    BY DEF SelfDependent
  <2>1. k < k
    BY <1>4 DEF Ordered
  <2> QED
    BY <2>1, <1>4, <1>5
<1>7. AnalyzerTypes'
  BY <1>1, <1>4 DEF AnalyzerInv, AnalyzerTypes
<1>8. TreeBuilt' /\ Closed'
  BY <1>1, <1>4 DEF TreeBuilt, Closed
<1>9. Answered'
  BY <1>1, <1>3, <1>4, <1>6 DEF Answered
<1>10. Building' /\ Expanding' /\ Sorting' /\ NotSorting'
  BY <1>1 DEF Building, Expanding, Sorting, NotSorting
<1> QED
  BY <1>7, <1>8, <1>9, <1>10 DEF AnalyzerInv

LEMMA AnalyzerBegins ==
  ASSUME AnalyzerInit
  PROVE  AnalyzerInv
<1>1. /\ graph \in Graphs /\ request \in Requests /\ stage = "build" /\ visited = {}
      /\ stack = <<>> /\ nodes = <<>> /\ at = 1 /\ changed = FALSE /\ hasCycle = FALSE
      /\ error = FALSE /\ ready = <<>> /\ sorted = <<>>
  BY DEF AnalyzerInit
<1>2. request \in Seq(DOMAIN graph)
  BY <1>1, GraphsAssumption
<1>3. Len(nodes) = 0 /\ nodes \in NodeSeq(graph) /\ \A k \in 1..0 : FALSE
  BY <1>1 DEF NodeSeq
<1>4. NodesOK(graph, visited, nodes)
  BY <1>3 DEF NodesOK, IdsDiffer, PostOrder
<1>5. SeenOK(graph, visited, stack, nodes)
  BY <1>1 DEF SeenOK
<1>6. StackOK(graph, visited, stack, nodes)
  BY <1>1, NoActivations
<1>7. AnalyzerTypes
  <2>1. at \in 1..Len(nodes) + 1
    BY <1>1, <1>3
  <2> QED
    BY <1>1, <1>2, <2>1, Zenon DEF AnalyzerTypes
<1>8. Building
  BY <1>1, <1>4, <1>5, <1>6 DEF Building, BuildOK
<1>9. TreeBuilt /\ Expanding /\ Closed /\ NotSorting /\ Sorting /\ Answered
  BY <1>1 DEF TreeBuilt, Expanding, Closed, NotSorting, Sorting, Answered
<1> QED
  BY <1>7, <1>8, <1>9 DEF AnalyzerInv

LEMMA AnalyzeKeeps ==
  ASSUME AnalyzerInv, [Analyze]_analyzerVars
  PROVE  AnalyzerInv'
<1>1. CASE VisitRequested
  BY <1>1, VisitRequestedKeeps
<1>2. CASE VisitDependency
  BY <1>2, VisitDependencyKeeps
<1>3. CASE AddNode
  BY <1>3, AddNodeStep
<1>4. CASE Built
  BY <1>4, BuiltKeeps
<1>5. CASE ExpandNode
  BY <1>5, ExpandNodeKeeps
<1>6. CASE ExpandAgain
  BY <1>6, ExpandAgainKeeps
<1>7. CASE ReferencesItself
  BY <1>7, ReferencesItselfKeeps
<1>8. CASE CheckCycles
  BY <1>8, CheckCyclesKeeps
<1>9. CASE SortNext
  BY <1>9, SortNextKeeps
<1>10. CASE Sorted
  BY <1>10, SortedKeeps
<1>11. CASE UNCHANGED analyzerVars
  <2>1. UNCHANGED <<graph, request, stage, visited, stack, nodes, at, changed, hasCycle,
                    error, pending, ready, sorted>>
    BY <1>11 DEF analyzerVars
  <2>2. AnalyzerTypes' /\ Building' /\ TreeBuilt' /\ Expanding'
    BY <2>1 DEF AnalyzerInv, AnalyzerTypes, Building, TreeBuilt, Expanding
  <2>3. Closed' /\ NotSorting' /\ Sorting' /\ Answered'
    BY <2>1 DEF AnalyzerInv, Closed, NotSorting, Sorting, Answered
  <2> QED
    BY <2>2, <2>3 DEF AnalyzerInv
<1> QED
  BY <1>1, <1>2, <1>3, <1>4, <1>5, <1>6, <1>7, <1>8, <1>9, <1>10, <1>11 DEF Analyze, BuildTree

\* The invariant gives each part of the property.
LEMMA NodesAreComplete ==
  ASSUME AnalyzerInv
  PROVE  NodesComplete
<1> SUFFICES ASSUME stage = "done"
             PROVE  /\ {n.resourceId : n \in ToSet(nodes)} = {id \in visited : Known(id)}
                    /\ \A k, l \in DOMAIN nodes : nodes[k].resourceId = nodes[l].resourceId => k = l
                    /\ \A id \in ReachedFrom(visited) : id \in visited
  BY DEF NodesComplete
<1>1. graph \in Graphs /\ TreeOK(graph, visited, nodes)
  BY DEF AnalyzerInv, AnalyzerTypes, TreeBuilt
<1>2. nodes \in NodeSeq(graph) /\ IdsDiffer(nodes) /\ IdsIn(nodes) = {id \in visited : KnownIn(graph, id)}
  BY <1>1 DEF TreeOK
<1>3. DOMAIN nodes = 1..Len(nodes)
  BY <1>2 DEF NodeSeq
<1>4. {n.resourceId : n \in ToSet(nodes)} = IdsIn(nodes)
  BY <1>3 DEF ToSet, IdsIn
<1>5. {n.resourceId : n \in ToSet(nodes)} = {id \in visited : Known(id)}
  BY <1>2, <1>4, SameGraph
<1>6. Reach(graph, visited) \subseteq visited
  BY <1>1, ReachStaysSeen
<1> QED
  BY <1>2, <1>3, <1>5, <1>6, SameGraph DEF IdsDiffer

LEMMA ClosureIsExact ==
  ASSUME AnalyzerInv
  PROVE  ClosureExact
<1> SUFFICES ASSUME stage \in {"check", "sort", "done"}, NEW n \in ToSet(nodes)
             PROVE  ToSet(n.strongDependencies) = ReachedFrom(Successors(n.resourceId))
  BY DEF ClosureExact
<1>1. TreeOK(graph, visited, nodes) /\ ClosureOK(graph, nodes)
  BY DEF AnalyzerInv, TreeBuilt, Closed
<1>2. DOMAIN nodes = 1..Len(nodes)
  BY <1>1 DEF TreeOK, NodeSeq
<1>3. PICK k \in 1..Len(nodes) : nodes[k] = n
  BY <1>2 DEF ToSet
<1>4. ToSet(n.strongDependencies) = Reach(graph, Succ(graph, n.resourceId))
  BY <1>1, <1>3 DEF ClosureOK, DepsOf
<1> QED
  BY <1>4, SameGraph

LEMMA CyclesAreReported ==
  ASSUME AnalyzerInv
  PROVE  CycleReported
<1> SUFFICES ASSUME stage = "done" PROVE error <=> OnCycle # {}
  BY DEF CycleReported
<1>1. /\ graph \in Graphs /\ TreeOK(graph, visited, nodes) /\ ClosureOK(graph, nodes)
      /\ error <=> SelfDependent(nodes)
  BY DEF AnalyzerInv, AnalyzerTypes, TreeBuilt, Closed, Answered
<1>2. (\E id \in visited : id \in Reach(graph, Succ(graph, id))) <=> SelfDependent(nodes)
  BY <1>1, CycleNodes DEF SelfDependent
<1>3. \A id : ReachedFrom(Successors(id)) = Reach(graph, Succ(graph, id))
  BY SameGraph
<1>4. OnCycle = {id \in visited : id \in Reach(graph, Succ(graph, id))}
  BY <1>3 DEF OnCycle
<1> QED
  BY <1>1, <1>2, <1>4

LEMMA DependenciesAreFirst ==
  ASSUME AnalyzerInv
  PROVE  DependenciesFirst
<1> SUFFICES ASSUME stage = "done", ~error
             PROVE  \A k, l \in DOMAIN nodes :
                      DependsDirectly(nodes[k], nodes[l].resourceId) => l < k
  BY DEF DependenciesFirst
<1>1. TreeOK(graph, visited, nodes) /\ Ordered(nodes)
  BY DEF AnalyzerInv, TreeBuilt, Answered
<1>2. DOMAIN nodes = 1..Len(nodes)
  BY <1>1 DEF TreeOK, NodeSeq
<1> QED
  BY <1>1, <1>2 DEF Ordered, DependsDirectly, DepsOf

LEMMA AnalyzerTyped ==
  ASSUME AnalyzerInv
  PROVE  AnalyzerTypeOK
<1>1. graph \in Graphs /\ stage \in {"build", "expand", "check", "sort", "done"}
      /\ at \in 1..Len(nodes) + 1 /\ <<changed, hasCycle, error>> \in BOOLEAN \X BOOLEAN \X BOOLEAN
  BY DEF AnalyzerInv, AnalyzerTypes
<1>2. visited \subseteq DOMAIN graph
  <2>1. CASE stage = "build"
    BY <2>1 DEF AnalyzerInv, Building, BuildOK, SeenOK
  <2>2. CASE stage # "build"
    BY <2>2 DEF AnalyzerInv, TreeBuilt, TreeOK
  <2> QED
    BY <2>1, <2>2
<1>3. \A k \in DOMAIN stack : stack[k].id \in visited /\ Known(stack[k].id)
  <2>1. CASE stage = "build"
    <3>1. StackOK(graph, visited, stack, nodes)
      BY <2>1 DEF AnalyzerInv, Building, BuildOK
    <3>2. DOMAIN stack = 1..Len(stack)
      BY <3>1 DEF StackOK
    <3> QED
      BY <3>1, <3>2, SameGraph DEF StackOK
  <2>2. CASE stage # "build"
    BY <2>2 DEF AnalyzerInv, TreeBuilt
  <2> QED
    BY <2>1, <2>2
<1>4. Len(sorted) + Len(ready) <= Len(nodes)
  <2>1. Len(nodes) \in Nat
    <3>1. nodes \in NodeSeq(graph)
      BY DEF AnalyzerInv, Building, BuildOK, NodesOK, TreeBuilt, TreeOK
    <3> QED
      BY <3>1 DEF NodeSeq
  <2>2. CASE stage \in {"build", "expand", "check"}
    BY <2>1, <2>2 DEF AnalyzerInv, NotSorting
  <2>3. CASE stage = "sort"
    BY <2>3, <1>1, SortBounded DEF AnalyzerInv, Sorting, TreeBuilt, TreeOK
  <2>4. CASE stage = "done"
    BY <2>4 DEF AnalyzerInv, Answered
  <2> QED
    BY <2>2, <2>3, <2>4, <1>1
<1> QED
  BY <1>1, <1>2, <1>3, <1>4 DEF AnalyzerTypeOK

\* analyze returns the resources needed, each once and with exactly what it reaches, in an
\* order that has dependencies first, and an error exactly for a cycle, for every graph and
\* request (ResourceDependencyAnalyzer.cpp:13-302).
THEOREM AnalysisIsExact == AnalyzerSpec => []AnalysisExact
<1>1. AnalyzerInit => AnalyzerInv
  BY AnalyzerBegins
<1>2. AnalyzerInv /\ [Analyze]_analyzerVars => AnalyzerInv'
  BY AnalyzeKeeps
<1>3. AnalyzerInv => AnalysisExact
  BY NodesAreComplete, ClosureIsExact, CyclesAreReported, DependenciesAreFirst, AnalyzerTyped
     DEF AnalysisExact
<1> QED
  BY <1>1, <1>2, <1>3, PTL DEF AnalyzerSpec
===============================================================================
