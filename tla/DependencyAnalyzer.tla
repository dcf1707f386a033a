-------------------------- MODULE DependencyAnalyzer --------------------------
(***************************************************************************)
(* ResourceDependencyAnalyzer::analyze: from the requested resources it    *)
(* builds the list of nodes depth first (buildTree), closes the            *)
(* dependencies under transitivity in place (expandTree), looks for a      *)
(* resource that depends on itself and for cycles, and sorts the nodes     *)
(* (Kahn).  One step per call or return of buildTree, per node of a pass   *)
(* of expandTree and per resource taken off Kahn's queue.                  *)
(*                                                                         *)
(* A graph gives each resource the names of its dependencies, in order, or *)
(* Unknown if the lookup knows no such resource.                           *)
(***************************************************************************)
EXTENDS ListLoops, FiniteSets, SequencesExt

CONSTANTS Graphs,    \* the dependency graphs analysed
          Requests,  \* the lists of resources a caller asks for
          Unknown    \* what a graph maps a name to that is not registered

\* Every name that occurs is one the graph has, registered or not.
ASSUME GraphsAssumption ==
  \A g \in Graphs :
    /\ \A id \in DOMAIN g : g[id] # Unknown => g[id] \in Seq(DOMAIN g)
    /\ Requests \subseteq Seq(DOMAIN g)

VARIABLES graph, request,  \* the arguments; request is what is left to visit
          stage,           \* the part of analyze that runs
          visited,         \* the names buildTree has seen
          stack,           \* its activations: a name and how many dependencies are done
          nodes,           \* the list of nodes
          at,              \* the node expandTree is at
          changed,         \* whether this pass of expandTree changed a node
          hasCycle,        \* hasCycle_
          error,           \* whether an error message was given
          pending,         \* depCount: dependencies of each node not yet sorted
          ready,           \* Kahn's queue
          sorted           \* the names sorted so far

analyzerVars == <<graph, request, stage, visited, stack, nodes, at, changed,
                  hasCycle, error, pending, ready, sorted>>

ResourceNode(id, deps) == [resourceId |-> id, strongDependencies |-> deps]

Known(id) == id \in DOMAIN graph /\ graph[id] # Unknown

AnalyzerInit ==
  /\ graph \in Graphs /\ request \in Requests
  /\ stage = "build"
  /\ visited = {} /\ stack = << >> /\ nodes = << >>
  /\ at = 1 /\ changed = FALSE
  /\ hasCycle = FALSE /\ error = FALSE
  /\ pending = << >> /\ ready = << >> /\ sorted = << >>

-------------------------------------------------------------------------------
\* buildTree.

\* A call of buildTree: it returns at once for a name it has seen or that the
\* lookup does not know.
Call(id, frames) ==
  /\ visited' = visited \cup {id}
  /\ stack' = IF id \in visited \/ ~Known(id) THEN frames
              ELSE Append(frames, [id |-> id, done |-> 0])

VisitRequested ==
  /\ stage = "build" /\ stack = << >> /\ request # << >>
  /\ Call(Head(request), stack)
  /\ request' = Tail(request)
  /\ UNCHANGED <<graph, stage, nodes, at, changed, hasCycle, error, pending, ready, sorted>>

Top == Last(stack)

VisitDependency ==
  /\ stage = "build" /\ stack # << >> /\ Top.done < Len(graph[Top.id])
  /\ Call(graph[Top.id][Top.done + 1],
          [stack EXCEPT ![Len(stack)].done = @ + 1])
  /\ UNCHANGED <<graph, request, stage, nodes, at, changed, hasCycle, error,
                 pending, ready, sorted>>

\* A node is listed after its dependencies.
AddNode ==
  /\ stage = "build" /\ stack # << >> /\ Top.done = Len(graph[Top.id])
  /\ nodes' = Append(nodes, ResourceNode(Top.id, graph[Top.id]))
  /\ stack' = Front(stack)
  /\ UNCHANGED <<graph, request, stage, visited, at, changed, hasCycle, error,
                 pending, ready, sorted>>

Built ==
  /\ stage = "build" /\ stack = << >> /\ request = << >>
  /\ stage' = "expand"
  /\ UNCHANGED <<graph, request, visited, stack, nodes, at, changed, hasCycle, error,
                 pending, ready, sorted>>

-------------------------------------------------------------------------------
\* expandTree.

DependsDirectly(node, id) == id \in ToSet(node.strongDependencies)

\* What a dependency depends on that the node does not list; nothing is known of a name
\* that has no node.
NewDeps(node, id) ==
  LET of == {k \in DOMAIN nodes : nodes[k].resourceId = id}
      deps == nodes[CHOOSE k \in of : TRUE].strongDependencies
  IN  IF of = {} THEN <<>> ELSE Picked(deps, {j \in DOMAIN deps : ~DependsDirectly(node, deps[j])})

\* The dependencies of dependencies that the node does not have yet, as often as
\* they are found.
TransitiveDeps(node) ==
  FlattenSeq([k \in DOMAIN node.strongDependencies |-> NewDeps(node, node.strongDependencies[k])])

ExpandNode ==
  /\ stage = "expand" /\ at <= Len(nodes)
  /\ nodes' = [nodes EXCEPT ![at].strongDependencies = @ \o TransitiveDeps(nodes[at])]
  /\ changed' = (changed \/ TransitiveDeps(nodes[at]) # << >>)
  /\ at' = at + 1
  /\ UNCHANGED <<graph, request, stage, visited, stack, hasCycle, error, pending, ready, sorted>>

\* A mutant: one pass is taken to be enough.
MutantExpandAgain ==
  /\ stage = "expand" /\ at > Len(nodes)
  /\ stage' = "check"
  /\ UNCHANGED <<graph, request, visited, stack, nodes, at, changed, hasCycle, error,
                 pending, ready, sorted>>

\* The end of a pass: another follows if it changed a node.
ExpandAgain ==
  /\ stage = "expand" /\ at > Len(nodes)
  /\ stage' = IF changed THEN "expand" ELSE "check"
  /\ at' = 1
  /\ changed' = FALSE
  /\ UNCHANGED <<graph, request, visited, stack, nodes, hasCycle, error, pending, ready, sorted>>

-------------------------------------------------------------------------------
\* The checks.

\* A node that depends on itself, directly or by the closure: an error, and the
\* nodes are returned as they are.
ReferencesItself ==
  /\ stage = "check"
  /\ \E n \in ToSet(nodes) : DependsDirectly(n, n.resourceId)
  /\ error' = TRUE
  /\ stage' = "done"
  /\ UNCHANGED <<graph, request, visited, stack, nodes, at, changed, hasCycle,
                 pending, ready, sorted>>

\* A strongly connected component of more than one node (tarjanSCC): two nodes
\* that depend on each other.
StronglyConnected ==
  \E n, o \in ToSet(nodes) :
    n # o /\ DependsDirectly(n, o.resourceId) /\ DependsDirectly(o, n.resourceId)

\* How many dependencies Kahn's algorithm waits for: the length of the list, with
\* names that occur twice or are not registered.
DepCount(n) == Len(n.strongDependencies)

\* The cycle check and the start of the sort; the first names come in any order.
CheckCycles ==
  /\ stage = "check"
  /\ \A n \in ToSet(nodes) : ~DependsDirectly(n, n.resourceId)
  /\ hasCycle' = StronglyConnected
  /\ error' = StronglyConnected
  /\ pending' = [k \in DOMAIN nodes |-> DepCount(nodes[k])]
  /\ ready' \in SetToSeqs({nodes[k].resourceId :
                             k \in {k \in DOMAIN nodes : DepCount(nodes[k]) = 0}})
  /\ stage' = "sort"
  /\ UNCHANGED <<graph, request, visited, stack, nodes, at, changed, sorted>>

-------------------------------------------------------------------------------
\* The sort.

\* A name is taken off the queue; each node that waits for it waits for one less.
SortNext ==
  /\ stage = "sort" /\ ready # << >>
  /\ LET id == Head(ready)
         waits(k) == DependsDirectly(nodes[k], id)
         freed == {k \in DOMAIN nodes : waits(k) /\ pending[k] = 1}
     IN  /\ sorted' = Append(sorted, id)
         /\ pending' = [k \in DOMAIN nodes |-> pending[k] - IF waits(k) THEN 1 ELSE 0]
         /\ ready' = Tail(ready) \o Picked([k \in DOMAIN nodes |-> nodes[k].resourceId], freed)
  /\ UNCHANGED <<graph, request, stage, visited, stack, nodes, at, changed, hasCycle, error>>

NodeOf(id) == CHOOSE n \in ToSet(nodes) : n.resourceId = id

\* With every node sorted the nodes are returned in that order, else as they are.
Sorted ==
  /\ stage = "sort" /\ ready = << >>
  /\ nodes' = IF Len(sorted) = Len(nodes)
              THEN [k \in DOMAIN sorted |-> NodeOf(sorted[k])] ELSE nodes
  /\ stage' = "done"
  /\ UNCHANGED <<graph, request, visited, stack, at, changed, hasCycle, error,
                 pending, ready, sorted>>

BuildTree == VisitRequested \/ VisitDependency \/ AddNode \/ Built

Analyze ==
  \/ BuildTree
  \/ ExpandNode
  \/ ExpandAgain
  \/ ReferencesItself
  \/ CheckCycles
  \/ SortNext
  \/ Sorted

AnalyzerSpec == AnalyzerInit /\ [][Analyze]_analyzerVars

-------------------------------------------------------------------------------
\* What it should return, without the algorithm.

Successors(id) == IF Known(id) THEN ToSet(graph[id]) ELSE {}

\* The names reached from a set of names: they are in every set that contains it
\* and, with a name, what that depends on.
ReachedFrom(S) ==
  {id \in DOMAIN graph :
     \A C \in SUBSET DOMAIN graph :
        S \subseteq C /\ (\A c \in C : Successors(c) \subseteq C) => id \in C}

OnCycle == {id \in visited : id \in ReachedFrom(Successors(id))}

\* Types; the activations of buildTree are of names seen and known.
AnalyzerTypeOK ==
  /\ graph \in Graphs
  /\ stage \in {"build", "expand", "check", "sort", "done"}
  /\ visited \subseteq DOMAIN graph
  /\ \A k \in DOMAIN stack : stack[k].id \in visited /\ Known(stack[k].id)
  /\ at \in 1..Len(nodes) + 1
  /\ <<changed, hasCycle, error>> \in BOOLEAN \X BOOLEAN \X BOOLEAN
  /\ Len(sorted) + Len(ready) <= Len(nodes)

\* analyze returns each registered resource that a requested one needs exactly
\* once, whatever cycles, shared and unknown dependencies the graph has
\* (ResourceDependencyAnalyzer.cpp:13-47, 290-302).
NodesComplete ==
  stage = "done" =>
    /\ {n.resourceId : n \in ToSet(nodes)} = {id \in visited : Known(id)}
    /\ \A k, l \in DOMAIN nodes : nodes[k].resourceId = nodes[l].resourceId => k = l
    /\ \A id \in ReachedFrom(visited) : id \in visited

\* expandTree ends with the transitive closure, although it appends to the lists
\* it reads (:53-89): a node lists exactly what its resource reaches.
ClosureExact ==
  stage \in {"check", "sort", "done"} =>
    \A n \in ToSet(nodes) :
      ToSet(n.strongDependencies) = ReachedFrom(Successors(n.resourceId))

\* analyze gives an error exactly if some resource depends on itself in the end
\* (header :51); as the closure turns every cycle into self-references, the
\* check for those finds them all (:200-216).
CycleReported ==
  stage = "done" => (error <=> OnCycle # {})

\* Without an error a node comes after all the nodes it depends on, also where
\* the sort gives up because a dependency occurs twice or is unknown (:250-302).
DependenciesFirst ==
  stage = "done" /\ ~error =>
    \A k, l \in DOMAIN nodes :
      DependsDirectly(nodes[k], nodes[l].resourceId) => l < k

\* The result of analyze is the one the graph has.
AnalysisExact ==
  AnalyzerTypeOK /\ NodesComplete /\ ClosureExact /\ CycleReported /\ DependenciesFirst
===============================================================================
