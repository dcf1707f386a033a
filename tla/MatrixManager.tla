---------------------------- MODULE MatrixManager ----------------------------
(***************************************************************************)
(* MatrixManager of the SDK: clients route sources of the switch matrix to *)
(* destinations, one at a time or as a batch, and get RAII leases that     *)
(* take their route down again.  A batch is a sequence of <<src, dst>>,    *)
(* routeTo a batch of one; a second route of a source replaces the first   *)
(* without invalidating its lease.                                         *)
(*                                                                         *)
(* One action per critical section of routesMutex_ and per access of the   *)
(* atomic activeCount_.  Acquiring the matrix from the ResourceManager is  *)
(* a choice of success or failure: its lease is released before the route  *)
(* is made, so it excludes nobody.                                         *)
(***************************************************************************)
EXTENDS Integers, Sequences, FiniteSets, Functions, SequencesExt

CONSTANTS Clients,    \* the threads that route
          Batches,    \* the batches they ask for, sequences of <<src, dst>>
          MaxBatches  \* bound: how many batches are asked for

ASSUME MatrixBoundsAssumption ==
  MaxBatches \in Nat /\ << >> \notin Batches

\* A batch is a sequence of pairs.
ASSUME BatchesAssumption ==
  \A b \in Batches : b \in Seq(ToSet(b)) /\ \A e \in ToSet(b) : e = <<e[1], e[2]>>

VARIABLES routes,       \* routes_, a function from some sources
          activeCount,  \* activeCount_
          phase,        \* what each client is doing in batchRoute
          todo,         \* the entries its batch has still to route
          got,          \* the leases of its batch so far
          leases,       \* the valid leases it holds, a sequence of batches
          asked,        \* how many batches were asked for
          replaced      \* how many routes were replaced (history)

matrixVars ==
  <<routes, activeCount, phase, todo, got, leases, asked, replaced>>

MatrixInit ==
  /\ routes = << >>
  /\ activeCount = 0
  /\ phase = [c \in Clients |-> "idle"]
  /\ todo = [c \in Clients |-> << >>]
  /\ got = [c \in Clients |-> << >>]
  /\ leases = [c \in Clients |-> << >>]
  /\ asked = 0
  /\ replaced = 0

\* batchRoute or routeTo is called; verifyRoute says yes to every route.
AskBatch(c) ==
  /\ phase[c] = "idle" /\ asked < MaxBatches
  /\ \E b \in Batches : todo' = [todo EXCEPT ![c] = b]
  /\ asked' = asked + 1
  /\ phase' = [phase EXCEPT ![c] = "route"]
  /\ UNCHANGED <<routes, activeCount, got, leases, replaced>>

Source(entry) == entry[1]

Routed(entry) == Source(entry) \in DOMAIN routes /\ routes[Source(entry)] = entry[2]

\* routes_[src] = dst, whether or not the source had a route.
SetRoute(c) ==
  /\ phase[c] = "route"
  /\ LET entry == Head(todo[c]) IN
       /\ routes' = [s \in DOMAIN routes \cup {Source(entry)} |->
                       IF s = Source(entry) THEN entry[2] ELSE routes[s]]
       /\ replaced' = IF Source(entry) \in DOMAIN routes THEN replaced + 1 ELSE replaced
  /\ phase' = [phase EXCEPT ![c] = "count"]
  /\ UNCHANGED <<activeCount, todo, got, leases, asked>>

\* A mutant: a batch that fails is forgotten, its routes stay.
MutantAcquireFails(c) ==
  /\ phase[c] = "route"
  /\ got' = [got EXCEPT ![c] = << >>]
  /\ phase' = [phase EXCEPT ![c] = "idle"]
  /\ UNCHANGED <<routes, activeCount, todo, leases, asked, replaced>>

\* The matrix is not acquired in time: routeTo returns nullptr, and batchRoute
\* destroys the leases it has.
AcquireFails(c) ==
  /\ phase[c] = "route"
  /\ todo' = [todo EXCEPT ![c] = << >>]
  /\ phase' = [phase EXCEPT ![c] = IF got[c] = << >> THEN "idle" ELSE "rollback"]
  /\ UNCHANGED <<routes, activeCount, got, leases, asked, replaced>>

\* activeCount_++ and the lease; after the last entry the batch is returned.
CountRoute(c) ==
  /\ phase[c] = "count"
  /\ activeCount' = activeCount + 1
  /\ LET done == Append(got[c], Head(todo[c]))
         last == Len(todo[c]) = 1
     IN /\ got' = [got EXCEPT ![c] = IF last THEN << >> ELSE done]
        /\ leases' = [leases EXCEPT ![c] = IF last THEN Append(@, done) ELSE @]
        /\ phase' = [phase EXCEPT ![c] = IF last THEN "idle" ELSE "route"]
  /\ todo' = [todo EXCEPT ![c] = Tail(@)]
  /\ UNCHANGED <<routes, asked, replaced>>

\* doDisconnect: the route goes if the source still has this destination.
DoDisconnect(entry) ==
  IF Routed(entry)
  THEN /\ routes' = Restrict(routes, DOMAIN routes \ {Source(entry)})
       /\ activeCount' = activeCount - 1
  ELSE UNCHANGED <<routes, activeCount>>

\* The leases of a failed batch are destroyed one by one.
RollBack(c) ==
  /\ phase[c] = "rollback"
  /\ DoDisconnect(Head(got[c]))
  /\ got' = [got EXCEPT ![c] = Tail(@)]
  /\ phase' = [phase EXCEPT ![c] = IF Len(got[c]) = 1 THEN "idle" ELSE "rollback"]
  /\ UNCHANGED <<todo, leases, asked, replaced>>

\* The batches bs without the first lease of the one at i.
Dropped(bs, i) ==
  IF Len(bs[i]) = 1 THEN RemoveAt(bs, i) ELSE [bs EXCEPT ![i] = Tail(bs[i])]

\* A client destroys the first lease of a batch it holds.
DropLease(c) ==
  /\ phase[c] = "idle"
  /\ \E i \in DOMAIN leases[c] :
       /\ DoDisconnect(Head(leases[c][i]))
       /\ leases' = [leases EXCEPT ![c] = Dropped(leases[c], i)]
  /\ UNCHANGED <<phase, todo, got, asked, replaced>>

\* disconnectAll, which leaves the leases valid.
DisconnectAll ==
  /\ routes # << >>
  /\ activeCount' = activeCount - Cardinality(DOMAIN routes)
  /\ routes' = << >>
  /\ UNCHANGED <<phase, todo, got, leases, asked, replaced>>

Routing(c) ==
  \/ AskBatch(c)
  \/ SetRoute(c)
  \/ AcquireFails(c)
  \/ CountRoute(c)
  \/ RollBack(c)

MatrixNext ==
  \/ \E c \in Clients : Routing(c) \/ DropLease(c)
  \/ DisconnectAll

MatrixSpec == MatrixInit /\ [][MatrixNext]_matrixVars

-------------------------------------------------------------------------------

Entries == UNION {ToSet(b) : b \in Batches}

\* The types of the variables, and which phases have entries to route.
MatrixTypeOK ==
  /\ ToSet(<<routes>>) \subseteq UNION {[S -> {e[2] : e \in Entries}] :
                                          S \in SUBSET {Source(e) : e \in Entries}}
  /\ activeCount \in Int
  /\ phase \in [Clients -> {"idle", "route", "count", "rollback"}]
  /\ todo \in [Clients -> Seq(Entries)] /\ got \in [Clients -> Seq(Entries)]
  /\ leases \in [Clients -> Seq(Seq(Entries))]
  /\ asked \in 0..MaxBatches /\ replaced \in Nat
  /\ \A c \in Clients : (todo[c] # << >>) <=> phase[c] \in {"route", "count"}
  /\ \A c \in Clients : phase[c] = "rollback" => got[c] # << >>

\* The leases of a client, those of a batch on its way included.
HasLease(c, entry) ==
  \/ \E b \in ToSet(leases[c]) : entry \in ToSet(b)
  \/ entry \in ToSet(got[c])
  \/ phase[c] = "count" /\ entry = Head(todo[c])

\* No route is left that nobody can take down: whatever batches fail, replace
\* each other's routes or are taken down, a route in the table has a client with
\* a valid lease for it (MatrixManager.cpp:86-102, 118-127, 162-170).
RoutesHaveLeases ==
  \A s \in DOMAIN routes : \E c \in Clients : HasLease(c, <<s, routes[s]>>)

Counting == Cardinality({c \in Clients : phase[c] = "count"})

\* activeRouteCount never falls below the routes there are, but for those whose
\* client has still to count them, although the table and the count are changed
\* apart (:87-97); it is too high by exactly the routes that were replaced.
CountDrift ==
  activeCount + Counting = Cardinality(DOMAIN routes) + replaced

\* The route table, the leases and the count fit together.
MatrixSound == MatrixTypeOK /\ RoutesHaveLeases /\ CountDrift

\* MatrixManager.h:74-75 of batchRoute, "all connections succeed or all are rolled
\* back, in one atomic operation": among batches over the same sources, when no
\* call is in progress a batch that was returned has all its routes or none.
BatchesAreWhole ==
  (\A c \in Clients : phase[c] = "idle") =>
     \A c \in Clients : \A b \in ToSet(leases[c]) \cap Batches :
        (\A e \in ToSet(b) : Routed(e)) \/ (\A e \in ToSet(b) : ~Routed(e))
===============================================================================
