---------------------------- MODULE ResourceManager ----------------------------
(***************************************************************************)
(* The resource manager that the threads of a runtime share: it opens      *)
(* resources and leases them, shared or exclusively, waits with a timeout, *)
(* and has a monitor thread that looks for deadlocks and reclaims leases   *)
(* whose heartbeat has stopped.                                            *)
(*                                                                         *)
(* A step is what a thread does under one acquisition of a mutex.  The     *)
(* event callbacks are taken to be set: where the code unlocks to call     *)
(* one, a step ends.  Without a callback the two steps follow each other   *)
(* at once, which is one of the behaviours here.                           *)
(***************************************************************************)
EXTENDS Integers, FiniteSets

CONSTANTS Threads,    \* the threads that call the manager
          Monitor,    \* the heartbeat thread
          Resources,
          Modes,      \* the lease modes the callers ask for
          MaxLeases,  \* bound: how many leases are ever granted
          UseMonitor, \* does the runtime call startHeartbeatMonitor
          Preempt,    \* preemptionPolicy_ is ForcePreempt
          NoThread, NoResource

LeaseIds == 1..MaxLeases
Actors == Threads \cup {Monitor}

ASSUME ActorsAssumption == Monitor \notin Threads /\ NoThread \notin Threads
ASSUME ResourcesAssumption ==
  /\ Resources # {} /\ NoResource \notin Resources
  /\ Threads # {} /\ IsFiniteSet(Threads)
ASSUME OptionsAssumption ==
  /\ Modes \subseteq {"Shared", "Exclusive"} /\ Modes # {}
  /\ MaxLeases \in Nat /\ UseMonitor \in BOOLEAN /\ Preempt \in BOOLEAN

VARIABLES
  registered,       \* the keys of resources_
  entry,            \* ResourceEntry: state, sharedCount, hasExclusiveOwner
  nextLeaseId,
  lease,            \* the resource, mode and thread a lease was granted to
  leaseMap,         \* the keys of leaseMap_
  heartbeat,        \* heartbeats_: none, or fresh, or stale (past its ttl)
  activeLeaseCount,
  owner,            \* ownerMap_
  waitsFor,         \* waitMap_
  heartbeatRunning,
  pc,               \* where each thread is in its call; "idle" between calls
  want,             \* per thread: the resource and mode of its acquire
  waited,           \* per thread: the local variable of acquire
  valid,            \* the leases whose Lease object is still valid
  releasing,        \* per actor: the argument of its releaseLease
  expired,          \* expiredLeases of the monitor
  expiredRid        \* its expiredRid

table == <<registered, entry, nextLeaseId, lease, leaseMap, activeLeaseCount>>
graph == <<owner, waitsFor>>
callers == <<want, waited, valid>>
monitorVars == <<heartbeatRunning, expired, expiredRid>>
vars == <<table, heartbeat, graph, pc, callers, releasing, monitorVars>>

-------------------------------------------------------------------------------

Closed == [state |-> "Closed", shared |-> 0, exclusive |-> FALSE]

\* A lease that was not granted yet.
Unused == [resource |-> CHOOSE r \in Resources : TRUE, mode |-> "Shared",
           thread |-> NoThread]

\* What the local variables of acquire are outside of it.
NoRequest == [resource |-> Unused.resource, mode |-> "Shared"]

Init ==
  /\ registered = Resources
  /\ entry = [r \in Resources |-> Closed]
  /\ nextLeaseId = 1
  /\ lease = [id \in LeaseIds |-> Unused]
  /\ leaseMap = {}
  /\ heartbeat = [id \in LeaseIds |-> "none"]
  /\ activeLeaseCount = 0
  /\ owner = [r \in Resources |-> NoThread]
  /\ waitsFor = [t \in Threads |-> NoResource]
  /\ heartbeatRunning = FALSE
  /\ pc = [a \in Actors |-> IF a = Monitor THEN "off" ELSE "idle"]
  /\ want = [t \in Threads |-> NoRequest]
  /\ waited = [t \in Threads |-> FALSE]
  /\ valid = {}
  /\ releasing = [a \in Actors |-> 0]
  /\ expired = {}
  /\ expiredRid = NoResource

\* releaseLease keeps globalMutex_ while it calls back and notifies.
GlobalFree == \A a \in Actors : pc[a] # "notify"

InAcquire(t) == pc[t] \in {"enter", "opening", "try", "asleep"}

GoTo(a, label) == pc' = [pc EXCEPT ![a] = label]

\* The threads asleep on the condition variable of r wake up.
Woken(r, labels) ==
  [a \in Actors |-> IF /\ a \in Threads /\ labels[a] = "asleep"
                       /\ want[a].resource = r
                    THEN "try" ELSE labels[a]]

\* acquire returns in t: its local variables are gone.
Return(t) ==
  /\ want' = [want EXCEPT ![t] = NoRequest]
  /\ waited' = [waited EXCEPT ![t] = FALSE]

-------------------------------------------------------------------------------
(* Registering *)

Register(r) ==
  /\ GlobalFree /\ r \notin registered
  /\ registered' = registered \cup {r}
  /\ entry' = [entry EXCEPT ![r] = Closed]
  /\ UNCHANGED <<nextLeaseId, lease, leaseMap, activeLeaseCount, heartbeat,
                 graph, pc, callers, releasing, monitorVars>>

\* Callers unregister a resource when nobody is acquiring it any more, as
\* ScpiStepPlugin does after the workflow.
Unregister(r) ==
  /\ GlobalFree /\ r \in registered
  /\ \A t \in Threads : InAcquire(t) => want[t].resource # r
  /\ entry[r].shared = 0 /\ ~entry[r].exclusive
  /\ registered' = registered \ {r}
  /\ entry' = [entry EXCEPT ![r] = Closed]
  /\ UNCHANGED <<nextLeaseId, lease, leaseMap, activeLeaseCount, heartbeat,
                 graph, pc, callers, releasing, monitorVars>>

-------------------------------------------------------------------------------
(* acquire (and preallocate, which releases the lease it acquired) *)

\* The entry is looked up, and found, under globalMutex_.
Acquire(t, r, mode) ==
  /\ pc[t] = "idle" /\ GlobalFree /\ r \in registered
  /\ nextLeaseId + Cardinality({u \in Threads : InAcquire(u)}) <= MaxLeases
  /\ want' = [want EXCEPT ![t] = [resource |-> r, mode |-> mode]]
  /\ GoTo(t, "enter")
  /\ UNCHANGED <<table, heartbeat, graph, waited, valid, releasing, monitorVars>>

\* The first thread that finds the entry closed opens it, outside the mutex.
StartOpening(t) ==
  /\ pc[t] = "enter" /\ entry[want[t].resource].state = "Closed"
  /\ entry' = [entry EXCEPT ![want[t].resource].state = "Opening"]
  /\ GoTo(t, "opening")
  /\ UNCHANGED <<registered, nextLeaseId, lease, leaseMap, activeLeaseCount,
                 heartbeat, graph, callers, releasing, monitorVars>>

\* It is open: all who wait are woken.  (They are after the callback, for which
\* the mutex is given up; but who waits may wake up at any time, see WakeUp.)
Opened(t) ==
  /\ pc[t] = "opening"
  /\ entry' = [entry EXCEPT ![want[t].resource].state = "Open"]
  /\ pc' = [Woken(want[t].resource, pc) EXCEPT ![t] = "try"]
  /\ UNCHANGED <<registered, nextLeaseId, lease, leaseMap, activeLeaseCount,
                 heartbeat, graph, callers, releasing, monitorVars>>

OpenFails(t) ==
  /\ pc[t] = "opening"
  /\ entry' = [entry EXCEPT ![want[t].resource].state = "Closed"]
  /\ pc' = [Woken(want[t].resource, pc) EXCEPT ![t] = "idle"]
  /\ Return(t)
  /\ UNCHANGED <<registered, nextLeaseId, lease, leaseMap, activeLeaseCount,
                 heartbeat, graph, valid, releasing, monitorVars>>

\* A mutant: an exclusive lease does not look at the shared ones.
MutantCanGrant(t) == ~entry[want[t].resource].exclusive

\* The condition of the waiting loop.
CanGrant(t) ==
  /\ ~entry[want[t].resource].exclusive
  /\ want[t].mode = "Exclusive" => entry[want[t].resource].shared = 0

\* At the condition, holding the mutex of the entry: after the lookup, unless
\* the entry was closed, after opening it, or after waking up.
AtCondition(t) ==
  \/ pc[t] = "enter" /\ entry[want[t].resource].state # "Closed"
  \/ pc[t] = "try"

\* The effect of a grant on the entry and on the wait-for graph.
TakeExclusive(t) ==
  /\ entry' = [entry EXCEPT ![want[t].resource].exclusive = TRUE]
  /\ owner' = [owner EXCEPT ![want[t].resource] = t]
  /\ waitsFor' = [waitsFor EXCEPT ![t] = NoResource]

TakeShared(t) ==
  /\ entry' = [entry EXCEPT ![want[t].resource].shared = @ + 1]
  /\ UNCHANGED graph

Grant(t) ==
  /\ AtCondition(t) /\ CanGrant(t)
  /\ IF want[t].mode = "Exclusive" THEN TakeExclusive(t) ELSE TakeShared(t)
  /\ lease' = [lease EXCEPT ![nextLeaseId] =
                 [resource |-> want[t].resource, mode |-> want[t].mode, thread |-> t]]
  /\ nextLeaseId' = nextLeaseId + 1
  /\ leaseMap' = leaseMap \cup {nextLeaseId}
  /\ heartbeat' = [heartbeat EXCEPT ![nextLeaseId] = "fresh"]
  /\ activeLeaseCount' = activeLeaseCount + 1
  /\ valid' = valid \cup {nextLeaseId}
  /\ GoTo(t, "idle") /\ Return(t)
  /\ UNCHANGED <<registered, releasing, monitorVars>>

\* A mutant: only a call without a timeout ever gives up.
MutantGiveUp(t) ==
  /\ AtCondition(t) /\ ~CanGrant(t) /\ ~waited[t]
  /\ waitsFor' = [waitsFor EXCEPT ![t] = NoResource]
  /\ GoTo(t, "idle") /\ Return(t)
  /\ UNCHANGED <<table, heartbeat, owner, valid, releasing, monitorVars>>

\* A mutant: a thread that gives up leaves its edge in the wait-for graph.
MutantKeepsEdge(t) ==
  /\ AtCondition(t) /\ ~CanGrant(t)
  /\ GoTo(t, "idle") /\ Return(t)
  /\ UNCHANGED <<table, heartbeat, graph, valid, releasing, monitorVars>>

\* The deadline has passed, or there was no timeout to begin with.
GiveUp(t) ==
  /\ AtCondition(t) /\ ~CanGrant(t)
  /\ waitsFor' = [waitsFor EXCEPT ![t] = NoResource]
  /\ GoTo(t, "idle") /\ Return(t)
  /\ UNCHANGED <<table, heartbeat, owner, valid, releasing, monitorVars>>

Sleep(t) ==
  /\ AtCondition(t) /\ ~CanGrant(t)
  /\ waitsFor' = IF waited[t] THEN waitsFor
                 ELSE [waitsFor EXCEPT ![t] = want[t].resource]
  /\ waited' = [waited EXCEPT ![t] = TRUE]
  /\ GoTo(t, "asleep")
  /\ UNCHANGED <<table, heartbeat, owner, want, valid, releasing, monitorVars>>

\* A thread wakes up by itself: at its deadline, or for no reason.
WakeUp(t) ==
  /\ pc[t] = "asleep"
  /\ GoTo(t, "try")
  /\ UNCHANGED <<table, heartbeat, graph, callers, releasing, monitorVars>>

-------------------------------------------------------------------------------
(* releaseLease, called by Lease::release and by the monitor *)

\* Where an actor goes on after releaseLease.
AfterRelease(a) == IF a = Monitor THEN "close" ELSE "idle"

\* releaseLease returns in a.
Released(a) == releasing' = [releasing EXCEPT ![a] = 0]

\* Lease::release (or the destructor), and the end of the lease's heartbeat.
Release(t, id) ==
  /\ pc[t] = "idle" /\ id \in valid /\ lease[id].thread = t
  /\ valid' = valid \ {id}
  /\ heartbeat' = [heartbeat EXCEPT ![id] = "none"]
  /\ releasing' = [releasing EXCEPT ![t] = id]
  /\ GoTo(t, "unmap")
  /\ UNCHANGED <<table, graph, want, waited, monitorVars>>

\* A mutant: the lease is released although somebody else already did.
MutantUnmap(a) ==
  /\ pc[a] = "unmap"
  /\ leaseMap' = leaseMap \ {releasing[a]}
  /\ GoTo(a, "account")
  /\ UNCHANGED <<registered, entry, nextLeaseId, lease, activeLeaseCount,
                 heartbeat, graph, callers, releasing, monitorVars>>

\* Whoever takes the lease out of leaseMap_ releases it.
Unmap(a) ==
  /\ pc[a] = "unmap"
  /\ leaseMap' = leaseMap \ {releasing[a]}
  /\ IF releasing[a] \in leaseMap
     THEN GoTo(a, "account") /\ UNCHANGED releasing
     ELSE GoTo(a, AfterRelease(a)) /\ Released(a)
  /\ UNCHANGED <<registered, entry, nextLeaseId, lease, activeLeaseCount,
                 heartbeat, graph, callers, monitorVars>>

DropExclusive(r) ==
  /\ entry' = [entry EXCEPT ![r].exclusive = FALSE]
  /\ owner' = [owner EXCEPT ![r] = NoThread]
  /\ UNCHANGED waitsFor

DropShared(r) ==
  /\ entry' = IF entry[r].shared > 0 THEN [entry EXCEPT ![r].shared = @ - 1] ELSE entry
  /\ UNCHANGED graph

\* What is released follows from the entry, not from the mode of the lease.  (The
\* entry is always found: LeasedIsRegistered.)
Account(a) ==
  LET r == lease[releasing[a]].resource
  IN  /\ pc[a] = "account" /\ GlobalFree /\ r \in registered
      /\ IF entry[r].exclusive THEN DropExclusive(r) ELSE DropShared(r)
      /\ activeLeaseCount' = activeLeaseCount - 1
      /\ GoTo(a, "notify")
      /\ UNCHANGED <<registered, nextLeaseId, lease, leaseMap, heartbeat,
                     callers, releasing, monitorVars>>

\* A mutant: only the first of the waiting threads is woken.
MutantNotify(a) ==
  /\ pc[a] = "notify"
  /\ LET sleepers == {t \in Threads : /\ pc[t] = "asleep"
                                      /\ want[t].resource = lease[releasing[a]].resource}
     IN  IF sleepers = {} THEN GoTo(a, AfterRelease(a))
         ELSE \E t \in sleepers :
                pc' = [pc EXCEPT ![t] = "try", ![a] = AfterRelease(a)]
  /\ Released(a)
  /\ UNCHANGED <<table, heartbeat, graph, callers, monitorVars>>

Notify(a) ==
  /\ pc[a] = "notify"
  /\ pc' = [Woken(lease[releasing[a]].resource, pc) EXCEPT ![a] = AfterRelease(a)]
  /\ Released(a)
  /\ UNCHANGED <<table, heartbeat, graph, callers, monitorVars>>

-------------------------------------------------------------------------------
(* Heartbeats and the monitor *)

\* renewLease returns true exactly when the lease has a heartbeat.
Renew(t, id) ==
  /\ pc[t] = "idle" /\ id \in valid /\ lease[id].thread = t
  /\ heartbeat[id] # "none"
  /\ heartbeat' = [heartbeat EXCEPT ![id] = "fresh"]
  /\ UNCHANGED <<table, graph, pc, callers, releasing, monitorVars>>

\* Time passes: ttl and grace period of a lease are over.
Expire(id) ==
  /\ UseMonitor /\ heartbeat[id] = "fresh"
  /\ heartbeat' = [heartbeat EXCEPT ![id] = "stale"]
  /\ UNCHANGED <<table, graph, pc, callers, releasing, monitorVars>>

StartMonitor ==
  /\ UseMonitor /\ ~heartbeatRunning /\ pc[Monitor] = "off"
  /\ heartbeatRunning' = TRUE
  /\ GoTo(Monitor, "test")
  /\ UNCHANGED <<table, heartbeat, graph, callers, releasing, expired, expiredRid>>

\* stopHeartbeatMonitor; the caller then waits for the thread to end.
StopMonitor ==
  /\ heartbeatRunning
  /\ heartbeatRunning' = FALSE
  /\ UNCHANGED <<table, heartbeat, graph, pc, callers, releasing, expired, expiredRid>>

MonitorTest ==
  /\ pc[Monitor] = "test"
  /\ GoTo(Monitor, IF heartbeatRunning THEN "detect" ELSE "off")
  /\ UNCHANGED <<table, heartbeat, graph, callers, releasing, monitorVars>>

kMaxDepth == 32

\* How far the chain of owners is followed; with fewer threads than kMaxDepth a
\* longer chain only repeats itself.
Depth == IF Cardinality(Threads) < kMaxDepth THEN Cardinality(Threads) ELSE kMaxDepth

\* The thread that the thread t waits for.
WaitsForThread(waits, t) ==
  IF t \in Threads /\ waits[t] # NoResource THEN owner[waits[t]] ELSE NoThread

\* The chain of owners that detectDeadlock follows from one waiting thread.
Chain(waits, t) ==
  LET chain[n \in 0..Depth] ==
        WaitsForThread(waits, IF n = 0 THEN t ELSE chain[n - 1])
  IN  chain

\* The threads it finds at the end of such a chain, waiting for t: none or one.
Victims(waits, t) ==
  LET chain == Chain(waits, t)
  IN  IF chain[0] = t THEN {}
      ELSE {u \in Threads : \E n \in 1..Depth :
               /\ chain[n] = t /\ u = chain[n - 1]
               /\ \A k \in 0..n - 1 : chain[k] # t}

\* The threads from which detectDeadlock finds a cycle.
Reported(waits) == {t \in Threads : Victims(waits, t) # {}}

\* Under ForcePreempt the thread found is taken out of the graph, which breaks
\* its cycle: one thread of each cycle goes, whichever waitMap_ lists first.
Preempted(waits) ==
  LET Without(gone) == [t \in Threads |-> IF t \in gone THEN NoResource ELSE waits[t]]
  IN  {Without(gone) : gone \in
         {threads \in SUBSET Reported(waits) :
            /\ Reported(Without(threads)) = {}
            /\ \A t \in threads : Reported(Without(threads \ {t})) # {}}}

Detect ==
  /\ pc[Monitor] = "detect"
  /\ IF Preempt THEN waitsFor' \in Preempted(waitsFor) ELSE UNCHANGED waitsFor
  /\ GoTo(Monitor, "scan")
  /\ UNCHANGED <<table, heartbeat, owner, callers, releasing, monitorVars>>

Scan ==
  /\ pc[Monitor] = "scan"
  /\ expired' = {id \in LeaseIds : heartbeat[id] = "stale"}
  /\ GoTo(Monitor, "reclaim")
  /\ UNCHANGED <<table, heartbeat, graph, callers, releasing, heartbeatRunning,
                 expiredRid>>

\* The next expired lease, in any order, and the resource of its heartbeat.
NextExpired(id) ==
  /\ pc[Monitor] = "reclaim" /\ id \in expired
  /\ expired' = expired \ {id}
  /\ expiredRid' = IF heartbeat[id] # "none" THEN lease[id].resource ELSE NoResource
  /\ releasing' = [releasing EXCEPT ![Monitor] = id]
  /\ GoTo(Monitor, "erase")
  /\ UNCHANGED <<table, heartbeat, graph, callers, heartbeatRunning>>

\* The monitor in releaseLease: the heartbeat goes first.
EraseHeartbeat ==
  /\ pc[Monitor] = "erase"
  /\ heartbeat' = [heartbeat EXCEPT ![releasing[Monitor]] = "none"]
  /\ GoTo(Monitor, "unmap")
  /\ UNCHANGED <<table, graph, callers, releasing, monitorVars>>

\* After releaseLease: the resource of the expired lease is closed.  (The erase
\* of the heartbeat that follows in the code finds nothing any more.)
CloseExpired ==
  /\ pc[Monitor] = "close"
  /\ expiredRid # NoResource => GlobalFree
  /\ entry' = IF /\ expiredRid \in registered
                 /\ entry[expiredRid].state = "Open"
              THEN [entry EXCEPT ![expiredRid].state = "Closed"] ELSE entry
  /\ expiredRid' = NoResource
  /\ GoTo(Monitor, "reclaim")
  /\ UNCHANGED <<registered, nextLeaseId, lease, leaseMap, activeLeaseCount,
                 heartbeat, graph, callers, releasing, heartbeatRunning, expired>>

PassDone ==
  /\ pc[Monitor] = "reclaim" /\ expired = {}
  /\ GoTo(Monitor, "test")
  /\ UNCHANGED <<table, heartbeat, graph, callers, releasing, monitorVars>>

-------------------------------------------------------------------------------

ReleaseLease(a) == Unmap(a) \/ Account(a) \/ Notify(a)

\* What a thread that is inside a call does next.
Proceed(t) ==
  \/ StartOpening(t) \/ Opened(t) \/ OpenFails(t)
  \/ Grant(t) \/ GiveUp(t) \/ Sleep(t) \/ WakeUp(t)
  \/ ReleaseLease(t)

\* The calls a thread may make.
Call(t) ==
  \/ \E r \in Resources, mode \in Modes : Acquire(t, r, mode)
  \/ \E id \in LeaseIds : Release(t, id) \/ Renew(t, id)

MonitorThread ==
  \/ MonitorTest \/ Detect \/ Scan \/ EraseHeartbeat \/ CloseExpired \/ PassDone
  \/ \E id \in LeaseIds : NextExpired(id)
  \/ ReleaseLease(Monitor)

Owners ==
  \/ \E r \in Resources : Register(r) \/ Unregister(r)
  \/ StartMonitor \/ StopMonitor

Next ==
  \/ \E t \in Threads : Call(t) \/ Proceed(t)
  \/ MonitorThread
  \/ Owners
  \/ \E id \in LeaseIds : Expire(id)

Spec == Init /\ [][Next]_vars

\* Threads and the monitor run, open() returns, and a deadline is reached: a
\* waiting thread that finds the lease taken again and again gives up.
Fairness ==
  \A t \in Threads : WF_vars(Proceed(t)) /\ SF_vars(GiveUp(t) \/ Grant(t))

FairSpec == Spec /\ Fairness /\ WF_vars(MonitorThread)

-------------------------------------------------------------------------------
(* Properties *)

EntryStates == {"Closed", "Opening", "Open"}
ThreadLabels ==
  {"idle", "enter", "opening", "try", "asleep", "unmap", "account", "notify"}
MonitorLabels ==
  {"off", "test", "detect", "scan", "reclaim", "erase", "unmap", "account",
   "notify", "close"}

TypeOK ==
  /\ registered \subseteq Resources
  /\ entry \in [Resources -> [state : EntryStates, shared : Nat, exclusive : BOOLEAN]]
  /\ nextLeaseId \in Nat \ {0}
  /\ lease \in [LeaseIds -> [resource : Resources, mode : {"Shared", "Exclusive"},
                             thread : Threads \cup {NoThread}]]
  /\ leaseMap \subseteq LeaseIds
  /\ heartbeat \in [LeaseIds -> {"none", "fresh", "stale"}]
  /\ activeLeaseCount \in Nat
  /\ owner \in [Resources -> Threads \cup {NoThread}]
  /\ waitsFor \in [Threads -> Resources \cup {NoResource}]
  /\ heartbeatRunning \in BOOLEAN
  /\ pc \in [Actors -> ThreadLabels \cup MonitorLabels]
  /\ \A t \in Threads : pc[t] \in ThreadLabels
  /\ pc[Monitor] \in MonitorLabels
  /\ want \in [Threads -> [resource : Resources, mode : {"Shared", "Exclusive"}]]
  /\ waited \in [Threads -> BOOLEAN]
  /\ valid \subseteq LeaseIds
  /\ releasing \in [Actors -> LeaseIds \cup {0}]
  /\ expired \subseteq LeaseIds
  /\ expiredRid \in Resources \cup {NoResource}

\* The leases that count: granted, and not yet taken off their entry.
Accounted ==
  leaseMap \cup {releasing[a] : a \in {b \in Actors : pc[b] = "account"}}

On(r, mode) == {id \in Accounted : lease[id].resource = r /\ lease[id].mode = mode}

\* An exclusive lease is alone on its resource, also while leases are released
\* by their threads and reclaimed by the monitor at the same time.
LeaseExclusion ==
  \A i, j \in Accounted :
    i # j /\ lease[i].resource = lease[j].resource
      => lease[i].mode = "Shared" /\ lease[j].mode = "Shared"

\* sharedCount and hasExclusiveOwner say exactly which leases are out: releasing
\* by what the entry says (ResourceManager.cpp:457-467) is releasing the lease,
\* and no lease is released twice.
AccountsExact ==
  \A r \in Resources :
    /\ entry[r].shared = Cardinality(On(r, "Shared"))
    /\ entry[r].exclusive <=> On(r, "Exclusive") # {}

\* activeLeaseCount() counts each lease once, whoever releases it.
ActiveCountExact == activeLeaseCount = Cardinality(Accounted)

\* A resource with a lease on it stays registered.
LeasedIsRegistered == \A id \in Accounted : lease[id].resource \in registered

\* The books of the manager are in order in every interleaving of the threads and
\* the monitor: leases exclude each other, are counted once, exactly as they were
\* granted, and keep their resource registered (ResourceManager.cpp:200-330, 430-480).
LeasesSound ==
  TypeOK /\ LeaseExclusion /\ AccountsExact /\ ActiveCountExact /\ LeasedIsRegistered

\* No thread sleeps on while it could have its lease, unless whoever freed it is
\* about to notify (the window of the callback, ResourceManager.cpp:471-477).
NoMissedWakeup ==
  \A t \in Threads :
    pc[t] = "asleep" /\ CanGrant(t) =>
      \E a \in Actors : /\ pc[a] = "notify"
                        /\ lease[releasing[a]].resource = want[t].resource

\* ownerMap_ names the thread that holds the exclusive lease, and nobody else.
OwnerExact ==
  \A r \in Resources :
    owner[r] = IF On(r, "Exclusive") = {} THEN NoThread
               ELSE lease[CHOOSE id \in On(r, "Exclusive") : TRUE].thread

\* Threads that wait in acquire, having slept at least once.
Blocked == {t \in Threads : pc[t] \in {"try", "asleep"} /\ waited[t]}

\* A deadlock of two or more threads: each waits for a resource that another one
\* of them holds exclusively.
Deadlocked ==
  \E S \in SUBSET Blocked :
    /\ S # {}
    /\ \A t \in S : \E u \in S \ {t} :
         \E id \in On(want[t].resource, "Exclusive") : lease[id].thread = u

\* As long as all leases are exclusive, detectDeadlock reports a cycle exactly
\* when threads are deadlocked (ResourceManager.cpp:573-627).
DetectsExactly == (Reported(waitsFor) # {}) <=> Deadlocked

\* The graph the detection works on and its verdict are both exact.
DeadlocksDetected == OwnerExact /\ DetectsExactly

\* ResourceManager.h:82-83 uses the resource of a lease until it is released: a
\* resource is not closed while there is a lease on it.
ClosedWithoutLeases ==
  [][\A r \in Resources :
       entry[r].state = "Open" /\ entry'[r].state = "Closed" =>
         \A id \in Accounted : lease[id].resource # r]_vars

\* Every call returns: two threads that wait for each other's leases are set
\* free by their deadlines, and nothing waits for globalMutex_ for ever.
CallsReturn == \A t \in Threads : pc[t] # "idle" ~> pc[t] = "idle"

Leases == INSTANCE LeaseTable
  WITH LeaseId <- LeaseIds, Resource <- Resources,
       status <- [id \in LeaseIds |->
                    IF id >= nextLeaseId THEN "unused"
                    ELSE IF id \in Accounted THEN "held" ELSE "returned"],
       terms <- [id \in LeaseIds |->
                   [resource |-> lease[id].resource, mode |-> lease[id].mode]]

\* The manager grants and takes back leases as LeaseTable says: compatible ones
\* only, each once, in spite of the steps its mutexes let interleave.
RefinesLeases == Leases!TableSpec
===============================================================================
