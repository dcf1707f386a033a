-------------------------- MODULE ResourceManagerProofs --------------------------
(***************************************************************************)
(* The leases of the ResourceManager, for any number of threads, resources *)
(* and leases: the accounts of the entries are exact, exclusive leases are *)
(* alone, and the manager implements LeaseTable; no wakeup is missed; and  *)
(* the monitor sees a deadlock exactly when there is one.                  *)
(***************************************************************************)
EXTENDS ResourceManager, FiniteSetTheorems, WellFoundedInduction, TLAPS

USE DEF table, graph, callers, monitorVars

Entries == [Resources -> [state : EntryStates, shared : Nat, exclusive : BOOLEAN]]

Acquiring == {t \in Threads : InAcquire(t)}

\* The bound on leases leaves one for each thread inside acquire.
LeasesSuffice == nextLeaseId + Cardinality(Acquiring) <= MaxLeases + 1

\* A resource stays registered while a thread acquires it.
AcquiresRegistered ==
  \A t \in Threads : InAcquire(t) => want[t].resource \in registered

\* Leases that count were granted.
AccountedGranted == \A id \in Accounted : id \in LeaseIds /\ id < nextLeaseId

\* Whoever has taken a lease out of leaseMap_ is alone in releasing it.
ReleasedOnce ==
  \A a \in Actors : pc[a] = "account" =>
    /\ releasing[a] \notin leaseMap
    /\ \A b \in Actors : pc[b] = "account" /\ releasing[b] = releasing[a] => a = b

Ledger ==
  /\ AccountedGranted /\ ReleasedOnce /\ LeasedIsRegistered
  /\ AccountsExact /\ ActiveCountExact /\ LeaseExclusion

IInv == TypeOK /\ LeasesSuffice /\ AcquiresRegistered /\ Ledger

-------------------------------------------------------------------------------
(* Sets of leases *)

\* The leases on an entry are finitely many.
LEMMA OnFinite ==
  ASSUME Accounted \subseteq LeaseIds, NEW r, NEW mode
  PROVE  /\ IsFiniteSet(Accounted) /\ Cardinality(Accounted) \in Nat
         /\ IsFiniteSet(On(r, mode)) /\ Cardinality(On(r, mode)) \in Nat
<1>1. IsFiniteSet(LeaseIds)
  BY FS_Interval, OptionsAssumption DEF LeaseIds
<1>2. On(r, mode) \subseteq LeaseIds
  BY DEF On
<1> QED
  BY <1>1, <1>2, FS_Subset, FS_CardinalityType

\* The accounts of an entry are zero exactly when no lease is on it.
LEMMA NothingOn ==
  ASSUME Accounted \subseteq LeaseIds, AccountsExact, NEW r \in Resources
  PROVE  /\ entry[r].shared = 0 <=> On(r, "Shared") = {}
         /\ ~entry[r].exclusive <=> On(r, "Exclusive") = {}
BY OnFinite, FS_EmptySet DEF AccountsExact

\* A lease being taken off its entry is one of those that count.
LEMMA ReleasingCounts ==
  ASSUME IInv, NEW a \in Actors, pc[a] = "account"
  PROVE  /\ releasing[a] \in Accounted /\ releasing[a] \in LeaseIds
         /\ lease[releasing[a]].resource \in Resources
         /\ activeLeaseCount > 0
<1>1. releasing[a] \in Accounted
  BY DEF Accounted
<1>2. releasing[a] \in LeaseIds
  BY <1>1 DEF IInv, Ledger, AccountedGranted
<1>3. Accounted \subseteq LeaseIds
  BY DEF IInv, Ledger, AccountedGranted
<1>4. Cardinality(Accounted) # 0
  BY <1>1, <1>3, OnFinite, FS_EmptySet
<1> QED
  BY <1>1, <1>2, <1>3, <1>4, OnFinite DEF IInv, Ledger, ActiveCountExact, TypeOK

\* The threads inside acquire are finitely many.
LEMMA AcquiringFinite ==
  /\ IsFiniteSet(Acquiring) /\ Cardinality(Acquiring) \in Nat
BY ResourcesAssumption, FS_Subset, FS_CardinalityType DEF Acquiring

LEMMA AcquiringOne ==
  ASSUME NEW t \in Threads, InAcquire(t)
  PROVE  Cardinality(Acquiring) \in Nat \ {0}
<1>1. t \in Acquiring
  BY DEF Acquiring
<1> QED
  BY <1>1, AcquiringFinite, FS_EmptySet

-------------------------------------------------------------------------------
(* Types *)

\* The types of what a returning call leaves behind, and of a wakeup.
LEMMA ReturnTypes ==
  ASSUME TypeOK, NEW r
  PROVE  /\ NoRequest \in [resource : Resources, mode : {"Shared", "Exclusive"}]
         /\ Woken(r, pc) \in [Actors -> ThreadLabels \cup MonitorLabels]
         /\ \A t \in Threads : Woken(r, pc)[t] \in ThreadLabels
         /\ Woken(r, pc)[Monitor] \in MonitorLabels
<1>1. Unused.resource \in Resources
  BY ResourcesAssumption DEF Unused
<1>2. NoRequest \in [resource : Resources, mode : {"Shared", "Exclusive"}]
  BY <1>1 DEF NoRequest
<1> QED
  BY <1>2, ActorsAssumption DEF Woken, TypeOK, Actors, ThreadLabels

\* The types of an entry that changes its state, or its accounts.
LEMMA EntryTypes ==
  ASSUME TypeOK, NEW r \in Resources
  PROVE  /\ \A s \in EntryStates : [entry EXCEPT ![r].state = s] \in Entries
         /\ [entry EXCEPT ![r].exclusive = TRUE] \in Entries
         /\ [entry EXCEPT ![r].exclusive = FALSE] \in Entries
         /\ [entry EXCEPT ![r].shared = @ + 1] \in Entries
         /\ entry[r].shared > 0 => [entry EXCEPT ![r].shared = @ - 1] \in Entries
<1>1. entry \in Entries
  BY DEF TypeOK, Entries
<1>2. \A s \in EntryStates : [entry EXCEPT ![r].state = s] \in Entries
  BY <1>1 DEF Entries
<1>3. [entry EXCEPT ![r].exclusive = TRUE] \in Entries
  BY <1>1 DEF Entries
<1>4. [entry EXCEPT ![r].exclusive = FALSE] \in Entries
  BY <1>1 DEF Entries
<1>5. [entry EXCEPT ![r].shared = @ + 1] \in Entries
  BY <1>1 DEF Entries
<1>6. entry[r].shared > 0 => [entry EXCEPT ![r].shared = @ - 1] \in Entries
  BY <1>1 DEF Entries
<1> QED
  BY <1>2, <1>3, <1>4, <1>5, <1>6

\* Every step keeps the types.
LEMMA TypeStep ==
  ASSUME IInv, [Next]_vars
  PROVE  TypeOK'
<1> USE ActorsAssumption, ResourcesAssumption, OptionsAssumption
<1> USE DEF IInv, TypeOK, ThreadLabels, MonitorLabels, Actors, EntryStates, GoTo
<1>1. ASSUME NEW t \in Threads, NEW r \in Resources, NEW mode \in Modes,
             Acquire(t, r, mode)
      PROVE  TypeOK'
  BY <1>1 DEF Acquire
<1>2. ASSUME NEW t \in Threads, NEW id \in LeaseIds, Release(t, id)
      PROVE  TypeOK'
  BY <1>2 DEF Release
<1>3. ASSUME NEW t \in Threads, NEW id \in LeaseIds, Renew(t, id)
      PROVE  TypeOK'
  BY <1>3 DEF Renew
<1>4. ASSUME NEW t \in Threads, StartOpening(t)
      PROVE  TypeOK'
  <2>1. entry' \in Entries
    BY <1>4, EntryTypes DEF StartOpening
  <2> QED
    BY <1>4, <2>1 DEF StartOpening, Entries
<1>5. ASSUME NEW t \in Threads, Opened(t)
      PROVE  TypeOK'
  <2>1. entry' \in Entries
    BY <1>5, EntryTypes DEF Opened
  <2>2. /\ pc' \in [Actors -> ThreadLabels \cup MonitorLabels]
        /\ \A u \in Threads : pc'[u] \in ThreadLabels
        /\ pc'[Monitor] \in MonitorLabels
    BY <1>5 DEF Opened, Woken
  <2> QED
    BY <1>5, <2>1, <2>2 DEF Opened, Entries
<1>6. ASSUME NEW t \in Threads, OpenFails(t)
      PROVE  TypeOK'
  <2>1. entry' \in Entries
    BY <1>6, EntryTypes DEF OpenFails
  <2>2. /\ pc' \in [Actors -> ThreadLabels \cup MonitorLabels]
        /\ \A u \in Threads : pc'[u] \in ThreadLabels
        /\ pc'[Monitor] \in MonitorLabels
    BY <1>6, ReturnTypes DEF OpenFails
  <2> QED
    BY <1>6, <2>1, <2>2, ReturnTypes DEF OpenFails, Return, Entries
<1>7. ASSUME NEW t \in Threads, Grant(t)
      PROVE  TypeOK'
  <2>1. nextLeaseId \in LeaseIds
    BY <1>7, AcquiringOne DEF Grant, AtCondition, InAcquire, LeaseIds, LeasesSuffice
  <2> DEFINE terms == [resource |-> want[t].resource, mode |-> want[t].mode, thread |-> t]
  <2>4. /\ lease' = [lease EXCEPT ![nextLeaseId] = terms]
        /\ nextLeaseId' = nextLeaseId + 1
        /\ leaseMap' = leaseMap \cup {nextLeaseId}
        /\ heartbeat' = [heartbeat EXCEPT ![nextLeaseId] = "fresh"]
        /\ activeLeaseCount' = activeLeaseCount + 1
        /\ valid' = valid \cup {nextLeaseId}
        /\ GoTo(t, "idle") /\ Return(t)
        /\ UNCHANGED <<registered, releasing, heartbeatRunning, expired, expiredRid>>
    BY <1>7 DEF Grant
  <2>5. terms \in [resource : Resources, mode : {"Shared", "Exclusive"},
                   thread : Threads \cup {NoThread}]
    OBVIOUS
  <2>6. /\ lease' \in [LeaseIds -> [resource : Resources, mode : {"Shared", "Exclusive"},
                                   thread : Threads \cup {NoThread}]]
        /\ want' \in [Threads -> [resource : Resources, mode : {"Shared", "Exclusive"}]]
    BY <2>1, <2>4, <2>5, ReturnTypes DEF Return
  <2>7. entry' \in Entries /\ owner' \in [Resources -> Threads \cup {NoThread}]
        /\ waitsFor' \in [Threads -> Resources \cup {NoResource}] => TypeOK'
    BY <2>1, <2>4, <2>6 DEF Return, Entries
  <2>8. want[t].resource \in Resources
    OBVIOUS
  <2>2. CASE want[t].mode = "Exclusive"
    <3>3. TakeExclusive(t)
      BY <1>7, <2>2 DEF Grant
    <3>1. entry' \in Entries
      BY <2>8, <3>3, EntryTypes DEF TakeExclusive
    <3>2. /\ owner' \in [Resources -> Threads \cup {NoThread}]
          /\ waitsFor' \in [Threads -> Resources \cup {NoResource}]
      BY <2>8, <3>3 DEF TakeExclusive
    <3> QED
      BY <2>7, <3>1, <3>2
  <2>3. CASE want[t].mode # "Exclusive"
    <3>3. TakeShared(t)
      BY <1>7, <2>3 DEF Grant
    <3>1. entry' \in Entries
      BY <2>8, <3>3, EntryTypes DEF TakeShared
    <3>2. UNCHANGED <<owner, waitsFor>>
      BY <3>3 DEF TakeShared
    <3> QED
      BY <2>7, <3>1, <3>2
  <2> QED
    BY <2>2, <2>3
<1>8. ASSUME NEW t \in Threads, GiveUp(t)
      PROVE  TypeOK'
  BY <1>8, ReturnTypes DEF GiveUp, Return
<1>9. ASSUME NEW t \in Threads, Sleep(t)
      PROVE  TypeOK'
  BY <1>9 DEF Sleep
<1>10. ASSUME NEW t \in Threads, WakeUp(t)
       PROVE  TypeOK'
  BY <1>10 DEF WakeUp
<1>11. ASSUME NEW a \in Actors, Unmap(a)
       PROVE  TypeOK'
  <2>3. /\ leaseMap' = leaseMap \ {releasing[a]}
        /\ UNCHANGED <<registered, entry, nextLeaseId, lease, activeLeaseCount,
                       heartbeat, graph, callers, monitorVars>>
    BY <1>11 DEF Unmap
  <2>1. CASE releasing[a] \in leaseMap
    <3>1. GoTo(a, "account") /\ UNCHANGED releasing
      BY <1>11, <2>1 DEF Unmap
    <3> QED
      BY <2>3, <3>1
  <2>2. CASE releasing[a] \notin leaseMap
    <3>1. GoTo(a, AfterRelease(a)) /\ Released(a)
      BY <1>11, <2>2 DEF Unmap
    <3> QED
      BY <2>3, <3>1 DEF Released, AfterRelease
  <2> QED
    BY <2>1, <2>2
<1>12. ASSUME NEW a \in Actors, Account(a)
       PROVE  TypeOK'
  <2> DEFINE r == lease[releasing[a]].resource
  <2>1. r \in Resources /\ activeLeaseCount > 0
    BY <1>12, ReleasingCounts DEF Account
  <2>2. CASE entry[r].exclusive
    <3>2. DropExclusive(r)
      BY <1>12, <2>2 DEF Account
    <3>1. /\ entry' \in Entries
          /\ owner' \in [Resources -> Threads \cup {NoThread}]
          /\ UNCHANGED waitsFor
      BY <2>1, <3>2, EntryTypes DEF DropExclusive
    <3> QED
      BY <1>12, <2>1, <3>1 DEF Account, Entries
  <2>3. CASE ~entry[r].exclusive
    <3>1. /\ entry' \in Entries
          /\ UNCHANGED <<owner, waitsFor>>
      <4>1. entry \in Entries
        BY DEF Entries
      <4>2. DropShared(r)
        BY <1>12, <2>3 DEF Account
      <4> QED
        BY <2>1, <4>1, <4>2, EntryTypes DEF DropShared
    <3> QED
      BY <1>12, <2>1, <3>1 DEF Account, Entries
  <2> QED
    BY <2>2, <2>3
<1>13. ASSUME NEW a \in Actors, Notify(a)
       PROVE  TypeOK'
  BY <1>13, ReturnTypes DEF Notify, Released, AfterRelease
<1>14. CASE MonitorTest
  BY <1>14 DEF MonitorTest
<1>15. CASE Detect
  <2>1. waitsFor' \in [Threads -> Resources \cup {NoResource}]
    BY <1>15 DEF Detect, Preempted
  <2> QED
    BY <1>15, <2>1 DEF Detect
<1>16. CASE Scan
  BY <1>16 DEF Scan
<1>17. ASSUME NEW id \in LeaseIds, NextExpired(id)
       PROVE  TypeOK'
  BY <1>17 DEF NextExpired
<1>18. CASE EraseHeartbeat
  BY <1>18 DEF EraseHeartbeat
<1>19. CASE CloseExpired
  BY <1>19 DEF CloseExpired
<1>20. CASE PassDone
  BY <1>20 DEF PassDone
<1>21. ASSUME NEW r \in Resources, Register(r)
       PROVE  TypeOK'
  BY <1>21 DEF Register, Closed
<1>22. ASSUME NEW r \in Resources, Unregister(r)
       PROVE  TypeOK'
  BY <1>22 DEF Unregister, Closed
<1>23. CASE StartMonitor
  BY <1>23 DEF StartMonitor
<1>24. CASE StopMonitor
  BY <1>24 DEF StopMonitor
<1>25. ASSUME NEW id \in LeaseIds, Expire(id)
       PROVE  TypeOK'
  BY <1>25 DEF Expire
<1>26. CASE UNCHANGED vars
  BY <1>26 DEF vars
<1> HIDE DEF TypeOK
<1> QED
  BY <1>1, <1>2, <1>3, <1>4, <1>5, <1>6, <1>7, <1>8, <1>9, <1>10, <1>11, <1>12,
     <1>13, <1>14, <1>15, <1>16, <1>17, <1>18, <1>19, <1>20, <1>21, <1>22, <1>23,
     <1>24, <1>25, <1>26
     DEF Next, Call, Proceed, ReleaseLease, MonitorThread, Owners

-------------------------------------------------------------------------------
(* Steps that leave the ledger alone *)

\* Nothing the ledger speaks of changes.
Untouched ==
  /\ UNCHANGED <<registered, nextLeaseId, lease, leaseMap, activeLeaseCount>>
  /\ \A r \in Resources : /\ entry'[r].shared = entry[r].shared
                          /\ entry'[r].exclusive = entry[r].exclusive
  /\ \A a \in Actors : /\ pc'[a] = "account" <=> pc[a] = "account"
                       /\ pc[a] = "account" => releasing'[a] = releasing[a]

\* The same threads are inside acquire, and they want the same.
SameAcquires ==
  \A t \in Threads : /\ InAcquire(t)' <=> InAcquire(t)
                     /\ InAcquire(t) => want'[t] = want[t]

LEMMA UntouchedLedger ==
  ASSUME IInv, Untouched
  PROVE  Ledger' /\ Accounted' = Accounted
<1> USE DEF Untouched
<1>1. Accounted' = Accounted
  BY DEF Accounted
<1>2. \A r \in Resources : On(r, "Shared")' = On(r, "Shared")
  BY <1>1 DEF On
<1>3. \A r \in Resources : On(r, "Exclusive")' = On(r, "Exclusive")
  BY <1>1 DEF On
<1>4. AccountsExact'
  BY <1>2, <1>3 DEF AccountsExact, IInv, Ledger
<1>5. ActiveCountExact'
  BY <1>1 DEF ActiveCountExact, IInv, Ledger
<1>6. LeaseExclusion' /\ LeasedIsRegistered' /\ AccountedGranted'
  BY <1>1 DEF LeaseExclusion, LeasedIsRegistered, AccountedGranted, IInv, Ledger
<1>7. ReleasedOnce'
  BY DEF ReleasedOnce, IInv, Ledger
<1> QED
  BY <1>1, <1>4, <1>5, <1>6, <1>7 DEF Ledger

\* The steps of a call that neither grant a lease, nor end, nor release one.
LEMMA ProceedQuietly ==
  ASSUME IInv, NEW t \in Threads,
         \/ StartOpening(t) \/ Opened(t) \/ Sleep(t) \/ WakeUp(t)
         \/ \E id \in LeaseIds : Release(t, id) \/ Renew(t, id)
  PROVE  Untouched /\ SameAcquires
<1> USE DEF IInv, TypeOK, Untouched, SameAcquires, InAcquire, GoTo, Actors
<1>1. CASE StartOpening(t)
  BY <1>1 DEF StartOpening
<1>2. CASE Opened(t)
  BY <1>2 DEF Opened, Woken
<1>3. CASE Sleep(t)
  BY <1>3 DEF Sleep, AtCondition
<1>4. CASE WakeUp(t)
  BY <1>4 DEF WakeUp
<1>5. ASSUME NEW id \in LeaseIds, Release(t, id)
      PROVE  Untouched /\ SameAcquires
  BY <1>5 DEF Release
<1>6. ASSUME NEW id \in LeaseIds, Renew(t, id)
      PROVE  Untouched /\ SameAcquires
  BY <1>6 DEF Renew
<1> QED
  BY <1>1, <1>2, <1>3, <1>4, <1>5, <1>6

\* A notification, and a release that comes too late.
LEMMA ReleaseQuietly ==
  ASSUME IInv, NEW a \in Actors,
         Notify(a) \/ (Unmap(a) /\ releasing[a] \notin leaseMap)
  PROVE  Untouched /\ SameAcquires
<1> USE ActorsAssumption
    DEF IInv, TypeOK, Untouched, SameAcquires, InAcquire, GoTo, Actors, AfterRelease
<1>1. CASE Notify(a)
  BY <1>1 DEF Notify, Woken, Released
<1>2. CASE Unmap(a) /\ releasing[a] \notin leaseMap
  <2>1. leaseMap' = leaseMap
    BY <1>2 DEF Unmap
  <2>2. /\ pc[a] = "unmap" /\ GoTo(a, AfterRelease(a)) /\ Released(a)
        /\ UNCHANGED <<registered, entry, nextLeaseId, lease, activeLeaseCount, want>>
    BY <1>2 DEF Unmap
  <2> QED
    BY <2>1, <2>2 DEF Released
<1> QED
  BY <1>1, <1>2

\* Time, and the monitor outside of releaseLease.
LEMMA MonitorQuietly ==
  ASSUME IInv,
         \/ MonitorTest \/ Detect \/ Scan \/ EraseHeartbeat \/ CloseExpired
         \/ PassDone \/ StartMonitor \/ StopMonitor \/ UNCHANGED vars
         \/ \E id \in LeaseIds : NextExpired(id) \/ Expire(id)
  PROVE  Untouched /\ SameAcquires
<1> USE ActorsAssumption
    DEF IInv, TypeOK, Untouched, SameAcquires, InAcquire, GoTo, Actors
<1>1. CASE MonitorTest
  BY <1>1 DEF MonitorTest
<1>2. CASE Detect
  BY <1>2 DEF Detect
<1>3. CASE Scan
  BY <1>3 DEF Scan
<1>4. CASE EraseHeartbeat
  BY <1>4 DEF EraseHeartbeat
<1>5. CASE CloseExpired
  BY <1>5 DEF CloseExpired
<1>6. CASE PassDone
  BY <1>6 DEF PassDone
<1>7. CASE StartMonitor
  BY <1>7 DEF StartMonitor
<1>8. CASE StopMonitor
  BY <1>8 DEF StopMonitor
<1>9. ASSUME NEW id \in LeaseIds, NextExpired(id)
      PROVE  Untouched /\ SameAcquires
  BY <1>9 DEF NextExpired
<1>10. ASSUME NEW id \in LeaseIds, Expire(id)
       PROVE  Untouched /\ SameAcquires
  BY <1>10 DEF Expire
<1>11. CASE UNCHANGED vars
  BY <1>11 DEF vars
<1> QED
  BY <1>1, <1>2, <1>3, <1>4, <1>5, <1>6, <1>7, <1>8, <1>9, <1>10, <1>11

\* Calls that begin and calls that end without a lease.
LEMMA AcquireQuietly ==
  ASSUME IInv, NEW t \in Threads
  PROVE  /\ \A r \in Resources, mode \in Modes : Acquire(t, r, mode) => Untouched
         /\ OpenFails(t) => Untouched
         /\ GiveUp(t) => Untouched
<1> USE DEF IInv, TypeOK, Untouched, GoTo, Actors
<1>1. \A r \in Resources, mode \in Modes : Acquire(t, r, mode) => Untouched
  BY DEF Acquire
<1>2. OpenFails(t) => Untouched
  BY DEF OpenFails, Woken
<1>3. GiveUp(t) => Untouched
  BY DEF GiveUp, AtCondition
<1> QED
  BY <1>1, <1>2, <1>3

-------------------------------------------------------------------------------
(* Steps that write in the ledger *)

\* A thread or the monitor takes the lease out of leaseMap_: it still counts.
LEMMA UnmapLedger ==
  ASSUME IInv, NEW a \in Actors, Unmap(a), releasing[a] \in leaseMap
  PROVE  Ledger' /\ Accounted' = Accounted
<1>1. /\ leaseMap' = leaseMap \ {releasing[a]} /\ pc[a] = "unmap"
      /\ pc' = [pc EXCEPT ![a] = "account"]
      /\ UNCHANGED <<registered, entry, nextLeaseId, lease, activeLeaseCount, releasing>>
  BY DEF Unmap, GoTo
<1>2. /\ pc'[a] = "account"
      /\ \A b \in Actors \ {a} : pc'[b] = pc[b]
  BY <1>1 DEF IInv, TypeOK
<1>3. \A b \in Actors : pc[b] = "account" => releasing[b] # releasing[a]
  BY DEF IInv, Ledger, ReleasedOnce
<1>4. Accounted' = Accounted
  <2>1. \A id \in Accounted' : id \in Accounted
    BY <1>1, <1>2 DEF Accounted
  <2>2. \A id \in Accounted : id \in Accounted'
    BY <1>1, <1>2 DEF Accounted
  <2> QED
    BY <2>1, <2>2
<1>5. ReleasedOnce'
  BY <1>1, <1>2, <1>3 DEF ReleasedOnce, IInv, Ledger
<1>6. \A r \in Resources, mode \in {"Shared", "Exclusive"} : On(r, mode)' = On(r, mode)
  BY <1>1, <1>4 DEF On
<1>7. AccountsExact' /\ ActiveCountExact'
  BY <1>1, <1>4, <1>6 DEF AccountsExact, ActiveCountExact, IInv, Ledger
<1>8. LeaseExclusion' /\ LeasedIsRegistered' /\ AccountedGranted'
  BY <1>1, <1>4
     DEF LeaseExclusion, LeasedIsRegistered, AccountedGranted, IInv, Ledger
<1> QED
  BY <1>4, <1>5, <1>7, <1>8 DEF Ledger

\* A resource comes or goes while no lease is on it.
LEMMA RegisterLedger ==
  ASSUME IInv, NEW r \in Resources, Register(r) \/ Unregister(r)
  PROVE  Ledger' /\ Accounted' = Accounted
<1>1. UNCHANGED <<nextLeaseId, lease, leaseMap, activeLeaseCount, pc, releasing>>
  BY DEF Register, Unregister
<1>2. entry' = [entry EXCEPT ![r] = Closed]
  BY DEF Register, Unregister
<1>3. Accounted \subseteq LeaseIds
  BY DEF IInv, Ledger, AccountedGranted
<1>4. \A id \in Accounted : lease[id].resource # r
  <2>1. CASE Register(r)
    BY <2>1 DEF Register, IInv, Ledger, LeasedIsRegistered
  <2>2. CASE Unregister(r)
    <3>1. \A id \in Accounted : lease[id].mode \in {"Shared", "Exclusive"}
      BY <1>3 DEF IInv, TypeOK
    <3>2. On(r, "Shared") = {} /\ On(r, "Exclusive") = {}
      BY <2>2, <1>3, NothingOn DEF Unregister, IInv, Ledger
    <3> QED
      BY <3>1, <3>2 DEF On
  <2> QED
    BY <2>1, <2>2
<1>5. Accounted' = Accounted
  BY <1>1 DEF Accounted
<1>6. \A q \in Resources, mode \in {"Shared", "Exclusive"} : On(q, mode)' = On(q, mode)
  BY <1>1, <1>5 DEF On
<1>7. On(r, "Shared") = {} /\ On(r, "Exclusive") = {}
  BY <1>4 DEF On
<1>8. AccountsExact'
  <2>1. ASSUME NEW q \in Resources
        PROVE  /\ entry'[q].shared = Cardinality(On(q, "Shared")')
               /\ entry'[q].exclusive <=> On(q, "Exclusive")' # {}
    <3>1. CASE q = r
      <4>1. entry'[q].shared = 0 /\ ~entry'[q].exclusive
        BY <1>2, <3>1 DEF Closed, IInv, TypeOK
      <4> QED
        BY <4>1, <1>6, <1>7, <3>1, FS_EmptySet
    <3>2. CASE q # r
      <4>1. entry'[q] = entry[q]
        BY <1>2, <3>2 DEF IInv, TypeOK
      <4> QED
        BY <4>1, <1>6 DEF AccountsExact, IInv, Ledger
    <3> QED
      BY <3>1, <3>2
  <2> QED
    BY <2>1 DEF AccountsExact
<1>9. LeasedIsRegistered'
  <2>1. \A id \in Accounted : lease[id].resource \in registered'
    BY <1>4 DEF Register, Unregister, IInv, Ledger, LeasedIsRegistered
  <2> QED
    BY <1>1, <1>5, <2>1 DEF LeasedIsRegistered
<1>10. LeaseExclusion' /\ AccountedGranted' /\ ActiveCountExact'
  BY <1>1, <1>5
     DEF LeaseExclusion, AccountedGranted, ActiveCountExact, IInv, Ledger
<1>11. ReleasedOnce'
  BY <1>1 DEF ReleasedOnce, IInv, Ledger
<1> QED
  BY <1>5, <1>8, <1>9, <1>10, <1>11 DEF Ledger

\* A grant adds one lease to its entry, compatible with those that are there.
LEMMA GrantLedger ==
  ASSUME IInv, NEW t \in Threads, Grant(t)
  PROVE  /\ Ledger'
         /\ Accounted' = Accounted \cup {nextLeaseId}
         /\ nextLeaseId \in LeaseIds
         /\ \A id \in Accounted : lease[id].resource = want[t].resource =>
              want[t].mode = "Shared" /\ lease[id].mode = "Shared"
<1> DEFINE r == want[t].resource
           n == nextLeaseId
<1>1. InAcquire(t)
  BY DEF Grant, AtCondition, InAcquire
<1>2. n \in LeaseIds /\ n \in Nat
  BY <1>1, AcquiringOne, OptionsAssumption DEF LeaseIds, IInv, LeasesSuffice, TypeOK
<1>3. r \in Resources /\ want[t].mode \in {"Shared", "Exclusive"}
  BY DEF IInv, TypeOK
<1>4. Accounted \subseteq LeaseIds /\ n \notin Accounted
  <2>1. \A id \in Accounted : id # n
    BY <1>2 DEF IInv, Ledger, AccountedGranted, LeaseIds
  <2> QED
    BY <2>1 DEF IInv, Ledger, AccountedGranted
<1>5. /\ leaseMap' = leaseMap \cup {n}
      /\ nextLeaseId' = n + 1
      /\ activeLeaseCount' = activeLeaseCount + 1
      /\ lease' = [lease EXCEPT ![n] =
                     [resource |-> r, mode |-> want[t].mode, thread |-> t]]
      /\ pc' = [pc EXCEPT ![t] = "idle"]
      /\ UNCHANGED <<registered, releasing>>
  BY DEF Grant, GoTo
<1>6. \A b \in Actors : pc'[b] = "account" <=> pc[b] = "account"
  BY <1>1, <1>5 DEF InAcquire, Actors, IInv, TypeOK
<1>7. Accounted' = Accounted \cup {n}
  <2>1. \A id : id \in Accounted' <=> id \in Accounted \cup {n}
    BY <1>5, <1>6 DEF Accounted
  <2> QED
    BY <2>1
<1>8. /\ lease'[n] = [resource |-> r, mode |-> want[t].mode, thread |-> t]
      /\ \A id \in Accounted : lease'[id] = lease[id]
  BY <1>2, <1>4, <1>5 DEF IInv, TypeOK
<1>9. \A q \in Resources, mode \in {"Shared", "Exclusive"} :
        On(q, mode)' = IF q = r /\ mode = want[t].mode
                       THEN On(q, mode) \cup {n} ELSE On(q, mode)
  BY <1>7, <1>8 DEF On
<1>10. CanGrant(t)
  BY DEF Grant
<1>11. /\ On(r, "Exclusive") = {}
       /\ want[t].mode = "Exclusive" => On(r, "Shared") = {}
  BY <1>3, <1>4, <1>10, NothingOn DEF CanGrant, IInv, Ledger
<1>12. \A id \in Accounted : lease[id].resource = r =>
         want[t].mode = "Shared" /\ lease[id].mode = "Shared"
  <2>1. \A id \in Accounted : lease[id].mode \in {"Shared", "Exclusive"}
    BY <1>4 DEF IInv, TypeOK
  <2> QED
    BY <1>3, <1>11, <2>1 DEF On
<1>13. LeaseExclusion'
  <2>1. \A i, j \in Accounted :
          i # j /\ lease'[i].resource = lease'[j].resource
            => lease'[i].mode = "Shared" /\ lease'[j].mode = "Shared"
    BY <1>8 DEF LeaseExclusion, IInv, Ledger
  <2>2. \A i \in Accounted :
          lease'[i].resource = lease'[n].resource
            => lease'[i].mode = "Shared" /\ lease'[n].mode = "Shared"
    BY <1>8, <1>12
  <2> QED
    BY <1>7, <2>1, <2>2 DEF LeaseExclusion
<1>14. LeasedIsRegistered' /\ AccountedGranted'
  <2>1. r \in registered
    BY <1>1 DEF IInv, AcquiresRegistered
  <2>2. \A id \in Accounted : id < n
    BY DEF IInv, Ledger, AccountedGranted
  <2>3. LeasedIsRegistered'
    BY <1>5, <1>7, <1>8, <2>1 DEF LeasedIsRegistered, IInv, Ledger
  <2>4. \A id \in Accounted' : id \in LeaseIds /\ id < n + 1
    BY <1>2, <1>4, <1>7, <2>2 DEF LeaseIds
  <2> QED
    BY <1>5, <2>3, <2>4 DEF AccountedGranted
<1>15. ReleasedOnce'
  <2>1. \A b \in Actors : pc[b] = "account" => releasing[b] # n
    BY <1>4 DEF Accounted
  <2> QED
    BY <1>5, <1>6, <2>1 DEF ReleasedOnce, IInv, Ledger
<1>16. ActiveCountExact'
  BY <1>4, <1>5, <1>7, OnFinite, FS_AddElement DEF ActiveCountExact, IInv, Ledger
<1>17. AccountsExact'
  <2>1. ASSUME NEW q \in Resources, q # r
        PROVE  entry'[q] = entry[q]
    BY <2>1, <1>3 DEF Grant, TakeExclusive, TakeShared, IInv, TypeOK
  <2>2. CASE want[t].mode = "Exclusive"
    <3>1. entry'[r].exclusive /\ entry'[r].shared = entry[r].shared
      <4>1. TakeExclusive(t)
        BY <2>2 DEF Grant
      <4> QED
        BY <4>1, <1>3 DEF TakeExclusive, IInv, TypeOK
    <3> QED
      BY <1>9, <2>1, <2>2, <3>1 DEF AccountsExact, IInv, Ledger
  <2>3. CASE want[t].mode = "Shared"
    <3>1. /\ entry'[r].exclusive = entry[r].exclusive
          /\ entry'[r].shared = entry[r].shared + 1
      <4>1. TakeShared(t)
        BY <2>3 DEF Grant
      <4> QED
        BY <4>1, <1>3 DEF TakeShared, IInv, TypeOK
    <3>2. Cardinality(On(r, "Shared") \cup {n}) = Cardinality(On(r, "Shared")) + 1
      <4>1. n \notin On(r, "Shared")
        BY <1>4 DEF On
      <4> QED
        BY <4>1, <1>4, OnFinite, FS_AddElement
    <3>3. ASSUME NEW q \in Resources
          PROVE  /\ entry'[q].shared = Cardinality(On(q, "Shared")')
                 /\ entry'[q].exclusive <=> On(q, "Exclusive")' # {}
      <4>1. On(q, "Exclusive")' = On(q, "Exclusive")
        BY <1>9, <2>3
      <4>2. CASE q = r
        <5>1. On(q, "Shared")' = On(q, "Shared") \cup {n}
          BY <1>9, <2>3, <4>2
        <5> QED
          BY <3>1, <3>2, <4>1, <4>2, <5>1 DEF AccountsExact, IInv, Ledger
      <4>3. CASE q # r
        <5>1. On(q, "Shared")' = On(q, "Shared")
          BY <1>9, <4>3
        <5> QED
          BY <2>1, <4>1, <4>3, <5>1 DEF AccountsExact, IInv, Ledger
      <4> QED
        BY <4>2, <4>3
    <3> QED
      BY <3>3 DEF AccountsExact
  <2> QED
    BY <1>3, <2>2, <2>3
<1> QED
  BY <1>2, <1>7, <1>12, <1>13, <1>14, <1>15, <1>16, <1>17 DEF Ledger

\* Taking a lease off its entry, as the entry says, is taking off that lease.
LEMMA AccountLedger ==
  ASSUME IInv, NEW a \in Actors, Account(a)
  PROVE  /\ Ledger'
         /\ Accounted' = Accounted \ {releasing[a]}
         /\ releasing[a] \in Accounted
<1> DEFINE id == releasing[a]
<1> PICK r : r = lease[id].resource
  OBVIOUS
<1>1. pc[a] = "account"
  BY DEF Account
<1>2. id \in Accounted /\ id \in LeaseIds /\ r \in Resources /\ activeLeaseCount > 0
  BY <1>1, ReleasingCounts
<1>3. Accounted \subseteq LeaseIds
  BY DEF IInv, Ledger, AccountedGranted
<1>4. /\ activeLeaseCount' = activeLeaseCount - 1
      /\ pc' = [pc EXCEPT ![a] = "notify"]
      /\ UNCHANGED <<registered, nextLeaseId, lease, leaseMap, releasing>>
  BY DEF Account, GoTo
<1>5. /\ pc'[a] = "notify"
      /\ \A b \in Actors \ {a} : pc'[b] = pc[b]
  BY <1>4 DEF IInv, TypeOK
<1>6. /\ id \notin leaseMap
      /\ \A b \in Actors : pc[b] = "account" /\ releasing[b] = id => b = a
  BY <1>1 DEF IInv, Ledger, ReleasedOnce
<1>7. Accounted' = Accounted \ {id}
  <2>1. \A i \in Accounted' : i \in Accounted \ {id}
    BY <1>4, <1>5, <1>6 DEF Accounted
  <2>2. \A i \in Accounted \ {id} : i \in Accounted'
    BY <1>4, <1>5 DEF Accounted
  <2> QED
    BY <2>1, <2>2
<1>8. \A q \in Resources : /\ On(q, "Shared")' = On(q, "Shared") \ {id}
                          /\ On(q, "Exclusive")' = On(q, "Exclusive") \ {id}
  BY <1>4, <1>7 DEF On
<1>9. lease[id].mode \in {"Shared", "Exclusive"}
  BY <1>2 DEF IInv, TypeOK
<1>10. ASSUME NEW q \in Resources, q # r
       PROVE  /\ entry'[q] = entry[q]
              /\ On(q, "Shared")' = On(q, "Shared")
              /\ On(q, "Exclusive")' = On(q, "Exclusive")
  <2>1. id \notin On(q, "Shared") /\ id \notin On(q, "Exclusive")
    BY <1>10 DEF On
  <2>2. entry'[q] = entry[q]
    BY <1>2, <1>10 DEF Account, DropExclusive, DropShared, IInv, TypeOK
  <2> QED
    BY <1>8, <2>1, <2>2
<1>11. /\ entry'[r].shared = Cardinality(On(r, "Shared")')
       /\ entry'[r].exclusive <=> On(r, "Exclusive")' # {}
  <2>1. CASE entry[r].exclusive
    <3>1. entry'[r].shared = entry[r].shared /\ ~entry'[r].exclusive
      <4>1. DropExclusive(r)
        BY <2>1 DEF Account
      <4> QED
        BY <4>1, <1>2 DEF DropExclusive, IInv, TypeOK
    <3>2. PICK x \in On(r, "Exclusive") : TRUE
      BY <1>2, <2>1 DEF AccountsExact, IInv, Ledger
    <3>3. x = id
      BY <1>2, <3>2 DEF On, LeaseExclusion, IInv, Ledger
    <3>4. \A i \in Accounted : lease[i].resource = r => i = id
      BY <1>2, <3>2, <3>3 DEF On, LeaseExclusion, IInv, Ledger
    <3>5. On(r, "Exclusive")' = {} /\ On(r, "Shared")' = On(r, "Shared")
      <4>1. On(r, "Exclusive") \subseteq {id}
        BY <3>4 DEF On
      <4>2. id \notin On(r, "Shared")
        BY <3>2, <3>3 DEF On
      <4>3. /\ On(r, "Shared")' = On(r, "Shared") \ {id}
            /\ On(r, "Exclusive")' = On(r, "Exclusive") \ {id}
        BY <1>2, <1>8
      <4> QED
        BY <4>1, <4>2, <4>3
    <3> QED
      BY <1>2, <3>1, <3>5 DEF AccountsExact, IInv, Ledger
  <2>2. CASE ~entry[r].exclusive
    <3>1. On(r, "Exclusive") = {}
      BY <1>2, <1>3, <2>2, NothingOn DEF IInv, Ledger
    <3>2. id \in On(r, "Shared")
      BY <1>2, <1>9, <3>1 DEF On
    <3>3. entry[r].shared = Cardinality(On(r, "Shared")) /\ entry[r].shared \in Nat
      BY <1>2 DEF AccountsExact, IInv, Ledger, TypeOK
    <3>4. entry[r].shared > 0
      BY <1>3, <3>2, <3>3, OnFinite, FS_EmptySet
    <3>5. entry'[r].shared = entry[r].shared - 1 /\ ~entry'[r].exclusive
      <4>1. DropShared(r)
        BY <2>2 DEF Account
      <4> QED
        BY <4>1, <1>2, <2>2, <3>4 DEF DropShared, IInv, TypeOK
    <3>6. Cardinality(On(r, "Shared") \ {id}) = Cardinality(On(r, "Shared")) - 1
      <4>1. IsFiniteSet(On(r, "Shared"))
        BY <1>3, OnFinite
      <4> HIDE DEF id
      <4> QED
        BY <3>2, <4>1, FS_RemoveElement
    <3>7. On(r, "Exclusive")' = {} /\ On(r, "Shared")' = On(r, "Shared") \ {id}
      <4>1. /\ On(r, "Shared")' = On(r, "Shared") \ {id}
            /\ On(r, "Exclusive")' = On(r, "Exclusive") \ {id}
        BY <1>2, <1>8
      <4> QED
        BY <3>1, <4>1
    <3> QED
      BY <3>3, <3>5, <3>6, <3>7
  <2> QED
    BY <2>1, <2>2
<1>12. AccountsExact'
  <2>1. ASSUME NEW q \in Resources
        PROVE  /\ entry'[q].shared = Cardinality(On(q, "Shared")')
               /\ entry'[q].exclusive <=> On(q, "Exclusive")' # {}
    <3>1. CASE q = r
      BY <1>11, <3>1
    <3>2. CASE q # r
      <4>1. /\ entry'[q] = entry[q]
            /\ On(q, "Shared")' = On(q, "Shared")
            /\ On(q, "Exclusive")' = On(q, "Exclusive")
        BY <1>10, <3>2
      <4> QED
        BY <4>1 DEF AccountsExact, IInv, Ledger
    <3> QED
      BY <3>1, <3>2
  <2> QED
    BY <2>1 DEF AccountsExact
<1>13. ActiveCountExact'
  BY <1>2, <1>3, <1>4, <1>7, OnFinite, FS_RemoveElement
     DEF ActiveCountExact, IInv, Ledger
<1>14. LeaseExclusion' /\ LeasedIsRegistered' /\ AccountedGranted'
  BY <1>4, <1>7
     DEF LeaseExclusion, LeasedIsRegistered, AccountedGranted, IInv, Ledger
<1>15. ReleasedOnce'
  BY <1>4, <1>5 DEF ReleasedOnce, IInv, Ledger
<1> QED
  BY <1>2, <1>7, <1>12, <1>13, <1>14, <1>15 DEF Ledger

-------------------------------------------------------------------------------
(* Threads inside acquire *)

\* A thread that leaves acquire makes room for the lease it may have got.
LEMMA AcquireEnds ==
  ASSUME IInv, NEW t \in Threads, InAcquire(t),
         pc' = [pc EXCEPT ![t] = "idle"]
               \/ \E r : pc' = [Woken(r, pc) EXCEPT ![t] = "idle"],
         nextLeaseId' \in {nextLeaseId, nextLeaseId + 1},
         want' = [want EXCEPT ![t] = NoRequest], registered' = registered
  PROVE  LeasesSuffice' /\ AcquiresRegistered'
<1>1. \A u \in Threads : InAcquire(u)' <=> u # t /\ InAcquire(u)
  BY DEF InAcquire, Woken, IInv, TypeOK, Actors
<1>2. Acquiring' = Acquiring \ {t}
  BY <1>1 DEF Acquiring
<1>3. t \in Acquiring
  BY DEF Acquiring
<1>4. Cardinality(Acquiring') = Cardinality(Acquiring) - 1
  BY <1>2, <1>3, AcquiringFinite, FS_RemoveElement
<1>5. LeasesSuffice'
  BY <1>4, AcquiringFinite, OptionsAssumption DEF LeasesSuffice, IInv, TypeOK
<1>6. AcquiresRegistered'
  BY <1>1 DEF AcquiresRegistered, IInv, TypeOK
<1> QED
  BY <1>5, <1>6

LEMMA AcquireBegins ==
  ASSUME IInv, NEW t \in Threads, NEW r \in Resources, NEW mode \in Modes,
         Acquire(t, r, mode)
  PROVE  LeasesSuffice' /\ AcquiresRegistered'
<1>1. /\ pc[t] = "idle" /\ r \in registered
      /\ nextLeaseId + Cardinality(Acquiring) <= MaxLeases
      /\ pc' = [pc EXCEPT ![t] = "enter"]
      /\ want' = [want EXCEPT ![t] = [resource |-> r, mode |-> mode]]
      /\ nextLeaseId' = nextLeaseId /\ registered' = registered
  BY DEF Acquire, GoTo, Acquiring
<1>2. \A u \in Threads : InAcquire(u)' <=> u = t \/ InAcquire(u)
  BY <1>1 DEF InAcquire, IInv, TypeOK, Actors
<1>3. Acquiring' = Acquiring \cup {t}
  BY <1>2 DEF Acquiring
<1>4. Cardinality(Acquiring') <= Cardinality(Acquiring) + 1
      /\ Cardinality(Acquiring') \in Nat
  BY <1>3, AcquiringFinite, FS_AddElement, FS_CardinalityType
<1>5. LeasesSuffice'
  BY <1>1, <1>4, AcquiringFinite, OptionsAssumption DEF LeasesSuffice, IInv, TypeOK
<1>6. AcquiresRegistered'
  <2>1. want'[t].resource = r
    BY <1>1 DEF IInv, TypeOK
  <2>2. \A u \in Threads \ {t} : want'[u] = want[u]
    BY <1>1 DEF IInv, TypeOK
  <2> QED
    BY <1>1, <1>2, <2>1, <2>2 DEF AcquiresRegistered, IInv
<1> QED
  BY <1>5, <1>6

LEMMA AcquiresStay ==
  ASSUME IInv, SameAcquires, nextLeaseId' = nextLeaseId,
         \A t \in Threads : InAcquire(t) => want[t].resource \in registered'
  PROVE  LeasesSuffice' /\ AcquiresRegistered'
<1>1. Acquiring' = Acquiring
  BY DEF SameAcquires, Acquiring
<1> QED
  BY <1>1 DEF LeasesSuffice, AcquiresRegistered, SameAcquires, IInv

-------------------------------------------------------------------------------
(* The invariant and the refinement *)

LEMMA InvInit == Init => IInv
<1> SUFFICES ASSUME Init PROVE IInv
  OBVIOUS
<1> USE ActorsAssumption, ResourcesAssumption, OptionsAssumption
<1>1. TypeOK
  <2>1. Unused \in [resource : Resources, mode : {"Shared", "Exclusive"},
                    thread : Threads \cup {NoThread}]
    BY DEF Unused
  <2>2. NoRequest \in [resource : Resources, mode : {"Shared", "Exclusive"}]
    BY <2>1 DEF NoRequest, Unused
  <2>3. Closed \in [state : EntryStates, shared : Nat, exclusive : BOOLEAN]
    BY DEF Closed, EntryStates
  <2>4. heartbeatRunning \in BOOLEAN
    BY Zenon DEF Init
  <2>5. waited \in [Threads -> BOOLEAN]
    BY Zenon DEF Init
  <2>6. entry \in [Resources -> [state : EntryStates, shared : Nat, exclusive : BOOLEAN]]
    BY <2>3 DEF Init
  <2> QED
    BY <2>1, <2>2, <2>4, <2>5, <2>6
       DEF Init, TypeOK, Actors, ThreadLabels, MonitorLabels
<1>2. \A a \in Actors : pc[a] \in {"idle", "off"}
  BY DEF Init, Actors
<1>3. Accounted = {}
  BY <1>2 DEF Init, Accounted
<1>4. \A t \in Threads : ~InAcquire(t)
  BY <1>2 DEF InAcquire, Actors
<1>5. Cardinality(Acquiring) = 0 /\ Cardinality(Accounted) = 0
  BY <1>3, <1>4, FS_EmptySet DEF Acquiring
<1>6. LeasesSuffice /\ AcquiresRegistered
  BY <1>4, <1>5 DEF LeasesSuffice, AcquiresRegistered, Init
<1>7. \A r \in Resources : On(r, "Shared") = {} /\ On(r, "Exclusive") = {}
  BY <1>3 DEF On
<1>8. AccountsExact
  BY <1>7, FS_EmptySet DEF AccountsExact, Init, Closed
<1>9. /\ AccountedGranted /\ ReleasedOnce /\ LeasedIsRegistered
      /\ ActiveCountExact /\ LeaseExclusion
  BY <1>2, <1>3, <1>5
     DEF AccountedGranted, ReleasedOnce, LeasedIsRegistered, ActiveCountExact,
         LeaseExclusion, Init
<1> QED
  BY <1>1, <1>6, <1>8, <1>9 DEF IInv, Ledger

\* Which leases count, and what is said of a lease, as LeaseTable sees it.
TableStutters ==
  Accounted' = Accounted /\ UNCHANGED <<nextLeaseId, lease>>

\* Every step keeps the invariant, and is a grant, a taking back or nothing for
\* LeaseTable.
LEMMA Step ==
  ASSUME IInv, [Next]_vars
  PROVE  /\ IInv'
         /\ \/ \E t \in Threads : Grant(t)
            \/ \E a \in Actors : Account(a)
            \/ TableStutters
<1> DEFINE Goal == LeasesSuffice' /\ AcquiresRegistered' /\ Ledger'
           Kind == \/ \E t \in Threads : Grant(t)
                   \/ \E a \in Actors : Account(a)
                   \/ TableStutters
<1>1. ASSUME Untouched, SameAcquires PROVE Goal /\ Kind
  <2>1. \A t \in Threads : InAcquire(t) => want[t].resource \in registered'
    BY <1>1 DEF Untouched, IInv, AcquiresRegistered
  <2> QED
    BY <1>1, <2>1, UntouchedLedger, AcquiresStay DEF Untouched, TableStutters
<1>2. ASSUME NEW t \in Threads, NEW r \in Resources, NEW mode \in Modes,
             Acquire(t, r, mode)
      PROVE  Goal /\ Kind
  <2>1. Untouched
    BY <1>2, AcquireQuietly
  <2> QED
    BY <1>2, <2>1, UntouchedLedger, AcquireBegins DEF Untouched, TableStutters
<1>3. ASSUME NEW t \in Threads, OpenFails(t) \/ GiveUp(t)
      PROVE  Goal /\ Kind
  <2>1. Untouched
    BY <1>3, AcquireQuietly
  <2>2. InAcquire(t)
    BY <1>3 DEF InAcquire, OpenFails, GiveUp, AtCondition
  <2>3. LeasesSuffice' /\ AcquiresRegistered'
    BY <1>3, <2>2, AcquireEnds DEF OpenFails, GiveUp, GoTo, Return
  <2> QED
    BY <2>1, <2>3, UntouchedLedger DEF Untouched, TableStutters
<1>4. ASSUME NEW t \in Threads, Grant(t)
      PROVE  Goal /\ Kind
  <2>1. InAcquire(t)
    BY <1>4 DEF InAcquire, Grant, AtCondition
  <2>2. LeasesSuffice' /\ AcquiresRegistered'
    BY <1>4, <2>1, AcquireEnds DEF Grant, GoTo, Return
  <2> QED
    BY <1>4, <2>2, GrantLedger
<1>5. ASSUME NEW t \in Threads,
             \/ StartOpening(t) \/ Opened(t) \/ Sleep(t) \/ WakeUp(t)
             \/ \E id \in LeaseIds : Release(t, id) \/ Renew(t, id)
      PROVE  Goal /\ Kind
  BY <1>1, <1>5, ProceedQuietly
<1>6. ASSUME NEW a \in Actors, ReleaseLease(a)
      PROVE  Goal /\ Kind
  <2>1. CASE Unmap(a) /\ releasing[a] \in leaseMap
    <3>1. SameAcquires
      BY <2>1 DEF SameAcquires, InAcquire, Unmap, GoTo, Actors, IInv, TypeOK
    <3>2. registered' = registered /\ UNCHANGED <<nextLeaseId, lease>>
      BY <2>1 DEF Unmap
    <3>3. LeasesSuffice' /\ AcquiresRegistered'
      BY <3>1, <3>2, AcquiresStay DEF IInv, AcquiresRegistered
    <3> QED
      BY <2>1, <3>2, <3>3, UnmapLedger DEF TableStutters
  <2>2. CASE Notify(a) \/ (Unmap(a) /\ releasing[a] \notin leaseMap)
    BY <1>1, <2>2, ReleaseQuietly
  <2>3. CASE Account(a)
    <3>1. SameAcquires
      BY <2>3 DEF SameAcquires, InAcquire, Account, GoTo, Actors, IInv, TypeOK
    <3>2. registered' = registered /\ UNCHANGED <<nextLeaseId>>
      BY <2>3 DEF Account
    <3>3. LeasesSuffice' /\ AcquiresRegistered'
      BY <3>1, <3>2, AcquiresStay DEF IInv, AcquiresRegistered
    <3> QED
      BY <2>3, <3>3, AccountLedger
  <2> QED
    BY <1>6, <2>1, <2>2, <2>3 DEF ReleaseLease
<1>7. ASSUME NEW r \in Resources, Register(r) \/ Unregister(r)
      PROVE  Goal /\ Kind
  <2>1. UNCHANGED <<pc, want, nextLeaseId, lease>>
    BY <1>7 DEF Register, Unregister
  <2>2. SameAcquires
    BY <2>1 DEF SameAcquires, InAcquire
  <2>3. \A t \in Threads : InAcquire(t) => want[t].resource \in registered'
    BY <1>7 DEF Register, Unregister, IInv, AcquiresRegistered
  <2>4. LeasesSuffice' /\ AcquiresRegistered'
    BY <2>1, <2>2, <2>3, AcquiresStay
  <2> QED
    BY <1>7, <2>1, <2>4, RegisterLedger DEF TableStutters
<1>8. ASSUME \/ MonitorTest \/ Detect \/ Scan \/ EraseHeartbeat \/ CloseExpired
             \/ PassDone \/ StartMonitor \/ StopMonitor \/ UNCHANGED vars
             \/ \E id \in LeaseIds : NextExpired(id) \/ Expire(id)
      PROVE  Goal /\ Kind
  BY <1>1, <1>8, MonitorQuietly
<1>9. Goal /\ Kind
  <2> HIDE DEF Goal, Kind
  <2>1. \A t \in Threads : t \in Actors
    BY DEF Actors
  <2>2. Monitor \in Actors
    BY DEF Actors
  <2> QED
    BY <1>2, <1>3, <1>4, <1>5, <1>6, <1>7, <1>8, <2>1, <2>2
       DEF Next, Call, Proceed, MonitorThread, Owners
<1> QED
  BY <1>9, TypeStep DEF IInv

\* The invariant holds in every state the manager reaches.
THEOREM Invariance == Spec => []IInv
<1>1. IInv /\ [Next]_vars => IInv'
  BY Step
<1> QED
  BY InvInit, <1>1, PTL DEF Spec

\* Exclusive leases are alone on their resource, the counts of every entry are
\* those of the leases on it, each lease is counted once, and what is leased stays
\* registered, for any number of threads, resources and leases
\* (ResourceManager.cpp:200-330, 430-480, 495-558).
THEOREM LeasesAreSound == Spec => []LeasesSound
<1>1. IInv => LeasesSound
  BY DEF IInv, Ledger, LeasesSound
<1> QED
  BY Invariance, <1>1, PTL

-------------------------------------------------------------------------------

\* The status and the terms that the refinement gives to a lease.
Status(id) ==
  IF id >= nextLeaseId THEN "unused" ELSE IF id \in Accounted THEN "held" ELSE "returned"
Terms(id) == [resource |-> lease[id].resource, mode |-> lease[id].mode]

\* A grant grants the next lease of the table.
LEMMA GrantRefines ==
  ASSUME IInv, NEW t \in Threads, Grant(t)
  PROVE  \E id \in LeaseIds, r \in Resources, mode \in Leases!LeaseModes :
           Leases!Grant(id, r, mode)
<1> PICK n, r, mode : n = nextLeaseId /\ r = want[t].resource /\ mode = want[t].mode
  OBVIOUS
<1>1. /\ Accounted' = Accounted \cup {n} /\ n \in LeaseIds
      /\ \A id \in Accounted : lease[id].resource = r =>
           mode = "Shared" /\ lease[id].mode = "Shared"
  BY GrantLedger
<1>2. nextLeaseId' = n + 1
      /\ lease' = [lease EXCEPT ![n] = [resource |-> r, mode |-> mode, thread |-> t]]
  BY DEF Grant
<1>3. r \in Resources /\ mode \in Leases!LeaseModes /\ n \in Nat
  BY DEF IInv, TypeOK, Leases!LeaseModes
<1>4. \A id \in Accounted : id < n
  BY DEF IInv, Ledger, AccountedGranted
<1>5. [id \in LeaseIds |-> Status(id)]' = [[id \in LeaseIds |-> Status(id)] EXCEPT ![n] = "held"]
  <2>1. ASSUME NEW id \in LeaseIds
        PROVE  Status(id)' = IF id = n THEN "held" ELSE Status(id)
    BY <1>1, <1>2, <1>3, <1>4 DEF Status, LeaseIds
  <2> QED
    BY <2>1
<1>6. [id \in LeaseIds |-> Terms(id)]' =
        [[id \in LeaseIds |-> Terms(id)] EXCEPT ![n] = [resource |-> r, mode |-> mode]]
  <2>1. ASSUME NEW id \in LeaseIds
        PROVE  Terms(id)' = IF id = n THEN [resource |-> r, mode |-> mode] ELSE Terms(id)
    BY <1>1, <1>2 DEF Terms, IInv, TypeOK
  <2> QED
    BY <2>1
<1>7. Leases!Compatible(r, mode)
  <2>1. \A id \in LeaseIds : Status(id) = "held" => id \in Accounted
    BY DEF Status
  <2> QED
    BY <1>1, <2>1 DEF Leases!Compatible, Leases!Held, Status, Terms
<1>8. Status(n) = "unused"
  BY <1>3 DEF Status
<1>9. Leases!Grant(n, r, mode)
  BY <1>1, <1>5, <1>6, <1>7, <1>8 DEF Leases!Grant, Status, Terms
<1> QED
  BY <1>1, <1>3, <1>9

\* Taking a lease off its entry takes it back.
LEMMA AccountRefines ==
  ASSUME IInv, NEW a \in Actors, Account(a)
  PROVE  \E id \in LeaseIds : Leases!TakeBack(id)
<1> PICK id : id = releasing[a]
  OBVIOUS
<1>1. Accounted' = Accounted \ {id} /\ id \in Accounted
  BY AccountLedger
<1>2. UNCHANGED <<nextLeaseId, lease>>
  BY DEF Account
<1>3. id \in LeaseIds /\ id < nextLeaseId /\ nextLeaseId \in Nat
  BY <1>1 DEF IInv, Ledger, AccountedGranted, TypeOK
<1>4. [i \in LeaseIds |-> Status(i)]' =
        [[i \in LeaseIds |-> Status(i)] EXCEPT ![id] = "returned"]
  <2>1. ASSUME NEW i \in LeaseIds
        PROVE  Status(i)' = IF i = id THEN "returned" ELSE Status(i)
    BY <1>1, <1>2, <1>3 DEF Status, LeaseIds
  <2> QED
    BY <2>1
<1>5. Status(id) = "held"
  BY <1>1, <1>3 DEF Status, LeaseIds
<1>6. Leases!TakeBack(id)
  BY <1>2, <1>3, <1>4, <1>5 DEF Leases!TakeBack, Status
<1> QED
  BY <1>3, <1>6

\* The ResourceManager implements LeaseTable.
THEOREM Refinement == Spec => RefinesLeases
<1>1. Init => Leases!TableInit
  <2> SUFFICES ASSUME Init PROVE Leases!TableInit
    OBVIOUS
  <2>1. \A id \in LeaseIds : id >= nextLeaseId
    BY OptionsAssumption DEF Init, LeaseIds
  <2>2. \A id \in LeaseIds : Terms(id) \in [resource : Resources, mode : Leases!LeaseModes]
    BY InvInit DEF IInv, TypeOK, Terms, Leases!LeaseModes
  <2> QED
    BY <2>1, <2>2 DEF Leases!TableInit, Terms
<1>2. IInv /\ [Next]_vars => [Leases!TableNext]_(Leases!tableVars)
  <2> SUFFICES ASSUME IInv, [Next]_vars
               PROVE  [Leases!TableNext]_(Leases!tableVars)
    OBVIOUS
  <2>1. CASE \E t \in Threads : Grant(t)
    BY <2>1, GrantRefines DEF Leases!TableNext
  <2>2. CASE \E a \in Actors : Account(a)
    BY <2>2, AccountRefines DEF Leases!TableNext
  <2>3. CASE TableStutters
    BY <2>3 DEF TableStutters, Leases!tableVars
  <2> QED
    BY <2>1, <2>2, <2>3, Step
<1> QED
  BY <1>1, <1>2, Invariance, PTL DEF Spec, RefinesLeases, Leases!TableSpec

-------------------------------------------------------------------------------
(* Wakeups *)

\* Whoever is about to notify has released a lease that was granted.
NotifiesGranted ==
  \A a \in Actors : pc[a] = "notify" =>
    releasing[a] \in LeaseIds /\ releasing[a] < nextLeaseId

WakeInv == NoMissedWakeup /\ NotifiesGranted

\* No sleeper could get its lease that could not before, the same actors are about
\* to notify, and they notify the same resources.
SleepsOn ==
  /\ \A t \in Threads : pc'[t] = "asleep" =>
       \/ ~CanGrant(t)'
       \/ pc[t] = "asleep" /\ want'[t] = want[t] /\ CanGrant(t)
  /\ \A a \in Actors :
       /\ pc'[a] = "notify" <=> pc[a] = "notify"
       /\ pc[a] = "notify" =>
            releasing'[a] = releasing[a] /\ lease'[releasing[a]] = lease[releasing[a]]
  /\ nextLeaseId' \in Nat /\ nextLeaseId' >= nextLeaseId

LEMMA SleepsOnKeeps ==
  ASSUME IInv, WakeInv, SleepsOn
  PROVE  WakeInv'
<1>1. NotifiesGranted'
  BY DEF NotifiesGranted, WakeInv, SleepsOn, IInv, TypeOK, LeaseIds
<1>2. ASSUME NEW t \in Threads, pc'[t] = "asleep", CanGrant(t)'
      PROVE  \E a \in Actors : /\ pc'[a] = "notify"
                               /\ lease'[releasing'[a]].resource = want'[t].resource
  <2>1. pc[t] = "asleep" /\ want'[t] = want[t] /\ CanGrant(t)
    BY <1>2 DEF SleepsOn
  <2>2. PICK a \in Actors : /\ pc[a] = "notify"
                            /\ lease[releasing[a]].resource = want[t].resource
    BY <2>1 DEF WakeInv, NoMissedWakeup
  <2> QED
    BY <2>1, <2>2 DEF SleepsOn
<1>3. NoMissedWakeup'
  BY <1>2 DEF NoMissedWakeup
<1> QED
  BY <1>1, <1>3 DEF WakeInv

\* The steps of a thread inside acquire, and its calls.
LEMMA AcquireWakes ==
  ASSUME IInv, WakeInv, NEW t \in Threads,
         \/ Call(t) \/ StartOpening(t) \/ Opened(t) \/ OpenFails(t)
         \/ Grant(t) \/ GiveUp(t) \/ Sleep(t) \/ WakeUp(t)
  PROVE  SleepsOn
<1> USE DEF IInv, TypeOK, SleepsOn, CanGrant, GoTo, Actors
<1>1. ASSUME NEW r \in Resources, NEW mode \in Modes, Acquire(t, r, mode)
      PROVE  SleepsOn
  BY <1>1 DEF Acquire
<1>2. ASSUME NEW id \in LeaseIds, Release(t, id)
      PROVE  SleepsOn
  BY <1>2 DEF Release
<1>3. ASSUME NEW id \in LeaseIds, Renew(t, id)
      PROVE  SleepsOn
  BY <1>3 DEF Renew
<1>4. CASE StartOpening(t)
  BY <1>4 DEF StartOpening
<1>5. CASE Opened(t)
  BY <1>5 DEF Opened, Woken
<1>6. CASE OpenFails(t)
  BY <1>6 DEF OpenFails, Woken, Return
<1>7. CASE Grant(t)
  <2>1. \A u \in Threads : u # t =>
          pc'[u] = pc[u] /\ want'[u] = want[u] /\ (CanGrant(u)' => CanGrant(u))
    <3>1. \A u \in Threads : u # t => pc'[u] = pc[u] /\ want'[u] = want[u]
      BY <1>7 DEF Grant, Return
    <3>2. \A q \in Resources :
            /\ entry[q].exclusive => entry'[q].exclusive
            /\ entry[q].shared # 0 => entry'[q].shared # 0
      <4>1. CASE TakeExclusive(t)
        BY <4>1 DEF TakeExclusive
      <4>2. CASE TakeShared(t)
        BY <4>2 DEF TakeShared
      <4> QED
        BY <1>7, <4>1, <4>2 DEF Grant
    <3>3. \A u \in Threads : want[u].resource \in Resources
      OBVIOUS
    <3> HIDE DEF IInv, TypeOK, SleepsOn, GoTo
    <3> QED
      BY <3>1, <3>2, <3>3
  <2>2. \A a \in Actors : pc[a] = "notify" => releasing[a] \in LeaseIds /\ releasing[a] # nextLeaseId
    BY DEF WakeInv, NotifiesGranted
  <2>3. pc'[t] = "idle" /\ pc[t] # "notify" /\ releasing' = releasing
    BY <1>7 DEF Grant, AtCondition
  <2>4. \A a \in Actors : a # t => pc'[a] = pc[a]
    BY <1>7 DEF Grant
  <2>5. \A id \in LeaseIds : id # nextLeaseId => lease'[id] = lease[id]
    BY <1>7 DEF Grant
  <2>6. nextLeaseId' \in Nat /\ nextLeaseId' >= nextLeaseId
    BY <1>7 DEF Grant
  <2> HIDE DEF IInv, TypeOK, CanGrant, GoTo
  <2> QED
    BY <2>1, <2>2, <2>3, <2>4, <2>5, <2>6
<1>8. CASE GiveUp(t)
  BY <1>8 DEF GiveUp, AtCondition, Return
<1>9. CASE Sleep(t)
  BY <1>9 DEF Sleep, AtCondition
<1>10. CASE WakeUp(t)
  BY <1>10 DEF WakeUp
<1> HIDE DEF IInv, TypeOK, SleepsOn
<1> QED
  BY <1>1, <1>2, <1>3, <1>4, <1>5, <1>6, <1>7, <1>8, <1>9, <1>10 DEF Call

\* Nobody is asleep for a resource that comes or goes.
LEMMA RegisterWakes ==
  ASSUME IInv, NEW r \in Resources, Register(r) \/ Unregister(r)
  PROVE  SleepsOn
<1>1. \A t \in Threads : pc[t] = "asleep" => want[t].resource # r
  BY DEF Register, Unregister, InAcquire, IInv, AcquiresRegistered
<1>2. UNCHANGED <<pc, want, releasing, lease, nextLeaseId>>
      /\ entry' = [entry EXCEPT ![r] = Closed]
  BY DEF Register, Unregister
<1>3. \A t \in Threads : pc[t] = "asleep" => (CanGrant(t)' <=> CanGrant(t))
  BY <1>1, <1>2 DEF IInv, TypeOK, CanGrant
<1> QED
  BY <1>2, <1>3 DEF SleepsOn, IInv, TypeOK, Actors

\* Time, and the monitor outside of releaseLease.
LEMMA MonitorWakes ==
  ASSUME IInv,
         \/ MonitorTest \/ Detect \/ Scan \/ EraseHeartbeat \/ CloseExpired
         \/ PassDone \/ StartMonitor \/ StopMonitor \/ UNCHANGED vars
         \/ \E id \in LeaseIds : NextExpired(id) \/ Expire(id)
  PROVE  SleepsOn
<1> USE ActorsAssumption DEF IInv, TypeOK, SleepsOn, CanGrant, GoTo, Actors
<1>1. CASE MonitorTest
  BY <1>1 DEF MonitorTest
<1>2. CASE Detect
  BY <1>2 DEF Detect
<1>3. CASE Scan
  BY <1>3 DEF Scan
<1>4. CASE EraseHeartbeat
  BY <1>4 DEF EraseHeartbeat
<1>5. CASE CloseExpired
  BY <1>5 DEF CloseExpired
<1>6. CASE PassDone
  BY <1>6 DEF PassDone
<1>7. CASE StartMonitor
  BY <1>7 DEF StartMonitor
<1>8. CASE StopMonitor
  BY <1>8 DEF StopMonitor
<1>9. ASSUME NEW id \in LeaseIds, NextExpired(id)
      PROVE  SleepsOn
  BY <1>9 DEF NextExpired
<1>10. ASSUME NEW id \in LeaseIds, Expire(id)
       PROVE  SleepsOn
  BY <1>10 DEF Expire
<1>11. CASE UNCHANGED vars
  BY <1>11 DEF vars
<1> HIDE DEF SleepsOn
<1> QED
  BY <1>1, <1>2, <1>3, <1>4, <1>5, <1>6, <1>7, <1>8, <1>9, <1>10, <1>11

\* A release: what it frees it is about to notify, and what it notifies wakes up.
LEMMA ReleaseWakes ==
  ASSUME IInv, WakeInv, NEW a \in Actors, ReleaseLease(a)
  PROVE  WakeInv'
<1>1. CASE Unmap(a)
  <2>1. SleepsOn
    BY <1>1, ActorsAssumption
       DEF Unmap, AfterRelease, Released, SleepsOn, CanGrant, GoTo, IInv, TypeOK, Actors
  <2> QED
    BY <2>1, SleepsOnKeeps
<1>2. CASE Account(a)
  <2> DEFINE r == lease[releasing[a]].resource
  <2>1. releasing[a] \in LeaseIds /\ releasing[a] < nextLeaseId
    BY <1>2, ReleasingCounts DEF Account, IInv, Ledger, AccountedGranted
  <2>2. /\ UNCHANGED <<lease, want, releasing, nextLeaseId>>
        /\ pc' = [pc EXCEPT ![a] = "notify"]
    BY <1>2 DEF Account, GoTo
  <2>3. \A q \in Resources : q # r => entry'[q] = entry[q]
    BY <1>2 DEF Account, DropExclusive, DropShared, IInv, TypeOK
  <2>4. NotifiesGranted'
    BY <2>1, <2>2 DEF NotifiesGranted, WakeInv, IInv, TypeOK
  <2>5. ASSUME NEW t \in Threads, pc'[t] = "asleep", CanGrant(t)'
        PROVE  \E b \in Actors : /\ pc'[b] = "notify"
                                 /\ lease'[releasing'[b]].resource = want'[t].resource
    <3>1. CASE want[t].resource = r
      BY <2>2, <3>1 DEF IInv, TypeOK
    <3>2. CASE want[t].resource # r
      <4>1. pc[t] = "asleep"
        BY <2>2, <2>5 DEF IInv, TypeOK
      <4>2. want[t].resource \in Resources
        BY DEF IInv, TypeOK
      <4>3. CanGrant(t)
        BY <2>2, <2>3, <2>5, <3>2, <4>2 DEF CanGrant
      <4>4. PICK b \in Actors : /\ pc[b] = "notify"
                                /\ lease[releasing[b]].resource = want[t].resource
        BY <4>1, <4>3 DEF WakeInv, NoMissedWakeup
      <4>5. pc'[b] = "notify"
        BY <2>2, <4>4 DEF IInv, TypeOK
      <4> QED
        BY <2>2, <4>4, <4>5
    <3> QED
      BY <3>1, <3>2
  <2>6. NoMissedWakeup'
    BY <2>5 DEF NoMissedWakeup
  <2> QED
    BY <2>4, <2>6 DEF WakeInv
<1>3. CASE Notify(a)
  <2> DEFINE r == lease[releasing[a]].resource
  <2>1. /\ UNCHANGED <<lease, want, entry, nextLeaseId>>
        /\ \A b \in Actors \ {a} : releasing'[b] = releasing[b]
    BY <1>3 DEF Notify, Released, IInv, TypeOK
  <2>2. /\ pc'[a] \notin {"asleep", "notify"}
        /\ \A t \in Threads : pc'[t] = "asleep" => pc[t] = "asleep" /\ want[t].resource # r
        /\ \A b \in Actors \ {a} : pc'[b] = "notify" <=> pc[b] = "notify"
    BY <1>3 DEF Notify, Woken, AfterRelease, IInv, TypeOK, Actors
  <2>3. NotifiesGranted'
    BY <2>1, <2>2 DEF NotifiesGranted, WakeInv
  <2>4. ASSUME NEW t \in Threads, pc'[t] = "asleep", CanGrant(t)'
        PROVE  \E b \in Actors : /\ pc'[b] = "notify"
                                 /\ lease'[releasing'[b]].resource = want'[t].resource
    <3>1. pc[t] = "asleep" /\ CanGrant(t) /\ want[t].resource # r
      BY <2>1, <2>2, <2>4 DEF CanGrant
    <3>2. PICK b \in Actors : /\ pc[b] = "notify"
                              /\ lease[releasing[b]].resource = want[t].resource
      BY <3>1 DEF WakeInv, NoMissedWakeup
    <3>3. b # a
      BY <3>1, <3>2
    <3> QED
      BY <2>1, <2>2, <3>2, <3>3
  <2>5. NoMissedWakeup'
    BY <2>4 DEF NoMissedWakeup
  <2> QED
    BY <2>3, <2>5 DEF WakeInv
<1> QED
  BY <1>1, <1>2, <1>3 DEF ReleaseLease

\* No wakeup is lost: a thread that sleeps although its lease is free is about to
\* be notified, whatever the threads and the monitor release, and in whichever
\* order (ResourceManager.cpp:263-300, 457-480).
THEOREM WakeupsAreNotMissed == Spec => []NoMissedWakeup
<1>1. Init => WakeInv
  BY DEF Init, WakeInv, NoMissedWakeup, NotifiesGranted, Actors
<1>2. IInv /\ WakeInv /\ [Next]_vars => WakeInv'
  <2> SUFFICES ASSUME IInv, WakeInv, [Next]_vars PROVE WakeInv'
    OBVIOUS
  <2>1. ASSUME NEW t \in Threads, Call(t) \/ Proceed(t)
        PROVE  WakeInv'
    <3>1. t \in Actors
      BY DEF Actors
    <3> QED
      BY <2>1, <3>1, AcquireWakes, ReleaseWakes, SleepsOnKeeps DEF Proceed
  <2>2. ASSUME MonitorThread
        PROVE  WakeInv'
    <3>1. Monitor \in Actors
      BY DEF Actors
    <3> QED
      BY <2>2, <3>1, MonitorWakes, ReleaseWakes, SleepsOnKeeps DEF MonitorThread
  <2>3. ASSUME Owners PROVE WakeInv'
    BY <2>3, MonitorWakes, RegisterWakes, SleepsOnKeeps DEF Owners
  <2>4. ASSUME NEW id \in LeaseIds, Expire(id) PROVE WakeInv'
    BY <2>4, MonitorWakes, SleepsOnKeeps
  <2>5. CASE UNCHANGED vars
    BY <2>5, MonitorWakes, SleepsOnKeeps
  <2> QED
    BY <2>1, <2>2, <2>3, <2>4, <2>5 DEF Next
<1>3. WakeInv => NoMissedWakeup
  BY DEF WakeInv
<1> QED
  BY <1>1, <1>2, <1>3, Invariance, PTL DEF Spec

-------------------------------------------------------------------------------
(* The owners *)

\* The owner of a resource is the thread of every exclusive lease on it.
OwnersAgree ==
  \A r \in Resources :
    /\ On(r, "Exclusive") = {} => owner[r] = NoThread
    /\ \A id \in On(r, "Exclusive") : owner[r] = lease[id].thread

\* Only a grant and a release write in ownerMap_.
LEMMA OwnersStay ==
  ASSUME [Next]_vars
  PROVE  \/ \E t \in Threads : Grant(t)
         \/ \E a \in Actors : Account(a)
         \/ owner' = owner
BY DEF Next, Call, Proceed, MonitorThread, Owners, vars, ReleaseLease, Acquire,
       Release, Renew, StartOpening, Opened, OpenFails, GiveUp, Sleep, WakeUp,
       Unmap, Notify, Register, Unregister, StartMonitor, StopMonitor, Expire,
       MonitorTest, Detect, Scan, EraseHeartbeat, CloseExpired, PassDone,
       NextExpired, Actors

LEMMA GrantOwns ==
  ASSUME IInv, OwnersAgree, NEW t \in Threads, Grant(t)
  PROVE  OwnersAgree'
<1> DEFINE n == nextLeaseId
           q == want[t].resource
<1>1. /\ Accounted' = Accounted \cup {n} /\ n \in LeaseIds
      /\ \A id \in Accounted : lease[id].resource = q =>
           want[t].mode = "Shared" /\ lease[id].mode = "Shared"
  BY GrantLedger
<1>2. /\ \A id \in Accounted : id # n /\ lease'[id] = lease[id]
      /\ lease'[n] = [resource |-> q, mode |-> want[t].mode, thread |-> t]
  BY <1>1 DEF Grant, IInv, TypeOK, Ledger, AccountedGranted
<1>3. \A r \in Resources : r # q => owner'[r] = owner[r]
  BY DEF Grant, TakeExclusive, TakeShared, IInv, TypeOK
<1>4. owner'[q] = IF want[t].mode = "Exclusive" THEN t ELSE owner[q]
  BY DEF Grant, TakeExclusive, TakeShared, IInv, TypeOK
<1>5. \A r \in Resources :
        On(r, "Exclusive")' = IF r = q /\ want[t].mode = "Exclusive" THEN {n}
                              ELSE On(r, "Exclusive")
  BY <1>1, <1>2 DEF On
<1>6. \A r \in Resources : \A id \in On(r, "Exclusive") : lease'[id] = lease[id]
  BY <1>2 DEF On
<1> QED
  BY <1>2, <1>3, <1>4, <1>5, <1>6 DEF OwnersAgree

LEMMA AccountOwns ==
  ASSUME IInv, OwnersAgree, NEW a \in Actors, Account(a)
  PROVE  OwnersAgree'
<1> DEFINE id == releasing[a]
           q == lease[id].resource
<1>1. Accounted' = Accounted \ {id} /\ id \in Accounted /\ lease' = lease
  BY AccountLedger DEF Account
<1>2. q \in Resources
  BY <1>1 DEF IInv, TypeOK, Ledger, AccountedGranted
<1>3. \A r \in Resources :
        owner'[r] = IF r = q /\ entry[q].exclusive THEN NoThread ELSE owner[r]
  BY <1>2 DEF Account, DropExclusive, DropShared, IInv, TypeOK
<1>4. entry[q].exclusive => On(q, "Exclusive") = {id}
  <2>1. entry[q].exclusive => On(q, "Exclusive") # {}
    BY <1>2 DEF IInv, Ledger, AccountsExact
  <2>2. \A j \in On(q, "Exclusive") : j = id
    BY <1>1 DEF On, IInv, Ledger, LeaseExclusion
  <2> QED
    BY <2>1, <2>2
<1>5. ~entry[q].exclusive => id \notin On(q, "Exclusive")
  BY <1>2 DEF IInv, Ledger, AccountsExact
<1>6. \A r \in Resources : On(r, "Exclusive")' = On(r, "Exclusive") \ {id}
  BY <1>1 DEF On
<1>7. \A r \in Resources : r # q => id \notin On(r, "Exclusive")
  BY DEF On
<1> QED
  BY <1>1, <1>2, <1>3, <1>4, <1>5, <1>6, <1>7 DEF OwnersAgree

\* The owner in ownerMap_ is always that of the leases.
THEOREM OwnersInvariance == Spec => []OwnersAgree
<1>1. Init => OwnersAgree
  <2> SUFFICES ASSUME Init PROVE OwnersAgree
    OBVIOUS
  <2>1. Accounted = {}
    BY DEF Init, Accounted, Actors
  <2> QED
    BY <2>1 DEF Init, OwnersAgree, On
<1>2. IInv /\ OwnersAgree /\ [Next]_vars => OwnersAgree'
  <2> SUFFICES ASSUME IInv, OwnersAgree, [Next]_vars PROVE OwnersAgree'
    OBVIOUS
  <2>1. CASE \E t \in Threads : Grant(t)
    BY <2>1, GrantOwns
  <2>2. CASE \E a \in Actors : Account(a)
    BY <2>2, AccountOwns
  <2>3. CASE owner' = owner /\ TableStutters
    <3>1. \A r \in Resources : On(r, "Exclusive")' = On(r, "Exclusive")
      BY <2>3 DEF On, TableStutters
    <3> QED
      BY <2>3, <3>1 DEF OwnersAgree, TableStutters
  <2> QED
    BY <2>1, <2>2, <2>3, OwnersStay, Step
<1> QED
  BY <1>1, <1>2, Invariance, PTL DEF Spec

\* ownerMap_ names the thread of the exclusive lease on a resource and nobody
\* when there is none, so the graph that detectDeadlock follows is that of the
\* leases, with shared leases in between as well (ResourceManager.cpp:286-296,
\* 457-467, 573-627).
THEOREM OwnersAreExact == Spec => []OwnerExact
<1>1. OwnersAgree => OwnerExact
  BY DEF OwnersAgree, OwnerExact
<1> QED
  BY <1>1, OwnersInvariance, PTL

-------------------------------------------------------------------------------
(***************************************************************************)
(* Deadlocks.  With exclusive leases only, and as long as no edge is taken *)
(* away by force, the wait-for graph has the edge of every thread that     *)
(* sleeps and no other.  A thread waits for one thread at most, so among   *)
(* threads that wait for one another a chain of owners comes back to where *)
(* it has been after as many steps as there are threads.                   *)
(***************************************************************************)

\* A set of naturals has a least member.
LEMMA LeastOf ==
  ASSUME NEW T, T \subseteq Nat, T # {}
  PROVE  \E x \in T : \A y \in T : x <= y
<1> DEFINE R == {ss \in Nat \X Nat : ss[1] < ss[2]}
<1>1. IsWellFoundedOn(R, Nat)
  BY NatLessThanWellFounded, Zenon DEF OpToRel
<1>2. PICK x \in T : \A y \in T : ~ (<<y, x>> \in R)
  BY <1>1, WFMin, Zenon
<1>3. ASSUME NEW y \in T PROVE x <= y
  <2>1. x \in Nat /\ y \in Nat /\ <<y, x>> \in Nat \X Nat
    OBVIOUS
  <2>2. <<y, x>> \notin R
    BY <1>2, Zenon
  <2>3. ~ (y < x)
    BY <2>1, <2>2
  <2> QED
    BY <2>1, <2>3
<1> QED
  BY <1>3, Zenon

LEMMA SetInduction ==
  ASSUME NEW S, 0 \in S, \A n \in Nat : n \in S => n + 1 \in S
  PROVE  \A n \in Nat : n \in S
<1> SUFFICES ASSUME NEW m \in Nat, m \notin S PROVE FALSE
  OBVIOUS
<1> DEFINE T == {n \in Nat : n \notin S}
<1>1. PICK x \in T : \A y \in T : x <= y
  BY LeastOf
<1>2. x # 0 /\ x - 1 \in Nat
  BY <1>1
<1>3. x - 1 \in S
  BY <1>1, <1>2
<1> QED
  BY <1>2, <1>3

\* What a chain of owners is up to its member n.
ChainUpTo(f, waits, t, n) ==
  f = [k \in 0..n |-> WaitsForThread(waits, IF k = 0 THEN t ELSE f[k - 1])]

LEMMA ChainExists ==
  ASSUME NEW waits, NEW t
  PROVE  \A n \in Nat : \E f : ChainUpTo(f, waits, t, n)
<1> DEFINE S == {n \in Nat : \E f : ChainUpTo(f, waits, t, n)}
<1>1. 0 \in S
  <2>1. ChainUpTo([k \in 0..0 |-> WaitsForThread(waits, t)], waits, t, 0)
    BY DEF ChainUpTo
  <2> QED
    BY <2>1
<1>2. ASSUME NEW n \in Nat, n \in S PROVE n + 1 \in S
  <2>1. PICK f : ChainUpTo(f, waits, t, n)
    BY <1>2
  <2> DEFINE step(h, k) == WaitsForThread(waits, IF k = 0 THEN t ELSE h[k - 1])
             g == [k \in 0..n + 1 |-> IF k = n + 1 THEN step(f, k) ELSE f[k]]
  <2>2. \A k \in 0..n : f[k] = step(f, k)
    BY <2>1 DEF ChainUpTo
  <2>3. \A k \in 0..n : g[k] = f[k]
    OBVIOUS
  <2>4. g[n + 1] = step(f, n + 1)
    OBVIOUS
  <2>5. ASSUME NEW k \in 0..n + 1 PROVE g[k] = step(g, k)
    <3>1. CASE k = 0
      BY <3>1, <2>2, <2>3
    <3>2. CASE k # 0
      <4>1. k - 1 \in 0..n
        BY <3>2
      <4>2. g[k - 1] = f[k - 1]
        BY <4>1, <2>3
      <4>3. g[k] = step(f, k)
        <5>1. CASE k = n + 1
          BY <5>1, <2>4
        <5>2. CASE k # n + 1
          <6>1. k \in 0..n
            BY <5>2
          <6> QED
            BY <6>1, <2>2, <2>3
        <5> QED
          BY <5>1, <5>2
      <4> HIDE DEF g
      <4> QED
        BY <4>2, <4>3
    <3> QED
      BY <3>1, <3>2
  <2>6. DOMAIN g = 0..n + 1 /\ g = [k \in DOMAIN g |-> g[k]]
    OBVIOUS
  <2> HIDE DEF g
  <2>7. ChainUpTo(g, waits, t, n + 1)
    BY <2>5, <2>6, Zenon DEF ChainUpTo
  <2> QED
    BY <2>7
<1> HIDE DEF S
<1>3. \A n \in Nat : n \in S
  BY <1>1, <1>2, SetInduction
<1> QED
  BY <1>3 DEF S

LEMMA DepthIsNat == Depth \in Nat /\ Cardinality(Threads) \in Nat
BY FS_CardinalityType, ResourcesAssumption DEF Depth, kMaxDepth

\* A chain begins with the thread waited for, and goes on from owner to owner.
LEMMA ChainSteps ==
  ASSUME NEW waits, NEW t
  PROVE  /\ Chain(waits, t)[0] = WaitsForThread(waits, t)
         /\ \A n \in 1..Depth : Chain(waits, t)[n] = WaitsForThread(waits, Chain(waits, t)[n - 1])
<1> DEFINE c == CHOOSE f : ChainUpTo(f, waits, t, Depth)
<1>1. ChainUpTo(c, waits, t, Depth)
  BY ChainExists, DepthIsNat
<1>2. Chain(waits, t) = c
  BY DEF Chain, ChainUpTo
<1> HIDE DEF c
<1>3. \A n \in 0..Depth : c[n] = WaitsForThread(waits, IF n = 0 THEN t ELSE c[n - 1])
  BY <1>1 DEF ChainUpTo
<1>4. 0 \in 0..Depth /\ \A n \in 1..Depth : n \in 0..Depth /\ n # 0
  BY DepthIsNat
<1>5. c[0] = WaitsForThread(waits, t)
  BY <1>3, <1>4
<1>6. \A n \in 1..Depth : c[n] = WaitsForThread(waits, c[n - 1])
  BY <1>3, <1>4
<1> QED
  BY <1>2, <1>5, <1>6

\* Each thread waits for what its edge says; only threads that sleep have an edge.
WaitsKnown(t) ==
  /\ waitsFor[t] = IF waited[t] THEN want[t].resource ELSE NoResource
  /\ waited[t] => pc[t] \in {"try", "asleep"}
  /\ InAcquire(t) => want[t].mode = "Exclusive"

WaitInv == \A t \in Threads : WaitsKnown(t)

\* A blocked thread waits for the thread that holds the lease it wants.
LEMMA BlockedWaits ==
  ASSUME IInv, OwnersAgree, WaitInv, NEW t \in Threads
  PROVE  /\ WaitsForThread(waitsFor, t) \in Threads \cup {NoThread}
         /\ WaitsForThread(waitsFor, t) \in Threads =>
              /\ t \in Blocked
              /\ \E id \in On(want[t].resource, "Exclusive") :
                   lease[id].thread = WaitsForThread(waitsFor, t)
         /\ t \in Blocked => \A id \in On(want[t].resource, "Exclusive") :
              lease[id].thread = WaitsForThread(waitsFor, t)
<1> DEFINE r == want[t].resource
<1>1. /\ owner \in [Resources -> Threads \cup {NoThread}] /\ r \in Resources /\ NoResource \notin Resources
      /\ waitsFor \in [Threads -> Resources \cup {NoResource}] /\ NoThread \notin Threads
      /\ waited \in [Threads -> BOOLEAN]
  BY ResourcesAssumption, ActorsAssumption DEF IInv, TypeOK
<1>2. WaitsForThread(waitsFor, t) = IF waited[t] THEN owner[r] ELSE NoThread
  BY <1>1 DEF WaitInv, WaitsKnown, WaitsForThread
<1>3. waited[t] <=> t \in Blocked
  BY <1>1 DEF WaitInv, WaitsKnown, Blocked
<1>4. /\ On(r, "Exclusive") = {} => owner[r] = NoThread
      /\ \A id \in On(r, "Exclusive") : owner[r] = lease[id].thread
  BY <1>1 DEF OwnersAgree
<1> HIDE DEF r
<1>5. owner[r] \in Threads => \E id \in On(r, "Exclusive") : lease[id].thread = owner[r]
  BY <1>1, <1>4
<1>6. owner[r] \in Threads \cup {NoThread}
  BY <1>1
<1> QED
  BY <1>1, <1>2, <1>3, <1>4, <1>5, <1>6 DEF r

\* A chain that comes back to a thread has come from threads only, and never stood still.
LEMMA ReportedIsDeadlocked ==
  ASSUME IInv, OwnersAgree, WaitInv, NEW t \in Reported(waitsFor)
  PROVE  Deadlocked
<1> DEFINE c == Chain(waitsFor, t)
           next(u) == WaitsForThread(waitsFor, u)
<1>0. t \in Threads /\ NoThread \notin Threads /\ Depth \in Nat
  BY ActorsAssumption, DepthIsNat DEF Reported
<1>1. c[0] # t /\ \E n \in 1..Depth : c[n] = t
  BY DEF Reported, Victims
<1>2. PICK n \in 1..Depth : c[n] = t
  BY <1>1
<1>3. c[0] = next(t) /\ \A k \in 1..n : c[k] = next(c[k - 1])
  BY <1>0, ChainSteps
<1>4. \A u : u \notin Threads => next(u) = NoThread
  BY DEF WaitsForThread
<1> HIDE DEF c, next
<1>5. ASSUME NEW k \in 0..n PROVE c[k] \in Threads
  <2> SUFFICES ASSUME c[k] \notin Threads PROVE FALSE
    OBVIOUS
  <2> DEFINE D == {d \in Nat : d <= n /\ c[n - d] \notin Threads}
  <2>1. n - k \in D
    BY <1>0
  <2>2. PICK d \in D : \A e \in D : d <= e
    BY <2>1, LeastOf
  <2>3. d # 0 /\ d - 1 \in Nat /\ n - d \in 0..n - 1
    BY <1>0, <1>2, <2>2
  <2>4. c[n - (d - 1)] \in Threads
    BY <2>2, <2>3
  <2>5. n - (d - 1) \in 1..n /\ (n - (d - 1)) - 1 = n - d
    BY <2>3, <1>0
  <2>6. c[n - (d - 1)] = next(c[n - d])
    BY <1>3, <2>5
  <2> QED
    BY <1>0, <1>4, <2>2, <2>4, <2>6
<1>6. next(t) # t
  BY <1>1, <1>3
<1>7. ASSUME NEW k \in 0..n - 1 PROVE c[k + 1] # c[k]
  <2> SUFFICES ASSUME c[k + 1] = c[k] PROVE FALSE
    OBVIOUS
  <2>1. next(c[k]) = c[k]
    <3>1. k + 1 \in 1..n /\ (k + 1) - 1 = k
      BY <1>0
    <3> QED
      BY <1>3, <3>1
  <2>2. c[n] = c[k]
    <3> SUFFICES ASSUME c[n] # c[k] PROVE FALSE
      OBVIOUS
    <3> DEFINE D == {d \in Nat : k + d <= n /\ c[k + d] # c[k]}
    <3>1. n - k \in D
      BY <1>0
    <3>2. PICK d \in D : \A e \in D : d <= e
      BY <3>1, LeastOf
    <3>3. d # 0 /\ d - 1 \in Nat /\ k + d \in 1..n /\ (k + d) - 1 = k + (d - 1) /\ k + (d - 1) <= n
      BY <1>0, <3>2
    <3>4. c[k + (d - 1)] = c[k]
      <4>1. ~ (d <= d - 1)
        BY <3>3
      <4> QED
        BY <3>2, <3>3, <4>1
    <3>5. c[k + d] = next(c[k + (d - 1)])
      BY <1>3, <3>3
    <3> QED
      BY <2>1, <3>2, <3>4, <3>5
  <2> QED
    BY <1>2, <1>6, <2>1, <2>2
<1> DEFINE S == {t} \cup {c[k] : k \in 0..n - 1}
<1>8. ASSUME NEW u \in S PROVE u \in Threads /\ next(u) \in S \ {u}
  <2>1. CASE u = t
    <3>1. 0 \in 0..n - 1
      BY <1>0
    <3> QED
      BY <1>0, <1>3, <1>6, <2>1, <3>1
  <2>2. CASE u # t
    <3>1. PICK k \in 0..n - 1 : u = c[k]
      BY <2>2
    <3>2. k \in 0..n /\ k + 1 \in 1..n /\ (k + 1) - 1 = k
      BY <1>0
    <3>3. next(u) = c[k + 1] /\ u \in Threads
      BY <1>3, <1>5, <3>1, <3>2
    <3>4. c[k + 1] \in S
      <4>1. CASE k + 1 = n
        BY <1>2, <4>1
      <4>2. CASE k + 1 # n
        <5>1. k + 1 \in 0..n - 1
          BY <3>2, <4>2
        <5> QED
          BY <5>1
      <4> QED
        BY <4>1, <4>2
    <3> QED
      BY <1>7, <3>1, <3>3, <3>4
  <2> QED
    BY <2>1, <2>2
<1> HIDE DEF S
<1>9. \A u \in S : u \in Blocked /\ \E id \in On(want[u].resource, "Exclusive") : lease[id].thread = next(u)
  BY <1>8, BlockedWaits DEF next
<1>10. S \in SUBSET Blocked /\ S # {}
  BY <1>9 DEF S
<1>11. \A u \in S : \E v \in S \ {u} : \E id \in On(want[u].resource, "Exclusive") : lease[id].thread = v
  BY <1>8, <1>9
<1> QED
  BY <1>10, <1>11 DEF Deadlocked

\* Threads that wait for one another: followed far enough, a chain among them repeats.
LEMMA DeadlockIsReported ==
  ASSUME IInv, OwnersAgree, WaitInv, Deadlocked, Cardinality(Threads) <= kMaxDepth
  PROVE  Reported(waitsFor) # {}
<1> DEFINE next(u) == WaitsForThread(waitsFor, u)
<1>1. PICK S \in SUBSET Blocked :
        /\ S # {}
        /\ \A t \in S : \E u \in S \ {t} :
             \E id \in On(want[t].resource, "Exclusive") : lease[id].thread = u
  BY DEF Deadlocked
<1>2. S \subseteq Threads /\ \A t \in S : next(t) \in S \ {t}
  <2>1. S \subseteq Threads
    BY DEF Blocked
  <2>2. ASSUME NEW t \in S PROVE next(t) \in S \ {t}
    <3>1. PICK u \in S \ {t} : \E id \in On(want[t].resource, "Exclusive") : lease[id].thread = u
      BY <1>1
    <3>2. t \in Threads /\ t \in Blocked
      BY <2>1
    <3>3. next(t) = u
      BY <3>1, <3>2, BlockedWaits
    <3> QED
      BY <3>3
  <2> QED
    BY <2>1, <2>2
<1>3. Depth \in Nat /\ Depth = Cardinality(Threads)
  BY DepthIsNat DEF Depth, kMaxDepth
<1>4. PICK s : s \in S
  BY <1>1
<1> DEFINE c == Chain(waitsFor, s)
<1>5. c[0] = next(s) /\ \A k \in 1..Depth : c[k] = next(c[k - 1])
  BY ChainSteps
<1> HIDE DEF c, next
<1>6. ASSUME NEW k \in 0..Depth PROVE c[k] \in S
  <2> DEFINE D == {d \in Nat : d <= Depth /\ c[d] \notin S}
  <2> SUFFICES ASSUME c[k] \notin S PROVE FALSE
    OBVIOUS
  <2>1. k \in D
    OBVIOUS
  <2>2. PICK d \in D : \A e \in D : d <= e
    BY <2>1, LeastOf
  <2>3. d # 0
    BY <1>2, <1>4, <1>5, <2>2
  <2>4. d \in 1..Depth /\ d - 1 \in Nat /\ d - 1 <= Depth /\ ~ (d <= d - 1)
    BY <1>3, <2>2, <2>3
  <2>5. c[d - 1] \in S
    BY <2>2, <2>4
  <2> QED
    BY <1>2, <1>5, <2>2, <2>4, <2>5
<1>7. PICK i \in 0..Depth, j \in 0..Depth : i < j /\ c[i] = c[j]
  <2> DEFINE f == [k \in 0..Depth |-> c[k]]
  <2>1. IsFiniteSet(S) /\ Cardinality(S) <= Depth /\ Cardinality(S) \in Nat
    BY <1>2, <1>3, ResourcesAssumption, FS_Subset, FS_CardinalityType
  <2>2. IsFiniteSet(0..Depth) /\ Cardinality(0..Depth) = Depth + 1
    BY <1>3, FS_Interval
  <2>3. f \in [0..Depth -> S]
    BY <1>6
  <2>4. Cardinality(S) < Cardinality(0..Depth)
    BY <1>3, <2>1, <2>2
  <2> HIDE DEF f
  <2>5. PICK x, y \in 0..Depth : x # y /\ f[x] = f[y]
    BY <2>1, <2>2, <2>3, <2>4, FS_PigeonHole
  <2>6. c[x] = c[y]
    BY <2>5 DEF f
  <2>7. x < y \/ y < x
    BY <1>3, <2>5
  <2> QED
    BY <2>6, <2>7
<1> DEFINE t == c[i]
           d == Chain(waitsFor, t)
<1>8. d[0] = next(t) /\ \A k \in 1..Depth : d[k] = next(d[k - 1])
  BY ChainSteps DEF next
<1>9. t \in S /\ t \in Threads /\ next(t) # t /\ t # NoThread
  BY <1>2, <1>6, ActorsAssumption
<1> HIDE DEF d
<1>10. i + 1 \in 1..Depth /\ j - 1 - i \in Nat /\ j - 1 - i <= Depth
  BY <1>3, <1>7
<1>11. c[i + 1] = next(t)
  <2>1. (i + 1) - 1 = i
    BY <1>3
  <2> QED
    BY <1>5, <1>10, <2>1
<1>12. d[j - 1 - i] = t
  <2> SUFFICES ASSUME d[j - 1 - i] # c[i + (j - 1 - i) + 1] PROVE FALSE
    <3>1. i + (j - 1 - i) + 1 = j
      BY <1>3
    <3> QED
      BY <1>7, <3>1
  <2> DEFINE D == {e \in Nat : i + e + 1 <= j /\ d[e] # c[i + e + 1]}
  <2>1. j - 1 - i \in D
    BY <1>3, <1>10
  <2>2. PICK e \in D : \A x \in D : e <= x
    BY <2>1, LeastOf
  <2>3. e # 0
    BY <1>3, <1>8, <1>11, <2>2
  <2>4. /\ e \in 1..Depth /\ e - 1 \in Nat /\ i + (e - 1) + 1 <= j /\ ~ (e <= e - 1)
        /\ i + e + 1 \in 1..Depth /\ (i + e + 1) - 1 = i + (e - 1) + 1
    BY <1>3, <1>7, <2>2, <2>3
  <2>5. d[e - 1] = c[i + (e - 1) + 1]
    BY <2>2, <2>4
  <2>6. d[e] = next(d[e - 1]) /\ c[i + e + 1] = next(c[(i + e + 1) - 1])
    BY <1>5, <1>8, <2>4
  <2> QED
    BY <2>2, <2>4, <2>5, <2>6
<1>13. j - 1 - i \in 1..Depth
  <2>1. j - 1 - i # 0
    BY <1>8, <1>9, <1>12
  <2> QED
    BY <1>3, <1>10, <2>1
<1> DEFINE D == {e \in 1..Depth : d[e] = t}
<1>14. PICK m \in D : \A e \in D : m <= e
  <2>1. D \subseteq Nat /\ D # {}
    BY <1>3, <1>12, <1>13
  <2> QED
    BY <2>1, LeastOf
<1>15. m \in 1..Depth /\ d[m] = t /\ \A k \in 0..m - 1 : d[k] # t
  <2>1. m \in 1..Depth /\ d[m] = t
    BY <1>14
  <2>2. ASSUME NEW k \in 0..m - 1 PROVE d[k] # t
    <3>1. CASE k = 0
      BY <1>8, <1>9, <3>1
    <3>2. CASE k # 0
      <4>1. k \in 1..Depth /\ ~ (m <= k)
        BY <1>3, <2>1, <3>2
      <4> QED
        BY <1>14, <4>1
    <3> QED
      BY <3>1, <3>2
  <2> QED
    BY <2>1, <2>2
<1>16. d[m - 1] \in Threads
  <2>1. d[m] = next(d[m - 1])
    BY <1>8, <1>15
  <2> QED
    BY <1>9, <1>15, <2>1 DEF next, WaitsForThread
<1>17. d[m - 1] \in Victims(waitsFor, t)
  BY <1>8, <1>9, <1>15, <1>16 DEF Victims, d
<1> QED
  BY <1>9, <1>17 DEF Reported

\* What a thread waits for is not changed by what the others do: they may wake it up.
LeftWaiting(t) ==
  /\ waitsFor'[t] = waitsFor[t] /\ waited'[t] = waited[t] /\ want'[t] = want[t]
  /\ \/ pc'[t] = pc[t]
     \/ pc[t] = "asleep" /\ pc'[t] = "try"
     \/ ~InAcquire(t) /\ pc'[t] \notin {"enter", "opening", "try", "asleep"}

LEMMA LeftWaitingKeeps ==
  ASSUME NEW t \in Threads, waited[t] \in BOOLEAN, WaitsKnown(t), LeftWaiting(t)
  PROVE  WaitsKnown(t)'
BY DEF WaitsKnown, LeftWaiting, InAcquire

LEMMA AcquireWaits ==
  ASSUME IInv, WaitInv, Modes = {"Exclusive"}, NEW t \in Threads,
         \/ StartOpening(t) \/ Opened(t) \/ OpenFails(t)
         \/ Grant(t) \/ GiveUp(t) \/ Sleep(t) \/ WakeUp(t)
         \/ \E r \in Resources, mode \in Modes : Acquire(t, r, mode)
  PROVE  WaitsKnown(t)' /\ \A u \in Threads \ {t} : LeftWaiting(u)
<1> USE DEF IInv, TypeOK, WaitInv, WaitsKnown, LeftWaiting, InAcquire, GoTo, Actors
<1>1. ASSUME NEW r \in Resources, NEW mode \in Modes, Acquire(t, r, mode)
      PROVE  WaitsKnown(t)' /\ \A u \in Threads \ {t} : LeftWaiting(u)
  BY <1>1 DEF Acquire
<1>2. CASE StartOpening(t)
  BY <1>2 DEF StartOpening
<1>3. CASE Opened(t)
  BY <1>3 DEF Opened, Woken
<1>4. CASE OpenFails(t)
  BY <1>4 DEF OpenFails, Woken, Return
<1>5. CASE Grant(t)
  <2>1. want[t].mode = "Exclusive"
    BY <1>5 DEF Grant, AtCondition
  <2> QED
    BY <1>5, <2>1 DEF Grant, TakeExclusive, AtCondition, Return
<1>6. CASE GiveUp(t)
  BY <1>6 DEF GiveUp, AtCondition, Return
<1>7. CASE Sleep(t)
  BY <1>7 DEF Sleep, AtCondition
<1>8. CASE WakeUp(t)
  BY <1>8 DEF WakeUp
<1> QED
  BY <1>1, <1>2, <1>3, <1>4, <1>5, <1>6, <1>7, <1>8

\* Other steps leave every thread waiting as it was.
LEMMA OthersWait ==
  ASSUME IInv, ~Preempt,
         \/ \E t \in Threads, id \in LeaseIds : Release(t, id) \/ Renew(t, id)
         \/ \E a \in Actors : ReleaseLease(a)
         \/ MonitorTest \/ Detect \/ Scan \/ EraseHeartbeat \/ CloseExpired \/ PassDone
         \/ \E id \in LeaseIds : NextExpired(id) \/ Expire(id)
         \/ Owners \/ UNCHANGED vars
  PROVE  \A u \in Threads : LeftWaiting(u)
<1> USE ActorsAssumption DEF IInv, TypeOK, LeftWaiting, InAcquire, GoTo, Actors
<1>1. ASSUME NEW t \in Threads, NEW id \in LeaseIds, Release(t, id) \/ Renew(t, id)
      PROVE  \A u \in Threads : LeftWaiting(u)
  BY <1>1 DEF Release, Renew
<1>2. ASSUME NEW a \in Actors, ReleaseLease(a)
      PROVE  \A u \in Threads : LeftWaiting(u)
  <2>1. CASE Unmap(a)
    BY <2>1 DEF Unmap, AfterRelease
  <2>2. CASE Account(a)
    BY <2>2 DEF Account, DropExclusive, DropShared
  <2>3. CASE Notify(a)
    BY <2>3 DEF Notify, Woken, AfterRelease
  <2> QED
    BY <1>2, <2>1, <2>2, <2>3 DEF ReleaseLease
<1>3. CASE MonitorTest \/ Detect \/ Scan
  BY <1>3 DEF MonitorTest, Detect, Scan
<1>4. CASE EraseHeartbeat \/ CloseExpired \/ PassDone
  BY <1>4 DEF EraseHeartbeat, CloseExpired, PassDone
<1>5. ASSUME NEW id \in LeaseIds, NextExpired(id) \/ Expire(id)
      PROVE  \A u \in Threads : LeftWaiting(u)
  BY <1>5 DEF NextExpired, Expire
<1>6. CASE Owners
  BY <1>6 DEF Owners, Register, Unregister, StartMonitor, StopMonitor
<1>7. CASE UNCHANGED vars
  BY <1>7 DEF vars
<1> HIDE DEF LeftWaiting
<1> QED
  BY <1>1, <1>2, <1>3, <1>4, <1>5, <1>6, <1>7

LEMMA WaitsStep ==
  ASSUME IInv, WaitInv, Modes = {"Exclusive"}, ~Preempt, [Next]_vars
  PROVE  WaitInv'
<1>1. \A t \in Threads : waited[t] \in BOOLEAN
  BY DEF IInv, TypeOK
<1>2. ASSUME \A u \in Threads : LeftWaiting(u) PROVE WaitInv'
  BY <1>1, <1>2, LeftWaitingKeeps DEF WaitInv
<1>3. ASSUME NEW t \in Threads,
             \/ StartOpening(t) \/ Opened(t) \/ OpenFails(t)
             \/ Grant(t) \/ GiveUp(t) \/ Sleep(t) \/ WakeUp(t)
             \/ \E r \in Resources, mode \in Modes : Acquire(t, r, mode)
      PROVE  WaitInv'
  <2>1. WaitsKnown(t)' /\ \A u \in Threads \ {t} : LeftWaiting(u)
    BY <1>3, AcquireWaits
  <2>2. \A u \in Threads \ {t} : WaitsKnown(u)'
    BY <1>1, <2>1, LeftWaitingKeeps DEF WaitInv
  <2> QED
    BY <2>1, <2>2 DEF WaitInv
<1>4. \A t \in Threads : t \in Actors
  BY DEF Actors
<1>5. Monitor \in Actors
  BY DEF Actors
<1>6. ASSUME NEW t \in Threads, Call(t) \/ Proceed(t) PROVE WaitInv'
  BY <1>2, <1>3, <1>4, <1>6, OthersWait DEF Call, Proceed
<1>7. ASSUME MonitorThread PROVE WaitInv'
  BY <1>2, <1>5, <1>7, OthersWait DEF MonitorThread
<1>8. ASSUME \/ Owners \/ UNCHANGED vars \/ \E id \in LeaseIds : Expire(id) PROVE WaitInv'
  BY <1>2, <1>8, OthersWait
<1> QED
  BY <1>6, <1>7, <1>8 DEF Next

\* Whenever all leases are exclusive, threads are not taken out of the graph by force and
\* there are no more of them than a chain is followed, detectDeadlock reports a cycle
\* exactly when threads wait for one another in a circle (ResourceManager.cpp:573-627),
\* and ownerMap_, which it reads, is that of the leases.
THEOREM DeadlocksAreDetected ==
  Modes = {"Exclusive"} /\ ~Preempt /\ Cardinality(Threads) <= kMaxDepth
    => (Spec => []DeadlocksDetected)
<1> SUFFICES ASSUME Modes = {"Exclusive"}, ~Preempt, Cardinality(Threads) <= kMaxDepth
             PROVE  Spec => []DeadlocksDetected
  OBVIOUS
<1>1. Init => WaitInv
  BY ActorsAssumption DEF Init, WaitInv, WaitsKnown, InAcquire, Actors
<1>2. IInv /\ WaitInv /\ [Next]_vars => WaitInv'
  BY WaitsStep
<1>3. IInv /\ OwnersAgree /\ WaitInv => DeadlocksDetected
  BY ReportedIsDeadlocked, DeadlockIsReported DEF DeadlocksDetected, DetectsExactly, OwnersAgree, OwnerExact
<1> QED
  BY <1>1, <1>2, <1>3, Invariance, OwnersInvariance, PTL DEF Spec
===============================================================================
