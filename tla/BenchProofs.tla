------------------------------ MODULE BenchProofs ------------------------------
(***************************************************************************)
(* What talks to the instruments and vehicles of a bench: each component   *)
(* keeps its invariant for any number of threads, connections and frames.  *)
(***************************************************************************)
EXTENDS ScpiPool, DoipMaster, HardwareManager, UdsClient, VirtualBus, ModbusMaster,
        FiniteSetTheorems, SequenceTheorems, WellFoundedInduction, TLAPS


-------------------------------------------------------------------------------
(* ScpiStep: connections *)

Entered(t) == stepAt[t] # "idle"

\* A connection is in the pool under one key.
PoolInjective ==
  \A k, l \in Keys : pool[k] = pool[l] /\ pool[k] # 0 => k = l

\* A step keeps the connection that the pool has for it, and if its id is its own,
\* its IO is that one's.
StepsPooled ==
  \A t \in StepThreads :
    /\ Entered(t) => stepConn[t] = pool[stepConfig[t].key] /\ stepConn[t] # 0
    /\ ~Entered(t) => stepConn[t] = 0
    /\ stepAt[t] \notin {"lock", "use"} => stepIo[t] = 0
    /\ stepAt[t] \in {"lock", "use"} /\ Own(stepConfig[t]) => stepIo[t] = stepConn[t]

\* The mutex of a connection is held by the step that uses it.
LocksHeld ==
  \A t \in StepThreads, c \in Connections :
    ioLock[c] = t <=> stepAt[t] = "use" /\ stepConn[t] = c

\* An own id that is registered stands for the connection of its key, and closing
\* that connection unregisters the id.
IdsPooled ==
  \A d \in Configs :
    Own(d) /\ ioOf[d.rid] # 0 =>
      ioOf[d.rid] = pool[d.key] /\ registeredAs[pool[d.key]] = d.rid

\* The IO of a connection with an own id is under no other id, and no step of another
\* connection has it.
StrangersAway ==
  \A d \in Configs :
    Own(d) /\ pool[d.key] # 0 =>
      /\ \A r \in Rids : ioOf[r] = pool[d.key] => r = d.rid
      /\ \A t \in StepThreads : stepIo[t] = pool[d.key] => stepConfig[t].key = d.key

\* A lease of an id is held by a step of that id.
LeasesHeld ==
  \A r \in Rids, t \in StepThreads :
    leaseOf[r] = t => stepAt[t] \in {"lock", "use"} /\ Rid(t) = r

ScpiInv ==
  /\ ScpiTypeOK /\ PoolInjective /\ StepsPooled /\ LocksHeld /\ IdsPooled
  /\ StrangersAway /\ LeasesHeld /\ ReferencesExact

\* What a step says of a connection it has, and of its id.
LEMMA StepHas ==
  ASSUME ScpiInv, NEW t \in StepThreads
  PROVE  /\ stepConfig[t] \in Configs /\ Rid(t) \in Rids /\ stepConfig[t].key \in Keys
         /\ WorkflowOf[t] \in Workflows
         /\ stepConn[t] \in 0..everOpened /\ everOpened \in 0..MaxOpens
         /\ Entered(t) => stepConn[t] \in Pooled /\ stepConn[t] \in Connections
BY ScpiBoundsAssumption
   DEF ScpiInv, ScpiTypeOK, StepsPooled, Rid, Rids, Keys, Workflows, Pooled, Connections

\* A connection that is reused or opened enters a step.
LEMMA ReuseKeeps ==
  ASSUME ScpiInv, NEW t \in StepThreads, ReuseConnection(t)
  PROVE  ScpiInv'
<1> USE ScpiBoundsAssumption
<1>1. PICK c \in Configs :
        /\ stepAt[t] = "idle" /\ pool[c.key] # 0
        /\ refs' = [refs EXCEPT ![pool[c.key]] = @ \cup {WorkflowOf[t]}]
        /\ UNCHANGED <<pool, everOpened, registeredAs>>
        /\ Enters(t, c, pool[c.key])
  BY DEF ReuseConnection
<1>2. c.key \in Keys /\ c.rid \in Rids /\ pool[c.key] \in 1..everOpened
      /\ everOpened \in 0..MaxOpens /\ WorkflowOf[t] \in Workflows
  BY <1>1 DEF ScpiInv, ScpiTypeOK, Keys, Rids, Workflows
<1>3. pool[c.key] \in Connections /\ pool[c.key] \in Pooled
  BY <1>2 DEF Connections, Pooled
<1>4. /\ UNCHANGED <<ioOf, leaseOf, ioLock, stepIo>>
      /\ stepCalls' = [stepCalls EXCEPT ![t] = @ + 1] /\ stepCalls[t] < MaxCalls
      /\ stepConfig' = [stepConfig EXCEPT ![t] = c]
      /\ stepConn' = [stepConn EXCEPT ![t] = pool[c.key]]
      /\ stepAt' = [stepAt EXCEPT ![t] = "check"]
  BY <1>1 DEF Enters, StepGoes, managerVars
<1> HIDE DEF Connections, Pooled, Keys, Rids, Workflows
<1>5. ScpiTypeOK'
  BY <1>1, <1>2, <1>3, <1>4 DEF ScpiInv, ScpiTypeOK
<1>6. PoolInjective' /\ IdsPooled'
  BY <1>1, <1>4 DEF ScpiInv, PoolInjective, IdsPooled
<1>10. StrangersAway'
  <2>1. \A u \in StepThreads : stepConfig'[u] = IF u = t THEN c ELSE stepConfig[u]
    BY <1>4 DEF ScpiInv, ScpiTypeOK
  <2>2. stepIo[t] = 0
    BY <1>1 DEF ScpiInv, StepsPooled
  <2> QED
    BY <1>1, <1>4, <2>1, <2>2 DEF ScpiInv, StrangersAway
<1>7. StepsPooled' /\ LocksHeld' /\ LeasesHeld'
  BY <1>1, <1>2, <1>4
     DEF ScpiInv, ScpiTypeOK, StepsPooled, LocksHeld, LeasesHeld, Entered, Rid
<1>8. Pooled' = Pooled
  BY <1>1 DEF Pooled
<1>9. ReferencesExact'
  <2>1. \A d \in Connections : refs[d] \subseteq refs'[d]
    BY <1>1, <1>3 DEF ScpiInv, ScpiTypeOK
  <2>2. \A d \in Connections \ Pooled : refs'[d] = refs[d]
    BY <1>1, <1>3 DEF ScpiInv, ScpiTypeOK
  <2>3. WorkflowOf[t] \in refs'[pool[c.key]]
    BY <1>1, <1>3 DEF ScpiInv, ScpiTypeOK
  <2>4. Pooled \subseteq Connections
    BY DEF ScpiInv, ScpiTypeOK, Pooled, Connections
  <2>5. \A u \in StepThreads : stepConn[u] # 0 => stepConn[u] \in Connections
    BY DEF ScpiInv, ScpiTypeOK, Connections
  <2>6. \A u \in StepThreads : stepConn'[u] = IF u = t THEN pool[c.key] ELSE stepConn[u]
    BY <1>4 DEF ScpiInv, ScpiTypeOK
  <2> QED
    BY <1>8, <2>1, <2>2, <2>3, <2>4, <2>5, <2>6 DEF ScpiInv, ReferencesExact
<1> QED
  BY <1>5, <1>6, <1>7, <1>9, <1>10 DEF ScpiInv

LEMMA OpenKeeps ==
  ASSUME ScpiInv, NEW t \in StepThreads, OpenConnection(t)
  PROVE  ScpiInv'
<1> USE ScpiBoundsAssumption
<1>1. PICK c \in Configs :
        /\ stepAt[t] = "idle" /\ pool[c.key] = 0 /\ everOpened < MaxOpens
        /\ everOpened' = everOpened + 1
        /\ pool' = [pool EXCEPT ![c.key] = everOpened']
        /\ refs' = [refs EXCEPT ![everOpened'] = {WorkflowOf[t]}]
        /\ UNCHANGED registeredAs
        /\ Enters(t, c, everOpened')
  BY DEF OpenConnection
<1> DEFINE n == everOpened + 1
<1>2. c.key \in Keys /\ c.rid \in Rids /\ WorkflowOf[t] \in Workflows
      /\ everOpened \in 0..MaxOpens /\ n \in 1..MaxOpens
  BY <1>1 DEF ScpiInv, ScpiTypeOK, Keys, Rids, Workflows
<1>3. n \in Connections /\ n \notin Pooled /\ \A k \in Keys : pool[k] # n
  BY <1>2 DEF Connections, Pooled, ScpiInv, ScpiTypeOK
<1>4. /\ UNCHANGED <<ioOf, leaseOf, ioLock, stepIo>>
      /\ stepCalls' = [stepCalls EXCEPT ![t] = @ + 1] /\ stepCalls[t] < MaxCalls
      /\ stepConfig' = [stepConfig EXCEPT ![t] = c]
      /\ stepConn' = [stepConn EXCEPT ![t] = n]
      /\ stepAt' = [stepAt EXCEPT ![t] = "check"]
  BY <1>1 DEF Enters, StepGoes, managerVars
<1> HIDE DEF Connections, Pooled, Keys, Rids, Workflows
<1>5. ScpiTypeOK'
  <2>1. pool' \in [Keys -> 0..everOpened']
    BY <1>1, <1>2 DEF ScpiInv, ScpiTypeOK
  <2>2. refs' \in [Connections -> SUBSET Workflows]
    BY <1>1, <1>2, <1>3 DEF ScpiInv, ScpiTypeOK
  <2>3. 0..everOpened \subseteq 0..everOpened' /\ everOpened' \in 0..MaxOpens
    BY <1>1, <1>2
  <2>4. /\ ioOf' \in [Rids -> 0..everOpened'] /\ stepIo' \in [StepThreads -> 0..everOpened']
        /\ stepConn' \in [StepThreads -> 0..everOpened']
    BY <1>1, <1>2, <1>4, <2>3 DEF ScpiInv, ScpiTypeOK
  <2>5. /\ stepAt' \in [StepThreads -> {"idle", "check", "register", "acquire", "lock", "use"}]
        /\ stepCalls' \in [StepThreads -> 0..MaxCalls] /\ stepConfig' \in [StepThreads -> Configs]
        /\ \A u \in StepThreads : stepAt'[u] = "use" <=> \E d \in Connections : ioLock'[d] = u
    BY <1>1, <1>4 DEF ScpiInv, ScpiTypeOK
  <2> QED
    BY <1>1, <1>4, <2>1, <2>2, <2>3, <2>4, <2>5 DEF ScpiInv, ScpiTypeOK
<1>6. PoolInjective'
  BY <1>1, <1>2, <1>3 DEF ScpiInv, ScpiTypeOK, PoolInjective
<1>7. IdsPooled'
  <2>1. ASSUME NEW d \in Configs, Own(d), ioOf[d.rid] # 0
        PROVE  pool'[d.key] = pool[d.key]
    <3>1. d.key \in Keys /\ d.rid \in Rids /\ ioOf[d.rid] = pool[d.key]
      BY <2>1 DEF ScpiInv, IdsPooled, Keys, Rids
    <3> QED
      BY <1>1, <2>1, <3>1 DEF ScpiInv, ScpiTypeOK
  <2> QED
    BY <1>1, <1>4, <2>1 DEF ScpiInv, IdsPooled
<1>8. StepsPooled'
  <2>1. ASSUME NEW u \in StepThreads, u # t, Entered(u)
        PROVE  pool'[stepConfig[u].key] = pool[stepConfig[u].key]
    <3>1. pool[stepConfig[u].key] # 0 /\ stepConfig[u].key \in Keys
      BY <2>1, StepHas DEF ScpiInv, StepsPooled
    <3> QED
      BY <1>1, <3>1 DEF ScpiInv, ScpiTypeOK
  <2>2. pool'[c.key] = n /\ n # 0
    BY <1>1, <1>2 DEF ScpiInv, ScpiTypeOK
  <2> QED
    BY <1>1, <1>4, <2>1, <2>2 DEF ScpiInv, ScpiTypeOK, StepsPooled, Entered
<1>9. LocksHeld' /\ LeasesHeld'
  BY <1>1, <1>2, <1>4
     DEF ScpiInv, ScpiTypeOK, LocksHeld, LeasesHeld, Entered, Rid
<1>10. Pooled' = Pooled \cup {n}
  <2>1. \A k \in Keys : pool'[k] = IF k = c.key THEN n ELSE pool[k]
    BY <1>1 DEF ScpiInv, ScpiTypeOK
  <2>2. \A x \in Pooled' : x \in Pooled \cup {n}
    BY <2>1 DEF Pooled
  <2>3. \A x \in Pooled : x \in Pooled'
    BY <1>1, <2>1 DEF Pooled
  <2>4. n \in Pooled'
    BY <1>2, <2>1 DEF Pooled
  <2> QED
    BY <2>2, <2>3, <2>4
<1>11. ReferencesExact'
  <2>1. \A d \in Connections : refs'[d] = IF d = n THEN {WorkflowOf[t]} ELSE refs[d]
    BY <1>1, <1>3 DEF ScpiInv, ScpiTypeOK
  <2>2. Pooled \subseteq Connections
    BY DEF ScpiInv, ScpiTypeOK, Pooled, Connections
  <2>3. \A u \in StepThreads : stepConn'[u] = IF u = t THEN n ELSE stepConn[u]
    BY <1>4 DEF ScpiInv, ScpiTypeOK
  <2>4. \A u \in StepThreads : stepConn[u] # 0 => stepConn[u] \in Connections /\ stepConn[u] # n
    BY <1>2 DEF ScpiInv, ScpiTypeOK, Connections
  <2> QED
    BY <1>3, <1>10, <2>1, <2>2, <2>3, <2>4 DEF ScpiInv, ReferencesExact
<1>12. StrangersAway'
  <2>1. /\ \A u \in StepThreads : /\ stepConfig'[u] = IF u = t THEN c ELSE stepConfig[u]
                                  /\ stepIo[u] # n
        /\ \A r \in Rids : ioOf[r] # n
    BY <1>2, <1>4 DEF ScpiInv, ScpiTypeOK
  <2>2. stepIo[t] = 0
    BY <1>1 DEF ScpiInv, StepsPooled
  <2>3. \A d \in Configs : d.key \in Keys
    BY DEF Keys
  <2>4. \A k \in Keys : pool'[k] = IF k = c.key THEN n ELSE pool[k]
    BY <1>1 DEF ScpiInv, ScpiTypeOK
  <2> QED
    BY <1>4, <2>1, <2>2, <2>3, <2>4 DEF ScpiInv, StrangersAway
<1> QED
  BY <1>5, <1>6, <1>7, <1>8, <1>9, <1>11, <1>12 DEF ScpiInv

\* The step goes from place to place with the connection it has.
LEMMA PlaceKeeps ==
  ASSUME ScpiInv, NEW t \in StepThreads,
         \/ CheckRegistered(t) \/ RegisterIo(t) \/ Acquire(t) \/ NoLease(t)
         \/ LockConnection(t) \/ ReturnFromStep(t)
  PROVE  ScpiInv'
<1> USE ScpiBoundsAssumption, ScpiNamesAssumption DEF poolVars, managerVars, StepGoes
<1>0. /\ stepConfig[t] \in Configs /\ Rid(t) \in Rids /\ stepConfig[t].key \in Keys
      /\ Entered(t) => stepConn[t] \in Pooled /\ stepConn[t] \in Connections
      /\ Entered(t) => stepConn[t] = pool[stepConfig[t].key] /\ stepConn[t] # 0
      /\ stepConn[t] \in 0..everOpened
  BY StepHas DEF ScpiInv, StepsPooled
<1>1. /\ UNCHANGED <<pool, everOpened, refs, stepCalls, stepConfig>> /\ Entered(t)
      /\ stepConn' = stepConn \/ ReturnFromStep(t)
  BY DEF CheckRegistered, RegisterIo, Acquire, NoLease, LockConnection, ReturnFromStep,
         Entered
<1>2. Pooled' = Pooled
  BY <1>1 DEF Pooled
<1> HIDE DEF Connections, Pooled, Keys, Rids, Workflows
<1>3. PoolInjective'
  BY <1>1 DEF ScpiInv, PoolInjective
<1>4. ReferencesExact'
  <2>1. \A u \in StepThreads : stepConn'[u] # 0 => stepConn'[u] = stepConn[u]
    BY <1>1 DEF ReturnFromStep, ScpiInv, ScpiTypeOK
  <2> QED
    BY <1>1, <1>2, <2>1 DEF ScpiInv, ReferencesExact
<1>11. ASSUME NEW d \in Configs, Own(d), pool[d.key] = stepConn[t]
       PROVE  stepConfig[t].key = d.key /\ Rid(t) = d.rid
  <2>1. d.key \in Keys
    BY DEF Keys
  <2>2. stepConfig[t].key = d.key
    BY <1>0, <1>1, <1>11, <2>1 DEF ScpiInv, PoolInjective
  <2> QED
    BY <1>0, <1>11, <2>2 DEF Own, Rid
<1>5. CASE CheckRegistered(t)
  <2>1. ScpiTypeOK'
    BY <1>5 DEF CheckRegistered, ScpiInv, ScpiTypeOK
  <2>2. StepsPooled' /\ LocksHeld' /\ IdsPooled' /\ LeasesHeld'
    BY <1>5 DEF CheckRegistered, ScpiInv, ScpiTypeOK, StepsPooled, LocksHeld,
                IdsPooled, LeasesHeld, Entered, Rid
  <2>3. StrangersAway'
    BY <1>5 DEF CheckRegistered, ScpiInv, StrangersAway
  <2> QED
    BY <1>3, <1>4, <2>1, <2>2, <2>3 DEF ScpiInv
<1>6. CASE RegisterIo(t)
  <2>1. ScpiTypeOK'
    BY <1>0, <1>1, <1>6 DEF RegisterIo, ScpiInv, ScpiTypeOK
  <2>2. StepsPooled' /\ LocksHeld' /\ LeasesHeld'
    BY <1>6 DEF RegisterIo, ScpiInv, ScpiTypeOK, StepsPooled, LocksHeld, LeasesHeld,
                Entered, Rid
  <2>3. IdsPooled'
    <3>1. CASE ioOf[Rid(t)] # 0
      BY <1>6, <3>1 DEF RegisterIo, ScpiInv, IdsPooled
    <3>2. CASE ioOf[Rid(t)] = 0
      <4>1. /\ ioOf' = [ioOf EXCEPT ![Rid(t)] = stepConn[t]]
            /\ registeredAs' = [registeredAs EXCEPT ![stepConn[t]] = Rid(t)]
            /\ UNCHANGED pool
        BY <1>6, <3>2 DEF RegisterIo
      <4>2. ASSUME NEW d \in Configs, Own(d), ioOf'[d.rid] # 0
            PROVE  ioOf'[d.rid] = pool[d.key] /\ registeredAs'[pool[d.key]] = d.rid
        <5>1. d.rid \in Rids /\ d.key \in Keys
          BY DEF Rids, Keys
        <5>2. CASE d.rid = Rid(t)
          <6>1. d.key = stepConfig[t].key
            BY <1>0, <4>2, <5>2 DEF Own, Rid
          <6> QED
            BY <1>0, <1>1, <4>1, <5>1, <5>2, <6>1 DEF ScpiInv, ScpiTypeOK
        <5>3. CASE d.rid # Rid(t)
          <6>1. d.key # stepConfig[t].key
            BY <1>0, <4>2, <5>3 DEF Own, Rid
          <6>2. ioOf[d.rid] # 0 /\ ioOf'[d.rid] = ioOf[d.rid]
            BY <4>1, <4>2, <5>1, <5>3 DEF ScpiInv, ScpiTypeOK
          <6>3. ioOf[d.rid] = pool[d.key] /\ registeredAs[pool[d.key]] = d.rid
            BY <4>2, <6>2 DEF ScpiInv, IdsPooled
          <6>4. pool[d.key] # stepConn[t]
            BY <1>0, <1>1, <5>1, <6>1 DEF ScpiInv, PoolInjective
          <6>5. registeredAs'[pool[d.key]] = registeredAs[pool[d.key]]
            BY <4>1, <6>4
          <6> QED
            BY <6>2, <6>3, <6>5
        <5> QED
          BY <5>2, <5>3
      <4> QED
        BY <4>1, <4>2 DEF IdsPooled
    <3> QED
      BY <3>1, <3>2
  <2>4. StrangersAway'
    <3>1. /\ \A r \in Rids : ioOf'[r] = ioOf[r] \/ (r = Rid(t) /\ ioOf'[r] = stepConn[t])
          /\ \A u \in StepThreads : stepIo'[u] = stepIo[u] \/ (u = t /\ stepIo'[u] = stepConn[t])
      BY <1>0, <1>6 DEF RegisterIo, ScpiInv, ScpiTypeOK
    <3> QED
      BY <1>1, <1>6, <1>11, <3>1 DEF RegisterIo, ScpiInv, StrangersAway
  <2> QED
    BY <1>3, <1>4, <2>1, <2>2, <2>3, <2>4 DEF ScpiInv
<1>7. CASE Acquire(t)
  <2>1. ScpiTypeOK'
    BY <1>0, <1>7 DEF Acquire, ScpiInv, ScpiTypeOK
  <2>2. Own(stepConfig[t]) => ioOf[Rid(t)] = stepConn[t]
    BY <1>0, <1>1, <1>7 DEF Acquire, ScpiInv, IdsPooled, Rid
  <2>3. StepsPooled'
    BY <1>7, <2>2 DEF Acquire, ScpiInv, ScpiTypeOK, StepsPooled, Entered
  <2>4. LocksHeld' /\ IdsPooled'
    BY <1>7 DEF Acquire, ScpiInv, ScpiTypeOK, LocksHeld, IdsPooled
  <2>5. LeasesHeld'
    BY <1>0, <1>7 DEF Acquire, ScpiInv, ScpiTypeOK, LeasesHeld, Rid
  <2>6. StrangersAway'
    <3>1. \A u \in StepThreads : stepIo'[u] = stepIo[u] \/ (u = t /\ stepIo'[u] = ioOf[Rid(t)])
      BY <1>0, <1>7 DEF Acquire, ScpiInv, ScpiTypeOK
    <3>2. ASSUME NEW d \in Configs, Own(d), pool[d.key] # 0, ioOf[Rid(t)] = pool[d.key]
          PROVE  stepConfig[t].key = d.key
      <4>1. Rid(t) = d.rid
        BY <1>0, <3>2 DEF ScpiInv, StrangersAway
      <4> QED
        BY <1>0, <3>2, <4>1 DEF Own, Rid
    <3> QED
      BY <1>1, <1>7, <3>1, <3>2 DEF Acquire, ScpiInv, StrangersAway
  <2> QED
    BY <1>3, <1>4, <2>1, <2>3, <2>4, <2>5, <2>6 DEF ScpiInv
<1>8. CASE NoLease(t)
  <2>1. ScpiTypeOK'
    BY <1>8 DEF NoLease, ScpiInv, ScpiTypeOK
  <2>2. StepsPooled' /\ LocksHeld' /\ IdsPooled' /\ LeasesHeld'
    BY <1>8 DEF NoLease, ScpiInv, ScpiTypeOK, StepsPooled, LocksHeld,
                IdsPooled, LeasesHeld, Entered, Rid
  <2>3. StrangersAway'
    <3>1. \A u \in StepThreads : stepIo'[u] = stepIo[u] \/ (u = t /\ stepIo'[u] = stepConn[t])
      BY <1>0, <1>8 DEF NoLease, ScpiInv, ScpiTypeOK
    <3> QED
      BY <1>1, <1>8, <1>11, <3>1 DEF NoLease, ScpiInv, StrangersAway
  <2> QED
    BY <1>3, <1>4, <2>1, <2>2, <2>3 DEF ScpiInv
<1>9. CASE LockConnection(t)
  <2>1. /\ ioLock' = [ioLock EXCEPT ![stepConn[t]] = t]
        /\ stepAt' = [stepAt EXCEPT ![t] = "use"]
        /\ ioLock[stepConn[t]] = NoOne /\ stepAt[t] = "lock"
        /\ UNCHANGED <<ioOf, leaseOf, registeredAs, stepConn, stepIo>>
    BY <1>9 DEF LockConnection
  <2>2. \A c \in Connections :
          ioLock'[c] = IF c = stepConn[t] THEN t ELSE ioLock[c]
    BY <2>1 DEF ScpiInv, ScpiTypeOK
  <2>3. \A u \in StepThreads : stepAt'[u] = IF u = t THEN "use" ELSE stepAt[u]
    BY <2>1 DEF ScpiInv, ScpiTypeOK
  <2>4. LocksHeld'
    <3>1. \A u \in StepThreads : u # NoOne
      OBVIOUS
    <3> QED
      BY <1>0, <1>1, <2>1, <2>2, <2>3, <3>1 DEF ScpiInv, LocksHeld
  <2>5. ScpiTypeOK'
    <3>1. \A u \in StepThreads : stepAt'[u] = "use" => stepConn[u] \in Connections
      BY <1>0, <1>1, <2>3, StepHas DEF Entered
    <3>2. \A u \in StepThreads : stepAt'[u] = "use" <=> \E c \in Connections : ioLock'[c] = u
      BY <2>1, <2>4, <3>1 DEF LocksHeld
    <3>3. ioLock' \in [Connections -> StepThreads \cup {NoOne}]
      BY <2>1 DEF ScpiInv, ScpiTypeOK
    <3>4. stepAt' \in [StepThreads -> {"idle", "check", "register", "acquire", "lock", "use"}]
      BY <2>1 DEF ScpiInv, ScpiTypeOK
    <3> QED
      BY <1>1, <2>1, <3>2, <3>3, <3>4 DEF ScpiInv, ScpiTypeOK
  <2>6. StepsPooled' /\ IdsPooled' /\ LeasesHeld'
    BY <1>1, <2>1, <2>3
       DEF ScpiInv, StepsPooled, IdsPooled, LeasesHeld, Entered, Rid
  <2>7. StrangersAway'
    BY <1>1, <2>1 DEF ScpiInv, StrangersAway
  <2> QED
    BY <1>3, <1>4, <2>4, <2>5, <2>6, <2>7 DEF ScpiInv
<1>10. CASE ReturnFromStep(t)
  <2>1. /\ ioLock' = [ioLock EXCEPT ![stepConn[t]] = NoOne]
        /\ leaseOf' = [r \in Rids |-> IF leaseOf[r] = t THEN NoOne ELSE leaseOf[r]]
        /\ stepIo' = [stepIo EXCEPT ![t] = 0]
        /\ stepConn' = [stepConn EXCEPT ![t] = 0]
        /\ stepAt' = [stepAt EXCEPT ![t] = "idle"]
        /\ stepAt[t] = "use" /\ UNCHANGED <<ioOf, registeredAs>>
    BY <1>10 DEF ReturnFromStep
  <2>2. /\ \A u \in StepThreads : /\ stepAt'[u] = IF u = t THEN "idle" ELSE stepAt[u]
                                  /\ stepConn'[u] = IF u = t THEN 0 ELSE stepConn[u]
                                  /\ stepIo'[u] = IF u = t THEN 0 ELSE stepIo[u]
        /\ \A c \in Connections : ioLock'[c] = IF c = stepConn[t] THEN NoOne ELSE ioLock[c]
    BY <2>1 DEF ScpiInv, ScpiTypeOK
  <2>3. LocksHeld'
    <3>1. \A u \in StepThreads : u # NoOne
      OBVIOUS
    <3>2. \A u \in StepThreads, c \in Connections :
            ioLock[c] = u <=> stepAt[u] = "use" /\ stepConn[u] = c
      BY DEF ScpiInv, LocksHeld
    <3> QED
      BY <1>0, <1>1, <2>1, <2>2, <3>1, <3>2 DEF LocksHeld
  <2>4. ScpiTypeOK'
    <3>1. \A u \in StepThreads : stepAt'[u] = "use" => stepConn'[u] \in Connections
      BY <2>2, StepHas DEF Entered
    <3>2. \A u \in StepThreads : stepAt'[u] = "use" <=> \E c \in Connections : ioLock'[c] = u
      BY <2>3, <3>1 DEF LocksHeld
    <3>3. ioLock' \in [Connections -> StepThreads \cup {NoOne}]
      BY <2>1 DEF ScpiInv, ScpiTypeOK
    <3>4. /\ stepAt' \in [StepThreads -> {"idle", "check", "register", "acquire", "lock", "use"}]
          /\ leaseOf' \in [Rids -> StepThreads \cup {NoOne}]
          /\ stepConn' \in [StepThreads -> 0..everOpened]
          /\ stepIo' \in [StepThreads -> 0..everOpened]
      BY <2>1 DEF ScpiInv, ScpiTypeOK
    <3> QED
      BY <1>1, <2>1, <3>2, <3>3, <3>4 DEF ScpiInv, ScpiTypeOK
  <2>5. StepsPooled' /\ IdsPooled'
    BY <1>1, <2>1, <2>2 DEF ScpiInv, StepsPooled, IdsPooled, Entered
  <2>6. LeasesHeld'
    BY <1>1, <2>1, <2>2 DEF ScpiInv, LeasesHeld, Rid
  <2>7. StrangersAway'
    BY <1>1, <2>1, <2>2 DEF ScpiInv, StrangersAway
  <2> QED
    BY <1>3, <1>4, <2>3, <2>4, <2>5, <2>6, <2>7 DEF ScpiInv
<1> QED
  BY <1>5, <1>6, <1>7, <1>8, <1>9, <1>10

\* The end of a workflow closes connections that no step is using.
LEMMA PostWorkflowKeeps ==
  ASSUME ScpiInv, NEW w \in Workflows, PostWorkflow(w)
  PROVE  ScpiInv'
<1> USE ScpiBoundsAssumption, ScpiNamesAssumption
<1> DEFINE closed == Unreferenced(w)
<1>1. /\ \A t \in StepThreads : WorkflowOf[t] = w => stepAt[t] = "idle"
      /\ refs' = [c \in Connections |-> IF c \in closed THEN {} ELSE refs[c] \ {w}]
      /\ pool' = [k \in Keys |-> IF pool[k] \in closed THEN 0 ELSE pool[k]]
      /\ ioOf' = [r \in Rids |-> IF r \in Unregistered(closed) THEN 0 ELSE ioOf[r]]
      /\ UNCHANGED <<everOpened, registeredAs, leaseOf, ioLock>>
      /\ UNCHANGED <<stepCalls, stepAt, stepConfig, stepConn, stepIo>>
  BY DEF PostWorkflow, threadVars
<1>2. closed \subseteq Pooled /\ \A c \in Pooled : c \in closed <=> refs[c] \subseteq {w}
  BY DEF Unreferenced
<1>3. \A t \in StepThreads : Entered(t) => stepConn[t] \in Pooled /\ stepConn[t] \notin closed
  <2>1. ASSUME NEW t \in StepThreads, Entered(t)
        PROVE  stepConn[t] \in Pooled /\ stepConn[t] \notin closed
    <3>1. stepConn[t] \in Pooled /\ stepConn[t] # 0
      BY <2>1, StepHas DEF Pooled
    <3>2. WorkflowOf[t] \in refs[stepConn[t]] /\ WorkflowOf[t] # w
      BY <1>1, <2>1, <3>1 DEF ScpiInv, ReferencesExact, Entered
    <3> QED
      BY <1>2, <3>1, <3>2
  <2> QED
    BY <2>1
<1> HIDE DEF closed
<1>4. \A k \in Keys : pool[k] # 0 /\ pool[k] \notin closed => pool'[k] = pool[k]
  BY <1>1
<1>5. ScpiTypeOK'
  <2>1. pool' \in [Keys -> 0..everOpened] /\ ioOf' \in [Rids -> 0..everOpened]
    BY <1>1 DEF ScpiInv, ScpiTypeOK
  <2>2. refs' \in [Connections -> SUBSET Workflows]
    BY <1>1 DEF ScpiInv, ScpiTypeOK
  <2> QED
    BY <1>1, <2>1, <2>2 DEF ScpiInv, ScpiTypeOK
<1>6. PoolInjective'
  BY <1>1 DEF ScpiInv, PoolInjective
<1>7. StepsPooled'
  <2>1. ASSUME NEW t \in StepThreads, Entered(t)
        PROVE  pool'[stepConfig[t].key] = pool[stepConfig[t].key]
    <3>1. stepConn[t] = pool[stepConfig[t].key] /\ stepConn[t] # 0 /\ stepConfig[t].key \in Keys
      BY <2>1, StepHas DEF ScpiInv, StepsPooled
    <3> QED
      BY <1>3, <1>4, <2>1, <3>1
  <2> QED
    BY <1>1, <2>1 DEF ScpiInv, StepsPooled, Entered
<1>8. LocksHeld' /\ LeasesHeld'
  BY <1>1 DEF ScpiInv, LocksHeld, LeasesHeld, Rid
<1>9. IdsPooled'
  <2>1. ASSUME NEW d \in Configs, Own(d), ioOf'[d.rid] # 0
        PROVE  ioOf'[d.rid] = pool'[d.key] /\ registeredAs[pool'[d.key]] = d.rid
    <3>1. d.rid \in Rids /\ d.key \in Keys
      BY DEF Rids, Keys
    <3>2. ioOf'[d.rid] = ioOf[d.rid] /\ ioOf[d.rid] # 0 /\ d.rid \notin Unregistered(closed)
      BY <1>1, <2>1, <3>1
    <3>3. ioOf[d.rid] = pool[d.key] /\ registeredAs[pool[d.key]] = d.rid
      BY <2>1, <3>2 DEF ScpiInv, IdsPooled
    <3>4. pool[d.key] \notin closed
      <4>1. SUFFICES ASSUME pool[d.key] \in closed PROVE FALSE
        OBVIOUS
      <4>2. leaseOf[d.rid] \in StepThreads
        BY <3>1, <3>2, <3>3, <4>1 DEF Unregistered, ScpiInv, ScpiTypeOK
      <4>3. PICK t \in StepThreads : leaseOf[d.rid] = t
        BY <4>2
      <4>4. Entered(t) /\ Rid(t) = d.rid
        BY <3>1, <4>3 DEF ScpiInv, LeasesHeld, Entered
      <4>5. stepConfig[t].key = d.key
        BY <2>1, <4>4, StepHas DEF Own, Rid
      <4>6. stepConn[t] = pool[d.key]
        BY <4>4, <4>5 DEF ScpiInv, StepsPooled
      <4> QED
        BY <1>3, <4>1, <4>4, <4>6
    <3> QED
      BY <1>4, <3>1, <3>2, <3>3, <3>4
  <2> QED
    BY <1>1, <2>1 DEF IdsPooled
<1>10. Pooled' = Pooled \ closed
  <2>1. \A c \in Pooled' : c \in Pooled \ closed
    BY <1>1 DEF Pooled
  <2>2. \A c \in Pooled \ closed : c \in Pooled'
    BY <1>1 DEF Pooled
  <2> QED
    BY <2>1, <2>2
<1>11. ReferencesExact'
  <2>1. Pooled \subseteq Connections
    BY DEF ScpiInv, ScpiTypeOK, Pooled, Connections
  <2>2. \A c \in Pooled' : refs'[c] # {}
    BY <1>1, <1>2, <1>10, <2>1
  <2>3. \A c \in Connections \ Pooled' : refs'[c] = {}
    BY <1>1, <1>10 DEF ScpiInv, ReferencesExact
  <2>4. ASSUME NEW t \in StepThreads, stepConn[t] # 0
        PROVE  WorkflowOf[t] \in refs'[stepConn[t]]
    <3>1. Entered(t)
      BY <2>4 DEF ScpiInv, StepsPooled
    <3>2. WorkflowOf[t] \in refs[stepConn[t]] /\ WorkflowOf[t] # w
      BY <1>1, <2>4, <3>1 DEF ScpiInv, ReferencesExact, Entered
    <3> QED
      BY <1>1, <1>3, <2>1, <3>1, <3>2
  <2> QED
    BY <1>1, <2>2, <2>3, <2>4 DEF ReferencesExact
<1>12. StrangersAway'
  <2>1. /\ \A k \in Keys : pool'[k] \in {0, pool[k]}
        /\ \A r \in Rids : ioOf'[r] \in {0, ioOf[r]}
    BY <1>1
  <2>2. \A d \in Configs : d.key \in Keys
    BY DEF Keys
  <2> QED
    BY <1>1, <2>1, <2>2 DEF ScpiInv, StrangersAway
<1> QED
  BY <1>5, <1>6, <1>7, <1>8, <1>9, <1>11, <1>12 DEF ScpiInv

LEMMA ScpiStarts == ScpiInit => ScpiInv
<1> SUFFICES ASSUME ScpiInit PROVE ScpiInv
  OBVIOUS
<1> USE ScpiBoundsAssumption, ScpiNamesAssumption DEF ScpiInit
<1>1. Pooled = {}
  BY DEF Pooled
<1>2. ScpiTypeOK
  BY DEF ScpiTypeOK
<1>3. \A r \in Rids : ioOf[r] = 0 /\ leaseOf[r] \notin StepThreads
  OBVIOUS
<1>4. IdsPooled
  BY <1>3 DEF IdsPooled, Rids
<1>5. StrangersAway
  BY DEF StrangersAway, Keys
<1> QED
  BY <1>1, <1>2, <1>3, <1>4, <1>5
     DEF ScpiInv, PoolInjective, StepsPooled, LocksHeld, LeasesHeld, ReferencesExact, Entered

\* Steps of any number of workflows and threads never use one connection at once,
\* and a connection stays exactly as long as a workflow refers to it.  Whatever ids
\* the steps name, one whose id is its own talks to the IO of its connection, to which
\* no other step talks meanwhile, and never to one that is closed
\* (ScpiStepPlugin.cpp:39-40, 85-119, 131-149, 172-208).
THEOREM ConnectionsAreSound == ScpiSpec => []ConnectionsSound
<1>1. ScpiInv /\ [ScpiNext]_scpiVars => ScpiInv'
  <2> SUFFICES ASSUME ScpiInv, [ScpiNext]_scpiVars PROVE ScpiInv'
    OBVIOUS
  <2>1. ASSUME NEW t \in StepThreads, ExecuteStep(t) PROVE ScpiInv'
    BY <2>1, ReuseKeeps, OpenKeeps, PlaceKeeps DEF ExecuteStep
  <2>2. ASSUME NEW w \in Workflows, PostWorkflow(w) PROVE ScpiInv'
    BY <2>2, PostWorkflowKeeps
  <2>3. CASE UNCHANGED scpiVars
    <3>1. /\ UNCHANGED <<pool, everOpened, refs, registeredAs, ioOf, leaseOf, ioLock>>
          /\ UNCHANGED <<stepCalls, stepAt, stepConfig, stepConn, stepIo>>
      BY <2>3 DEF scpiVars, poolVars, managerVars, threadVars
    <3>2. ScpiTypeOK' /\ PoolInjective' /\ StepsPooled' /\ LocksHeld'
      BY <3>1 DEF ScpiInv, ScpiTypeOK, PoolInjective, StepsPooled, LocksHeld, Entered
    <3>3. IdsPooled' /\ StrangersAway' /\ LeasesHeld' /\ ReferencesExact'
      BY <3>1 DEF ScpiInv, IdsPooled, StrangersAway, LeasesHeld, ReferencesExact, Rid, Pooled
    <3> QED
      BY <3>2, <3>3 DEF ScpiInv
  <2> QED
    BY <2>1, <2>2, <2>3 DEF ScpiNext
<1>2. ScpiInv => ConnectionsSound
  <2> SUFFICES ASSUME ScpiInv PROVE ConnectionsSound
    OBVIOUS
  <2>1. IoSerialized
    <3>1. ASSUME NEW t \in StepThreads, NEW u \in StepThreads, t # u,
                 stepAt[t] = "use", stepAt[u] = "use"
          PROVE  stepConn[t] # stepConn[u]
      BY <3>1, StepHas DEF ScpiInv, LocksHeld, Entered
    <3>2. ASSUME NEW t \in StepThreads, NEW u \in StepThreads, t # u,
                 stepAt[t] = "use", stepAt[u] = "use", Own(stepConfig[t])
          PROVE  stepIo[t] # stepIo[u]
      <4>1. /\ stepIo[t] = stepConn[t] /\ stepConn[t] = pool[stepConfig[t].key]
            /\ stepConn[u] = pool[stepConfig[u].key] /\ stepConn[t] # 0
            /\ stepConfig[t] \in Configs
        BY <3>2, StepHas DEF ScpiInv, StepsPooled, Entered
      <4>2. stepConfig[u].key # stepConfig[t].key
        BY <3>1, <3>2, <4>1
      <4> QED
        BY <3>2, <4>1, <4>2 DEF ScpiInv, StrangersAway
    <3> QED
      BY <3>1, <3>2 DEF IoSerialized
  <2>2. IoAlive
    <3>1. ASSUME NEW t \in StepThreads
          PROVE  /\ stepConn[t] # 0 => stepConn[t] \in Pooled
                 /\ Own(stepConfig[t]) => stepIo[t] \in {0, stepConn[t]}
      BY StepHas DEF ScpiInv, StepsPooled
    <3>2. \A d \in Configs : Own(d) => ioOf[d.rid] \in {0, pool[d.key]}
      BY DEF ScpiInv, IdsPooled
    <3> QED
      BY <3>1, <3>2 DEF IoAlive
  <2> QED
    BY <2>1, <2>2 DEF ConnectionsSound, ScpiInv
<1> QED
  BY <1>1, <1>2, ScpiStarts, PTL DEF ScpiSpec

-------------------------------------------------------------------------------
(* The virtual bus *)

Places == {"out", "asleep", "waiting", "woken"}

\* Frames are queued in the order they came, none before it came.
QueueOrdered ==
  /\ receiveQueue \in Seq(Nat)
  /\ \A i \in 1..Len(receiveQueue) : receiveQueue[i] <= sent
  /\ \A i \in 1..Len(receiveQueue) - 1 : receiveQueue[i] < receiveQueue[i + 1]

VbBooleans ==
  /\ vbInitialized \in BOOLEAN /\ vbOpened \in BOOLEAN /\ delayed \in BOOLEAN
  /\ overrun \in BOOLEAN /\ replayMoved \in BOOLEAN
  /\ shuttingDown \in BOOLEAN /\ mutexHeld \in BOOLEAN

VbRanges ==
  /\ sent \in 0..MaxSent /\ replayLen \in Nat /\ replayIndex \in 0..replayLen
  /\ forever \subseteq Receivers /\ place \in [Receivers -> Places]

\* Only a delay between the frames of a replay lets a receiver sleep, and the frame it
\* sleeps before is there, unless the replay is moved on meanwhile.
SleepNeedsDelay ==
  \A r \in Receivers : place[r] = "asleep" => delayed /\ (Replaying \/ replayMoved)

VbInv ==
  /\ VbBooleans /\ VbRanges /\ QueueOrdered /\ SleepNeedsDelay
  /\ NoFrameMissed /\ NoneWaitsOnClosed /\ ReplayInBounds

\* The receivers on their way are finitely many: one more or one less.
LEMMA WokenCount ==
  ASSUME NEW r \in Receivers
  PROVE  /\ Cardinality(VbWoken) \in Nat /\ Cardinality(VbWoken \ {r}) \in Nat
         /\ Cardinality(VbWoken \cup {r}) =
              IF r \in VbWoken THEN Cardinality(VbWoken) ELSE Cardinality(VbWoken) + 1
         /\ Cardinality(VbWoken \ {r}) =
              IF r \in VbWoken THEN Cardinality(VbWoken) - 1 ELSE Cardinality(VbWoken)
<1>1. IsFiniteSet(VbWoken)
  BY ReceiversAssumption, FS_Subset DEF VbWoken
<1>2. IsFiniteSet(VbWoken \ {r})
  BY <1>1, FS_Subset
<1> HIDE DEF VbWoken
<1> QED
  BY <1>1, <1>2, FS_CardinalityType, FS_AddElement, FS_RemoveElement

\* A receiver goes somewhere.
LEMMA VbMoves ==
  ASSUME VbRanges, NEW r \in Receivers, NEW to \in Places,
         place' = [place EXCEPT ![r] = to]
  PROVE  /\ place' \in [Receivers -> Places]
         /\ VbWoken' = IF to = "woken" THEN VbWoken \cup {r} ELSE VbWoken \ {r}
         /\ VbWaiting' = IF to = "waiting" THEN VbWaiting \cup {r} ELSE VbWaiting \ {r}
         /\ \A q \in Receivers : place'[q] = IF q = r THEN to ELSE place[q]
BY DEF VbRanges, VbWoken, VbWaiting, Places

LEMMA EmptyOrdered ==
  ASSUME receiveQueue' = <<>>
  PROVE  QueueOrdered' /\ Len(receiveQueue') = 0
BY DEF QueueOrdered

\* A frame less, from the front.
LEMMA TailOrdered ==
  ASSUME QueueOrdered, receiveQueue # <<>>, VbRanges,
         receiveQueue' = Tail(receiveQueue), sent' = sent
  PROVE  QueueOrdered' /\ Len(receiveQueue') = Len(receiveQueue) - 1
<1>1. /\ receiveQueue' \in Seq(Nat) /\ Len(receiveQueue') = Len(receiveQueue) - 1
      /\ \A i \in 1..Len(receiveQueue') : receiveQueue'[i] = receiveQueue[i + 1]
      /\ Len(receiveQueue) \in Nat
  BY DEF QueueOrdered
<1>2. \A i \in 1..Len(receiveQueue') : receiveQueue'[i] <= sent
  BY <1>1 DEF QueueOrdered
<1>3. \A i \in 1..Len(receiveQueue') - 1 : receiveQueue'[i] < receiveQueue'[i + 1]
  BY <1>1 DEF QueueOrdered
<1> QED
  BY <1>1, <1>2, <1>3 DEF QueueOrdered

\* Neither the receivers, nor the queue, nor the replay are touched, or the replay
\* starts anew.
LEMMA SwitchKeeps ==
  ASSUME VbInv, VbInitialize \/ VbOpen \/ VbShutdown \/ Flush \/ SetReplay \/ UNCHANGED vbVars
  PROVE  VbInv'
<1> USE VirtualBoundsAssumption DEF replayVars, bufferVars, callVars, switchVars
<1>1. /\ UNCHANGED <<sent, place, forever, delayed, overrun>> /\ VbBooleans'
      /\ receiveQueue' = receiveQueue \/ receiveQueue' = <<>>
      /\ vbOpened => vbOpened'
  BY Zenon DEF VbInitialize, VbOpen, VbShutdown, Flush, SetReplay, MovesReplay,
               vbVars, VbInv, VbBooleans
<1>2. VbRanges'
  <2>1. \/ replayLen' = replayLen /\ replayIndex' = replayIndex
        \/ replayLen' \in 0..MaxReplay /\ replayIndex' = 0
    BY Zenon DEF VbInitialize, VbOpen, VbShutdown, Flush, SetReplay, vbVars
  <2> QED
    BY <1>1, <2>1 DEF VbInv, VbRanges
<1>3. QueueOrdered' /\ Len(receiveQueue') <= Len(receiveQueue)
  <2>1. Len(receiveQueue) \in Nat
    BY DEF VbInv, QueueOrdered
  <2>2. CASE receiveQueue' = receiveQueue
    <3>1. sent' = sent /\ QueueOrdered
      BY <1>1 DEF VbInv
    <3> QED
      BY <2>1, <2>2, <3>1 DEF QueueOrdered
  <2>3. CASE receiveQueue' = <<>>
    BY <2>1, <2>3, EmptyOrdered
  <2> QED
    BY <1>1, <2>2, <2>3
<1>4. VbWoken' = VbWoken /\ VbWaiting' = VbWaiting
  BY <1>1 DEF VbWoken, VbWaiting
<1>5. NoFrameMissed'
  <2>1. Cardinality(VbWoken)' = Cardinality(VbWoken)
    BY <1>4
  <2>2. CASE VbWaiting = {}
    BY <1>4, <2>2 DEF NoFrameMissed
  <2>3. CASE VbWaiting # {}
    <3>1. PICK r \in Receivers : TRUE
      BY <2>3 DEF VbWaiting
    <3>2. Cardinality(VbWoken) \in Nat
      BY WokenCount
    <3>3. Len(receiveQueue') \in Nat /\ Len(receiveQueue) \in Nat
      BY <1>3 DEF VbInv, QueueOrdered
    <3> QED
      BY <1>3, <1>4, <2>1, <2>3, <3>2, <3>3 DEF VbInv, NoFrameMissed
  <2> QED
    BY <2>2, <2>3
<1>6. \/ UNCHANGED <<replayLen, replayIndex, replayMoved>>
      \/ replayMoved' = (replayMoved \/ \E r \in Receivers : place[r] = "asleep")
  BY DEF VbInitialize, VbOpen, VbShutdown, Flush, SetReplay, MovesReplay, vbVars
<1>7. SleepNeedsDelay' /\ NoneWaitsOnClosed' /\ ReplayInBounds'
  BY <1>1, <1>4, <1>6
     DEF VbInv, SleepNeedsDelay, NoneWaitsOnClosed, ReplayInBounds, Replaying
<1> QED
  BY <1>1, <1>2, <1>3, <1>5, <1>7 DEF VbInv

\* close lets everybody go.
LEMMA CloseKeeps ==
  ASSUME VbInv, VbClose
  PROVE  VbInv'
<1>1. /\ vbOpened' = FALSE /\ receiveQueue' = <<>> /\ replayIndex' = 0
      /\ place' = [r \in Receivers |-> IF r \in VbWaiting THEN "woken" ELSE place[r]]
      /\ UNCHANGED <<sent, overrun, forever, delayed, mutexHeld>>
      /\ replayMoved' = (replayMoved \/ \E r \in Receivers : place[r] = "asleep")
  BY DEF VbClose, WakeAll, MovesReplay
<1>2. VbBooleans'
  BY Zenon DEF VbClose, MovesReplay, VbInv, VbBooleans
<1>3. VbRanges'
  <2>1. replayLen' \in Nat
    BY DEF VbClose, VbInv, VbRanges
  <2> QED
    BY <1>1, <2>1 DEF VbInv, VbRanges, Places
<1>4. VbWaiting' = {}
  BY <1>1 DEF VbWaiting
<1>5. QueueOrdered'
  BY <1>1 DEF QueueOrdered
<1>6. SleepNeedsDelay'
  BY <1>1 DEF VbInv, SleepNeedsDelay, VbWaiting
<1> QED
  BY <1>1, <1>2, <1>3, <1>4, <1>5, <1>6
     DEF VbInv, NoFrameMissed, NoneWaitsOnClosed, ReplayInBounds

\* A frame that enters wakes a receiver, if one waits.
LEMMA EntersKeeps ==
  ASSUME VbInv, FrameEnters
  PROVE  VbInv'
<1> USE VirtualBoundsAssumption DEF switchVars, replayVars
<1>1. /\ sent < MaxSent /\ sent' = sent + 1
      /\ receiveQueue' = Append(receiveQueue, sent + 1) /\ WakeOne
      /\ UNCHANGED <<replayLen, replayIndex, overrun, replayMoved, forever>>
      /\ UNCHANGED <<vbInitialized, vbOpened, delayed, shuttingDown, mutexHeld>>
  BY DEF FrameEnters
<1>2. VbBooleans' /\ sent' \in 0..MaxSent
  BY <1>1 DEF VbInv, VbBooleans, VbRanges
<1>3. /\ Len(receiveQueue) \in Nat /\ Len(receiveQueue') = Len(receiveQueue) + 1
      /\ receiveQueue' \in Seq(Nat) /\ receiveQueue'[Len(receiveQueue) + 1] = sent + 1
      /\ \A i \in 1..Len(receiveQueue) : receiveQueue'[i] = receiveQueue[i]
  BY <1>1 DEF VbInv, QueueOrdered, VbRanges
<1>4. QueueOrdered'
  <2>1. \A i \in 1..Len(receiveQueue) : receiveQueue[i] \in Nat /\ receiveQueue[i] <= sent
    BY DEF VbInv, QueueOrdered
  <2>2. \A i \in 1..Len(receiveQueue') : receiveQueue'[i] <= sent'
    BY <1>1, <1>3, <2>1 DEF VbInv, VbRanges
  <2>3. \A i \in 1..Len(receiveQueue') - 1 : receiveQueue'[i] < receiveQueue'[i + 1]
    <3>1. SUFFICES ASSUME NEW i \in 1..Len(receiveQueue') - 1
                   PROVE  receiveQueue'[i] < receiveQueue'[i + 1]
      OBVIOUS
    <3>2. CASE i = Len(receiveQueue)
      BY <1>1, <1>3, <2>1, <3>2 DEF VbInv, VbRanges
    <3>3. CASE i # Len(receiveQueue)
      <4>1. i \in 1..Len(receiveQueue) - 1 /\ i + 1 \in 1..Len(receiveQueue)
        BY <1>3, <3>3
      <4>2. receiveQueue'[i] = receiveQueue[i] /\ receiveQueue'[i + 1] = receiveQueue[i + 1]
        <5>1. i \in 1..Len(receiveQueue)
          BY <1>3, <4>1
        <5> QED
          BY <1>3, <4>1, <5>1
      <4>3. receiveQueue[i] < receiveQueue[i + 1]
        BY <4>1 DEF VbInv, QueueOrdered
      <4> QED
        BY <4>2, <4>3
    <3> QED
      BY <3>2, <3>3
  <2> QED
    BY <1>3, <2>2, <2>3 DEF QueueOrdered
<1>5. CASE VbWaiting = {}
  <2>1. place' = place
    BY <1>1, <1>5 DEF WakeOne
  <2>2. VbWaiting' = {}
    BY <1>5, <2>1 DEF VbWaiting
  <2> QED
    BY <1>1, <1>2, <1>4, <2>1, <2>2
       DEF VbInv, VbRanges, SleepNeedsDelay, NoFrameMissed, NoneWaitsOnClosed, ReplayInBounds,
           Replaying
<1>6. CASE VbWaiting # {}
  <2>1. PICK r \in VbWaiting : place' = [place EXCEPT ![r] = "woken"]
    BY <1>1, <1>6 DEF WakeOne
  <2>2. r \in Receivers /\ place[r] = "waiting" /\ r \notin VbWoken
    BY DEF VbWaiting, VbWoken
  <2>3. /\ place' \in [Receivers -> Places]
        /\ VbWoken' = VbWoken \cup {r} /\ VbWaiting' = VbWaiting \ {r}
        /\ \A q \in Receivers : place'[q] = IF q = r THEN "woken" ELSE place[q]
    BY <2>1, <2>2, VbMoves DEF VbInv, Places
  <2>4. Cardinality(VbWoken') = Cardinality(VbWoken) + 1 /\ Cardinality(VbWoken) \in Nat
    BY <2>2, <2>3, WokenCount
  <2>5. NoFrameMissed'
    BY <1>3, <1>6, <2>4 DEF VbInv, NoFrameMissed
  <2>6. NoneWaitsOnClosed' /\ SleepNeedsDelay' /\ ReplayInBounds'
    BY <1>1, <2>3 DEF VbInv, NoneWaitsOnClosed, SleepNeedsDelay, ReplayInBounds, Replaying
  <2> QED
    BY <1>1, <1>2, <1>4, <2>3, <2>5, <2>6 DEF VbInv, VbRanges
<1> QED
  BY <1>5, <1>6

\* What the parts of receive do: replay a frame, take one, or wait.
LEMMA ReceiverKeeps ==
  ASSUME VbInv, NEW r \in Receivers, VbReceive(r) \/ VbReceiving(r)
  PROVE  VbInv'
<1> USE DEF replayVars, bufferVars, switchVars, VbGoes
<1>1. PICK to \in Places : place' = [place EXCEPT ![r] = to]
  BY DEF VbReceive, VbReceiving, Replay, TakeFirst, Wakes, WaitTimesOut, AfterWait, Places
<1>2. /\ UNCHANGED <<vbInitialized, vbOpened, delayed, shuttingDown, mutexHeld, sent, replayLen>>
      /\ forever' \subseteq Receivers
  BY DEF VbReceive, VbReceiving, Replay, TakeFirst, Wakes, WaitTimesOut, AfterWait,
         VbInv, VbRanges
<1>3. /\ place' \in [Receivers -> Places]
      /\ VbWoken' = IF to = "woken" THEN VbWoken \cup {r} ELSE VbWoken \ {r}
      /\ VbWaiting' = IF to = "waiting" THEN VbWaiting \cup {r} ELSE VbWaiting \ {r}
      /\ \A q \in Receivers : place'[q] = IF q = r THEN to ELSE place[q]
  BY <1>1, VbMoves DEF VbInv
<1>4. /\ Cardinality(VbWoken) \in Nat /\ Cardinality(VbWoken \ {r}) \in Nat
      /\ Cardinality(VbWoken \cup {r}) =
           IF r \in VbWoken THEN Cardinality(VbWoken) ELSE Cardinality(VbWoken) + 1
      /\ Cardinality(VbWoken \ {r}) =
           IF r \in VbWoken THEN Cardinality(VbWoken) - 1 ELSE Cardinality(VbWoken)
  BY WokenCount
<1>5. /\ overrun' \in BOOLEAN /\ replayMoved' \in BOOLEAN
      /\ overrun' => overrun \/ (delayed /\ replayMoved)
      /\ replayMoved => replayMoved'
      /\ \/ replayIndex' = replayIndex /\ replayMoved' = replayMoved
         \/ \A q \in Receivers \ {r} : place[q] = "asleep" => replayMoved'
  <2>1. overrun' \in BOOLEAN /\ replayMoved' \in BOOLEAN
    BY Zenon DEF VbReceive, VbReceiving, Replay, TakeFirst, Wakes, WaitTimesOut, AfterWait,
                 MovesReplay, VbInv, VbBooleans
  <2>2. \/ replayIndex' = replayIndex /\ overrun' = overrun /\ replayMoved' = replayMoved
        \/ /\ overrun' = (overrun \/ replayIndex >= replayLen)
           /\ replayMoved' = (replayMoved \/ \E q \in Receivers \ {r} : place[q] = "asleep")
           /\ Replaying \/ (delayed /\ replayMoved)
    BY DEF VbReceive, VbReceiving, TakeFirst, Wakes, WaitTimesOut, AfterWait, Replay,
           MovesReplay, VbInv, SleepNeedsDelay
  <2>3. Replaying => ~(replayIndex >= replayLen)
    BY DEF Replaying, VbInv, VbRanges
  <2>4. replayMoved => replayMoved'
    BY <2>2, Zenon
  <2>5. \/ replayIndex' = replayIndex /\ replayMoved' = replayMoved
        \/ \A q \in Receivers \ {r} : place[q] = "asleep" => replayMoved'
    BY <2>2, Zenon
  <2>6. overrun' => overrun \/ (delayed /\ replayMoved)
    <3>1. CASE overrun' = overrun
      BY <3>1
    <3>2. CASE /\ overrun' = (overrun \/ replayIndex >= replayLen)
               /\ Replaying \/ (delayed /\ replayMoved)
      BY <2>3, <3>2, Zenon
    <3> QED
      BY <2>2, <3>1, <3>2, Zenon
  <2> QED
    BY <2>1, <2>4, <2>5, <2>6, Zenon
<1>6. replayIndex' \in 0..replayLen
  BY DEF VbReceive, VbReceiving, Replay, TakeFirst, Wakes, WaitTimesOut, AfterWait,
         VbInv, VbRanges
<1>7. /\ to = "asleep" => delayed /\ Replaying /\ replayIndex' = replayIndex
      /\ to = "waiting" => vbOpened /\ receiveQueue = <<>> /\ receiveQueue' = <<>>
      /\ to = "woken" => receiveQueue' = receiveQueue /\ r \in VbWaiting
  BY <1>1 DEF VbReceive, VbReceiving, Replay, TakeFirst, Wakes, WaitTimesOut, AfterWait,
         VbInv, VbRanges
<1>8. \/ receiveQueue' = receiveQueue /\ r \notin VbWoken
      \/ receiveQueue' = Tail(receiveQueue) /\ receiveQueue # <<>>
      \/ receiveQueue' = <<>>
  BY DEF VbReceive, VbReceiving, Replay, TakeFirst, Wakes, WaitTimesOut, AfterWait,
         VbWoken, VbWaiting
<1>9. QueueOrdered' /\ Len(receiveQueue') \in Nat /\ Len(receiveQueue) \in Nat
  <2>1. Len(receiveQueue) \in Nat
    BY DEF VbInv, QueueOrdered
  <2>2. CASE receiveQueue' = receiveQueue
    BY <1>2, <2>1, <2>2 DEF VbInv, QueueOrdered
  <2>3. CASE receiveQueue' = Tail(receiveQueue) /\ receiveQueue # <<>>
    BY <1>2, <2>1, <2>3, TailOrdered DEF VbInv, QueueOrdered
  <2>4. CASE receiveQueue' = <<>>
    BY <2>1, <2>4, EmptyOrdered
  <2> QED
    BY <1>8, <2>2, <2>3, <2>4
<1>10. NoFrameMissed'
  <2>1. CASE to = "waiting"
    <3>1. VbWoken' = VbWoken \ {r}
      BY <1>3, <2>1
    <3> QED
      BY <1>4, <1>7, <2>1, <3>1, EmptyOrdered DEF NoFrameMissed
  <2>2. CASE to # "waiting"
    <3>1. VbWaiting' # {} => VbWaiting # {}
      BY <1>3, <2>2
    <3>2. CASE receiveQueue' = receiveQueue /\ r \notin VbWoken
      BY <1>3, <1>4, <1>9, <3>1, <3>2 DEF VbInv, NoFrameMissed
    <3>3. CASE receiveQueue' = Tail(receiveQueue) /\ receiveQueue # <<>>
      <4>1. Len(receiveQueue') = Len(receiveQueue) - 1
        BY <1>2, <3>3, TailOrdered DEF VbInv
      <4> QED
        BY <1>3, <1>4, <1>9, <3>1, <4>1 DEF VbInv, NoFrameMissed
    <3>4. CASE receiveQueue' = <<>>
      <4>1. Cardinality(VbWoken)' \in Nat
        BY <1>3, <1>4
      <4> QED
        BY <3>4, <4>1, EmptyOrdered DEF NoFrameMissed
    <3> QED
      BY <1>8, <3>2, <3>3, <3>4
  <2> QED
    BY <2>1, <2>2
<1>11. SleepNeedsDelay'
  <2>1. ASSUME NEW q \in Receivers, place'[q] = "asleep"
        PROVE  delayed' /\ (Replaying' \/ replayMoved')
    <3>1. CASE q = r
      BY <1>2, <1>3, <1>7, <2>1, <3>1 DEF Replaying
    <3>2. CASE q # r
      <4>1. place[q] = "asleep" /\ delayed /\ (Replaying \/ replayMoved)
        BY <1>3, <2>1, <3>2 DEF VbInv, SleepNeedsDelay
      <4> QED
        BY <1>2, <1>5, <3>2, <4>1 DEF Replaying
    <3> QED
      BY <3>1, <3>2
  <2> QED
    BY <2>1 DEF SleepNeedsDelay
<1>12. NoneWaitsOnClosed' /\ ReplayInBounds'
  BY <1>2, <1>3, <1>5, <1>7 DEF VbInv, NoneWaitsOnClosed, ReplayInBounds
<1> QED
  BY <1>2, <1>3, <1>5, <1>6, <1>9, <1>10, <1>11, <1>12 DEF VbInv, VbBooleans, VbRanges

\* No receiver sleeps through a frame or on a bus that was closed, and a replay
\* stays in its list but where it is moved on under a receiver that sleeps, for any number of receivers, frames and
\* openings (VirtualBusDriver.cpp:62-69, 94-98, 107-152).
THEOREM VirtualBusIsSound == VbSpec => []VirtualSound
<1>1. VbInit => VbInv
  <2> SUFFICES ASSUME VbInit PROVE VbInv
    OBVIOUS
  <2> USE VirtualBoundsAssumption
  <2>1. VbBooleans
    BY Zenon DEF VbInit, VbBooleans
  <2>2. VbRanges /\ QueueOrdered /\ VbWaiting = {}
    BY DEF VbInit, VbRanges, QueueOrdered, Places, VbWaiting
  <2> QED
    BY <2>1, <2>2 DEF VbInit, VbInv, SleepNeedsDelay, NoFrameMissed, NoneWaitsOnClosed,
                      ReplayInBounds
<1>2. VbInv /\ [VbNext]_vbVars => VbInv'
  BY SwitchKeeps, CloseKeeps, EntersKeeps, ReceiverKeeps DEF VbNext
<1>3. VbInv => VirtualSound
  <2> SUFFICES ASSUME VbInv PROVE VirtualSound
    OBVIOUS
  <2>1. {vbInitialized, vbOpened, delayed, overrun, replayMoved, shuttingDown, mutexHeld}
          \subseteq BOOLEAN
    BY Zenon DEF VbInv, VbBooleans
  <2>2. VbTypeOK
    BY <2>1 DEF VbInv, VbRanges, QueueOrdered, VbTypeOK, Places
  <2> QED
    BY <2>2 DEF VbInv, VirtualSound
<1> QED
  BY <1>1, <1>2, <1>3, PTL DEF VbSpec

-------------------------------------------------------------------------------
LEMMA LeastOf ==
  ASSUME NEW T, T \subseteq Nat, T # {}
  PROVE  \E x \in T : \A y \in T : x <= y
<1> DEFINE R == {ss \in Nat \X Nat : ss[1] < ss[2]}
<1>1. IsWellFoundedOn(R, Nat)
  BY NatLessThanWellFounded, Zenon DEF OpToRel
<1>2. PICK x \in T : \A y \in T : ~ (<<y, x>> \in R)
  BY <1>1, WFMin, Zenon
<1>3. ASSUME NEW y \in T PROVE x <= y
  <2>1. x \in Nat /\ y \in Nat /\ <<y, x>> \in Nat \X Nat
    OBVIOUS
  <2>2. <<y, x>> \notin R
    BY <1>2, Zenon
  <2>3. ~ (y < x)
    BY <2>1, <2>2
  <2> QED
    BY <2>1, <2>3
<1> QED
  BY <1>3, Zenon

LEMMA SetInduction ==
  ASSUME NEW S, 0 \in S, \A n \in Nat : n \in S => n + 1 \in S
  PROVE  \A n \in Nat : n \in S
<1> SUFFICES ASSUME NEW m \in Nat, m \notin S PROVE FALSE
  OBVIOUS
<1> DEFINE T == {n \in Nat : n \notin S}
<1>1. PICK x \in T : \A y \in T : x <= y
  BY LeastOf
<1>2. x # 0 /\ x - 1 \in Nat
  BY <1>1
<1>3. x - 1 \in S
  BY <1>1, <1>2
<1> QED
  BY <1>2, <1>3

\* What a load has kept of the first n files.
KeptUpTo(f, fails, n) ==
  f = [i \in 0..n |-> IF i = 0 THEN << >>
                      ELSE IF Directory[i] \in fails THEN f[i - 1]
                      ELSE Append(f[i - 1], Directory[i])]

LEMMA KeptExists ==
  ASSUME NEW fails
  PROVE  \A n \in Nat : \E f : KeptUpTo(f, fails, n)
<1> DEFINE S == {n \in Nat : \E f : KeptUpTo(f, fails, n)}
<1>1. 0 \in S
  <2>1. KeptUpTo([i \in 0..0 |-> << >>], fails, 0)
    BY DEF KeptUpTo
  <2> QED
    BY <2>1
<1>2. ASSUME NEW n \in Nat, n \in S PROVE n + 1 \in S
  <2>1. PICK f : KeptUpTo(f, fails, n)
    BY <1>2
  <2> DEFINE next(h, i) == IF i = 0 THEN << >>
                           ELSE IF Directory[i] \in fails THEN h[i - 1]
                           ELSE Append(h[i - 1], Directory[i])
             g == [i \in 0..n + 1 |-> IF i = n + 1 THEN next(f, i) ELSE f[i]]
  <2>2. \A i \in 0..n : f[i] = next(f, i)
    BY <2>1 DEF KeptUpTo
  <2>3. \A i \in 0..n : g[i] = f[i]
    OBVIOUS
  <2>4. g[n + 1] = next(f, n + 1)
    OBVIOUS
  <2>5. ASSUME NEW i \in 0..n + 1 PROVE g[i] = next(g, i)
    <3>1. CASE i = 0
      BY <3>1, <2>2, <2>3
    <3>2. CASE i # 0
      <4>1. i - 1 \in 0..n
        BY <3>2
      <4>2. g[i - 1] = f[i - 1]
        BY <4>1, <2>3
      <4>3. g[i] = next(f, i)
        <5>1. CASE i = n + 1
          BY <5>1, <2>4
        <5>2. CASE i # n + 1
          <6>1. i \in 0..n
            BY <5>2
          <6> QED
            BY <6>1, <2>2, <2>3
        <5> QED
          BY <5>1, <5>2
      <4> HIDE DEF g
      <4> QED
        BY <4>2, <4>3
    <3> QED
      BY <3>1, <3>2
  <2>6. DOMAIN g = 0..n + 1 /\ g = [i \in DOMAIN g |-> g[i]]
    OBVIOUS
  <2> HIDE DEF g
  <2>7. KeptUpTo(g, fails, n + 1)
    BY <2>5, <2>6, Zenon DEF KeptUpTo
  <2> QED
    BY <2>7
<1> HIDE DEF S
<1>3. \A n \in Nat : n \in S
  BY <1>1, <1>2, SetInduction
<1> QED
  BY <1>3 DEF S

LEMMA KeptAreGood ==
  ASSUME NEW fails, Directory \in Seq(Drivers)
  PROVE  Kept(fails) \in Seq(Drivers \ fails)
<1> DEFINE N == Len(Directory)
           k == CHOOSE f : KeptUpTo(f, fails, N)
           good == Seq(Drivers \ fails)
           S == {n \in Nat : n <= N => k[n] \in good}
<1>0. N \in Nat
  OBVIOUS
<1>1. KeptUpTo(k, fails, N)
  <2> HIDE DEF N
  <2> QED BY <1>0, KeptExists
<1>2. Kept(fails) = k[N]
  BY DEF Kept, KeptUpTo
<1>3. \A n \in 0..N : k[n] = IF n = 0 THEN << >>
                           ELSE IF Directory[n] \in fails THEN k[n - 1]
                           ELSE Append(k[n - 1], Directory[n])
  <2> HIDE DEF k, N
  <2> QED BY <1>1, <1>0 DEF KeptUpTo
<1> HIDE DEF k
<1>4. 0 \in S
  <2>1. k[0] = << >>
    BY <1>0, <1>3
  <2>2. << >> \in good
    OBVIOUS
  <2> QED
    BY <2>1, <2>2
<1>5. ASSUME NEW n \in Nat, n \in S PROVE n + 1 \in S
  <2> SUFFICES ASSUME n + 1 <= N PROVE k[n + 1] \in good
    OBVIOUS
  <2>1. k[n] \in good /\ Directory[n + 1] \in Drivers
    BY <1>0, <1>5
  <2>2. k[n + 1] = IF Directory[n + 1] \in fails THEN k[n]
                   ELSE Append(k[n], Directory[n + 1])
    BY <1>0, <1>3
  <2> QED
    BY <2>1, <2>2
<1> HIDE DEF S
<1>6. \A n \in Nat : n \in S
  BY <1>4, <1>5, SetInduction
<1>7. N \in S
  BY <1>6, <1>0
<1> QED
  BY <1>7, <1>2, <1>0 DEF S

(***************************************************************************)
(* The hardware layer.  Every driver in the list was initialized when it   *)
(* was put there, and unloadAll empties both; that is what makes the       *)
(* driver a bus finds, and so all that is in use, alive.                   *)
(***************************************************************************)
HwInv ==
  /\ HardwareSound
  /\ allDrivers \in Seq(Drivers) /\ ToSet(allDrivers) \subseteq initialized
  /\ loads \in Nat

LEMMA ToSetOfConcat ==
  ASSUME NEW S, NEW s \in Seq(S), NEW u \in Seq(S)
  PROVE  ToSet(s \o u) = ToSet(s) \cup ToSet(u)
<1>1. DOMAIN s = 1..Len(s) /\ DOMAIN u = 1..Len(u) /\ DOMAIN (s \o u) = 1..(Len(s) + Len(u))
  OBVIOUS
<1>2. \A i \in 1..Len(s) : (s \o u)[i] = s[i]
  OBVIOUS
<1>3. \A i \in 1..Len(u) : (s \o u)[Len(s) + i] = u[i]
  OBVIOUS
<1>4. ASSUME NEW x \in ToSet(s \o u) PROVE x \in ToSet(s) \cup ToSet(u)
  <2>1. PICK i \in 1..(Len(s) + Len(u)) : x = (s \o u)[i]
    BY <1>1 DEF ToSet
  <2>2. CASE i <= Len(s)
    BY <2>1, <2>2, <1>1, <1>2 DEF ToSet
  <2>3. CASE i > Len(s)
    <3>1. i - Len(s) \in 1..Len(u) /\ x = u[i - Len(s)]
      BY <2>1, <2>3
    <3> QED
      BY <3>1, <1>1 DEF ToSet
  <2> QED
    BY <2>2, <2>3, <2>1
<1>5. ASSUME NEW x \in ToSet(s) PROVE x \in ToSet(s \o u)
  <2>1. PICK i \in 1..Len(s) : x = s[i]
    BY <1>1 DEF ToSet
  <2>2. i \in 1..(Len(s) + Len(u)) /\ x = (s \o u)[i]
    BY <2>1, <1>2
  <2> QED
    BY <2>2, <1>1 DEF ToSet
<1>6. ASSUME NEW x \in ToSet(u) PROVE x \in ToSet(s \o u)
  <2>1. PICK i \in 1..Len(u) : x = u[i]
    BY <1>1 DEF ToSet
  <2>2. Len(s) + i \in 1..(Len(s) + Len(u)) /\ x = (s \o u)[Len(s) + i]
    BY <2>1, <1>3
  <2> QED
    BY <2>2, <1>1 DEF ToSet
<1> QED
  BY <1>4, <1>5, <1>6

\* The driver found for a type is one of the list.
LEMMA FoundIsLoaded ==
  ASSUME allDrivers \in Seq(Drivers), NEW type, DriverFor(type) # None
  PROVE  DriverFor(type) \in ToSet(allDrivers)
<1> DEFINE fit == {i \in DOMAIN allDrivers : TypeOf[allDrivers[i]] = type}
<1>1. fit # {} /\ DriverFor(type) = allDrivers[CHOOSE i \in fit : \A j \in fit : i <= j]
  BY DEF DriverFor
<1>2. fit \subseteq Nat
  OBVIOUS
<1>3. (CHOOSE i \in fit : \A j \in fit : i <= j) \in fit
  <2> HIDE DEF fit
  <2> QED
    BY <1>1, <1>2, LeastOf
<1> QED
  BY <1>1, <1>3 DEF ToSet

LEMMA HwInitially == HwInit => HwInv
<1> SUFFICES ASSUME HwInit PROVE HwInv
  OBVIOUS
<1> USE HardwareNamesAssumption DEF HwInit
<1>1. allDrivers \in Seq(Drivers) /\ ToSet(allDrivers) = {} /\ loads \in Nat
  BY DEF ToSet
<1>2. HwTypeOK
  BY <1>1 DEF HwTypeOK
<1>3. UsersHaveDrivers
  BY DEF UsersHaveDrivers
<1>4. BoundAreListed /\ LinksHaveBuses
  BY DEF BoundAreListed, LinksHaveBuses
<1> QED
  BY <1>1, <1>2, <1>3, <1>4 DEF HwInv, HardwareSound

\* What closing some of the buses does to what depends on them.
LEMMA ClosingKeeps ==
  ASSUME HwInv, NEW bs \in SUBSET Buses, Closing(bs)
  PROVE  /\ link' \in [Drivers -> Buses \cup {None}]
         /\ buses' \in [Buses -> Drivers \cup {None}]
         /\ bound' \in [Buses -> SUBSET Protocols]
         /\ boundTo' \in [Protocols -> Drivers \cup {None}]
         /\ \A b \in Buses : buses'[b] \in {buses[b], None}
         /\ \A p \in Protocols : boundTo'[p] \in {boundTo[p], None}
         /\ BoundAreListed' /\ LinksHaveBuses'
         /\ bs = Buses => /\ \A b \in Buses : buses'[b] = None
                          /\ \A p \in Protocols : boundTo'[p] = None
<1> USE HardwareNamesAssumption
<1>1. /\ link \in [Drivers -> Buses \cup {None}] /\ buses \in [Buses -> Drivers \cup {None}]
      /\ bound \in [Buses -> SUBSET Protocols] /\ boundTo \in [Protocols -> Drivers \cup {None}]
  BY DEF HwInv, HardwareSound, HwTypeOK
<1>2. /\ boundTo' = [p \in Protocols |-> IF \E b \in bs : p \in bound[b] THEN None ELSE boundTo[p]]
      /\ bound' = [b \in Buses |-> IF b \in bs THEN {} ELSE bound[b]]
      /\ link' = [d \in Drivers |-> IF \E b \in bs : buses[b] = d THEN None ELSE link[d]]
      /\ buses' = [b \in Buses |-> IF b \in bs THEN None ELSE buses[b]]
  BY DEF Closing, Unbound, ClosedLinks
<1>3. /\ link' \in [Drivers -> Buses \cup {None}] /\ buses' \in [Buses -> Drivers \cup {None}]
      /\ bound' \in [Buses -> SUBSET Protocols] /\ boundTo' \in [Protocols -> Drivers \cup {None}]
  BY <1>1, <1>2
<1>4. ASSUME NEW p \in Protocols, boundTo'[p] # None
      PROVE  \E b \in Buses \ bs : buses'[b] = boundTo'[p] /\ p \in bound'[b]
  <2>1. boundTo'[p] = boundTo[p] /\ \A b \in bs : p \notin bound[b]
    BY <1>2, <1>4
  <2>2. PICK b \in Buses : buses[b] = boundTo[p] /\ p \in bound[b]
    BY <2>1, <1>4 DEF HwInv, HardwareSound, BoundAreListed
  <2>3. b \notin bs
    BY <2>1, <2>2
  <2> QED
    BY <2>1, <2>2, <2>3, <1>2
<1>5. ASSUME NEW d \in Drivers, link'[d] # None
      PROVE  \E b \in Buses : buses'[b] = d
  <2>1. link'[d] = link[d] /\ \A b \in bs : buses[b] # d
    BY <1>2, <1>5
  <2>2. PICK b \in Buses : buses[b] = d
    BY <2>1, <1>5 DEF HwInv, HardwareSound, LinksHaveBuses
  <2>3. b \notin bs
    BY <2>1, <2>2
  <2> QED
    BY <2>2, <2>3, <1>2
<1>6. BoundAreListed' /\ LinksHaveBuses'
  BY <1>4, <1>5 DEF BoundAreListed, LinksHaveBuses
<1>7. \A b \in Buses : buses'[b] \in {buses[b], None}
  BY <1>2
<1>8. \A p \in Protocols : boundTo'[p] \in {boundTo[p], None}
  BY <1>2
<1>9. bs = Buses => /\ \A b \in Buses : buses'[b] = None
                    /\ \A p \in Protocols : boundTo'[p] = None
  BY <1>2, <1>4
<1> QED
  BY <1>3, <1>6, <1>7, <1>8, <1>9

\* UsersHaveDrivers, user by user.
LEMMA UsersByKind ==
  UsersHaveDrivers <=>
    /\ \A b \in Buses : buses[b] # None => buses[b] \in initialized \cap ToSet(allDrivers)
    /\ \A p \in Protocols : boundTo[p] # None => boundTo[p] \in initialized \cap ToSet(allDrivers)
    /\ devices \subseteq initialized \cap ToSet(allDrivers)
  BY Zenon DEF UsersHaveDrivers

LEMMA HwStep == HwInv /\ [HwNext]_hwVars => HwInv'
<1> SUFFICES ASSUME HwInv, [HwNext]_hwVars PROVE HwInv'
  OBVIOUS
<1> USE HardwareNamesAssumption
<1>t. /\ allDrivers \in Seq(Drivers) /\ initialized \subseteq Drivers
      /\ ToSet(allDrivers) \subseteq initialized /\ ToSet(allDrivers) \subseteq Drivers
      /\ loads \in Nat /\ devices \subseteq Devices /\ connected = devices
      /\ link \in [Drivers -> Buses \cup {None}] /\ buses \in [Buses -> Drivers \cup {None}]
      /\ bound \in [Buses -> SUBSET Protocols] /\ boundTo \in [Protocols -> Drivers \cup {None}]
  BY DEF HwInv, HardwareSound, HwTypeOK
<1>s. \A d \in Drivers :
        shutdowns[d] \in 0..loads /\ shutdowns[d] + (IF d \in initialized THEN 1 ELSE 0) <= loads
  BY DEF HwInv, HardwareSound, HwTypeOK
<1>u. /\ \A b \in Buses : buses[b] # None => buses[b] \in initialized \cap ToSet(allDrivers)
      /\ \A p \in Protocols : boundTo[p] # None => boundTo[p] \in initialized \cap ToSet(allDrivers)
      /\ devices \subseteq initialized \cap ToSet(allDrivers)
  BY UsersByKind DEF HwInv, HardwareSound
<1>l. BoundAreListed /\ LinksHaveBuses
  BY DEF HwInv, HardwareSound
<1>d. devices \subseteq Drivers
  BY <1>t DEF Devices
<1>1. CASE LoadDrivers
  <2>1. PICK fails \in SUBSET (Drivers \ initialized) :
          allDrivers' = allDrivers \o Kept(fails) /\ initialized' = Drivers \ fails
    BY <1>1 DEF LoadDrivers
  <2>2. /\ loads' = loads + 1 /\ link' = link /\ buses' = buses /\ bound' = bound
        /\ boundTo' = boundTo /\ devices' = devices /\ connected' = connected
        /\ shutdowns' = shutdowns
    BY <1>1 DEF LoadDrivers
  <2>3. Kept(fails) \in Seq(Drivers \ fails)
    BY KeptAreGood
  <2> DEFINE kept == Kept(fails)
  <2> HIDE DEF kept
  <2>4. /\ kept \in Seq(Drivers) /\ ToSet(kept) \subseteq Drivers \ fails
        /\ allDrivers' = allDrivers \o kept
    BY <2>1, <2>3 DEF kept, ToSet
  <2>5. allDrivers' \in Seq(Drivers) /\ ToSet(allDrivers') = ToSet(allDrivers) \cup ToSet(kept)
    BY <2>4, <1>t, ToSetOfConcat
  <2>6. initialized \subseteq initialized' /\ initialized' \subseteq Drivers
    BY <2>1, <1>t
  <2>7. ToSet(allDrivers') \subseteq initialized' /\ ToSet(allDrivers) \subseteq ToSet(allDrivers')
    BY <2>1, <2>4, <2>5, <2>6, <1>t
  <2>8. UsersHaveDrivers'
    <3>1. /\ \A b \in Buses : buses'[b] # None => buses'[b] \in initialized' \cap ToSet(allDrivers')
          /\ \A p \in Protocols :
               boundTo'[p] # None => boundTo'[p] \in initialized' \cap ToSet(allDrivers')
          /\ devices' \subseteq initialized' \cap ToSet(allDrivers')
      BY <2>2, <2>6, <2>7, <1>u
    <3> QED
      BY <3>1, Zenon DEF UsersHaveDrivers
  <2>9. BoundAreListed' /\ LinksHaveBuses'
    BY <2>2, <1>l DEF BoundAreListed, LinksHaveBuses
  <2>10. \A d \in Drivers :
           /\ shutdowns'[d] \in 0..loads'
           /\ shutdowns'[d] + (IF d \in initialized' THEN 1 ELSE 0) <= loads'
    BY <2>2, <1>s, <1>t
  <2>11. HwTypeOK'
    BY <2>2, <2>6, <2>7, <2>10, <1>t DEF HwTypeOK
  <2> QED
    BY <2>2, <2>5, <2>7, <2>8, <2>9, <2>11, <1>t DEF HwInv, HardwareSound
<1>2. CASE CloseAllBuses \/ \E b \in Buses : CloseBus(b)
  <2>1. PICK bs \in SUBSET Buses : Closing(bs)
    BY <1>2 DEF CloseAllBuses, CloseBus
  <2>2. /\ allDrivers' = allDrivers /\ initialized' = initialized /\ devices' = devices
        /\ connected' = connected /\ loads' = loads /\ shutdowns' = shutdowns
    BY <1>2 DEF CloseAllBuses, CloseBus
  <2>3. /\ link' \in [Drivers -> Buses \cup {None}] /\ buses' \in [Buses -> Drivers \cup {None}]
        /\ bound' \in [Buses -> SUBSET Protocols] /\ boundTo' \in [Protocols -> Drivers \cup {None}]
        /\ \A b \in Buses : buses'[b] \in {buses[b], None}
        /\ \A p \in Protocols : boundTo'[p] \in {boundTo[p], None}
        /\ BoundAreListed' /\ LinksHaveBuses'
    BY <2>1, ClosingKeeps
  <2>4. UsersHaveDrivers'
    <3>1. /\ \A b \in Buses : buses'[b] # None => buses'[b] \in initialized' \cap ToSet(allDrivers')
          /\ \A p \in Protocols :
               boundTo'[p] # None => boundTo'[p] \in initialized' \cap ToSet(allDrivers')
          /\ devices' \subseteq initialized' \cap ToSet(allDrivers')
      BY <2>2, <2>3, <1>u
    <3> QED
      BY <3>1, Zenon DEF UsersHaveDrivers
  <2>5. HwTypeOK'
    BY <2>2, <2>3, <1>t, <1>s DEF HwTypeOK
  <2> QED
    BY <2>2, <2>3, <2>4, <2>5, <1>t DEF HwInv, HardwareSound
<1>3. CASE UnloadAll
  <2>1. /\ Closing(Buses)
        /\ shutdowns' = [d \in Drivers |-> shutdowns[d] + ShutDowns[d]]
        /\ initialized' = {d \in initialized : ShutDowns[d] = 0}
        /\ connected' = connected \ devices /\ devices' = {} /\ allDrivers' = <<>> /\ loads' = loads
    BY <1>3 DEF UnloadAll
  <2>2. /\ link' \in [Drivers -> Buses \cup {None}] /\ buses' \in [Buses -> Drivers \cup {None}]
        /\ bound' \in [Buses -> SUBSET Protocols] /\ boundTo' \in [Protocols -> Drivers \cup {None}]
        /\ \A b \in Buses : buses'[b] = None
        /\ \A p \in Protocols : boundTo'[p] = None
        /\ BoundAreListed' /\ LinksHaveBuses'
    BY <2>1, ClosingKeeps
  <2>3. \A d \in Drivers : ShutDowns[d] \in {0, 1} /\ (ShutDowns[d] = 1 => d \in initialized)
    BY <1>u DEF ShutDowns
  <2>4. \A d \in Drivers :
          /\ shutdowns'[d] \in 0..loads'
          /\ shutdowns'[d] + (IF d \in initialized' THEN 1 ELSE 0) <= loads'
    <3> SUFFICES ASSUME NEW d \in Drivers
                 PROVE  /\ shutdowns'[d] \in 0..loads'
                        /\ shutdowns'[d] + (IF d \in initialized' THEN 1 ELSE 0) <= loads'
      OBVIOUS
    <3> DEFINE sd == ShutDowns[d]
    <3>1. sd \in {0, 1} /\ (sd = 1 => d \in initialized)
      BY <2>3
    <3>2. shutdowns'[d] = shutdowns[d] + sd /\ (d \in initialized' <=> d \in initialized /\ sd = 0)
      BY <2>1
    <3>3. shutdowns[d] \in 0..loads /\ shutdowns[d] + (IF d \in initialized THEN 1 ELSE 0) <= loads
      BY <1>s
    <3> HIDE DEF sd
    <3> QED
      BY <3>1, <3>2, <3>3, <2>1, <1>t
  <2>5. allDrivers' \in Seq(Drivers) /\ ToSet(allDrivers') = {}
    BY <2>1 DEF ToSet
  <2>6. UsersHaveDrivers'
    BY <2>1, <2>2, Zenon DEF UsersHaveDrivers
  <2>7. connected' = devices' /\ initialized' \subseteq Drivers
    BY <2>1, <1>t
  <2>8. HwTypeOK'
    BY <2>1, <2>2, <2>4, <2>5, <2>7 DEF HwTypeOK
  <2> QED
    BY <2>1, <2>2, <2>5, <2>6, <2>8, <1>t DEF HwInv, HardwareSound
<1>4. ASSUME NEW b \in Buses, OpenBus(b) PROVE HwInv'
  <2> DEFINE d == DriverFor(BusType[b])
  <2>1. /\ buses[b] = None /\ d # None
        /\ buses' = [buses EXCEPT ![b] = d]
        /\ link' = [link EXCEPT ![d] = IF @ = None \/ d \in Replacing THEN b ELSE @]
        /\ allDrivers' = allDrivers /\ initialized' = initialized /\ bound' = bound
        /\ boundTo' = boundTo /\ devices' = devices /\ connected' = connected /\ loads' = loads
        /\ shutdowns' = shutdowns
    BY <1>4 DEF OpenBus
  <2>2. d \in ToSet(allDrivers)
    BY <2>1, <1>t, FoundIsLoaded
  <2> HIDE DEF d
  <2>3. d \in initialized /\ d \in Drivers
    BY <2>2, <1>t
  <2>4. /\ buses' \in [Buses -> Drivers \cup {None}] /\ link' \in [Drivers -> Buses \cup {None}]
        /\ buses'[b] = d /\ \A c \in Buses \ {b} : buses'[c] = buses[c]
        /\ \A x \in Drivers \ {d} : link'[x] = link[x]
    BY <2>1, <2>3, <1>t
  <2>5. UsersHaveDrivers'
    <3>1. /\ \A c \in Buses : buses'[c] # None => buses'[c] \in initialized' \cap ToSet(allDrivers')
          /\ \A p \in Protocols :
               boundTo'[p] # None => boundTo'[p] \in initialized' \cap ToSet(allDrivers')
          /\ devices' \subseteq initialized' \cap ToSet(allDrivers')
      BY <2>1, <2>2, <2>3, <2>4, <1>u
    <3> QED
      BY <3>1, Zenon DEF UsersHaveDrivers
  <2>6. ASSUME NEW c \in Buses, buses[c] # None PROVE buses'[c] = buses[c]
    BY <2>1, <2>4, <2>6
  <2>7. BoundAreListed'
    <3> SUFFICES ASSUME NEW p \in Protocols, boundTo[p] # None
                 PROVE  \E c \in Buses : buses'[c] = boundTo[p] /\ p \in bound[c]
      BY <2>1 DEF BoundAreListed
    <3>1. PICK c \in Buses : buses[c] = boundTo[p] /\ p \in bound[c]
      BY <1>l DEF BoundAreListed
    <3> QED
      BY <3>1, <2>6
  <2>8. LinksHaveBuses'
    <3> SUFFICES ASSUME NEW x \in Drivers, link'[x] # None PROVE \E c \in Buses : buses'[c] = x
      BY DEF LinksHaveBuses
    <3>1. CASE x = d
      BY <3>1, <2>4
    <3>2. CASE x # d
      <4>1. PICK c \in Buses : buses[c] = x
        BY <3>2, <2>4, <1>l DEF LinksHaveBuses
      <4> QED
        BY <4>1, <2>6
    <3> QED
      BY <3>1, <3>2
  <2>9. HwTypeOK'
    BY <2>1, <2>4, <1>t, <1>s DEF HwTypeOK
  <2> QED
    BY <2>1, <2>5, <2>7, <2>8, <2>9, <1>t DEF HwInv, HardwareSound
<1>5. ASSUME NEW b \in Buses, UnbindProtocols(b) PROVE HwInv'
  <2>1. /\ boundTo' = [p \in Protocols |-> IF p \in bound[b] THEN None ELSE boundTo[p]]
        /\ bound' = [bound EXCEPT ![b] = {}]
        /\ allDrivers' = allDrivers /\ initialized' = initialized /\ link' = link
        /\ buses' = buses /\ devices' = devices /\ connected' = connected /\ loads' = loads
        /\ shutdowns' = shutdowns
    BY <1>5 DEF UnbindProtocols, Unbound
  <2>2. /\ boundTo' \in [Protocols -> Drivers \cup {None}] /\ bound' \in [Buses -> SUBSET Protocols]
        /\ \A p \in Protocols : boundTo'[p] # None => boundTo'[p] = boundTo[p] /\ p \notin bound[b]
        /\ \A c \in Buses \ {b} : bound'[c] = bound[c]
    BY <2>1, <1>t
  <2>3. UsersHaveDrivers'
    <3>1. /\ \A c \in Buses : buses'[c] # None => buses'[c] \in initialized' \cap ToSet(allDrivers')
          /\ \A p \in Protocols :
               boundTo'[p] # None => boundTo'[p] \in initialized' \cap ToSet(allDrivers')
          /\ devices' \subseteq initialized' \cap ToSet(allDrivers')
      BY <2>1, <2>2, <1>u
    <3> QED
      BY <3>1, Zenon DEF UsersHaveDrivers
  <2>4. BoundAreListed'
    <3> SUFFICES ASSUME NEW p \in Protocols, boundTo'[p] # None
                 PROVE  \E c \in Buses : buses[c] = boundTo'[p] /\ p \in bound'[c]
      BY <2>1 DEF BoundAreListed
    <3>1. PICK c \in Buses : buses[c] = boundTo[p] /\ p \in bound[c]
      BY <2>2, <1>l DEF BoundAreListed
    <3> QED
      BY <3>1, <2>2
  <2>5. LinksHaveBuses'
    BY <2>1, <1>l DEF LinksHaveBuses
  <2>6. HwTypeOK'
    BY <2>1, <2>2, <1>t, <1>s DEF HwTypeOK
  <2> QED
    BY <2>1, <2>3, <2>4, <2>5, <2>6, <1>t DEF HwInv, HardwareSound
<1>6. ASSUME NEW b \in Buses, NEW p \in Protocols, BindProtocol(b, p) PROVE HwInv'
  <2>1. /\ buses[b] # None
        /\ boundTo' = [boundTo EXCEPT ![p] = buses[b]]
        /\ bound' = [bound EXCEPT ![b] = @ \cup {p}]
        /\ allDrivers' = allDrivers /\ initialized' = initialized /\ link' = link
        /\ buses' = buses /\ devices' = devices /\ connected' = connected /\ loads' = loads
        /\ shutdowns' = shutdowns
    BY <1>6 DEF BindProtocol
  <2>2. /\ boundTo' \in [Protocols -> Drivers \cup {None}] /\ bound' \in [Buses -> SUBSET Protocols]
        /\ boundTo'[p] = buses[b] /\ \A q \in Protocols \ {p} : boundTo'[q] = boundTo[q]
        /\ p \in bound'[b] /\ \A c \in Buses : bound[c] \subseteq bound'[c]
    BY <2>1, <1>t
  <2>3. UsersHaveDrivers'
    <3>1. /\ \A c \in Buses : buses'[c] # None => buses'[c] \in initialized' \cap ToSet(allDrivers')
          /\ \A q \in Protocols :
               boundTo'[q] # None => boundTo'[q] \in initialized' \cap ToSet(allDrivers')
          /\ devices' \subseteq initialized' \cap ToSet(allDrivers')
      BY <2>1, <2>2, <1>u
    <3> QED
      BY <3>1, Zenon DEF UsersHaveDrivers
  <2>4. BoundAreListed'
    <3> SUFFICES ASSUME NEW q \in Protocols, boundTo'[q] # None
                 PROVE  \E c \in Buses : buses[c] = boundTo'[q] /\ q \in bound'[c]
      BY <2>1 DEF BoundAreListed
    <3>1. CASE q = p
      BY <3>1, <2>2
    <3>2. CASE q # p
      <4>1. PICK c \in Buses : buses[c] = boundTo[q] /\ q \in bound[c]
        BY <3>2, <2>2, <1>l DEF BoundAreListed
      <4> QED
        BY <4>1, <3>2, <2>2
    <3> QED
      BY <3>1, <3>2
  <2>5. LinksHaveBuses'
    BY <2>1, <1>l DEF LinksHaveBuses
  <2>6. HwTypeOK'
    BY <2>1, <2>2, <1>t, <1>s DEF HwTypeOK
  <2> QED
    BY <2>1, <2>3, <2>4, <2>5, <2>6, <1>t DEF HwInv, HardwareSound
<1>7. ASSUME NEW d \in Drivers, LinkDropped(d) PROVE HwInv'
  <2>1. /\ link' = [link EXCEPT ![d] = None]
        /\ allDrivers' = allDrivers /\ initialized' = initialized /\ bound' = bound
        /\ boundTo' = boundTo /\ buses' = buses /\ devices' = devices /\ connected' = connected
        /\ loads' = loads /\ shutdowns' = shutdowns
    BY <1>7 DEF LinkDropped
  <2>2. link' \in [Drivers -> Buses \cup {None}] /\ \A x \in Drivers : link'[x] \in {link[x], None}
    BY <2>1, <1>t
  <2>3. LinksHaveBuses'
    BY <2>1, <2>2, <1>l DEF LinksHaveBuses
  <2>4. UsersHaveDrivers' /\ BoundAreListed'
    BY <2>1 DEF HwInv, HardwareSound, UsersHaveDrivers, BoundAreListed
  <2>5. HwTypeOK'
    BY <2>1, <2>2, <1>t, <1>s DEF HwTypeOK
  <2> QED
    BY <2>1, <2>3, <2>4, <2>5, <1>t DEF HwInv, HardwareSound
<1>8. ASSUME NEW d \in Devices, ConnectDevice(d) \/ DisconnectDevice(d) PROVE HwInv'
  <2>1. /\ devices' = connected' /\ devices' \subseteq devices \cup ({d} \cap ToSet(allDrivers))
        /\ allDrivers' = allDrivers /\ initialized' = initialized /\ bound' = bound
        /\ boundTo' = boundTo /\ buses' = buses /\ link' = link
        /\ loads' = loads /\ shutdowns' = shutdowns
    BY <1>8, <1>t DEF ConnectDevice, DisconnectDevice
  <2>2. UsersHaveDrivers'
    <3>1. /\ \A b \in Buses : buses'[b] # None => buses'[b] \in initialized' \cap ToSet(allDrivers')
          /\ \A p \in Protocols :
               boundTo'[p] # None => boundTo'[p] \in initialized' \cap ToSet(allDrivers')
          /\ devices' \subseteq initialized' \cap ToSet(allDrivers')
      BY <2>1, <1>u, <1>t
    <3> QED
      BY <3>1, Zenon DEF UsersHaveDrivers
  <2>3. BoundAreListed' /\ LinksHaveBuses'
    BY <2>1, <1>l DEF BoundAreListed, LinksHaveBuses
  <2>4. devices' \subseteq Devices
    BY <2>1, <1>t
  <2>5. HwTypeOK'
    BY <2>1, <2>4, <1>t, <1>s DEF HwTypeOK
  <2> QED
    BY <2>1, <2>2, <2>3, <2>5, <1>t DEF HwInv, HardwareSound
<1>9. CASE UNCHANGED hwVars
  BY <1>9 DEF hwVars, HwInv, HardwareSound, HwTypeOK, UsersHaveDrivers, BoundAreListed,
              LinksHaveBuses
<1> QED
  BY <1>1, <1>2, <1>3, <1>4, <1>5, <1>6, <1>7, <1>8, <1>9 DEF HwNext

\* Whatever was loaded, opened, bound, connected, closed and unloaded before: what
\* is in use has a driver that is alive, a bound protocol is listed with an open bus,
\* every link can be closed, and no driver is shut down twice for one
\* initialization (HardwareManager.cpp:90-107, 156-164, 208-216).
THEOREM HardwareIsSound == HwSpec => []HardwareSound
<1>1. HwInv => HardwareSound
  BY DEF HwInv
<1> QED
  BY HwInitially, HwStep, <1>1, PTL DEF HwSpec

-------------------------------------------------------------------------------
(* The UDS client *)

UdsFrames ==
  [from : Sources, id : Nat, kind : {"request", "positive", "negative", "pending"}]

UdsBooleans == loopback \in BOOLEAN /\ raw \in BOOLEAN /\ waiting \in BOOLEAN

UdsRanges ==
  /\ frames \in Seq(UdsFrames) /\ Len(frames) <= MaxFrames /\ unanswered \in Seq(Nat)
  /\ txCount \in 0..MaxUdsRequests /\ rxCount \in Nat /\ timeoutCount \in Nat
  /\ nrcCount \in 0..rxCount /\ misled \in 0..rxCount

\* Every request sent is answered, timed out or waited for, and one that is waited
\* for has taken nothing.
UdsBalance ==
  /\ txCount = rxCount + timeoutCount + (IF waiting THEN 1 ELSE 0)
  /\ waiting => taken = NoFrame

Stray(frame) == IF Final(frame) THEN 0 ELSE 1

\* The frames fr that wait, after r that were taken, s[0] of them stray: s counts the
\* stray ones up to each, and an answer's request is as far behind its place as there
\* are.  The ECU works on the requests un, the next ones up to the last, n.
Behind(s, fr, un, n, r) ==
  /\ \A i \in 1..Len(fr) :
       /\ s[i] = s[i - 1] + Stray(fr[i])
       /\ fr[i].from = "ecu" => fr[i].id + s[i - 1] = r + i
  /\ \A j \in 1..Len(un) : un[j] + s[Len(fr)] = r + Len(fr) + j
  /\ n + s[Len(fr)] = r + Len(fr) + Len(un)

Line(fr, un, n, r, m) ==
  \E s \in [0..Len(fr) -> Nat] : s[0] = m /\ Behind(s, fr, un, n, r)

UdsInv ==
  /\ UdsBooleans /\ UdsRanges /\ UdsBalance /\ LagExact
  /\ Line(frames, unanswered, txCount, rxCount, misled)

\* A request joins the line of those the ECU works on.
LEMMA LineSends ==
  ASSUME NEW fr \in Seq(UdsFrames), NEW un \in Seq(Nat), NEW n \in Nat, NEW r \in Nat,
         NEW m \in Nat, Line(fr, un, n, r, m)
  PROVE  Line(fr, Append(un, n + 1), n + 1, r, m)
<1>1. PICK s \in [0..Len(fr) -> Nat] : s[0] = m /\ Behind(s, fr, un, n, r)
  BY DEF Line
<1>2. Behind(s, fr, Append(un, n + 1), n + 1, r)
  <2> DEFINE k == Len(fr)  l == Len(un)  last == s[k]  un2 == Append(un, n + 1)
  <2>1. k \in Nat /\ l \in Nat /\ last \in Nat
    OBVIOUS
  <2>2. Len(un2) = l + 1 /\ un2[l + 1] = n + 1 /\ \A j \in 1..l : un2[j] = un[j]
    OBVIOUS
  <2>3. n + last = r + k + l /\ \A j \in 1..l : un[j] + last = r + k + j
    BY <1>1 DEF Behind
  <2> HIDE DEF k, l, last, un2
  <2>4. n + 1 + last = r + k + (l + 1)
    BY <2>1, <2>3
  <2>5. \A j \in 1..Len(un2) : un2[j] + last = r + k + j
    <3> SUFFICES ASSUME NEW j \in 1..l + 1 PROVE un2[j] + last = r + k + j
      BY <2>2
    <3>1. CASE j \in 1..l
      BY <2>2, <2>3, <3>1
    <3>2. CASE j = l + 1
      BY <2>2, <2>4, <3>2
    <3> QED
      BY <2>1, <3>1, <3>2
  <2> QED
    BY <1>1, <2>2, <2>4, <2>5 DEF Behind, k, last, un2
<1> QED
  BY <1>1, <1>2 DEF Line

\* A frame joins those that wait: the last word of the ECU on the first request it
\* works on, "pending" for it, or a frame of another.
LEMMA LineGrows ==
  ASSUME NEW fr \in Seq(UdsFrames), NEW un \in Seq(Nat), NEW n \in Nat, NEW r \in Nat,
         NEW m \in Nat, Line(fr, un, n, r, m), NEW f \in UdsFrames,
         f.from = "ecu" => un # <<>> /\ f.id = un[1]
  PROVE  Line(Append(fr, f), IF Final(f) THEN Tail(un) ELSE un, n, r, m)
<1>1. PICK s \in [0..Len(fr) -> Nat] : s[0] = m /\ Behind(s, fr, un, n, r)
  BY DEF Line
<1> DEFINE k == Len(fr)
           last == s[k] + Stray(f)
           s2 == [i \in 0..k + 1 |-> IF i <= k THEN s[i] ELSE last]
           un2 == IF Final(f) THEN Tail(un) ELSE un
           fr2 == Append(fr, f)
<1>2. k \in Nat /\ s[k] \in Nat /\ last \in Nat /\ Len(un) \in Nat
  BY DEF Stray
<1>3. /\ Len(fr2) = k + 1 /\ fr2[k + 1] = f /\ \A i \in 1..k : fr2[i] = fr[i]
      /\ s2 \in [0..k + 1 -> Nat] /\ s2[0] = m /\ s2[k + 1] = last
      /\ \A i \in 0..k : s2[i] = s[i]
  BY <1>1, <1>2
<1>4. ASSUME NEW i \in 1..k + 1
      PROVE  /\ s2[i] = s2[i - 1] + Stray(fr2[i])
             /\ fr2[i].from = "ecu" => fr2[i].id + s2[i - 1] = r + i
  <2>1. CASE i <= k
    <3>1. i \in 1..k /\ i - 1 \in 0..k /\ i \in 0..k
      BY <1>2, <2>1
    <3>2. s[i] = s[i - 1] + Stray(fr[i]) /\ (fr[i].from = "ecu" => fr[i].id + s[i - 1] = r + i)
      BY <1>1, <3>1 DEF Behind
    <3> HIDE DEF s2, fr2
    <3> QED
      BY <1>3, <3>1, <3>2
  <2>2. CASE i = k + 1
    <3>1. k \in 0..k /\ s2[k] = s[k] /\ i - 1 = k
      BY <1>2, <1>3, <2>2
    <3>2. f.from = "ecu" => f.id + s[k] = r + k + 1
      <4>1. un # <<>> => 1 \in 1..Len(un)
        BY EmptySeq
      <4> QED
        BY <1>1, <4>1 DEF Behind
    <3> HIDE DEF s2, fr2
    <3> QED
      BY <1>2, <1>3, <2>2, <3>1, <3>2
  <2> QED
    BY <1>2, <2>1, <2>2
<1>5. /\ \A j \in 1..Len(un2) : un2[j] + last = r + (k + 1) + j
      /\ n + last = r + (k + 1) + Len(un2)
  <2>1. CASE Final(f)
    <3>1. un # <<>> /\ last = s[k]
      BY <1>2, <2>1 DEF Final, Stray
    <3>2. Len(un2) = Len(un) - 1 /\ Len(un) > 0 /\ \A j \in 1..Len(un) - 1 : un2[j] = un[j + 1]
      BY <2>1, <3>1, EmptySeq
    <3> HIDE DEF un2, last
    <3>3. \A j \in 1..Len(un) - 1 : un[j + 1] + s[k] = r + k + (j + 1)
      BY <1>1, <1>2 DEF Behind
    <3>4. n + s[k] = r + k + Len(un)
      BY <1>1 DEF Behind
    <3> HIDE DEF k
    <3>5. \A j \in 1..Len(un2) : un2[j] + last = r + (k + 1) + j
      <4>1. \A j \in 1..Len(un) - 1 : r + k + (j + 1) = r + (k + 1) + j
        BY <1>2
      <4> QED
        BY <3>1, <3>2, <3>3, <4>1
    <3>6. n + last = r + (k + 1) + Len(un2)
      BY <1>2, <3>1, <3>2, <3>4
    <3> QED
      BY <3>5, <3>6
  <2>2. CASE ~Final(f)
    <3>1. last = s[k] + 1
      BY <1>2, <2>2 DEF Stray
    <3> DEFINE before == s[k]
    <3>2. n + s[k] = r + k + Len(un)
      BY <1>1 DEF Behind
    <3>3. \A a \in Nat, c \in Nat : a + before = r + k + c => a + last = r + (k + 1) + c
      <4>1. before \in Nat /\ k \in Nat /\ last = before + 1
        BY <1>2, <3>1
      <4> HIDE DEF before, last, k
      <4> QED
        BY <4>1
    <3>4. ASSUME NEW j \in 1..Len(un) PROVE un[j] + last = r + (k + 1) + j
      <4>1. un[j] + s[k] = r + k + j /\ un[j] \in Nat
        BY <1>1 DEF Behind
      <4> HIDE DEF un2, last, k
      <4> QED
        BY <3>3, <4>1 DEF before
    <3> HIDE DEF un2, last, k
    <3>5. n + last = r + (k + 1) + Len(un)
      BY <1>2, <3>2, <3>3 DEF before
    <3> QED
      BY <2>2, <3>4, <3>5 DEF un2
  <2> QED
    BY <2>1, <2>2
<1>6. Behind(s2, fr2, un2, n, r)
  <2> HIDE DEF s2, fr2, un2, last, k
  <2> QED
    BY <1>3, <1>4, <1>5 DEF Behind
<1> QED
  <2> HIDE DEF s2, fr2, un2, last, k
  <2>1. Line(fr2, un2, n, r, m)
    BY <1>3, <1>6 DEF Line
  <2> QED
    BY <2>1 DEF fr2, un2

\* The first frame is taken.
LEMMA LineTakes ==
  ASSUME NEW fr \in Seq(UdsFrames), NEW un \in Seq(Nat), NEW n \in Nat, NEW r \in Nat,
         NEW m \in Nat, Line(fr, un, n, r, m), fr # <<>>
  PROVE  /\ Line(Tail(fr), un, n, r + 1, m + Stray(fr[1]))
         /\ fr[1].from = "ecu" => fr[1].id + m = r + 1
<1>1. PICK s \in [0..Len(fr) -> Nat] : s[0] = m /\ Behind(s, fr, un, n, r)
  BY DEF Line
<1> DEFINE k == Len(fr)
           s2 == [i \in 0..k - 1 |-> s[i + 1]]
           fr2 == Tail(fr)
<1>2. k \in Nat /\ k > 0 /\ Len(un) \in Nat
  BY EmptySeq
<1>3. /\ Len(fr2) = k - 1 /\ \A i \in 1..k - 1 : fr2[i] = fr[i + 1]
      /\ s2 \in [0..k - 1 -> Nat] /\ \A i \in 0..k - 1 : s2[i] = s[i + 1]
  BY <1>2
<1>4. s[1] = m + Stray(fr[1]) /\ (fr[1].from = "ecu" => fr[1].id + m = r + 1)
  <2>1. 1 \in 1..k /\ 1 - 1 = 0
    BY <1>2
  <2> QED
    BY <1>1, <2>1 DEF Behind
<1>5. s2[0] = m + Stray(fr[1]) /\ s2[k - 1] = s[k]
  BY <1>2, <1>3, <1>4
<1> HIDE DEF s2, fr2
<1>6. ASSUME NEW i \in 1..k - 1
      PROVE  /\ s2[i] = s2[i - 1] + Stray(fr2[i])
             /\ fr2[i].from = "ecu" => fr2[i].id + s2[i - 1] = (r + 1) + i
  <2>1. i + 1 \in 1..k /\ i \in 0..k - 1 /\ i - 1 \in 0..k - 1 /\ (i + 1) - 1 = i /\ (i - 1) + 1 = i
    BY <1>2
  <2>2. s[i + 1] = s[i] + Stray(fr[i + 1])
        /\ (fr[i + 1].from = "ecu" => fr[i + 1].id + s[i] = r + (i + 1))
    BY <1>1, <2>1 DEF Behind
  <2>3. s2[i] = s[i + 1] /\ s2[i - 1] = s[i] /\ fr2[i] = fr[i + 1]
    BY <1>3, <2>1
  <2>4. (r + 1) + i = r + (i + 1)
    OBVIOUS
  <2> QED
    BY <2>2, <2>3, <2>4
<1>7. Behind(s2, fr2, un, n, r + 1)
  <2>1. \A j \in 1..Len(un) : un[j] + s[k] = r + k + j
    BY <1>1 DEF Behind
  <2>2. n + s[k] = r + k + Len(un)
    BY <1>1 DEF Behind
  <2>3. \A j \in 1..Len(un) : (r + 1) + (k - 1) + j = r + k + j
    BY <1>2
  <2>4. (r + 1) + (k - 1) + Len(un) = r + k + Len(un)
    BY <1>2
  <2> HIDE DEF k
  <2> QED
    BY <1>3, <1>5, <1>6, <2>1, <2>2, <2>3, <2>4 DEF Behind
<1>8. Line(fr2, un, n, r + 1, m + Stray(fr[1]))
  BY <1>3, <1>5, <1>7 DEF Line
<1> QED
  BY <1>4, <1>8 DEF fr2

LEMMA UdsSends ==
  ASSUME UdsInv, SendRequest
  PROVE  UdsInv'
<1> USE UdsBoundsAssumption
<1> DEFINE id == txCount + 1
           own == [from |-> "self", id |-> id, kind |-> "request"]
<1>1. /\ ~waiting /\ txCount < MaxUdsRequests /\ (loopback => Len(frames) < MaxFrames)
      /\ raw' \in BOOLEAN /\ txCount' = id /\ waiting' = TRUE /\ taken' = NoFrame
      /\ unanswered' = Append(unanswered, id)
      /\ frames' = IF loopback THEN Append(frames, own) ELSE frames
      /\ UNCHANGED <<loopback, rxCount, timeoutCount, nrcCount, misled>>
  BY DEF SendRequest
<1>2. UdsBooleans'
  BY <1>1, Zenon DEF UdsInv, UdsBooleans
<1>3. /\ id \in Nat /\ own \in UdsFrames /\ own.from = "self" /\ txCount' \in 0..MaxUdsRequests
      /\ frames \in Seq(UdsFrames) /\ unanswered \in Seq(Nat) /\ txCount \in Nat
      /\ rxCount \in Nat /\ misled \in Nat
  BY <1>1 DEF UdsInv, UdsRanges, UdsFrames, Sources
<1>4. Line(frames, Append(unanswered, id), id, rxCount, misled)
  BY <1>3, LineSends DEF UdsInv
<1> HIDE DEF id, own
<1>5. UdsRanges'
  <2>1. frames' \in Seq(UdsFrames) /\ Len(frames') <= MaxFrames
    BY <1>1, <1>3 DEF UdsInv, UdsRanges
  <2> QED
    BY <1>1, <1>3, <2>1 DEF UdsInv, UdsRanges
<1>6. UdsBalance' /\ LagExact'
  BY <1>1 DEF id, UdsInv, UdsBalance, UdsRanges, LagExact, NoFrame
<1>7. Line(frames, unanswered, txCount, rxCount, misled)'
  <2>1. Line(Append(frames, own), Append(unanswered, id), id, rxCount, misled)
    <3>1. ~Final(own) /\ own.from # "ecu" /\ Append(unanswered, id) \in Seq(Nat)
      BY <1>3 DEF Final
    <3> QED
      BY <1>3, <1>4, <3>1, LineGrows
  <2> QED
    BY <1>1, <1>4, <2>1
<1> QED
  BY <1>2, <1>5, <1>6, <1>7 DEF UdsInv

LEMMA UdsTakes ==
  ASSUME UdsInv, UdsReceive \/ UdsTimeout
  PROVE  UdsInv'
<1> USE UdsBoundsAssumption
<1>1. waiting /\ waiting' = FALSE /\ UNCHANGED <<loopback, unanswered, raw, txCount>>
  BY DEF UdsReceive, UdsTimeout
<1>2. UdsBooleans'
  BY <1>1, Zenon DEF UdsReceive, UdsTimeout, UdsInv, UdsBooleans
<1>3. CASE UdsReceive
  <2>1. /\ frames # <<>> /\ frames' = Tail(frames) /\ taken' = frames[1]
        /\ rxCount' = rxCount + 1 /\ nrcCount' \in {nrcCount, nrcCount + 1}
        /\ misled' = misled + Stray(frames[1])
        /\ UNCHANGED timeoutCount
    <3>1. nrcCount \in Nat
      BY DEF UdsInv, UdsRanges
    <3> QED
      BY <1>3, <3>1 DEF UdsReceive, Received, Rest, CountFrame, Stray
  <2>2. UdsRanges' /\ UdsBalance'
    BY <1>1, <2>1 DEF UdsInv, UdsRanges, UdsBalance, Stray
  <2>3. /\ Line(Tail(frames), unanswered, txCount, rxCount + 1, misled + Stray(frames[1]))
        /\ frames[1].from = "ecu" => frames[1].id + misled = rxCount + 1
    BY <2>1, LineTakes DEF UdsInv, UdsRanges
  <2>4. LagExact'
    <3>1. frames[1] \in UdsFrames
      BY <2>1, EmptySeq DEF UdsInv, UdsRanges
    <3>2. frames[1].id \in Nat
      BY <3>1 DEF UdsFrames
    <3> DEFINE id == frames[1].id  stray == Stray(frames[1])
    <3>3. /\ txCount \in Nat /\ rxCount \in Nat /\ timeoutCount \in Nat /\ misled \in Nat
          /\ txCount = rxCount + timeoutCount + 1 /\ id \in Nat /\ stray \in {0, 1}
      BY <1>1, <3>2 DEF UdsInv, UdsRanges, UdsBalance, Stray
    <3> HIDE DEF id, stray
    <3>4. id + misled = rxCount + 1 => txCount - id = timeoutCount + (misled + stray) - stray
      BY <3>3
    <3>5. frames[1].from = "ecu" => txCount - id = timeoutCount + misled' - stray
      BY <2>1, <2>3, <3>4 DEF id, stray
    <3>6. taken' = frames[1] /\ UNCHANGED <<txCount, timeoutCount>>
      BY <1>1, <2>1
    <3> QED
      BY <3>5, <3>6 DEF LagExact, id, stray, Stray
  <2> QED
    BY <1>1, <1>2, <2>1, <2>2, <2>3, <2>4 DEF UdsInv
<1>4. CASE UdsTimeout
  <2>1. /\ timeoutCount' = timeoutCount + 1
        /\ UNCHANGED <<frames, taken, rxCount, nrcCount, misled>>
    BY <1>4 DEF UdsTimeout
  <2>2. UdsRanges' /\ UdsBalance' /\ LagExact'
    BY <1>1, <2>1 DEF UdsInv, UdsRanges, UdsBalance, LagExact, NoFrame
  <2> QED
    BY <1>1, <1>2, <2>1, <2>2 DEF UdsInv
<1> QED
  BY <1>3, <1>4

\* A frame arrives, from the ECU or from another node.
LEMMA UdsArrives ==
  ASSUME UdsInv, EcuAnswers \/ EcuPends \/ OtherNode
  PROVE  UdsInv'
<1> USE UdsBoundsAssumption
<1>1. PICK from \in Sources, id \in Nat, kind \in {"positive", "negative", "pending"} :
        /\ Arrives(from, id, kind)
        /\ from = "ecu" => unanswered # <<>> /\ id = unanswered[1]
        /\ unanswered' = IF from = "ecu" /\ kind # "pending" THEN Tail(unanswered) ELSE unanswered
  <2>1. CASE OtherNode
    BY <2>1 DEF OtherNode, Sources
  <2>2. unanswered # <<>> => unanswered[1] \in Nat
    BY DEF UdsInv, UdsRanges
  <2>3. CASE EcuPends
    BY <2>2, <2>3 DEF EcuPends, Sources
  <2>4. CASE EcuAnswers
    BY <2>2, <2>4 DEF EcuAnswers, Sources
  <2> QED
    BY <2>1, <2>3, <2>4
<1> DEFINE frame == [from |-> from, id |-> id, kind |-> kind]
<1>2. /\ frame \in UdsFrames /\ frame.from = from /\ frame.id = id /\ frame.kind = kind
      /\ Len(frames) < MaxFrames /\ frames' = Append(frames, frame)
      /\ UNCHANGED <<loopback, raw, waiting, taken, txCount, rxCount, timeoutCount, nrcCount, misled>>
  BY <1>1 DEF Arrives, UdsFrames
<1> HIDE DEF frame
<1>3. unanswered' = (IF Final(frame) THEN Tail(unanswered) ELSE unanswered)
      /\ (frame.from = "ecu" => unanswered # <<>> /\ frame.id = unanswered[1])
  BY <1>1, <1>2 DEF Final
<1>4. UdsBooleans'
  BY <1>2, Zenon DEF UdsInv, UdsBooleans
<1>5. UdsRanges' /\ UdsBalance' /\ LagExact'
  BY <1>1, <1>2 DEF UdsInv, UdsRanges, UdsBalance, LagExact
<1>6. Line(frames, unanswered, txCount, rxCount, misled)'
  <2>1. Line(Append(frames, frame), unanswered', txCount, rxCount, misled)
    <3>1. /\ frames \in Seq(UdsFrames) /\ unanswered \in Seq(Nat) /\ txCount \in Nat
          /\ rxCount \in Nat /\ misled \in Nat
      BY DEF UdsInv, UdsRanges
    <3> QED
      BY <1>2, <1>3, <3>1, LineGrows DEF UdsInv
  <2> QED
    BY <1>2, <2>1
<1> QED
  BY <1>4, <1>5, <1>6 DEF UdsInv

\* On a bus with other nodes, echoes, "pending" and late answers: an answer of the ECU
\* is late by exactly as many requests as timed out or took a frame that is no final
\* answer, and every request is counted once, for any number of requests and any
\* receive buffer (UdsProtocolLayer.cpp:96-147).
THEOREM UdsClientIsSound == UdsSpec => []ClientSound
<1>1. UdsInit => UdsInv
  <2> SUFFICES ASSUME UdsInit PROVE UdsInv
    OBVIOUS
  <2> USE UdsBoundsAssumption
  <2>1. UdsBooleans
    BY Zenon DEF UdsInit, UdsBooleans
  <2>2. UdsRanges /\ UdsBalance /\ LagExact
    BY DEF UdsInit, UdsRanges, UdsBalance, LagExact, NoFrame
  <2>3. Line(<<>>, <<>>, 0, 0, 0)
    <3> DEFINE s == [i \in 0..0 |-> 0]
    <3>1. s \in [0..Len(<<>>) -> Nat] /\ s[0] = 0 /\ Len(<<>>) = 0
      OBVIOUS
    <3>2. Behind(s, <<>>, <<>>, 0, 0)
      BY <3>1 DEF Behind
    <3> HIDE DEF s
    <3> QED
      BY <3>1, <3>2 DEF Line
  <2> QED
    BY <2>1, <2>2, <2>3 DEF UdsInit, UdsInv
<1>2. UdsInv /\ [UdsNext]_udsVars => UdsInv'
  <2> SUFFICES ASSUME UdsInv, [UdsNext]_udsVars PROVE UdsInv'
    OBVIOUS
  <2>1. CASE UNCHANGED udsVars
    BY <2>1 DEF udsVars, UdsInv, UdsBooleans, UdsRanges, UdsBalance, LagExact
  <2> QED
    BY <2>1, UdsSends, UdsTakes, UdsArrives DEF UdsNext
<1>3. UdsInv => ClientSound
  <2> SUFFICES ASSUME UdsInv PROVE ClientSound
    OBVIOUS
  <2>1. {loopback, raw, waiting} \subseteq BOOLEAN
    BY Zenon DEF UdsInv, UdsBooleans
  <2>2. \A i \in DOMAIN frames : frames[i].from \in Sources
    <3>1. \A i \in DOMAIN frames : frames[i] \in UdsFrames
      BY DEF UdsInv, UdsRanges
    <3> QED
      BY <3>1 DEF UdsFrames
  <2>3. UdsTypeOK
    BY <2>1, <2>2 DEF UdsInv, UdsRanges, UdsBalance, UdsTypeOK
  <2> QED
    BY <2>3 DEF UdsInv, ClientSound
<1> QED
  BY <1>1, <1>2, <1>3, PTL DEF UdsSpec

-------------------------------------------------------------------------------
(***************************************************************************)
(* The connections of ModbusMaster.  On a connection nothing was left on,  *)
(* all that is owed, has arrived or was read while a step waits belongs to *)
(* the request of this step, as a step that fails leaves nothing, or       *)
(* notes that it did; between two steps nothing is there at all.           *)
(***************************************************************************)
MbBusy == {"wait", "body", "rest", "judge"}

PieceOf(n) ==
  [request : {n}, kind : {"values", "exception"}, part : {"mbap", "head", "rest"}]

AnyPiece == [request : Nat, kind : {"values", "exception"}, part : {"mbap", "head", "rest"}]

MbQuiet(c) == mbCut[c] \/ (mbInput[c] = <<>> /\ mbOwed[c] = <<>>)

MbOwn(t) ==
  \/ mbCut[mbConn[t]]
  \/ /\ mbTook[t] \in Seq(PieceOf(mbRequest[t]))
     /\ mbInput[mbConn[t]] \in Seq(PieceOf(mbRequest[t]))
     /\ mbOwed[mbConn[t]] \in Seq(PieceOf(mbRequest[t]))
     /\ mbAt[t] # "wait" => mbTook[t] # <<>>

MbTyped ==
  /\ MbTypeOK /\ mbRequests \in Nat
  /\ mbOwed \in [MbEntries -> Seq(AnyPiece)] /\ mbInput \in [MbEntries -> Seq(AnyPiece)]
  /\ mbCut \in [MbEntries -> BOOLEAN] /\ mbTook \in [MbThreads -> Seq(AnyPiece)]

MbPooled ==
  /\ \A k \in MbKeys : mbPool[k] # 0 => mbKey[mbPool[k]] = k
  /\ \A t \in MbThreads :
       mbAt[t] # "idle" => /\ mbConn[t] \in MbEntries
                           /\ mbPool[mbKey[mbConn[t]]] = mbConn[t]
                           /\ MbWorkflowOf[t] \in mbRefs[mbConn[t]]
  /\ NoneLeftOpen

MbLocked ==
  /\ \A t \in MbThreads : mbAt[t] \in MbInside => mbLock[mbConn[t]] = t
  /\ \A c \in MbEntries, t \in MbThreads :
       mbLock[c] = t => mbConn[t] = c /\ mbAt[t] \in MbInside

MbData ==
  /\ \A c \in MbEntries : MbQuiet(c) \/ \E t \in MbThreads : mbLock[c] = t /\ mbAt[t] \in MbBusy
  /\ \A t \in MbThreads : mbAt[t] \in MbBusy => MbOwn(t)
  /\ \A t \in MbThreads : mbAt[t] \notin {"body", "rest", "judge"} => mbTook[t] = <<>>

MbInv == MbTyped /\ MbPooled /\ MbLocked /\ MbData /\ AnswersOwn

LEMMA MbInitially == MbInit => MbInv
<1> SUFFICES ASSUME MbInit PROVE MbInv
  OBVIOUS
<1> USE ModbusNamesAssumption, ModbusBoundsAssumption DEF MbInit
<1>1. MbTyped
  BY DEF MbTyped, MbTypeOK, MbEntries
<1>2. MbPooled /\ MbLocked
  BY DEF MbPooled, MbLocked, NoneLeftOpen, MbInside
<1>3. MbData
  BY DEF MbData, MbQuiet, MbBusy
<1> QED
  BY <1>1, <1>2, <1>3 DEF MbInv, AnswersOwn

LEMMA PiecesBelong ==
  ASSUME NEW n \in Nat, NEW transport, NEW kind \in {"values", "exception"}
  PROVE  Pieces(n, transport, kind) \in Seq(PieceOf(n)) /\ Pieces(n, transport, kind) \in Seq(AnyPiece)
<1> DEFINE piece(part) == [request |-> n, kind |-> kind, part |-> part]
           head == IF transport = "tcp" THEN <<piece("mbap")>> ELSE << >>
           body == CASE kind = "values" -> <<piece("head"), piece("rest")>>
                     [] kind = "exception" -> <<piece("head")>>
<1>1. \A part \in {"mbap", "head", "rest"} : piece(part) \in PieceOf(n) /\ piece(part) \in AnyPiece
  BY DEF PieceOf, AnyPiece
<1>2. Pieces(n, transport, kind) = head \o body
  BY DEF Pieces
<1> HIDE DEF piece
<1>3. head \in Seq(PieceOf(n)) /\ head \in Seq(AnyPiece)
  BY <1>1
<1>4. body \in Seq(PieceOf(n)) /\ body \in Seq(AnyPiece)
  BY <1>1
<1> HIDE DEF head, body
<1> QED
  BY <1>2, <1>3, <1>4

\* A step that stays inside: only its own connection and what it read may change.
LEMMA StepInside ==
  ASSUME MbInv, NEW t \in MbThreads, NEW c, c = mbConn[t], mbAt[t] \in MbInside,
         NEW spot \in MbInside, mbAt' = [mbAt EXCEPT ![t] = spot],
         mbPool' = mbPool, mbMade' = mbMade, mbKey' = mbKey, mbRefs' = mbRefs, mbLock' = mbLock,
         mbCut' = mbCut, mbRequests' = mbRequests, mbConn' = mbConn, mbRequest' = mbRequest,
         mbResult' = mbResult,
         mbLink' \in [MbEntries -> {"none", "up", "dropped"}],
         mbOwed' \in [MbEntries -> Seq(AnyPiece)], mbInput' \in [MbEntries -> Seq(AnyPiece)],
         mbTook' \in [MbThreads -> Seq(AnyPiece)],
         \A e \in MbEntries \ {c} :
           mbLink'[e] = mbLink[e] /\ mbOwed'[e] = mbOwed[e] /\ mbInput'[e] = mbInput[e],
         \A u \in MbThreads \ {t} : mbTook'[u] = mbTook[u],
         spot \in MbBusy => MbOwn(t)',
         spot \notin MbBusy => mbCut[c] \/ (mbInput'[c] = <<>> /\ mbOwed'[c] = <<>>),
         spot \notin {"body", "rest", "judge"} => mbTook'[t] = <<>>
  PROVE  MbInv'
<1>1. /\ mbAt' \in [MbThreads -> {"idle", "lock"} \cup MbInside] /\ mbAt'[t] = spot
      /\ \A u \in MbThreads \ {t} : mbAt'[u] = mbAt[u]
  BY DEF MbInv, MbTyped, MbTypeOK
<1>l. \A e \in MbEntries, u \in MbThreads : mbLock[e] = u => mbConn[u] = e /\ mbAt[u] \in MbInside
  BY DEF MbInv, MbLocked
<1>2. c \in MbEntries /\ mbLock[c] = t /\ \A u \in MbThreads \ {t} : mbAt[u] \in MbInside => mbConn[u] # c
  <2>1. c \in MbEntries
    BY DEF MbInv, MbPooled, MbInside
  <2>2. mbLock[c] = t /\ \A u \in MbThreads : mbAt[u] \in MbInside => mbLock[mbConn[u]] = u
    BY DEF MbInv, MbLocked
  <2> QED
    BY <2>1, <2>2
<1>3. MbTyped'
  BY <1>1 DEF MbInv, MbTyped, MbTypeOK
<1>4. NoneLeftOpen'
  <2>1. mbPool[mbKey[c]] = c /\ mbRefs[c] # {}
    BY DEF MbInv, MbPooled, MbInside
  <2> QED
    BY <2>1 DEF MbInv, MbPooled, NoneLeftOpen
<1>5. MbPooled'
  BY <1>1, <1>4 DEF MbInv, MbPooled, MbInside
<1>6. MbLocked'
  BY <1>1, <1>2 DEF MbInv, MbLocked
<1>7. ASSUME NEW e \in MbEntries
      PROVE  MbQuiet(e)' \/ \E u \in MbThreads : mbLock'[e] = u /\ mbAt'[u] \in MbBusy
  <2>1. CASE e = c
    BY <2>1, <1>1, <1>2 DEF MbQuiet
  <2>2. CASE e # c
    <3>1. MbQuiet(e)' <=> MbQuiet(e)
      BY <2>2 DEF MbQuiet
    <3>2. \A u \in MbThreads : mbLock[e] = u => mbAt'[u] = mbAt[u]
      BY <2>2, <1>1, <1>l
    <3> QED
      BY <3>1, <3>2 DEF MbInv, MbData
  <2> QED
    BY <2>1, <2>2
<1>8. ASSUME NEW u \in MbThreads, mbAt'[u] \in MbBusy PROVE MbOwn(u)'
  <2>1. CASE u = t
    BY <2>1, <1>1, <1>8
  <2>2. CASE u # t
    <3>1. mbAt'[u] = mbAt[u] /\ mbTook'[u] = mbTook[u] /\ MbOwn(u)
      BY <2>2, <1>1, <1>8 DEF MbInv, MbData
    <3>2. mbConn[u] \in MbEntries \ {c}
      BY <2>2, <3>1, <1>8, <1>2 DEF MbInv, MbPooled, MbBusy, MbInside
    <3>3. mbInput'[mbConn[u]] = mbInput[mbConn[u]] /\ mbOwed'[mbConn[u]] = mbOwed[mbConn[u]]
      BY <3>2
    <3> QED
      BY <3>1, <3>3 DEF MbOwn
  <2> QED
    BY <2>1, <2>2
<1>9. \A u \in MbThreads : mbAt'[u] \notin {"body", "rest", "judge"} => mbTook'[u] = <<>>
  BY <1>1 DEF MbInv, MbData
<1> QED
  BY <1>3, <1>5, <1>6, <1>7, <1>8, <1>9 DEF MbInv, MbData, AnswersOwn

\* A step that returns: what it leaves on its connection is nothing, or noted.
LEMMA StepReturns ==
  ASSUME MbInv, NEW t \in MbThreads, NEW c, c = mbConn[t], mbAt[t] \in MbInside,
         NEW result \in {"none", "values", "exception"}, Returns(t, result),
         mbLink' \in [MbEntries -> {"none", "up", "dropped"}],
         mbOwed' \in [MbEntries -> Seq(AnyPiece)], mbInput' \in [MbEntries -> Seq(AnyPiece)],
         mbCut' \in [MbEntries -> BOOLEAN],
         \A e \in MbEntries \ {c} :
           /\ mbLink'[e] = mbLink[e] /\ mbOwed'[e] = mbOwed[e] /\ mbInput'[e] = mbInput[e]
           /\ mbCut'[e] = mbCut[e],
         mbCut'[c] \/ (mbInput'[c] = <<>> /\ mbOwed'[c] = <<>>)
  PROVE  MbInv'
<1>t. /\ mbAt \in [MbThreads -> {"idle", "lock"} \cup MbInside]
      /\ mbConn \in [MbThreads -> 0..mbMade] /\ mbRequest \in [MbThreads -> 0..mbRequests]
      /\ mbResult \in [MbThreads -> {"none", "values", "exception", "foreign"}]
      /\ mbLock \in [MbEntries -> MbThreads \cup {Nobody}]
      /\ mbTook \in [MbThreads -> Seq(AnyPiece)] /\ mbMade \in Nat /\ mbRequests \in Nat
  BY ModbusBoundsAssumption DEF MbInv, MbTyped, MbTypeOK
<1>0. /\ mbAt' = [mbAt EXCEPT ![t] = "idle"] /\ mbResult' = [mbResult EXCEPT ![t] = result]
      /\ mbTook' = [mbTook EXCEPT ![t] = << >>] /\ mbRequest' = [mbRequest EXCEPT ![t] = 0]
      /\ mbLock' = [mbLock EXCEPT ![c] = Nobody] /\ mbConn' = [mbConn EXCEPT ![t] = 0]
      /\ mbPool' = mbPool /\ mbMade' = mbMade /\ mbKey' = mbKey /\ mbRefs' = mbRefs
      /\ mbRequests' = mbRequests
  BY DEF Returns, MbGoes, mbPoolVars
<1>l. \A e \in MbEntries, u \in MbThreads : mbLock[e] = u => mbConn[u] = e /\ mbAt[u] \in MbInside
  BY DEF MbInv, MbLocked
<1>2. c \in MbEntries /\ mbLock[c] = t /\ \A u \in MbThreads \ {t} : mbAt[u] \in MbInside => mbConn[u] # c
  <2>1. c \in MbEntries
    BY DEF MbInv, MbPooled, MbInside
  <2>2. mbLock[c] = t /\ \A u \in MbThreads : mbAt[u] \in MbInside => mbLock[mbConn[u]] = u
    BY DEF MbInv, MbLocked
  <2> QED
    BY <2>1, <2>2
<1>1. /\ mbAt' \in [MbThreads -> {"idle", "lock"} \cup MbInside] /\ mbAt'[t] = "idle"
      /\ mbConn' \in [MbThreads -> 0..mbMade] /\ mbRequest' \in [MbThreads -> 0..mbRequests]
      /\ mbResult' \in [MbThreads -> {"none", "values", "exception", "foreign"}]
      /\ mbLock' \in [MbEntries -> MbThreads \cup {Nobody}] /\ mbLock'[c] = Nobody
      /\ mbTook' \in [MbThreads -> Seq(AnyPiece)] /\ mbTook'[t] = <<>> /\ mbResult'[t] = result
      /\ \A u \in MbThreads \ {t} :
           /\ mbAt'[u] = mbAt[u] /\ mbTook'[u] = mbTook[u] /\ mbConn'[u] = mbConn[u]
           /\ mbRequest'[u] = mbRequest[u] /\ mbResult'[u] = mbResult[u]
      /\ \A e \in MbEntries \ {c} : mbLock'[e] = mbLock[e]
  BY <1>0, <1>2, <1>t
<1>3. MbTyped'
  BY <1>0, <1>1 DEF MbInv, MbTyped, MbTypeOK
<1>4. NoneLeftOpen'
  <2>1. mbPool[mbKey[c]] = c /\ mbRefs[c] # {}
    BY DEF MbInv, MbPooled, MbInside
  <2> QED
    BY <2>1, <1>0 DEF MbInv, MbPooled, NoneLeftOpen
<1>5. MbPooled'
  <2>1. \A u \in MbThreads : mbAt'[u] # "idle" => u # t
    BY <1>1
  <2> QED
    BY <2>1, <1>0, <1>1, <1>4 DEF MbInv, MbPooled
<1>6. MbLocked'
  <2>1. \A u \in MbThreads : mbAt'[u] \in MbInside => mbLock'[mbConn'[u]] = u
    <3> SUFFICES ASSUME NEW u \in MbThreads, mbAt'[u] \in MbInside PROVE mbLock'[mbConn'[u]] = u
      OBVIOUS
    <3>1. u # t
      BY <1>1 DEF MbInside
    <3>2. mbConn'[u] = mbConn[u] /\ mbConn[u] \in MbEntries \ {c} /\ mbLock[mbConn[u]] = u
      BY <3>1, <1>1, <1>2 DEF MbInv, MbPooled, MbLocked, MbInside
    <3> QED
      BY <3>2, <1>1
  <2>2. ASSUME NEW e \in MbEntries, NEW u \in MbThreads, mbLock'[e] = u
        PROVE  mbConn'[u] = e /\ mbAt'[u] \in MbInside
    <3>1. e # c
      BY <2>2, <1>1, ModbusNamesAssumption
    <3>2. mbLock[e] = u /\ mbConn[u] = e /\ mbAt[u] \in MbInside
      BY <3>1, <2>2, <1>1, <1>l
    <3>3. u # t
      BY <3>1, <3>2
    <3> QED
      BY <3>2, <3>3, <1>1
  <2> QED
    BY <2>1, <2>2 DEF MbLocked
<1>7. ASSUME NEW e \in MbEntries
      PROVE  MbQuiet(e)' \/ \E u \in MbThreads : mbLock'[e] = u /\ mbAt'[u] \in MbBusy
  <2>1. CASE e = c
    BY <2>1 DEF MbQuiet
  <2>2. CASE e # c
    <3>1. (MbQuiet(e)' <=> MbQuiet(e)) /\ mbLock'[e] = mbLock[e]
      BY <2>2, <1>1 DEF MbQuiet
    <3>2. ASSUME NEW u \in MbThreads, mbLock[e] = u PROVE mbAt'[u] = mbAt[u]
      <4>1. u # t
        BY <3>2, <2>2, <1>l
      <4> QED
        BY <4>1, <1>1
    <3> QED
      BY <3>1, <3>2 DEF MbInv, MbData
  <2> QED
    BY <2>1, <2>2
<1>8. ASSUME NEW u \in MbThreads, mbAt'[u] \in MbBusy PROVE MbOwn(u)'
  <2>2. u # t
    BY <1>1, <1>8 DEF MbBusy
  <2>3. /\ mbAt'[u] = mbAt[u] /\ mbTook'[u] = mbTook[u] /\ mbRequest'[u] = mbRequest[u]
        /\ mbConn'[u] = mbConn[u] /\ MbOwn(u)
    BY <2>2, <1>1, <1>8 DEF MbInv, MbData
  <2>4. mbConn[u] \in MbEntries \ {c}
    BY <2>2, <2>3, <1>8, <1>2 DEF MbInv, MbPooled, MbBusy, MbInside
  <2>5. /\ mbInput'[mbConn[u]] = mbInput[mbConn[u]] /\ mbOwed'[mbConn[u]] = mbOwed[mbConn[u]]
        /\ mbCut'[mbConn[u]] = mbCut[mbConn[u]]
    BY <2>4
  <2> QED
    BY <2>3, <2>5 DEF MbOwn
<1>9. \A u \in MbThreads : mbAt'[u] \notin {"body", "rest", "judge"} => mbTook'[u] = <<>>
  BY <1>1 DEF MbInv, MbData
<1>10. AnswersOwn'
  BY <1>1 DEF MbInv, AnswersOwn
<1> QED
  BY <1>3, <1>5, <1>6, <1>7, <1>8, <1>9, <1>10 DEF MbInv, MbData

LEMMA LineTypes ==
  ASSUME MbInv
  PROVE  /\ mbLink \in [MbEntries -> {"none", "up", "dropped"}]
         /\ mbOwed \in [MbEntries -> Seq(AnyPiece)] /\ mbInput \in [MbEntries -> Seq(AnyPiece)]
         /\ mbCut \in [MbEntries -> BOOLEAN] /\ mbTook \in [MbThreads -> Seq(AnyPiece)]
         /\ mbRequest \in [MbThreads -> Nat]
  BY DEF MbInv, MbTyped, MbTypeOK

\* A thread that is inside has a connection.
LEMMA InsideHasEntry ==
  ASSUME MbInv, NEW t \in MbThreads, mbAt[t] \in MbInside
  PROVE  mbConn[t] \in MbEntries /\ mbLock[mbConn[t]] = t
  BY DEF MbInv, MbPooled, MbLocked, MbInside

\* Between two steps, and before the request is sent, nothing is on a connection
\* that was not cut.
LEMMA QuietBefore ==
  ASSUME MbInv, NEW t \in MbThreads, mbAt[t] \in {"open", "send"}
  PROVE  MbQuiet(mbConn[t])
<1>1. mbConn[t] \in MbEntries /\ mbLock[mbConn[t]] = t
  BY InsideHasEntry DEF MbInside
<1>2. mbAt[t] \notin MbBusy
  BY DEF MbBusy
<1> QED
  BY <1>1, <1>2 DEF MbInv, MbData

LEMMA MbBeginKeeps == ASSUME MbInv, NEW t \in MbThreads, BeginRequest(t) PROVE MbInv'
<1> USE ModbusBoundsAssumption, ModbusNamesAssumption
<1>t. /\ mbPool \in [MbKeys -> 0..mbMade] /\ mbMade \in 0..MaxMbEntries /\ MaxMbEntries \in Nat
      /\ mbRefs \in [MbEntries -> SUBSET MbWorkflows] /\ mbKey \in [MbEntries -> MbKeys]
      /\ mbLock \in [MbEntries -> MbThreads \cup {Nobody}]
      /\ mbAt \in [MbThreads -> {"idle", "lock"} \cup MbInside]
      /\ mbConn \in [MbThreads -> 0..mbMade] /\ mbRequest \in [MbThreads -> 0..mbRequests]
      /\ mbResult \in [MbThreads -> {"none", "values", "exception", "foreign"}]
      /\ mbRequests \in Nat /\ MbWorkflowOf[t] \in MbWorkflows
  BY DEF MbInv, MbTyped, MbTypeOK, MbWorkflows
<1>1. PICK k \in MbKeys :
        /\ mbAt[t] = "idle"
        /\ mbPool[k] = 0 => mbMade < MaxMbEntries
        /\ mbMade' = mbMade + IF mbPool[k] = 0 THEN 1 ELSE 0
        /\ LET c == IF mbPool[k] = 0 THEN mbMade' ELSE mbPool[k] IN
             /\ mbPool' = [mbPool EXCEPT ![k] = c]
             /\ mbKey' = [mbKey EXCEPT ![c] = k]
             /\ mbRefs' = [mbRefs EXCEPT ![c] = @ \cup {MbWorkflowOf[t]}]
             /\ mbConn' = [mbConn EXCEPT ![t] = c]
        /\ mbRequests' = mbRequests + 1
        /\ mbRequest' = [mbRequest EXCEPT ![t] = mbRequests']
        /\ mbResult' = [mbResult EXCEPT ![t] = "none"]
        /\ mbAt' = [mbAt EXCEPT ![t] = "lock"]
  BY DEF BeginRequest, MbGoes
<1>2. /\ mbLock' = mbLock /\ mbLink' = mbLink /\ mbOwed' = mbOwed /\ mbInput' = mbInput
      /\ mbCut' = mbCut /\ mbTook' = mbTook
  BY DEF BeginRequest, mbLineVars
<1> DEFINE c == IF mbPool[k] = 0 THEN mbMade' ELSE mbPool[k]
<1>3. /\ mbPool' = [mbPool EXCEPT ![k] = c] /\ mbKey' = [mbKey EXCEPT ![c] = k]
      /\ mbRefs' = [mbRefs EXCEPT ![c] = @ \cup {MbWorkflowOf[t]}]
      /\ mbConn' = [mbConn EXCEPT ![t] = c]
  BY <1>1
<1>4. /\ mbMade' \in 0..MaxMbEntries /\ mbMade <= mbMade' /\ c \in 1..mbMade' /\ c \in MbEntries
      /\ (mbPool[k] = 0 /\ c = mbMade + 1) \/ (mbPool[k] = c /\ mbKey[c] = k)
  <2>1. CASE mbPool[k] = 0
    BY <2>1, <1>1, <1>t DEF MbEntries
  <2>2. CASE mbPool[k] # 0
    <3>1. mbKey[mbPool[k]] = k
      BY <2>2 DEF MbInv, MbPooled
    <3> QED
      BY <2>2, <3>1, <1>1, <1>t DEF MbEntries
  <2> QED
    BY <2>1, <2>2
<1> HIDE DEF c
<1>5. /\ mbPool' \in [MbKeys -> 0..mbMade'] /\ mbKey' \in [MbEntries -> MbKeys]
      /\ mbRefs' \in [MbEntries -> SUBSET MbWorkflows]
      /\ mbPool'[k] = c /\ \A j \in MbKeys \ {k} : mbPool'[j] = mbPool[j]
      /\ mbKey'[c] = k /\ \A e \in MbEntries \ {c} : mbKey'[e] = mbKey[e]
      /\ MbWorkflowOf[t] \in mbRefs'[c] /\ \A e \in MbEntries : mbRefs[e] \subseteq mbRefs'[e]
  BY <1>3, <1>4, <1>t
<1>6. /\ mbConn' \in [MbThreads -> 0..mbMade'] /\ mbConn'[t] = c
      /\ mbAt' \in [MbThreads -> {"idle", "lock"} \cup MbInside] /\ mbAt'[t] = "lock"
      /\ mbResult' \in [MbThreads -> {"none", "values", "exception", "foreign"}]
      /\ mbResult'[t] = "none"
      /\ \A u \in MbThreads \ {t} :
           mbConn'[u] = mbConn[u] /\ mbAt'[u] = mbAt[u] /\ mbResult'[u] = mbResult[u]
  BY <1>1, <1>3, <1>4, <1>t
<1>7. /\ mbRequests' \in Nat /\ mbRequest' \in [MbThreads -> 0..mbRequests']
      /\ \A u \in MbThreads \ {t} : mbRequest'[u] = mbRequest[u]
  BY <1>1, <1>t
<1>8. MbTyped'
  BY <1>2, <1>4, <1>5, <1>6, <1>7 DEF MbInv, MbTyped, MbTypeOK
<1>9. \* What the pool has it keeps, and under the same key.
      ASSUME NEW e \in MbEntries, mbPool[mbKey[e]] = e
      PROVE  mbKey'[e] = mbKey[e] /\ mbPool'[mbKey[e]] = e
  <2>1. mbKey[e] \in MbKeys /\ e # 0 /\ e \in 0..mbMade
    BY <1>9, <1>t DEF MbEntries
  <2>2. CASE mbPool[k] = 0 /\ c = mbMade + 1
    <3>1. e # c /\ mbKey[e] # k
      BY <2>1, <2>2, <1>9, <1>t
    <3> QED
      BY <3>1, <2>1, <1>5, <1>9
  <2>3. CASE mbPool[k] = c /\ mbKey[c] = k
    BY <2>1, <2>3, <1>5, <1>9
  <2> QED
    BY <2>2, <2>3, <1>4
<1>10. \A j \in MbKeys : mbPool'[j] # 0 => mbKey'[mbPool'[j]] = j
  <2> SUFFICES ASSUME NEW j \in MbKeys, mbPool'[j] # 0 PROVE mbKey'[mbPool'[j]] = j
    OBVIOUS
  <2>1. CASE j = k
    BY <2>1, <1>5
  <2>2. CASE j # k
    <3>1. mbPool'[j] = mbPool[j] /\ mbKey[mbPool[j]] = j
      BY <2>2, <1>5 DEF MbInv, MbPooled
    <3>2. mbPool[j] \in MbEntries
      BY <3>1, <1>t DEF MbEntries
    <3> QED
      BY <3>1, <3>2, <1>9
  <2> QED
    BY <2>1, <2>2
<1>11. ASSUME NEW u \in MbThreads, mbAt'[u] # "idle"
       PROVE  /\ mbConn'[u] \in MbEntries /\ mbPool'[mbKey'[mbConn'[u]]] = mbConn'[u]
              /\ MbWorkflowOf[u] \in mbRefs'[mbConn'[u]]
  <2>1. CASE u = t
    BY <2>1, <1>4, <1>5, <1>6
  <2>2. CASE u # t
    <3>1. mbConn'[u] = mbConn[u] /\ mbAt[u] # "idle"
      BY <2>2, <1>6, <1>11
    <3>2. /\ mbConn[u] \in MbEntries /\ mbPool[mbKey[mbConn[u]]] = mbConn[u]
          /\ MbWorkflowOf[u] \in mbRefs[mbConn[u]]
      BY <3>1 DEF MbInv, MbPooled
    <3>3. mbKey'[mbConn[u]] = mbKey[mbConn[u]] /\ mbPool'[mbKey[mbConn[u]]] = mbConn[u]
      BY <3>2, <1>9
    <3> QED
      BY <3>1, <3>2, <3>3, <1>5
  <2> QED
    BY <2>1, <2>2
<1>12. NoneLeftOpen'
  <2> SUFFICES ASSUME NEW e \in MbEntries, mbLink[e] # "none"
               PROVE  mbPool'[mbKey'[e]] = e /\ mbRefs'[e] # {}
    BY <1>2 DEF NoneLeftOpen
  <2>1. mbPool[mbKey[e]] = e /\ mbRefs[e] # {}
    BY DEF MbInv, MbPooled, NoneLeftOpen
  <2> QED
    BY <2>1, <1>9, <1>5
<1>13. MbPooled'
  BY <1>10, <1>11, <1>12 DEF MbPooled
<1>14. MbLocked'
  <2>1. \A u \in MbThreads : mbAt'[u] \in MbInside => u # t
    BY <1>6 DEF MbInside
  <2>2. \A e \in MbEntries : mbLock[e] # t
    BY <1>1 DEF MbInv, MbLocked, MbInside
  <2> QED
    BY <2>1, <2>2, <1>2, <1>6 DEF MbInv, MbLocked
<1>15. MbData'
  <2>1. \A u \in MbThreads : mbAt'[u] \in MbBusy \/ mbAt[u] \in MbBusy => u # t
    BY <1>1, <1>6 DEF MbBusy
  <2>2. \A e \in MbEntries : MbQuiet(e)' <=> MbQuiet(e)
    BY <1>2 DEF MbQuiet
  <2>3. ASSUME NEW u \in MbThreads, mbAt'[u] \in MbBusy PROVE MbOwn(u)'
    <3>1. u # t /\ MbOwn(u)
      BY <2>1, <2>3, <1>6 DEF MbInv, MbData
    <3>2. /\ mbConn'[u] = mbConn[u] /\ mbAt'[u] = mbAt[u] /\ mbRequest'[u] = mbRequest[u]
      BY <3>1, <1>6, <1>7
    <3> QED
      BY <3>1, <3>2, <1>2 DEF MbOwn
  <2>4. ASSUME NEW e \in MbEntries
        PROVE  MbQuiet(e)' \/ \E u \in MbThreads : mbLock'[e] = u /\ mbAt'[u] \in MbBusy
    BY <2>1, <2>2, <1>2, <1>6 DEF MbInv, MbData
  <2>5. \A u \in MbThreads : mbAt'[u] \notin {"body", "rest", "judge"} => mbTook'[u] = <<>>
    BY <1>1, <1>2, <1>6 DEF MbInv, MbData
  <2> QED
    BY <2>3, <2>4, <2>5 DEF MbData
<1>16. AnswersOwn'
  BY <1>6 DEF MbInv, AnswersOwn
<1> QED
  BY <1>8, <1>13, <1>14, <1>15, <1>16 DEF MbInv

LEMMA MbLockKeeps == ASSUME MbInv, NEW t \in MbThreads, LockEntry(t) PROVE MbInv'
<1> USE ModbusNamesAssumption
<1> DEFINE c == mbConn[t]
<1>t. /\ mbAt \in [MbThreads -> {"idle", "lock"} \cup MbInside]
      /\ mbLock \in [MbEntries -> MbThreads \cup {Nobody}]
  BY DEF MbInv, MbTyped, MbTypeOK
<1>1. /\ mbAt[t] = "lock" /\ mbLock[c] = Nobody
      /\ mbLock' = [mbLock EXCEPT ![c] = t] /\ mbAt' = [mbAt EXCEPT ![t] = "open"]
      /\ mbPool' = mbPool /\ mbMade' = mbMade /\ mbKey' = mbKey /\ mbRefs' = mbRefs
      /\ mbLink' = mbLink /\ mbOwed' = mbOwed /\ mbInput' = mbInput /\ mbCut' = mbCut
      /\ mbRequests' = mbRequests /\ mbConn' = mbConn /\ mbRequest' = mbRequest
      /\ mbTook' = mbTook /\ mbResult' = mbResult
  BY DEF LockEntry, MbGoes, mbPoolVars, mbLineVars
<1>2. c \in MbEntries
  BY <1>1 DEF MbInv, MbPooled
<1> HIDE DEF c
<1>3. /\ mbAt' \in [MbThreads -> {"idle", "lock"} \cup MbInside] /\ mbAt'[t] = "open"
      /\ mbLock' \in [MbEntries -> MbThreads \cup {Nobody}] /\ mbLock'[c] = t
      /\ \A u \in MbThreads \ {t} : mbAt'[u] = mbAt[u]
      /\ \A e \in MbEntries \ {c} : mbLock'[e] = mbLock[e]
  BY <1>1, <1>2, <1>t DEF MbInside
<1>4. MbTyped'
  BY <1>1, <1>3 DEF MbInv, MbTyped, MbTypeOK
<1>5. MbPooled'
  BY <1>1, <1>3 DEF MbInv, MbPooled, NoneLeftOpen
<1>6. MbLocked'
  <2>1. ASSUME NEW u \in MbThreads, mbAt'[u] \in MbInside PROVE mbLock'[mbConn[u]] = u
    <3>1. CASE u = t
      BY <3>1, <1>3 DEF c
    <3>2. CASE u # t
      <4>1. mbLock[mbConn[u]] = u /\ mbConn[u] \in MbEntries
        BY <3>2, <2>1, <1>3 DEF MbInv, MbLocked, MbPooled, MbInside
      <4>2. mbConn[u] # c
        BY <4>1, <1>1 DEF c
      <4> QED
        BY <4>1, <4>2, <1>3
    <3> QED
      BY <3>1, <3>2
  <2>2. ASSUME NEW e \in MbEntries, NEW u \in MbThreads, mbLock'[e] = u
        PROVE  mbConn[u] = e /\ mbAt'[u] \in MbInside
    <3>1. CASE e = c
      BY <3>1, <2>2, <1>3 DEF c, MbInside
    <3>2. CASE e # c
      <4>1. mbConn[u] = e /\ mbAt[u] \in MbInside
        BY <3>2, <2>2, <1>3 DEF MbInv, MbLocked
      <4>2. u # t
        BY <4>1, <1>1 DEF MbInside
      <4> QED
        BY <4>1, <4>2, <1>3
    <3> QED
      BY <3>1, <3>2
  <2> QED
    BY <2>1, <2>2, <1>1 DEF MbLocked
<1>7. MbData'
  <2>1. mbAt[t] \notin MbBusy /\ mbAt'[t] \notin MbBusy
    BY <1>1, <1>3 DEF MbBusy
  <2>2. \A e \in MbEntries : MbQuiet(e)' <=> MbQuiet(e)
    BY <1>1 DEF MbQuiet
  <2>3. ASSUME NEW u \in MbThreads, mbAt'[u] \in MbBusy PROVE MbOwn(u)'
    <3>1. u # t
      BY <2>1, <2>3
    <3>2. MbOwn(u) /\ mbAt'[u] = mbAt[u]
      BY <2>3, <3>1, <1>3 DEF MbInv, MbData
    <3> QED
      BY <3>2, <1>1 DEF MbOwn
  <2>4. ASSUME NEW e \in MbEntries
        PROVE  MbQuiet(e)' \/ \E u \in MbThreads : mbLock'[e] = u /\ mbAt'[u] \in MbBusy
    <3>1. CASE MbQuiet(e)
      BY <3>1, <2>2
    <3>2. CASE ~MbQuiet(e)
      <4>1. PICK u \in MbThreads : mbLock[e] = u /\ mbAt[u] \in MbBusy
        BY <3>2 DEF MbInv, MbData
      <4>2. e # c /\ u # t
        BY <4>1, <1>1, <2>1
      <4> QED
        BY <4>1, <4>2, <1>3
    <3> QED
      BY <3>1, <3>2
  <2>5. \A u \in MbThreads : mbAt'[u] \notin {"body", "rest", "judge"} => mbTook'[u] = <<>>
    BY <1>1, <1>3 DEF MbInv, MbData
  <2> QED
    BY <2>3, <2>4, <2>5 DEF MbData
<1> QED
  BY <1>1, <1>4, <1>5, <1>6, <1>7 DEF MbInv, AnswersOwn

LEMMA MbOpenKeeps == ASSUME MbInv, NEW t \in MbThreads, OpenTransport(t) PROVE MbInv'
<1> DEFINE c == mbConn[t]
<1>1. mbAt[t] = "open" /\ mbOwed' = mbOwed /\ mbInput' = mbInput /\ mbCut' = mbCut
  BY DEF OpenTransport
<1>2. c \in MbEntries /\ MbQuiet(c) /\ mbAt[t] \in MbInside
  BY <1>1, InsideHasEntry, QuietBefore DEF MbInside
<1>3. mbTook[t] = <<>>
  BY <1>1 DEF MbInv, MbData
<1> HIDE DEF c
<1>4. CASE /\ mbLink' = [mbLink EXCEPT ![c] = IF @ = "none" THEN "up" ELSE @]
           /\ MbGoes(t, "send")
           /\ UNCHANGED <<mbPoolVars, mbLock, mbRequests, mbConn, mbRequest, mbTook, mbResult>>
  <2>1. /\ mbLink' \in [MbEntries -> {"none", "up", "dropped"}]
        /\ \A e \in MbEntries \ {c} : mbLink'[e] = mbLink[e]
    BY <1>4, <1>2, LineTypes
  <2>2. /\ mbAt' = [mbAt EXCEPT ![t] = "send"]
        /\ mbPool' = mbPool /\ mbMade' = mbMade /\ mbKey' = mbKey /\ mbRefs' = mbRefs
        /\ mbLock' = mbLock /\ mbRequests' = mbRequests /\ mbConn' = mbConn
        /\ mbRequest' = mbRequest /\ mbTook' = mbTook /\ mbResult' = mbResult
    BY <1>4 DEF MbGoes, mbPoolVars
  <2>3. "send" \in MbInside /\ "send" \notin MbBusy
    BY DEF MbInside, MbBusy
  <2>4. mbCut[c] \/ (mbInput'[c] = <<>> /\ mbOwed'[c] = <<>>)
    BY <1>1, <1>2 DEF MbQuiet
  <2>5. /\ mbOwed' \in [MbEntries -> Seq(AnyPiece)] /\ mbInput' \in [MbEntries -> Seq(AnyPiece)]
        /\ mbTook' \in [MbThreads -> Seq(AnyPiece)]
    BY <1>1, <2>2, LineTypes
  <2> QED
    BY <1>1, <1>2, <1>3, <2>1, <2>2, <2>3, <2>4, <2>5, StepInside DEF c
<1>5. CASE mbLink[c] = "none" /\ Returns(t, "none") /\ UNCHANGED mbLink
  <2>1. mbCut'[c] \/ (mbInput'[c] = <<>> /\ mbOwed'[c] = <<>>)
    BY <1>1, <1>2 DEF MbQuiet
  <2>2. /\ mbLink' \in [MbEntries -> {"none", "up", "dropped"}]
        /\ mbOwed' \in [MbEntries -> Seq(AnyPiece)] /\ mbInput' \in [MbEntries -> Seq(AnyPiece)]
        /\ mbCut' \in [MbEntries -> BOOLEAN]
    BY <1>1, <1>5, LineTypes
  <2> QED
    BY <1>1, <1>2, <1>5, <2>1, <2>2, StepReturns DEF c
<1> QED
  BY <1>4, <1>5 DEF OpenTransport, c

LEMMA MbSendKeeps == ASSUME MbInv, NEW t \in MbThreads, SendRequestFrame(t) PROVE MbInv'
<1> DEFINE c == mbConn[t]
           n == mbRequest[t]
<1>1. /\ mbAt[t] = "send" /\ mbAt' = [mbAt EXCEPT ![t] = "wait"]
      /\ mbLink' = [mbLink EXCEPT ![c] = "up"]
      /\ mbInput' = [mbInput EXCEPT ![c] = IF mbLink[c] = "dropped" THEN << >> ELSE @]
      /\ mbPool' = mbPool /\ mbMade' = mbMade /\ mbKey' = mbKey /\ mbRefs' = mbRefs
      /\ mbLock' = mbLock /\ mbRequests' = mbRequests /\ mbConn' = mbConn /\ mbCut' = mbCut
      /\ mbRequest' = mbRequest /\ mbTook' = mbTook /\ mbResult' = mbResult
  BY DEF SendRequestFrame, MbGoes, mbPoolVars
<1>2. PICK reply \in {<< >>} \cup {Pieces(n, MbTransport[mbKey[c]], kind) :
                                      kind \in {"values", "exception"}} :
        mbOwed' = [mbOwed EXCEPT ![c] = @ \o reply]
  BY DEF SendRequestFrame
<1>3. c \in MbEntries /\ MbQuiet(c) /\ mbAt[t] \in MbInside /\ n \in Nat
  BY <1>1, InsideHasEntry, QuietBefore, LineTypes DEF MbInside
<1>4. mbTook[t] = <<>>
  BY <1>1 DEF MbInv, MbData
<1> HIDE DEF c, n
<1>5. reply \in Seq(PieceOf(n)) /\ reply \in Seq(AnyPiece)
  <2>1. CASE reply = << >>
    BY <2>1
  <2>2. CASE reply # << >>
    <3>1. PICK kind \in {"values", "exception"} : reply = Pieces(n, MbTransport[mbKey[c]], kind)
      BY <2>2, <1>2
    <3> QED
      BY <3>1, <1>3, PiecesBelong
  <2> QED
    BY <2>1, <2>2
<1>6. /\ mbLink' \in [MbEntries -> {"none", "up", "dropped"}]
      /\ mbOwed' \in [MbEntries -> Seq(AnyPiece)] /\ mbInput' \in [MbEntries -> Seq(AnyPiece)]
      /\ mbTook' \in [MbThreads -> Seq(AnyPiece)]
      /\ \A e \in MbEntries \ {c} :
           mbLink'[e] = mbLink[e] /\ mbOwed'[e] = mbOwed[e] /\ mbInput'[e] = mbInput[e]
      /\ mbOwed'[c] = mbOwed[c] \o reply /\ mbInput'[c] \in {mbInput[c], << >>}
  BY <1>1, <1>2, <1>3, <1>5, LineTypes
<1>7. MbOwn(t)'
  <2>1. CASE mbCut[c]
    BY <2>1, <1>1 DEF MbOwn, c
  <2>2. CASE mbInput[c] = <<>> /\ mbOwed[c] = <<>>
    <3>1. mbOwed'[c] \in Seq(PieceOf(n)) /\ mbInput'[c] = <<>>
      BY <2>2, <1>5, <1>6
    <3>2. <<>> \in Seq(PieceOf(n))
      OBVIOUS
    <3>3. mbAt'[t] = "wait"
      BY <1>1 DEF MbInv, MbTyped, MbTypeOK
    <3> QED
      BY <3>1, <3>2, <3>3, <1>1, <1>4 DEF MbOwn, c, n
  <2> QED
    BY <2>1, <2>2, <1>3 DEF MbQuiet
<1>8. "wait" \in MbInside /\ "wait" \in MbBusy
  BY DEF MbInside, MbBusy
<1> QED
  BY <1>1, <1>3, <1>4, <1>6, <1>7, <1>8, StepInside DEF c

\* What a read does: pieces go from the input to what the step has read.
LEMMA MbReadKeeps ==
  ASSUME MbInv, NEW t \in MbThreads, mbAt[t] \in MbBusy, NEW c, c = mbConn[t],
         NEW spot \in {"body", "rest", "judge"}, mbAt' = [mbAt EXCEPT ![t] = spot],
         NEW took \in Seq(AnyPiece), NEW input \in Seq(AnyPiece),
         ~mbCut[c] => /\ took \in Seq(PieceOf(mbRequest[t])) /\ took # << >>
                      /\ input \in Seq(PieceOf(mbRequest[t])),
         mbTook' = [mbTook EXCEPT ![t] = took], mbInput' = [mbInput EXCEPT ![c] = input],
         UNCHANGED <<mbPoolVars, mbLock, mbLink, mbOwed, mbCut, mbRequests, mbConn, mbRequest, mbResult>>
  PROVE  MbInv'
<1>1. mbAt[t] \in MbInside /\ spot \in MbInside /\ spot \in MbBusy
  BY DEF MbInside, MbBusy
<1>2. c \in MbEntries
  BY <1>1, InsideHasEntry
<1>3. /\ mbPool' = mbPool /\ mbMade' = mbMade /\ mbKey' = mbKey /\ mbRefs' = mbRefs
      /\ mbLock' = mbLock /\ mbRequests' = mbRequests /\ mbConn' = mbConn /\ mbCut' = mbCut
      /\ mbRequest' = mbRequest /\ mbResult' = mbResult /\ mbLink' = mbLink /\ mbOwed' = mbOwed
  BY DEF mbPoolVars
<1>4. /\ mbInput' \in [MbEntries -> Seq(AnyPiece)] /\ mbTook' \in [MbThreads -> Seq(AnyPiece)]
      /\ mbInput'[c] = input /\ \A e \in MbEntries \ {c} : mbInput'[e] = mbInput[e]
      /\ mbTook'[t] = took /\ \A u \in MbThreads \ {t} : mbTook'[u] = mbTook[u]
  BY <1>2, LineTypes
<1>5. MbOwn(t)'
  <2>1. mbCut[c] \/ mbOwed[c] \in Seq(PieceOf(mbRequest[t]))
    BY DEF MbInv, MbData, MbOwn
  <2> QED
    BY <2>1, <1>3, <1>4 DEF MbOwn
<1>6. /\ mbOwed' \in [MbEntries -> Seq(AnyPiece)]
      /\ mbLink' \in [MbEntries -> {"none", "up", "dropped"}]
  BY <1>3, LineTypes
<1> QED
  BY <1>1, <1>3, <1>4, <1>5, <1>6, StepInside

\* The pieces of a step that is waiting, unless an answer was cut before.
LEMMA WhatIsRead ==
  ASSUME MbInv, NEW t \in MbThreads, mbAt[t] \in MbBusy
  PROVE  /\ mbTook[t] \in Seq(AnyPiece) /\ mbInput[mbConn[t]] \in Seq(AnyPiece)
         /\ mbConn[t] \in MbEntries
         /\ ~mbCut[mbConn[t]] => /\ mbTook[t] \in Seq(PieceOf(mbRequest[t]))
                                 /\ mbInput[mbConn[t]] \in Seq(PieceOf(mbRequest[t]))
                                 /\ mbOwed[mbConn[t]] \in Seq(PieceOf(mbRequest[t]))
                                 /\ mbAt[t] # "wait" => mbTook[t] # <<>>
<1>1. mbConn[t] \in MbEntries
  BY InsideHasEntry DEF MbInside, MbBusy
<1> QED
  BY <1>1, LineTypes DEF MbInv, MbData, MbOwn

LEMMA MbReadHeaderKeeps == ASSUME MbInv, NEW t \in MbThreads, ReadHeader(t) PROVE MbInv'
<1> DEFINE c == mbConn[t]
           input == mbInput[c]
<1>1. /\ mbAt[t] = "wait" /\ input # << >>
      /\ mbTook' = [mbTook EXCEPT ![t] = <<Head(input)>>]
      /\ mbInput' = [mbInput EXCEPT ![c] = Tail(input)]
      /\ mbAt' = [mbAt EXCEPT ![t] = "body"]
      /\ UNCHANGED <<mbPoolVars, mbLock, mbLink, mbOwed, mbCut, mbRequests, mbConn, mbRequest, mbResult>>
  BY Zenon DEF ReadHeader, MbGoes
<1>2. mbAt[t] \in MbBusy
  BY <1>1 DEF MbBusy
<1>3. input \in Seq(AnyPiece) /\ (~mbCut[c] => input \in Seq(PieceOf(mbRequest[t])))
  BY <1>2, WhatIsRead
<1> HIDE DEF input
<1>4. \A S : input \in Seq(S) => <<Head(input)>> \in Seq(S) /\ Tail(input) \in Seq(S)
  BY <1>1
<1>5. <<Head(input)>> # << >>
  OBVIOUS
<1> HIDE DEF c
<1> DEFINE took == <<Head(input)>>
           left == Tail(input)
<1>6. /\ took \in Seq(AnyPiece) /\ left \in Seq(AnyPiece)
      /\ ~mbCut[c] => /\ took \in Seq(PieceOf(mbRequest[t])) /\ took # << >>
                      /\ left \in Seq(PieceOf(mbRequest[t]))
      /\ mbTook' = [mbTook EXCEPT ![t] = took] /\ mbInput' = [mbInput EXCEPT ![c] = left]
  BY <1>1, <1>3, <1>4, <1>5
<1> HIDE DEF took, left
<1> QED
  BY <1>1, <1>2, <1>6, MbReadKeeps DEF c

LEMMA MbReadAllKeeps ==
  ASSUME MbInv, NEW t \in MbThreads, ReadArrived(t) \/ ReadRest(t) PROVE MbInv'
<1> DEFINE c == mbConn[t]
           took == mbTook[t] \o mbInput[c]
           none == << >>
<1>1. PICK spot \in {"rest", "judge"} :
      /\ \/ mbAt[t] \in {"body", "rest"}
         \/ mbAt[t] = "wait" /\ mbInput[c] # << >>
      /\ mbTook' = [mbTook EXCEPT ![t] = took]
      /\ mbInput' = [mbInput EXCEPT ![c] = none]
      /\ mbAt' = [mbAt EXCEPT ![t] = spot]
      /\ UNCHANGED <<mbPoolVars, mbLock, mbLink, mbOwed, mbCut, mbRequests, mbConn, mbRequest, mbResult>>
  BY Zenon DEF ReadArrived, ReadRest, MbGoes
<1>2. mbAt[t] \in MbBusy
  BY <1>1 DEF MbBusy
<1>3. /\ mbTook[t] \in Seq(AnyPiece) /\ mbInput[c] \in Seq(AnyPiece)
      /\ ~mbCut[c] => /\ mbTook[t] \in Seq(PieceOf(mbRequest[t]))
                      /\ mbInput[c] \in Seq(PieceOf(mbRequest[t]))
                      /\ mbTook[t] # <<>> \/ mbInput[c] # <<>>
  BY <1>1, <1>2, WhatIsRead
<1>4. took \in Seq(AnyPiece) /\ none \in Seq(AnyPiece) /\ none \in Seq(PieceOf(mbRequest[t]))
  BY <1>3
<1>5. ~mbCut[c] => took \in Seq(PieceOf(mbRequest[t])) /\ took # << >>
  BY <1>3
<1> HIDE DEF c, took, none
<1> QED
  BY <1>1, <1>2, <1>4, <1>5, MbReadKeeps DEF c

\* A step that closes its transport leaves nothing there, or notes what will come.
LEMMA MbCloseKeeps ==
  ASSUME MbInv, NEW t \in MbThreads, mbAt[t] \in MbInside, CloseTransport(mbConn[t]),
         Returns(t, "none")
  PROVE  MbInv'
<1> DEFINE c == mbConn[t]
           unsent == IF Tcp(c) THEN << >> ELSE mbOwed[c]
<1>1. c \in MbEntries
  BY InsideHasEntry
<1>2. /\ mbLink' = [mbLink EXCEPT ![c] = "none"] /\ mbInput' = [mbInput EXCEPT ![c] = << >>]
      /\ mbOwed' = [mbOwed EXCEPT ![c] = unsent]
      /\ mbCut' = [mbCut EXCEPT ![c] = ~Tcp(c) /\ mbOwed[c] # << >>]
  BY DEF CloseTransport
<1>3. unsent \in Seq(AnyPiece)
  BY <1>1, LineTypes
<1>4. unsent = << >> \/ (~Tcp(c) /\ mbOwed[c] # << >>)
  OBVIOUS
<1> DEFINE cut == ~Tcp(c) /\ mbOwed[c] # << >>
<1>5. cut \in BOOLEAN
  OBVIOUS
<1>6. mbCut' = [mbCut EXCEPT ![c] = cut] /\ (unsent = << >> \/ cut)
  BY <1>2, <1>4
<1> HIDE DEF c, unsent, cut
<1>7. mbCut' \in [MbEntries -> BOOLEAN] /\ mbCut'[c] = cut
  BY <1>1, <1>5, <1>6, LineTypes
<1>8. \A e \in MbEntries \ {c} : mbCut'[e] = mbCut[e]
  BY <1>1, <1>6, LineTypes
<1>9. /\ mbLink' \in [MbEntries -> {"none", "up", "dropped"}]
      /\ mbOwed' \in [MbEntries -> Seq(AnyPiece)] /\ mbInput' \in [MbEntries -> Seq(AnyPiece)]
      /\ \A e \in MbEntries \ {c} :
           mbLink'[e] = mbLink[e] /\ mbOwed'[e] = mbOwed[e] /\ mbInput'[e] = mbInput[e]
      /\ mbInput'[c] = << >> /\ mbOwed'[c] = unsent
  BY <1>1, <1>2, <1>3, LineTypes
<1>10. mbCut'[c] \/ (mbInput'[c] = <<>> /\ mbOwed'[c] = <<>>)
  BY <1>6, <1>7, <1>9
<1> QED
  BY <1>7, <1>8, <1>9, <1>10, StepReturns DEF c

LEMMA MbFailKeeps == ASSUME MbInv, NEW t \in MbThreads, RequestFails(t) PROVE MbInv'
<1>1. mbAt[t] \in MbInside
  BY DEF RequestFails, MbInside
<1> QED
  BY <1>1, MbCloseKeeps DEF RequestFails

\* The answer of a step that took all there is, on a connection that was not cut.
LEMMA AnswerIsOwn ==
  ASSUME MbInv, NEW t \in MbThreads, mbAt[t] = "judge", ~mbCut[mbConn[t]]
  PROVE  AnswerOf(t) \in {"values", "exception"}
<1> DEFINE took == mbTook[t]
           n == mbRequest[t]
<1>1. took \in Seq(PieceOf(n)) /\ took # <<>>
  BY WhatIsRead DEF MbBusy
<1>2. AnswerOf(t) = IF \E p \in ToSet(took) : p.request # n THEN "foreign" ELSE took[Len(took)].kind
  BY DEF AnswerOf, Last
<1> HIDE DEF took, n
<1>3. \A i \in 1..Len(took) : took[i] \in PieceOf(n)
  BY <1>1
<1>4. \A p \in ToSet(took) : p \in PieceOf(n)
  BY <1>1, <1>3 DEF ToSet
<1>5. Len(took) \in 1..Len(took)
  BY <1>1
<1>6. \A p \in PieceOf(n) : p.request = n /\ p.kind \in {"values", "exception"}
  BY DEF PieceOf
<1> QED
  BY <1>2, <1>3, <1>4, <1>5, <1>6

LEMMA MbJudgeKeeps == ASSUME MbInv, NEW t \in MbThreads, Judge(t) PROVE MbInv'
<1> DEFINE c == mbConn[t]
           left == mbInput[c] # << >> \/ mbOwed[c] # << >>
           noted == left \/ (Tcp(c) /\ mbCut[c])
<1>1. mbAt[t] = "judge" /\ mbAt[t] \in MbInside
  BY DEF Judge, MbInside
<1>2. \/ /\ \E decoded \in BOOLEAN :
              Returns(t, IF decoded /\ ~mbCut[c] THEN AnswerOf(t) ELSE "none")
         /\ mbCut' = [mbCut EXCEPT ![c] = left \/ (Tcp(c) /\ @)]
         /\ UNCHANGED <<mbLink, mbInput, mbOwed>>
      \/ CloseTransport(c) /\ Returns(t, "none")
  BY Zenon DEF Judge
<1>3. CASE CloseTransport(c) /\ Returns(t, "none")
  BY <1>1, <1>3, MbCloseKeeps
<1>4. CASE /\ \E decoded \in BOOLEAN :
                Returns(t, IF decoded /\ ~mbCut[c] THEN AnswerOf(t) ELSE "none")
           /\ mbCut' = [mbCut EXCEPT ![c] = left \/ (Tcp(c) /\ @)]
           /\ UNCHANGED <<mbLink, mbInput, mbOwed>>
  <2>1. PICK decoded \in BOOLEAN :
          Returns(t, IF decoded /\ ~mbCut[c] THEN AnswerOf(t) ELSE "none")
    BY <1>4
  <2> DEFINE result == IF decoded /\ ~mbCut[c] THEN AnswerOf(t) ELSE "none"
  <2>2. result \in {"none", "values", "exception"}
    BY <1>1, AnswerIsOwn
  <2>3. c \in MbEntries
    BY <1>1, InsideHasEntry
  <2>4. mbCut' = [mbCut EXCEPT ![c] = noted] /\ noted \in BOOLEAN
    BY <1>4, Zenon
  <2>5. noted \/ (mbInput[c] = << >> /\ mbOwed[c] = << >>)
    BY Zenon
  <2>6. Returns(t, result)
    BY <2>1
  <2> HIDE DEF c, noted, result
  <2>7. mbCut' \in [MbEntries -> BOOLEAN] /\ mbCut'[c] = noted
    BY <2>3, <2>4, LineTypes
  <2>8. \A e \in MbEntries \ {c} : mbCut'[e] = mbCut[e]
    BY <2>3, <2>4, LineTypes
  <2>9. mbCut'[c] \/ (mbInput'[c] = <<>> /\ mbOwed'[c] = <<>>)
    BY <2>5, <2>7, <1>4
  <2>10. /\ mbLink' \in [MbEntries -> {"none", "up", "dropped"}]
         /\ mbOwed' \in [MbEntries -> Seq(AnyPiece)] /\ mbInput' \in [MbEntries -> Seq(AnyPiece)]
         /\ mbLink' = mbLink /\ mbOwed' = mbOwed /\ mbInput' = mbInput
    BY <1>4, LineTypes
  <2> QED
    BY <1>1, <2>2, <2>6, <2>7, <2>8, <2>9, <2>10, StepReturns DEF c
<1> QED
  BY <1>2, <1>3, <1>4

LEMMA MbEndKeeps == ASSUME MbInv, NEW w \in MbWorkflows, EndModbusWorkflow(w) PROVE MbInv'
<1> DEFINE closed == {c \in MbEntries : mbPool[mbKey[c]] = c /\ mbRefs[c] \subseteq {w}}
           kept(c) == IF c \in closed THEN {} ELSE mbRefs[c] \ {w}
<1>t. /\ mbPool \in [MbKeys -> 0..mbMade] /\ mbMade \in 0..MaxMbEntries /\ MaxMbEntries \in Nat
      /\ mbRefs \in [MbEntries -> SUBSET MbWorkflows] /\ mbKey \in [MbEntries -> MbKeys]
      /\ mbAt \in [MbThreads -> {"idle", "lock"} \cup MbInside]
  BY ModbusBoundsAssumption DEF MbInv, MbTyped, MbTypeOK
<1>1. /\ \A t \in MbThreads : MbWorkflowOf[t] = w => mbAt[t] = "idle"
      /\ mbRefs' = [c \in MbEntries |-> kept(c)]
      /\ mbPool' = [k \in MbKeys |-> IF mbPool[k] \in closed THEN 0 ELSE mbPool[k]]
      /\ mbLink' = [c \in MbEntries |-> IF c \in closed THEN "none" ELSE mbLink[c]]
      /\ mbInput' = [c \in MbEntries |-> IF c \in closed THEN << >> ELSE mbInput[c]]
      /\ mbOwed' = [c \in MbEntries |-> IF c \in closed THEN << >> ELSE mbOwed[c]]
      /\ mbMade' = mbMade /\ mbKey' = mbKey /\ mbLock' = mbLock /\ mbCut' = mbCut
      /\ mbRequests' = mbRequests /\ mbAt' = mbAt /\ mbConn' = mbConn /\ mbRequest' = mbRequest
      /\ mbTook' = mbTook /\ mbResult' = mbResult
  BY DEF EndModbusWorkflow
<1>2. ASSUME NEW t \in MbThreads, mbAt[t] # "idle"
      PROVE  /\ mbConn[t] \in MbEntries \ closed /\ mbPool[mbKey[mbConn[t]]] = mbConn[t]
             /\ MbWorkflowOf[t] \in mbRefs[mbConn[t]] \ {w}
  <2>1. MbWorkflowOf[t] # w
    BY <1>1, <1>2
  <2> QED
    BY <2>1, <1>2 DEF MbInv, MbPooled
<1>3. \A c \in closed : mbPool[mbKey[c]] = c /\ mbRefs[c] \subseteq {w} /\ c \in MbEntries
  OBVIOUS
<1>4. \A c \in MbEntries \ closed : mbPool[mbKey[c]] = c => kept(c) # {} /\ kept(c) = mbRefs[c] \ {w}
  OBVIOUS
<1>5. \A c \in MbEntries : kept(c) \in SUBSET MbWorkflows
  BY <1>t
<1> HIDE DEF closed, kept
<1>6. /\ mbLink' \in [MbEntries -> {"none", "up", "dropped"}]
      /\ mbOwed' \in [MbEntries -> Seq(AnyPiece)] /\ mbInput' \in [MbEntries -> Seq(AnyPiece)]
  <2>1. << >> \in Seq(AnyPiece)
    OBVIOUS
  <2> QED
    BY <2>1, <1>1, LineTypes
<1>7. MbTyped'
  <2>1. mbPool' \in [MbKeys -> 0..mbMade] /\ mbRefs' \in [MbEntries -> SUBSET MbWorkflows]
    BY <1>1, <1>5, <1>t
  <2> QED
    BY <2>1, <1>1, <1>6 DEF MbInv, MbTyped, MbTypeOK
<1>8. \A k \in MbKeys : mbPool'[k] # 0 => mbKey'[mbPool'[k]] = k
  BY <1>1 DEF MbInv, MbPooled
<1>9. ASSUME NEW t \in MbThreads, mbAt[t] # "idle"
      PROVE  /\ mbConn[t] \in MbEntries /\ mbPool'[mbKey[mbConn[t]]] = mbConn[t]
             /\ MbWorkflowOf[t] \in mbRefs'[mbConn[t]]
  <2>1. /\ mbConn[t] \in MbEntries \ closed /\ mbPool[mbKey[mbConn[t]]] = mbConn[t]
        /\ MbWorkflowOf[t] \in mbRefs[mbConn[t]] \ {w}
    BY <1>2, <1>9
  <2>2. mbKey[mbConn[t]] \in MbKeys
    BY <2>1, <1>t
  <2> QED
    BY <2>1, <2>2, <1>1, <1>4
<1>10. NoneLeftOpen'
  <2> SUFFICES ASSUME NEW c \in MbEntries, mbLink'[c] # "none"
               PROVE  mbPool'[mbKey[c]] = c /\ mbRefs'[c] # {}
    BY <1>1 DEF NoneLeftOpen
  <2>1. c \notin closed /\ mbLink[c] # "none" /\ mbKey[c] \in MbKeys
    BY <1>1, <1>t
  <2>2. mbPool[mbKey[c]] = c
    BY <2>1 DEF MbInv, MbPooled, NoneLeftOpen
  <2> QED
    BY <2>1, <2>2, <1>1, <1>4
<1>11. MbPooled'
  BY <1>1, <1>8, <1>9, <1>10 DEF MbPooled
<1>12. MbLocked'
  BY <1>1 DEF MbInv, MbLocked
<1>13. MbData'
  <2>1. \A c \in MbEntries : MbQuiet(c) => MbQuiet(c)'
    BY <1>1 DEF MbQuiet
  <2>2. ASSUME NEW t \in MbThreads, mbAt[t] \in MbBusy PROVE MbOwn(t)'
    <3>1. mbConn[t] \in MbEntries \ closed
      BY <2>2, <1>2 DEF MbBusy
    <3>2. mbInput'[mbConn[t]] = mbInput[mbConn[t]] /\ mbOwed'[mbConn[t]] = mbOwed[mbConn[t]]
      BY <3>1, <1>1
    <3>3. MbOwn(t)
      BY <2>2 DEF MbInv, MbData
    <3> QED
      BY <3>2, <3>3, <1>1 DEF MbOwn
  <2> QED
    BY <2>1, <2>2, <1>1 DEF MbInv, MbData
<1>14. AnswersOwn'
  BY <1>1 DEF MbInv, AnswersOwn
<1> QED
  BY <1>7, <1>11, <1>12, <1>13, <1>14 DEF MbInv

\* A line: the device delivers, the peer drops.
LEMMA MbLineKeeps == ASSUME MbInv, NEW c \in MbEntries, PiecesArrive(c) \/ PeerDrops(c) PROVE MbInv'
<1>1. /\ mbPool' = mbPool /\ mbMade' = mbMade /\ mbKey' = mbKey /\ mbRefs' = mbRefs
      /\ mbLock' = mbLock /\ mbRequests' = mbRequests /\ mbConn' = mbConn /\ mbCut' = mbCut
      /\ mbRequest' = mbRequest /\ mbTook' = mbTook /\ mbResult' = mbResult /\ mbAt' = mbAt
  BY DEF PiecesArrive, PeerDrops, mbPoolVars
<1>2. PICK n \in Nat, input \in Seq(AnyPiece), unsent \in Seq(AnyPiece) :
        /\ mbInput' = [mbInput EXCEPT ![c] = input] /\ mbOwed' = [mbOwed EXCEPT ![c] = unsent]
        /\ \A S : mbInput[c] \in Seq(S) /\ mbOwed[c] \in Seq(S) => input \in Seq(S) /\ unsent \in Seq(S)
        /\ mbInput[c] = << >> /\ mbOwed[c] = << >> => input = << >> /\ unsent = << >>
        /\ mbLink' \in [MbEntries -> {"none", "up", "dropped"}]
        /\ \A e \in MbEntries : mbLink'[e] # "none" => mbLink[e] # "none"
  <2> DEFINE in == mbInput[c]
             out == mbOwed[c]
  <2>1. in \in Seq(AnyPiece) /\ out \in Seq(AnyPiece)
    BY LineTypes
  <2>2. CASE PiecesArrive(c)
    <3>1. PICK n \in 1..Len(out) :
            /\ mbInput' = [mbInput EXCEPT ![c] =
                             IF mbLink[c] = "up" THEN in \o SubSeq(out, 1, n) ELSE in]
            /\ mbOwed' = [mbOwed EXCEPT ![c] = SubSeq(out, n + 1, Len(out))]
            /\ mbLink' = mbLink
      BY <2>2 DEF PiecesArrive
    <3> DEFINE input == IF mbLink[c] = "up" THEN in \o SubSeq(out, 1, n) ELSE in
               unsent == SubSeq(out, n + 1, Len(out))
    <3> HIDE DEF in, out
    <3>2. ASSUME NEW S, in \in Seq(S), out \in Seq(S)
          PROVE  input \in Seq(S) /\ unsent \in Seq(S)
      <4>1. SubSeq(out, 1, n) \in Seq(S) /\ SubSeq(out, n + 1, Len(out)) \in Seq(S)
        BY <3>2, SubSeqProperties
      <4> QED
        BY <4>1, <3>2
    <3>3. input \in Seq(AnyPiece) /\ unsent \in Seq(AnyPiece)
      BY <2>1, <3>2
    <3>4. out # << >>
      BY <2>1
    <3>5. mbInput' = [mbInput EXCEPT ![c] = input] /\ mbOwed' = [mbOwed EXCEPT ![c] = unsent]
      BY <3>1
    <3> HIDE DEF input, unsent
    <3> QED
      BY <3>1, <3>2, <3>3, <3>4, <3>5, LineTypes DEF in, out
  <2>3. CASE PeerDrops(c)
    <3>1. /\ mbLink[c] = "up" /\ mbLink' = [mbLink EXCEPT ![c] = "dropped"]
          /\ mbOwed' = [mbOwed EXCEPT ![c] = << >>] /\ mbInput' = mbInput
      BY <2>3 DEF PeerDrops
    <3>2. mbInput' = [mbInput EXCEPT ![c] = in]
      BY <3>1, LineTypes
    <3>3. \A S : << >> \in Seq(S)
      OBVIOUS
    <3>4. /\ mbLink' \in [MbEntries -> {"none", "up", "dropped"}]
          /\ \A e \in MbEntries : mbLink'[e] # "none" => mbLink[e] # "none"
      BY <3>1, LineTypes
    <3> HIDE DEF in
    <3>5. 0 \in Nat /\ in \in Seq(AnyPiece) /\ << >> \in Seq(AnyPiece)
      BY <2>1
    <3> QED
      BY <3>1, <3>2, <3>3, <3>4, <3>5 DEF in
  <2> QED
    BY <2>2, <2>3
<1>3. /\ mbInput' \in [MbEntries -> Seq(AnyPiece)] /\ mbOwed' \in [MbEntries -> Seq(AnyPiece)]
      /\ mbInput'[c] = input /\ mbOwed'[c] = unsent
      /\ \A e \in MbEntries \ {c} : mbInput'[e] = mbInput[e] /\ mbOwed'[e] = mbOwed[e]
  BY <1>2, LineTypes
<1>4. MbTyped'
  BY <1>1, <1>2, <1>3 DEF MbInv, MbTyped, MbTypeOK
<1>5. MbPooled' /\ MbLocked'
  BY <1>1, <1>2 DEF MbInv, MbPooled, MbLocked, NoneLeftOpen
<1>6. MbData'
  <2>1. ASSUME NEW e \in MbEntries, MbQuiet(e) PROVE MbQuiet(e)'
    <3>1. CASE e = c
      BY <3>1, <2>1, <1>1, <1>2, <1>3 DEF MbQuiet
    <3>2. CASE e # c
      BY <3>2, <2>1, <1>1, <1>3 DEF MbQuiet
    <3> QED
      BY <3>1, <3>2
  <2>2. ASSUME NEW t \in MbThreads, mbAt[t] \in MbBusy PROVE MbOwn(t)'
    <3>1. MbOwn(t) /\ mbConn[t] \in MbEntries
      BY <2>2, WhatIsRead DEF MbInv, MbData
    <3>2. CASE mbConn[t] = c
      BY <3>1, <3>2, <1>1, <1>2, <1>3 DEF MbOwn
    <3>3. CASE mbConn[t] # c
      BY <3>1, <3>3, <1>1, <1>3 DEF MbOwn
    <3> QED
      BY <3>2, <3>3
  <2> QED
    BY <2>1, <2>2, <1>1 DEF MbInv, MbData
<1> QED
  BY <1>1, <1>4, <1>5, <1>6 DEF MbInv, AnswersOwn

LEMMA MbStep == MbInv /\ [MbNext]_mbVars => MbInv'
<1> SUFFICES ASSUME MbInv, [MbNext]_mbVars PROVE MbInv'
  OBVIOUS
<1>1. ASSUME NEW t \in MbThreads, ModbusStep(t) PROVE MbInv'
  BY <1>1, MbBeginKeeps, MbLockKeeps, MbOpenKeeps, MbSendKeeps, MbReadHeaderKeeps, MbReadAllKeeps, MbFailKeeps,
     MbJudgeKeeps DEF ModbusStep
<1>2. ASSUME NEW w \in MbWorkflows, EndModbusWorkflow(w) PROVE MbInv'
  BY <1>2, MbEndKeeps
<1>3. ASSUME NEW c \in MbEntries, PiecesArrive(c) \/ PeerDrops(c) PROVE MbInv'
  BY <1>3, MbLineKeeps
<1>4. CASE UNCHANGED mbVars
  <2>1. /\ mbPool' = mbPool /\ mbMade' = mbMade /\ mbKey' = mbKey /\ mbRefs' = mbRefs
        /\ mbLock' = mbLock /\ mbRequests' = mbRequests /\ mbConn' = mbConn /\ mbCut' = mbCut
        /\ mbRequest' = mbRequest /\ mbTook' = mbTook /\ mbResult' = mbResult /\ mbAt' = mbAt
        /\ mbLink' = mbLink /\ mbOwed' = mbOwed /\ mbInput' = mbInput
    BY <1>4 DEF mbVars, mbPoolVars, mbLineVars
  <2>2. MbTyped' /\ MbPooled' /\ MbLocked' /\ AnswersOwn'
    BY <2>1 DEF MbInv, MbTyped, MbTypeOK, MbPooled, MbLocked, NoneLeftOpen, AnswersOwn
  <2>3. MbData'
    BY <2>1 DEF MbInv, MbData, MbQuiet, MbOwn
  <2> QED
    BY <2>2, <2>3 DEF MbInv
<1> QED
  BY <1>1, <1>2, <1>3, <1>4 DEF MbNext

LEMMA MbInvIsSound == MbInv => ModbusSound
<1> SUFFICES ASSUME MbInv PROVE ModbusSound
  OBVIOUS
<1>1. MbExclusive
  <2> SUFFICES ASSUME NEW t \in MbThreads
               PROVE  /\ mbAt[t] \in MbInside <=> \E c \in MbEntries : mbLock[c] = t
                      /\ mbAt[t] # "idle" => /\ mbPool[mbKey[mbConn[t]]] = mbConn[t]
                                             /\ MbWorkflowOf[t] \in mbRefs[mbConn[t]]
                      /\ mbAt[t] \in MbInside => mbLock[mbConn[t]] = t
    BY DEF MbExclusive
  <2>1. mbAt[t] \in MbInside => mbConn[t] \in MbEntries /\ mbLock[mbConn[t]] = t
    BY InsideHasEntry
  <2>2. (\E c \in MbEntries : mbLock[c] = t) => mbAt[t] \in MbInside
    BY DEF MbInv, MbLocked
  <2> QED
    BY <2>1, <2>2 DEF MbInv, MbPooled
<1> QED
  BY <1>1 DEF MbInv, MbTyped, MbPooled, ModbusSound

\* A thread is inside exactly while it holds the mutex of its connection, which stays
\* in the pool with its workflow; no transport outlives the workflows that refer to
\* it; and on a connection that no step left an answer on, the answer a step succeeds
\* with is its own, although no transaction id is compared
\* (ModbusMasterPlugin.cpp, executeStep and postWorkflow).
THEOREM ModbusIsSound == MbSpec => []ModbusSound
<1> QED
  BY MbInitially, MbStep, MbInvIsSound, PTL DEF MbSpec

-------------------------------------------------------------------------------
(***************************************************************************)
(* The sessions of DoipMaster.  What is buffered and on its way is looked  *)
(* at as one sequence of parts.  While no TesterPresent was late and no    *)
(* close is pending, it belongs to the one request that is being waited    *)
(* for, and ends with the frame that ends the wait; between two requests   *)
(* there is nothing.  That is why a session may take the next frame for    *)
(* the answer.                                                             *)
(***************************************************************************)
Msg ==
  [id : Nat, op : {"routing"}, kind : {"routingOk", "routingDenied"}]
    \cup [id : Nat, op : Services, kind : {"ack", "nack", "pending", "final"}]

FramePart == [msg : Msg, part : {"header", "payload"}]
Order == [id : Nat, op : Ops]
Exchange == [id : Nat, op : Ops, expired : BOOLEAN]

FrameParts == rxBuffer \o stream

\* A message that is the last for its request.
IsFinal(msg) == msg.kind \in {"routingOk", "routingDenied", "nack", "final"}

Framed(s) ==
  /\ \A i \in 1..Len(s) : (i % 2 = 1) <=> s[i].part = "header"
  /\ \A i \in 1..Len(s) - 1 :
       IF i % 2 = 1 THEN s[i].msg = s[i + 1].msg ELSE s[i].msg.id <= s[i + 1].msg.id

\* Parts s, unfinished requests o and n requests so far, in the order they were made.
InOrder(s, o, n) ==
  /\ \A i \in 1..Len(s) : s[i].msg.id <= n /\ \A j \in 1..Len(o) : s[i].msg.id <= o[j].id
  /\ \A j \in 1..Len(o) : o[j].id <= n
  /\ \A i, j \in 1..Len(o) : i <= j => o[i].id <= o[j].id

\* All of them are about the request x, the last of n.
About(x, s, o, n) ==
  /\ x.id = n
  /\ \A i \in 1..Len(s) : s[i].msg.id = x.id /\ s[i].msg.op = x.op
  /\ o # << >> => Len(o) = 1 /\ o[1].id = x.id /\ o[1].op = x.op
  /\ \A i \in 1..Len(s) : IsFinal(s[i].msg) => o = << >> /\ i >= Len(s) - 1

LayerTyped ==
  /\ linked \in BOOLEAN /\ ecuRouting \in BOOLEAN /\ requests \in Nat
  /\ stream \in Seq(FramePart) /\ rxBuffer \in Seq(FramePart) /\ owed \in Seq(Order)
  /\ exchange \in [Threads -> Exchange \cup {Nothing}]
  /\ answer \in [Threads -> Msg \cup {Nothing}]

LayerInv ==
  /\ LayerTyped
  /\ ~linked => stream = << >> /\ owed = << >>
  /\ linked => Len(FrameParts) % 2 = 0
  /\ Framed(FrameParts) /\ InOrder(FrameParts, owed, requests)
  /\ linked /\ (\E i \in 1..Len(FrameParts) : FrameParts[i].msg.kind = "routingOk") => ecuRouting

Asked == {"routing", "besides", "asking"}
Doomed == {"closing", "joining", "reconnect", "rejoining"}

PlacesInv ==
  /\ DoipTypeOK
  /\ exchange["step"] # Nothing =>
       stepPlace \in Asked /\ (exchange["step"].op = "routing" <=> stepPlace = "routing")
  /\ exchange["keeper"] # Nothing => keeper = "asking" /\ exchange["keeper"].op # "routing"
  /\ ioMutex = "step" <=> stepPlace \in {"before", "ask", "besides", "asking"}
  /\ ioMutex = "keeper" <=> keeper = "asking"
  /\ keeper # "none" => routing
  /\ stepPlace = "routing" => ~routing
  /\ stepPlace = "connect" => ~sessionOpen
  /\ stepPlace = "configure" => routing
  /\ stepPlace \in Asked \cup {"check", "route", "configure", "lock", "before", "ask"} => sessionOpen

AnswersInv ==
  /\ stepPlace = "routing" /\ exchange["step"] = Nothing /\ answer["step"] # Nothing /\ linked =>
       ecuRouting
  /\ AnswersMatch /\ RoutingHonest

\* No request is being waited for, and none has ended without an answer just now.
NoneWaits ==
  /\ exchange["step"] = Nothing /\ exchange["keeper"] = Nothing
  /\ stepPlace \in Asked => answer["step"] # Nothing
  /\ keeper = "asking" => answer["keeper"] # Nothing

Clean ==
  /\ \A t \in Threads : exchange[t] # Nothing => About(exchange[t], FrameParts, owed, requests)
  /\ NoneWaits => FrameParts = << >> /\ owed = << >>

CleanInv == ~late /\ stepPlace \notin Doomed => Clean

DoipInv == LayerInv /\ PlacesInv /\ AnswersInv /\ CleanInv

LEMMA TailOfOne ==
  ASSUME NEW S, NEW o \in Seq(S), Len(o) = 1
  PROVE  Tail(o) = << >>
<1>1. o # << >>
  OBVIOUS
<1>2. Tail(o) \in Seq(S) /\ Len(Tail(o)) = 0
  BY <1>1, HeadTailProperties
<1> QED
  BY <1>2, EmptySeq

LEMMA PartsJoined ==
  ASSUME NEW s \in Seq(FramePart), NEW u \in Seq(FramePart)
  PROVE  /\ s \o u \in Seq(FramePart) /\ Len(s \o u) = Len(s) + Len(u)
         /\ \A i \in 1..Len(s) : (s \o u)[i] = s[i]
         /\ \A i \in 1..Len(u) : (s \o u)[Len(s) + i] = u[i]
OBVIOUS

LEMMA PartsAssociate ==
  ASSUME NEW s \in Seq(FramePart), NEW u \in Seq(FramePart), NEW v \in Seq(FramePart)
  PROVE  (s \o u) \o v = s \o (u \o v)
BY ConcatAssociative

LEMMA EvenShift == ASSUME NEW i \in Nat, NEW m \in {0, 2} PROVE (m + i) % 2 = i % 2
OBVIOUS

\* What is cut from a sequence of parts.
LEMMA PartsCut ==
  ASSUME NEW s \in Seq(FramePart), NEW m \in Nat, NEW k \in Nat, m + k <= Len(s)
  PROVE  LET u == SubSeq(s, m + 1, m + k) IN
         /\ u \in Seq(FramePart) /\ Len(u) = k /\ \A i \in 1..k : u[i] = s[m + i]
<1>1. \A i \in m + 1..m + k : s[i] \in FramePart
  OBVIOUS
<1>2. m + 1 \in Int /\ m + k \in Int
  OBVIOUS
<1> DEFINE u == SubSeq(s, m + 1, m + k)
<1>3. /\ u \in Seq(FramePart) /\ Len(u) = IF m + 1 <= m + k THEN m + k - (m + 1) + 1 ELSE 0
      /\ \A i \in 1..m + k - (m + 1) + 1 : u[i] = s[m + 1 + i - 1]
  BY <1>1, <1>2, SubSeqProperties
<1> HIDE DEF u
<1>4. Len(u) = k /\ \A i \in 1..k : u[i] = s[m + i]
  BY <1>3
<1> QED
  BY <1>3, <1>4 DEF u

LEMMA FramedCut ==
  ASSUME NEW s \in Seq(FramePart), NEW u \in Seq(FramePart), NEW m \in {0, 2},
         m + Len(u) <= Len(s), \A i \in 1..Len(u) : u[i] = s[m + i], Framed(s)
  PROVE  Framed(u)
<1>0. Len(u) \in Nat /\ Len(s) \in Nat
  OBVIOUS
<1>1. ASSUME NEW i \in 1..Len(u) PROVE (i % 2 = 1) <=> u[i].part = "header"
  <2>1. m + i \in 1..Len(s) /\ u[i] = s[m + i]
    BY <1>0
  <2>2. (m + i) % 2 = i % 2
    BY EvenShift
  <2> QED
    BY <2>1, <2>2 DEF Framed
<1>2. ASSUME NEW i \in 1..Len(u) - 1
      PROVE  IF i % 2 = 1 THEN u[i].msg = u[i + 1].msg ELSE u[i].msg.id <= u[i + 1].msg.id
  <2>1. i \in 1..Len(u) /\ i + 1 \in 1..Len(u) /\ m + i \in 1..Len(s) - 1
    BY <1>0
  <2>2. u[i] = s[m + i] /\ u[i + 1] = s[m + i + 1]
    <3>1. m + (i + 1) = m + i + 1
      BY <2>1
    <3> QED
      BY <2>1, <3>1
  <2>3. i \in Nat
    BY <2>1, <1>0
  <2>4. (m + i) % 2 = i % 2
    BY <2>3, EvenShift
  <2> QED
    BY <2>1, <2>2, <2>4 DEF Framed
<1> QED
  BY <1>1, <1>2 DEF Framed

LEMMA InOrderCut ==
  ASSUME NEW s \in Seq(FramePart), NEW u \in Seq(FramePart), NEW m \in {0, 2},
         m + Len(u) <= Len(s), \A i \in 1..Len(u) : u[i] = s[m + i],
         NEW o \in Seq(Order), NEW n \in Nat, InOrder(s, o, n)
  PROVE  InOrder(u, o, n)
<1>1. ASSUME NEW i \in 1..Len(u) PROVE m + i \in 1..Len(s) /\ u[i] = s[m + i]
  OBVIOUS
<1> QED
  BY <1>1 DEF InOrder

LEMMA AboutCut ==
  ASSUME NEW s \in Seq(FramePart), NEW u \in Seq(FramePart), NEW m \in {0, 2},
         m + Len(u) <= Len(s), \A i \in 1..Len(u) : u[i] = s[m + i],
         NEW o, NEW n, NEW x, About(x, s, o, n)
  PROVE  About(x, u, o, n)
<1>1. ASSUME NEW i \in 1..Len(u)
      PROVE  m + i \in 1..Len(s) /\ u[i] = s[m + i] /\ (m + i >= Len(s) - 1 => i >= Len(u) - 1)
  OBVIOUS
<1> QED
  BY <1>1 DEF About

\* A frame that is sent: two parts more.
LEMMA PartsGrow ==
  ASSUME NEW s \in Seq(FramePart), NEW msg \in Msg
  PROVE  LET u == s \o <<[msg |-> msg, part |-> "header"], [msg |-> msg, part |-> "payload"]>> IN
         /\ u \in Seq(FramePart) /\ Len(u) = Len(s) + 2
         /\ \A i \in 1..Len(s) : u[i] = s[i]
         /\ u[Len(s) + 1] = [msg |-> msg, part |-> "header"]
         /\ u[Len(s) + 2] = [msg |-> msg, part |-> "payload"]
<1> DEFINE h == [msg |-> msg, part |-> "header"]
           p == [msg |-> msg, part |-> "payload"]
<1>1. h \in FramePart /\ p \in FramePart
  BY DEF FramePart
<1> HIDE DEF h, p
<1>2. /\ s \o <<h, p>> \in Seq(FramePart) /\ Len(s \o <<h, p>>) = Len(s) + 2
      /\ \A i \in 1..Len(s) : (s \o <<h, p>>)[i] = s[i]
      /\ (s \o <<h, p>>)[Len(s) + 1] = h /\ (s \o <<h, p>>)[Len(s) + 2] = p
  BY <1>1
<1> QED
  BY <1>2 DEF h, p

LEMMA FramedGrow ==
  ASSUME NEW s \in Seq(FramePart), NEW u \in Seq(FramePart), NEW msg \in Msg,
         Len(u) = Len(s) + 2, \A i \in 1..Len(s) : u[i] = s[i],
         u[Len(s) + 1] = [msg |-> msg, part |-> "header"],
         u[Len(s) + 2] = [msg |-> msg, part |-> "payload"],
         Len(s) % 2 = 0, Framed(s), \A i \in 1..Len(s) : s[i].msg.id <= msg.id
  PROVE  Framed(u) /\ Len(u) % 2 = 0
<1>0. Len(s) \in Nat
  OBVIOUS
<1>1. ASSUME NEW i \in 1..Len(u) PROVE (i % 2 = 1) <=> u[i].part = "header"
  <2>1. CASE i <= Len(s)
    BY <2>1, <1>0 DEF Framed
  <2>2. CASE i = Len(s) + 1
    <3>1. i % 2 = 1
      BY <2>2, <1>0
    <3> QED
      BY <3>1, <2>2
  <2>3. CASE i = Len(s) + 2
    <3>1. i % 2 = 0
      BY <2>3, <1>0
    <3> QED
      BY <3>1, <2>3
  <2> QED
    BY <2>1, <2>2, <2>3, <1>0
<1>2. ASSUME NEW i \in 1..Len(u) - 1
      PROVE  IF i % 2 = 1 THEN u[i].msg = u[i + 1].msg ELSE u[i].msg.id <= u[i + 1].msg.id
  <2>1. CASE i <= Len(s) - 1
    BY <2>1, <1>0 DEF Framed
  <2>2. CASE i = Len(s)
    <3>1. i % 2 = 0 /\ i \in 1..Len(s)
      BY <2>2, <1>0
    <3> QED
      BY <3>1, <2>2
  <2>3. CASE i = Len(s) + 1
    <3>1. i % 2 = 1
      BY <2>3, <1>0
    <3>2. i + 1 = Len(s) + 2
      BY <2>3, <1>0
    <3> QED
      BY <3>1, <3>2, <2>3
  <2>4. i <= Len(s) - 1 \/ i = Len(s) \/ i = Len(s) + 1
    BY <1>0
  <2> QED
    BY <2>1, <2>2, <2>3, <2>4
<1>3. Len(u) % 2 = 0
  BY <1>0
<1> QED
  BY <1>1, <1>2, <1>3 DEF Framed

LEMMA PartsTyped ==
  ASSUME LayerTyped
  PROVE  /\ FrameParts \in Seq(FramePart) /\ Len(FrameParts) = Len(rxBuffer) + Len(stream)
         /\ \A i \in 1..Len(rxBuffer) : FrameParts[i] = rxBuffer[i]
         /\ rxBuffer \in Seq(FramePart) /\ stream \in Seq(FramePart)
         /\ Len(rxBuffer) \in Nat /\ Len(stream) \in Nat
BY DEF LayerTyped, FrameParts

\* Nothing happens to the parts and the requests.
LEMMA LayerSame ==
  ASSUME LayerInv, linked' = linked, stream' = stream, rxBuffer' = rxBuffer, owed' = owed,
         ecuRouting' = ecuRouting, requests' = requests,
         exchange' \in [Threads -> Exchange \cup {Nothing}],
         answer' \in [Threads -> Msg \cup {Nothing}]
  PROVE  LayerInv' /\ FrameParts' = FrameParts
BY DEF LayerInv, LayerTyped, FrameParts, Framed, InOrder

\* No parts and no requests: the connection comes up or is taken down.
LEMMA LayerEmpty ==
  ASSUME LayerInv, LinkUp \/ LinkDown
  PROVE  /\ LayerInv' /\ FrameParts' = << >> /\ owed' = << >>
         /\ exchange' = exchange /\ answer' = answer
<1>1. /\ linked' \in BOOLEAN /\ ecuRouting' = FALSE /\ stream' = << >> /\ rxBuffer' = << >>
      /\ owed' = << >> /\ requests' = 0 /\ exchange' = exchange /\ answer' = answer
  BY DEF LinkUp, LinkDown
<1>2. << >> \in Seq(FramePart) /\ << >> \in Seq(Order)
  OBVIOUS
<1>3. FrameParts' = << >>
  BY <1>1 DEF FrameParts
<1>4. LayerTyped'
  BY <1>1, <1>2 DEF LayerInv, LayerTyped
<1>5. Len(<< >>) = 0 /\ 0 % 2 = 0
  OBVIOUS
<1> QED
  BY <1>1, <1>3, <1>4, <1>5 DEF LayerInv, Framed, InOrder

LEMMA LayerLost ==
  ASSUME LayerInv, LinkLost
  PROVE  /\ LayerInv' /\ linked' = FALSE /\ owed' = << >> /\ requests' = requests
         /\ exchange' = exchange /\ answer' = answer
         /\ Len(FrameParts') <= Len(FrameParts)
         /\ \A i \in 1..Len(FrameParts') : FrameParts'[i] = FrameParts[i]
         /\ FrameParts' \in Seq(FramePart)
<1>1. /\ linked' = FALSE /\ ecuRouting' = FALSE /\ stream' = << >> /\ owed' = << >>
      /\ rxBuffer' = rxBuffer /\ requests' = requests /\ exchange' = exchange /\ answer' = answer
  BY DEF LinkLost
<1>2. << >> \in Seq(FramePart) /\ << >> \in Seq(Order)
  OBVIOUS
<1>3. LayerTyped'
  BY <1>1, <1>2 DEF LayerInv, LayerTyped
<1>4. FrameParts' = rxBuffer
  <2>1. rxBuffer \in Seq(FramePart)
    BY DEF LayerInv, LayerTyped
  <2> QED
    BY <1>1, <2>1, ConcatEmptySeq DEF FrameParts
<1>5. /\ FrameParts \in Seq(FramePart) /\ Len(rxBuffer) <= Len(FrameParts)
      /\ \A i \in 1..Len(rxBuffer) : FrameParts[i] = rxBuffer[i]
      /\ rxBuffer \in Seq(FramePart)
  BY PartsTyped DEF LayerInv
<1> DEFINE u == rxBuffer
           s == FrameParts
<1>6. Framed(s) /\ InOrder(s, owed, requests) /\ owed \in Seq(Order) /\ requests \in Nat
  BY DEF LayerInv, LayerTyped
<1> HIDE DEF u, s
<1>7. /\ u \in Seq(FramePart) /\ s \in Seq(FramePart) /\ 0 + Len(u) <= Len(s)
      /\ \A i \in 1..Len(u) : u[i] = s[0 + i]
  BY <1>5 DEF u, s
<1>8. Framed(u)
  BY <1>6, <1>7, FramedCut
<1>9. InOrder(u, owed, requests)
  BY <1>6, <1>7, InOrderCut
<1>10. InOrder(u, << >>, requests)
  BY <1>9, <1>2 DEF InOrder
<1> QED
  BY <1>1, <1>3, <1>4, <1>5, <1>8, <1>10 DEF LayerInv, u

LEMMA LayerRequest ==
  ASSUME LayerInv, NEW t \in Threads, NEW op \in Ops, Request(t, op)
  PROVE  /\ LayerInv' /\ FrameParts' = FrameParts
         /\ linked' = linked /\ ecuRouting' = ecuRouting
         /\ answer' = [answer EXCEPT ![t] = Nothing]
         /\ linked => /\ requests' = requests + 1
                      /\ owed' = Append(owed, [id |-> requests + 1, op |-> op])
                      /\ exchange' = [exchange EXCEPT ![t] =
                           [id |-> requests + 1, op |-> op, expired |-> FALSE]]
         /\ ~linked => requests' = requests /\ owed' = owed /\ exchange' = exchange
<1> DEFINE n == requests + 1
           order == [id |-> n, op |-> op]
           x == [id |-> n, op |-> op, expired |-> FALSE]
<1>t. LayerTyped
  BY DEF LayerInv
<1>1. /\ linked' = linked /\ stream' = stream /\ rxBuffer' = rxBuffer /\ ecuRouting' = ecuRouting
      /\ answer' = [answer EXCEPT ![t] = Nothing]
      /\ FrameParts' = FrameParts
  BY DEF Request, FrameParts
<1>2. answer' \in [Threads -> Msg \cup {Nothing}]
  BY <1>1, <1>t DEF LayerTyped
<1>3. CASE ~linked
  <2>1. requests' = requests /\ owed' = owed /\ exchange' = exchange
    BY <1>3 DEF Request
  <2>2. LayerInv'
    BY <1>1, <1>2, <2>1, <1>t, LayerSame DEF LayerTyped
  <2> QED
    BY <1>1, <1>3, <2>1, <2>2
<1>4. CASE linked
  <2>1. requests' = n /\ owed' = Append(owed, order) /\ exchange' = [exchange EXCEPT ![t] = x]
    BY <1>4 DEF Request
  <2>2. order \in Order /\ x \in Exchange /\ n \in Nat
    BY <1>t DEF LayerTyped, Order, Exchange
  <2>3. /\ owed \in Seq(Order) /\ owed' \in Seq(Order) /\ Len(owed') = Len(owed) + 1
        /\ \A j \in 1..Len(owed) : owed'[j] = owed[j]
        /\ owed'[Len(owed) + 1] = order /\ order.id = n
    <3> HIDE DEF n
    <3>1. owed \in Seq(Order) /\ order.id = n
      BY <1>t DEF LayerTyped
    <3> HIDE DEF order
    <3> QED
      BY <2>1, <2>2, <3>1, AppendProperties
  <2>4. LayerTyped'
    <3> HIDE DEF x, order, n
    <3>1. exchange' \in [Threads -> Exchange \cup {Nothing}]
      BY <2>1, <2>2, <1>t DEF LayerTyped
    <3> QED
      BY <3>1, <1>1, <1>2, <1>t, <2>1, <2>2, <2>3 DEF LayerTyped
  <2>5. InOrder(FrameParts, owed', n)
    <3>1. InOrder(FrameParts, owed, requests) /\ requests \in Nat /\ requests <= n
      BY <1>t DEF LayerInv, LayerTyped
    <3>2. \A i \in 1..Len(FrameParts) : FrameParts[i].msg.id \in Nat
      <4>1. FrameParts \in Seq(FramePart)
        BY <1>t, PartsTyped
      <4>2. \A i \in 1..Len(FrameParts) : FrameParts[i] \in FramePart
        BY <4>1
      <4>3. \A m \in Msg : m.id \in Nat
        BY DEF Msg
      <4>4. \A p \in FramePart : p.msg \in Msg
        BY DEF FramePart
      <4> QED
        BY <4>2, <4>3, <4>4
    <3>3. \A j \in 1..Len(owed) : owed[j].id \in Nat
      <4>1. \A j \in 1..Len(owed) : owed[j] \in Order
        BY <2>3
      <4> QED
        BY <4>1 DEF Order
    <3> HIDE DEF n, order
    <3>4. \A i \in 1..Len(FrameParts) : FrameParts[i].msg.id <= n
      BY <3>1, <3>2, <2>2 DEF InOrder
    <3>5. ASSUME NEW j \in 1..Len(owed')
          PROVE  /\ owed'[j].id <= n
                 /\ \A i \in 1..Len(FrameParts) : FrameParts[i].msg.id <= owed'[j].id
      <4>1. CASE j \in 1..Len(owed)
        BY <4>1, <3>1, <3>3, <2>2, <2>3 DEF InOrder
      <4>2. CASE j = Len(owed) + 1
        BY <4>2, <3>4, <2>2, <2>3
      <4> QED
        BY <4>1, <4>2, <2>3
    <3>6. ASSUME NEW i \in 1..Len(owed'), NEW j \in 1..Len(owed'), i <= j
          PROVE  owed'[i].id <= owed'[j].id
      <4>1. CASE j \in 1..Len(owed)
        <5>1. i \in 1..Len(owed)
          BY <4>1, <3>6, <2>3
        <5> QED
          BY <4>1, <5>1, <3>6, <3>1, <2>3 DEF InOrder
      <4>2. CASE j = Len(owed) + 1
        BY <4>2, <3>5, <2>3
      <4> QED
        BY <4>1, <4>2, <2>3
    <3> QED
      BY <3>4, <3>5, <3>6 DEF InOrder
  <2>6. LayerInv'
    BY <1>1, <2>1, <2>4, <2>5, <1>4 DEF LayerInv
  <2> QED
    BY <1>1, <2>1, <2>6, <1>4
<1> QED
  BY <1>3, <1>4

\* The vehicle sends a frame about the oldest request it owes.
LEMMA LayerSends ==
  ASSUME LayerInv, linked, owed # << >>, NEW kind, SendsKind(kind),
         \/ /\ owed[1].op # "routing" /\ kind \in {"ack", "pending"}
            /\ owed' = owed /\ ecuRouting' = ecuRouting
         \/ /\ kind \in FinalKinds(owed[1].op)
            /\ owed' = Tail(owed) /\ ecuRouting' = (ecuRouting \/ kind = "routingOk")
  PROVE  /\ LayerInv' /\ FrameParts' \in Seq(FramePart) /\ Len(FrameParts') = Len(FrameParts) + 2
         /\ \A i \in 1..Len(FrameParts) : FrameParts'[i] = FrameParts[i]
         /\ \A i \in {Len(FrameParts) + 1, Len(FrameParts) + 2} :
              FrameParts'[i].msg = [id |-> owed[1].id, op |-> owed[1].op, kind |-> kind]
         /\ linked' = linked /\ requests' = requests /\ exchange' = exchange /\ answer' = answer
<1> DEFINE msg == [id |-> owed[1].id, op |-> owed[1].op, kind |-> kind]
           s == FrameParts
           two == <<[msg |-> msg, part |-> "header"], [msg |-> msg, part |-> "payload"]>>
<1>t. LayerTyped
  BY DEF LayerInv
<1>1. /\ stream' = stream \o two /\ linked' = linked /\ rxBuffer' = rxBuffer
      /\ requests' = requests /\ exchange' = exchange /\ answer' = answer
  BY DEF SendsKind
<1>2. /\ owed \in Seq(Order) /\ Len(owed) \in Nat \ {0} /\ owed[1] \in Order
      /\ \A j \in 1..Len(owed) : owed[j] \in Order /\ owed[j].id \in Nat
  <2>1. owed \in Seq(Order)
    BY <1>t DEF LayerTyped
  <2>2. Len(owed) \in Nat \ {0}
    BY <2>1, EmptySeq, Zenon
  <2>3. \A j \in 1..Len(owed) : owed[j] \in Order
    BY <2>1
  <2> QED
    BY <2>1, <2>2, <2>3 DEF Order
<1>3. msg \in Msg
  BY <1>2 DEF Msg, Order, Ops, Services, FinalKinds
<1>4. kind = "routingOk" => ecuRouting'
  BY Zenon
<1>5. owed' \in Seq(Order) /\ \A j \in 1..Len(owed') : \E k \in 1..Len(owed) : owed'[j] = owed[k]
  <2>1. CASE owed' = owed
    BY <2>1, <1>2
  <2>2. CASE owed' = Tail(owed)
    BY <2>2, <1>2
  <2> QED
    BY <2>1, <2>2
<1>6. /\ InOrder(s, owed, requests) /\ Framed(s) /\ Len(s) % 2 = 0 /\ requests \in Nat
      /\ (\E i \in 1..Len(s) : s[i].msg.kind = "routingOk") => ecuRouting
  BY <1>t DEF LayerInv, LayerTyped
<1>7. ecuRouting => ecuRouting'
  BY Zenon
<1>8. ecuRouting' \in BOOLEAN
  BY <1>t, Zenon DEF LayerTyped
<1>9. msg.id = owed[1].id /\ msg.kind = kind
  OBVIOUS
<1>10. /\ stream \in Seq(FramePart) /\ rxBuffer \in Seq(FramePart) /\ s \in Seq(FramePart)
  BY <1>t, PartsTyped
<1>11. two \in Seq(FramePart)
  BY <1>3 DEF FramePart
<1>12. FrameParts' = s \o two
  <2>1. FrameParts' = rxBuffer \o (stream \o two)
    BY <1>1 DEF FrameParts
  <2> HIDE DEF two
  <2>2. (rxBuffer \o stream) \o two = rxBuffer \o (stream \o two)
    BY <1>10, <1>11, PartsAssociate
  <2> QED
    BY <2>1, <2>2 DEF FrameParts
<1> DEFINE u == FrameParts'
<1> HIDE DEF msg, s
<1>13. /\ u \in Seq(FramePart) /\ Len(u) = Len(s) + 2 /\ \A i \in 1..Len(s) : u[i] = s[i]
       /\ u[Len(s) + 1] = [msg |-> msg, part |-> "header"]
       /\ u[Len(s) + 2] = [msg |-> msg, part |-> "payload"]
  BY <1>3, <1>10, <1>12, PartsGrow
<1>14. Len(s) \in Nat
  BY <1>10
<1> HIDE DEF u
<1>15. ASSUME NEW i \in 1..Len(u) PROVE i \in 1..Len(s) \/ i \in {Len(s) + 1, Len(s) + 2}
  BY <1>13, <1>14
<1>16. u[Len(s) + 1].msg = msg /\ u[Len(s) + 2].msg = msg
  BY <1>13
<1>17. \A i \in 1..Len(s) : s[i].msg.id <= msg.id
  BY <1>2, <1>6, <1>9 DEF InOrder
<1>18. Framed(u) /\ Len(u) % 2 = 0
  BY <1>3, <1>6, <1>10, <1>13, <1>17, FramedGrow
<1>19. msg.id <= requests /\ \A j \in 1..Len(owed) : msg.id <= owed[j].id
  BY <1>2, <1>6, <1>9 DEF InOrder
<1>20. InOrder(u, owed, requests)
  BY <1>6, <1>13, <1>15, <1>16, <1>19 DEF InOrder
<1>21. InOrder(u, owed', requests)
  <2>1. CASE owed' = owed
    BY <2>1, <1>20
  <2>2. CASE owed' = Tail(owed)
    <3>1. /\ Len(owed') = Len(owed) - 1
          /\ \A j \in 1..Len(owed') : j + 1 \in 1..Len(owed) /\ owed'[j] = owed[j + 1]
      BY <2>2, <1>2
    <3>2. \A i, j \in 1..Len(owed') : i <= j => i + 1 <= j + 1
      OBVIOUS
    <3> QED
      BY <3>1, <3>2, <1>20 DEF InOrder
  <2> QED
    BY <2>1, <2>2
<1>22. (\E i \in 1..Len(u) : u[i].msg.kind = "routingOk") => ecuRouting'
  BY <1>4, <1>6, <1>7, <1>9, <1>13, <1>15, <1>16
<1>23. LayerTyped'
  <2>1. stream' \in Seq(FramePart)
    <3> HIDE DEF two
    <3> QED
      BY <1>1, <1>10, <1>11
  <2> QED
    BY <1>1, <1>5, <1>8, <1>t, <2>1 DEF LayerTyped
<1>24. LayerInv'
  BY <1>1, <1>18, <1>21, <1>22, <1>23 DEF LayerInv, u
<1> QED
  BY <1>1, <1>13, <1>16, <1>24 DEF u, s, msg

\* A read moves parts from the stream to the buffer.
LEMMA LayerReads ==
  ASSUME LayerInv, NEW t \in Threads, ReadStream(t)
  PROVE  /\ LayerInv' /\ FrameParts' = FrameParts /\ owed' = owed /\ requests' = requests
         /\ linked' = linked /\ exchange' = exchange /\ answer' = answer
         /\ ecuRouting' = ecuRouting
<1>t. LayerTyped
  BY DEF LayerInv
<1>1. PICK k \in 1..Len(stream) :
        /\ rxBuffer' = rxBuffer \o SubSeq(stream, 1, k)
        /\ stream' = SubSeq(stream, k + 1, Len(stream))
  BY DEF ReadStream
<1>2. /\ linked /\ linked' = linked /\ owed' = owed /\ ecuRouting' = ecuRouting
      /\ requests' = requests /\ exchange' = exchange /\ answer' = answer
  BY DEF ReadStream
<1>3. stream \in Seq(FramePart) /\ rxBuffer \in Seq(FramePart) /\ Len(stream) \in Nat
  BY <1>t DEF LayerTyped
<1> DEFINE one == SubSeq(stream, 1, k)
           rest == SubSeq(stream, k + 1, Len(stream))
<1>4. one \in Seq(FramePart) /\ rest \in Seq(FramePart)
  <2>1. \A i \in 1..Len(stream) : stream[i] \in FramePart
    BY <1>3
  <2>2. \A i \in 1..k : stream[i] \in FramePart
    BY <2>1
  <2>3. \A i \in k + 1..Len(stream) : stream[i] \in FramePart
    BY <2>1
  <2> QED
    BY <1>3, <2>2, <2>3, SubSeqProperties
<1>5. one \o rest = stream
  <2>1. SubSeq(stream, 1, k) \o SubSeq(stream, k + 1, Len(stream)) = SubSeq(stream, 1, Len(stream))
    BY <1>3, ConcatAdjacentSubSeq
  <2> QED
    BY <2>1, <1>3, SubSeqFull
<1> HIDE DEF one, rest
<1>6. FrameParts' = FrameParts
  <2>1. FrameParts' = (rxBuffer \o one) \o rest
    BY <1>1 DEF FrameParts, one, rest
  <2>2. (rxBuffer \o one) \o rest = rxBuffer \o (one \o rest)
    BY <1>3, <1>4, PartsAssociate
  <2> QED
    BY <2>1, <2>2, <1>5 DEF FrameParts
<1>7. LayerTyped'
  <2>1. rxBuffer' \in Seq(FramePart) /\ stream' \in Seq(FramePart)
    BY <1>1, <1>3, <1>4 DEF one, rest
  <2> QED
    BY <2>1, <1>2, <1>t DEF LayerTyped
<1>8. LayerInv'
  BY <1>2, <1>6, <1>7 DEF LayerInv
<1> QED
  BY <1>2, <1>6, <1>8

\* A frame is taken from the buffer, two parts.
LEMMA LayerTakes ==
  ASSUME LayerInv, HasFrame, rxBuffer' = SubSeq(rxBuffer, 3, Len(rxBuffer)),
         linked' = linked, stream' = stream, owed' = owed, ecuRouting' = ecuRouting,
         requests' = requests,
         exchange' \in [Threads -> Exchange \cup {Nothing}],
         answer' \in [Threads -> Msg \cup {Nothing}]
  PROVE  /\ LayerInv' /\ FrameParts' \in Seq(FramePart)
         /\ Len(FrameParts) >= 2 /\ Len(FrameParts') = Len(FrameParts) - 2
         /\ \A i \in 1..Len(FrameParts') : FrameParts'[i] = FrameParts[2 + i]
         /\ rxBuffer[1] = FrameParts[1] /\ FrameParts[1] \in FramePart
<1>t. LayerTyped
  BY DEF LayerInv
<1>1. /\ rxBuffer \in Seq(FramePart) /\ stream \in Seq(FramePart) /\ Len(stream) \in Nat
      /\ Len(rxBuffer) \in Nat /\ Len(rxBuffer) >= 2
  BY <1>t DEF LayerTyped, HasFrame
<1> DEFINE rest == SubSeq(rxBuffer, 3, Len(rxBuffer))
           s == FrameParts
           u == FrameParts'
<1>2. /\ rest \in Seq(FramePart) /\ Len(rest) = Len(rxBuffer) - 2
      /\ \A i \in 1..Len(rest) : rest[i] = rxBuffer[2 + i]
  <2>1. \A i \in 3..Len(rxBuffer) : rxBuffer[i] \in FramePart
    BY <1>1
  <2>2. 3 \in Int /\ Len(rxBuffer) \in Int
    BY <1>1
  <2>3. /\ rest \in Seq(FramePart)
        /\ Len(rest) = IF 3 <= Len(rxBuffer) THEN Len(rxBuffer) - 3 + 1 ELSE 0
        /\ \A i \in 1..Len(rxBuffer) - 3 + 1 : rest[i] = rxBuffer[3 + i - 1]
    BY <2>1, <2>2, SubSeqProperties
  <2> HIDE DEF rest
  <2>4. Len(rest) = Len(rxBuffer) - 2
    <3> DEFINE n == Len(rxBuffer)
    <3>1. Len(rest) = IF 3 <= n THEN n - 3 + 1 ELSE 0
      BY <2>3
    <3>2. n \in Nat /\ n >= 2
      BY <1>1
    <3> HIDE DEF n
    <3>3. Len(rest) = n - 2
      BY <3>1, <3>2
    <3> QED
      BY <3>3 DEF n
  <2>5. ASSUME NEW i \in 1..Len(rest) PROVE rest[i] = rxBuffer[2 + i]
    <3>1. i \in 1..Len(rxBuffer) - 3 + 1 /\ 3 + i - 1 = 2 + i
      BY <2>4, <1>1
    <3> QED
      BY <2>3, <3>1
  <2> QED
    BY <2>3, <2>4, <2>5
<1>3. u = rest \o stream
  BY DEF FrameParts
<1> HIDE DEF rest
<1>4. /\ s \in Seq(FramePart) /\ Len(s) = Len(rxBuffer) + Len(stream)
      /\ \A i \in 1..Len(rxBuffer) : s[i] = rxBuffer[i]
      /\ \A i \in 1..Len(stream) : s[Len(rxBuffer) + i] = stream[i]
  BY <1>1 DEF FrameParts
<1>5. /\ u \in Seq(FramePart) /\ Len(u) = Len(rest) + Len(stream)
      /\ \A i \in 1..Len(rest) : u[i] = rest[i]
      /\ \A i \in 1..Len(stream) : u[Len(rest) + i] = stream[i]
  <2>1. /\ rest \o stream \in Seq(FramePart) /\ Len(rest \o stream) = Len(rest) + Len(stream)
        /\ \A i \in 1..Len(rest) : (rest \o stream)[i] = rest[i]
        /\ \A i \in 1..Len(stream) : (rest \o stream)[Len(rest) + i] = stream[i]
    BY <1>1, <1>2, PartsJoined
  <2> HIDE DEF u
  <2> QED
    BY <2>1, <1>3
<1>6. Framed(s) /\ InOrder(s, owed, requests) /\ owed \in Seq(Order) /\ requests \in Nat
  BY <1>t DEF LayerInv, LayerTyped
<1>7. linked => Len(s) % 2 = 0
  BY DEF LayerInv
<1>8. linked /\ (\E i \in 1..Len(s) : s[i].msg.kind = "routingOk") => ecuRouting
  BY DEF LayerInv
<1> HIDE DEF s, u
<1>9. Len(s) >= 2 /\ Len(u) = Len(s) - 2 /\ 2 + Len(u) <= Len(s)
  BY <1>1, <1>2, <1>4, <1>5
<1>10. ASSUME NEW i \in 1..Len(u) PROVE u[i] = s[2 + i] /\ 2 + i \in 1..Len(s)
  <2>1. CASE i \in 1..Len(rest)
    <3>1. 2 + i \in 1..Len(rxBuffer)
      BY <2>1, <1>1, <1>2
    <3> QED
      BY <2>1, <3>1, <1>2, <1>4, <1>5, <1>9
  <2>2. CASE i \notin 1..Len(rest)
    <3>1. /\ i - Len(rest) \in 1..Len(stream) /\ Len(rest) + (i - Len(rest)) = i
          /\ Len(rxBuffer) + (i - Len(rest)) = 2 + i
      BY <2>2, <1>1, <1>2, <1>5
    <3>2. u[i] = stream[i - Len(rest)]
      BY <3>1, <1>5
    <3>3. s[2 + i] = stream[i - Len(rest)]
      BY <3>1, <1>4
    <3> QED
      BY <3>2, <3>3, <1>9
  <2> QED
    BY <2>1, <2>2
<1>11. Framed(u) /\ InOrder(u, owed, requests)
  BY <1>4, <1>5, <1>6, <1>9, <1>10, FramedCut, InOrderCut
<1>12. linked => Len(u) % 2 = 0
  <2>1. Len(s) \in Nat /\ Len(u) \in Nat /\ Len(s) = 2 + Len(u)
    BY <1>9, <1>4, <1>5
  <2>2. (2 + Len(u)) % 2 = Len(u) % 2
    BY <2>1, EvenShift
  <2> QED
    BY <2>1, <2>2, <1>7
<1>13. linked /\ (\E i \in 1..Len(u) : u[i].msg.kind = "routingOk") => ecuRouting
  BY <1>8, <1>10
<1>14. LayerTyped'
  <2>1. rxBuffer' \in Seq(FramePart)
    BY <1>2 DEF rest
  <2> QED
    BY <2>1, <1>t DEF LayerTyped
<1>15. LayerInv'
  BY <1>11, <1>12, <1>13, <1>14 DEF LayerInv, u
<1>16. 1 \in 1..Len(rxBuffer) /\ 1 \in 1..Len(s)
  BY <1>1, <1>9, <1>4
<1>17. rxBuffer[1] = s[1] /\ s[1] \in FramePart
  BY <1>16, <1>4
<1> QED
  BY <1>5, <1>9, <1>10, <1>15, <1>17 DEF s, u

LEMMA DoipInitially == DoipInit => DoipInv
<1> SUFFICES ASSUME DoipInit PROVE DoipInv
  OBVIOUS
<1> USE DoipBoundsAssumption DEF DoipInit, LayerInit
<1>1. << >> \in Seq(FramePart) /\ << >> \in Seq(Order) /\ Len(<< >>) = 0
  OBVIOUS
<1>2. FrameParts = << >>
  BY DEF FrameParts
<1>3. LayerInv
  <2>1. LayerTyped
    BY <1>1 DEF LayerTyped
  <2>2. Framed(<< >>) /\ InOrder(<< >>, << >>, requests)
    BY <1>1 DEF Framed, InOrder
  <2> QED
    BY <1>2, <2>1, <2>2 DEF LayerInv
<1>4. PlacesInv
  <2>1. options \in Options
    BY DEF NoOptions, Options
  <2>2. DoipTypeOK
    <3>1. 0 \in 0..MaxDoipSteps
      OBVIOUS
    <3>2. {sessionOpen, routing, diagnosed, keeperStop, keeperEnabled, late, linked, ecuRouting}
            \subseteq BOOLEAN
      BY Zenon
    <3>3. ioMutex \in Threads \cup {NoThread}
      OBVIOUS
    <3> QED
      BY <2>1, <3>1, <3>2, <3>3, Zenon DEF DoipTypeOK
  <2>3. exchange["step"] = Nothing /\ exchange["keeper"] = Nothing
    BY DEF Threads
  <2> QED
    BY <2>2, <2>3 DEF PlacesInv, NoThread, Asked
<1>5. AnswersInv
  BY DEF AnswersInv, AnswersMatch, RoutingHonest
<1>6. CleanInv
  BY <1>2 DEF CleanInv, Clean, Threads
<1> QED
  BY <1>3, <1>4, <1>5, <1>6 DEF DoipInv

\* A step of the threads that sends nothing and takes no answer.
LEMMA ThreadsOnly ==
  ASSUME DoipInv, UNCHANGED layerVars, late' = late, routing' = routing, PlacesInv',
         stepPlace' # stepPlace => stepPlace \notin Asked /\ stepPlace' \notin Asked,
         keeper' = "asking" <=> keeper = "asking",
         stepPlace \in Doomed => stepPlace' \in Doomed
  PROVE  DoipInv'
<1>1. /\ linked' = linked /\ stream' = stream /\ rxBuffer' = rxBuffer /\ owed' = owed
      /\ ecuRouting' = ecuRouting /\ requests' = requests /\ exchange' = exchange
      /\ answer' = answer
  BY DEF layerVars
<1>2. LayerInv' /\ FrameParts' = FrameParts
  BY <1>1, LayerSame DEF DoipInv, LayerInv, LayerTyped
<1>3. AnswersInv'
  <2>1. stepPlace' \in {"routing", "asking"} => stepPlace' = stepPlace
    BY DEF Asked
  <2> QED
    BY <1>1, <2>1 DEF DoipInv, AnswersInv, AnswersMatch, RoutingHonest
<1>4. NoneWaits' => NoneWaits
  BY <1>1 DEF NoneWaits
<1>5. CleanInv'
  BY <1>1, <1>2, <1>4 DEF DoipInv, CleanInv, Clean, About
<1> QED
  BY <1>2, <1>3, <1>5 DEF DoipInv

\* A thread that asks, where there was nothing, is the only one that waits.
LEMMA AskedIsClean ==
  ASSUME DoipInv, NEW t \in Threads, NEW op \in Ops, Request(t, op),
         ~late' /\ stepPlace' \notin Doomed => ~late /\ stepPlace \notin Doomed /\ NoneWaits,
         t = "step" => stepPlace' \in Asked, t = "keeper" => keeper' = "asking"
  PROVE  CleanInv'
<1> SUFFICES ASSUME ~late', stepPlace' \notin Doomed PROVE Clean'
  BY DEF CleanInv
<1>1. FrameParts = << >> /\ owed = << >> /\ exchange["step"] = Nothing /\ exchange["keeper"] = Nothing
  BY DEF DoipInv, CleanInv, Clean, NoneWaits
<1>2. /\ LayerInv' /\ FrameParts' = FrameParts
      /\ answer' = [answer EXCEPT ![t] = Nothing]
      /\ linked => /\ requests' = requests + 1
                   /\ owed' = Append(owed, [id |-> requests + 1, op |-> op])
                   /\ exchange' = [exchange EXCEPT ![t] =
                        [id |-> requests + 1, op |-> op, expired |-> FALSE]]
      /\ ~linked => requests' = requests /\ owed' = owed /\ exchange' = exchange
  BY LayerRequest DEF DoipInv
<1>3. /\ answer \in [Threads -> Msg \cup {Nothing}]
      /\ exchange \in [Threads -> Exchange \cup {Nothing}]
  BY DEF DoipInv, LayerInv, LayerTyped
<1>4. answer'[t] = Nothing
  BY <1>2, <1>3
<1>5. ~NoneWaits'
  BY <1>4 DEF NoneWaits, Threads
<1>6. ASSUME NEW u \in Threads, exchange'[u] # Nothing
      PROVE  About(exchange'[u], FrameParts', owed', requests')
  <2>1. linked
    BY <1>1, <1>2, <1>6 DEF Threads
  <2> DEFINE x == [id |-> requests + 1, op |-> op, expired |-> FALSE]
             order == [id |-> requests + 1, op |-> op]
  <2>2. /\ owed' = <<order>> /\ exchange' = [exchange EXCEPT ![t] = x] /\ requests' = requests + 1
        /\ FrameParts' = << >>
    BY <1>1, <1>2, <2>1
  <2>3. exchange'[u] = x
    BY <1>1, <1>3, <1>6, <2>2 DEF Threads
  <2>4. Len(owed') = 1 /\ owed'[1] = order /\ Len(FrameParts') = 0
    BY <2>2
  <2>5. x.id = requests + 1 /\ order.id = x.id /\ order.op = x.op
    OBVIOUS
  <2> HIDE DEF x, order
  <2> QED
    BY <2>2, <2>3, <2>4, <2>5 DEF About
<1> QED
  BY <1>5, <1>6 DEF Clean

LEMMA DoipBeginKeeps == DoipInv /\ BeginStep => DoipInv'
<1> SUFFICES ASSUME DoipInv, BeginStep PROVE DoipInv'
  OBVIOUS
<1>1. /\ stepPlace = "idle" /\ steps < MaxDoipSteps /\ steps' = steps + 1 /\ options' \in Options
      /\ stepPlace' = IF ~sessionOpen THEN "connect" ELSE IF linked THEN "check" ELSE "closing"
      /\ sessionOpen' = sessionOpen /\ routing' = routing /\ diagnosed' = diagnosed
      /\ keeper' = keeper /\ keeperStop' = keeperStop /\ keeperEnabled' = keeperEnabled
      /\ ioMutex' = ioMutex /\ late' = late
  BY DEF BeginStep, sessionVars, keeperVars
<1>2. UNCHANGED layerVars
  BY DEF BeginStep
<1>3. linked' = linked /\ exchange' = exchange /\ ecuRouting' = ecuRouting
  BY <1>2 DEF layerVars
<1>4. PlacesInv'
  BY <1>1, <1>3, DoipBoundsAssumption DEF DoipInv, PlacesInv, DoipTypeOK, Asked
<1> QED
  BY <1>1, <1>2, <1>4, ThreadsOnly DEF Asked, Doomed

LEMMA DoipEasyKeeps ==
  ASSUME DoipInv, CheckIdle \/ Configure \/ LockIo \/ EndWorkflow \/ CloseBegins \/ KeeperWakes
  PROVE  DoipInv'
<1>1. UNCHANGED layerVars /\ late' = late
  BY DEF CheckIdle, Configure, LockIo, EndWorkflow, CloseBegins, KeeperWakes
<1>2. linked' = linked /\ exchange' = exchange /\ ecuRouting' = ecuRouting
  BY <1>1 DEF layerVars
<1>p. PlacesInv
  BY DEF DoipInv
<1> USE DEF SessionGoes, sessionVars, keeperVars, doipStepVars, NoOptions
<1>3. CASE CheckIdle
  <2>1. PlacesInv'
    BY <1>p, <1>1, <1>2, <1>3 DEF CheckIdle, PlacesInv, DoipTypeOK, Asked
  <2> QED
    BY <1>1, <1>3, <2>1, ThreadsOnly DEF CheckIdle, Asked, Doomed
<1>4. CASE Configure
  <2>1. PlacesInv'
    BY <1>p, <1>1, <1>2, <1>4 DEF Configure, PlacesInv, DoipTypeOK, Asked, Options
  <2> QED
    BY <1>1, <1>4, <2>1, ThreadsOnly DEF Configure, Asked, Doomed
<1>5. CASE LockIo
  <2>1. PlacesInv'
    BY <1>p, <1>1, <1>2, <1>5 DEF LockIo, PlacesInv, DoipTypeOK, Asked, NoThread, Threads
  <2> QED
    BY <1>1, <1>5, <2>1, ThreadsOnly DEF LockIo, Asked, Doomed
<1>6. CASE EndWorkflow
  <2>1. PlacesInv'
    BY <1>p, <1>1, <1>2, <1>6 DEF EndWorkflow, PlacesInv, DoipTypeOK, Asked
  <2> QED
    BY <1>1, <1>6, <2>1, ThreadsOnly DEF EndWorkflow, Asked, Doomed
<1>7. CASE CloseBegins
  <2>1. PlacesInv'
    BY <1>p, <1>1, <1>2, <1>7 DEF CloseBegins, PlacesInv, DoipTypeOK, Asked
  <2> QED
    BY <1>1, <1>7, <2>1, ThreadsOnly DEF CloseBegins, Asked, Doomed
<1>8. CASE KeeperWakes
  <2>1. PlacesInv'
    BY <1>p, <1>1, <1>2, <1>8 DEF KeeperWakes, PlacesInv, DoipTypeOK, Asked
  <2> QED
    BY <1>1, <1>8, <2>1, ThreadsOnly DEF KeeperWakes, Asked, Doomed
<1> QED
  BY <1>3, <1>4, <1>5, <1>6, <1>7, <1>8

LEMMA DoipConnectKeeps == ASSUME DoipInv, Connect PROVE DoipInv'
<1>p. PlacesInv
  BY DEF DoipInv
<1>1. /\ stepPlace = "connect" /\ routing' = routing /\ diagnosed' = diagnosed /\ ioMutex' = ioMutex
      /\ keeper' = keeper /\ keeperStop' = keeperStop /\ keeperEnabled' = keeperEnabled
  BY DEF Connect, keeperVars
<1>2. CASE LinkUp /\ sessionOpen' = TRUE /\ late' = FALSE /\ SessionGoes("route")
  <2>1. /\ LayerInv' /\ FrameParts' = << >> /\ owed' = << >>
        /\ exchange' = exchange /\ answer' = answer
    BY <1>2, LayerEmpty DEF DoipInv
  <2>2. linked' = TRUE /\ ecuRouting' = FALSE
    BY <1>2 DEF LinkUp
  <2>3. stepPlace' = "route" /\ options' = options /\ steps' = steps
    BY <1>2 DEF SessionGoes
  <2>4. PlacesInv'
    BY <1>p, <1>1, <1>2, <2>1, <2>2, <2>3 DEF PlacesInv, DoipTypeOK, Asked
  <2>5. ~routing /\ exchange["step"] = Nothing /\ exchange["keeper"] = Nothing
    BY <1>p, <1>1 DEF PlacesInv, DoipTypeOK, Asked
  <2>6. AnswersInv'
    BY <1>1, <2>3, <2>5 DEF AnswersInv, AnswersMatch, RoutingHonest
  <2>7. CleanInv'
    BY <2>1, <2>5 DEF CleanInv, Clean, Threads
  <2> QED
    BY <2>1, <2>4, <2>6, <2>7 DEF DoipInv
<1>3. CASE Fails /\ UNCHANGED <<layerVars, sessionOpen, late>>
  <2>1. stepPlace' = "closing" /\ options' = options /\ steps' = steps
    BY <1>3 DEF Fails, SessionGoes
  <2>2. linked' = linked /\ exchange' = exchange /\ ecuRouting' = ecuRouting
    BY <1>3 DEF layerVars
  <2>3. PlacesInv'
    BY <1>p, <1>1, <1>3, <2>1, <2>2 DEF PlacesInv, DoipTypeOK, Asked
  <2> QED
    BY <1>1, <1>3, <2>1, <2>3, ThreadsOnly DEF Asked, Doomed
<1> QED
  BY <1>2, <1>3 DEF Connect

LEMMA RouteKeeps == ASSUME DoipInv, Route PROVE DoipInv'
<1>p. PlacesInv
  BY DEF DoipInv
<1>1. /\ stepPlace = "route" /\ sessionOpen' = sessionOpen /\ routing' = routing
      /\ diagnosed' = diagnosed /\ ioMutex' = ioMutex /\ late' = late
      /\ keeper' = keeper /\ keeperStop' = keeperStop /\ keeperEnabled' = keeperEnabled
  BY DEF Route, keeperVars, sessionVars
<1>2. CASE routing /\ SessionGoes("configure") /\ UNCHANGED layerVars
  <2>1. stepPlace' = "configure" /\ options' = options /\ steps' = steps
    BY <1>2 DEF SessionGoes
  <2>2. linked' = linked /\ exchange' = exchange /\ ecuRouting' = ecuRouting
    BY <1>2 DEF layerVars
  <2>3. PlacesInv'
    BY <1>p, <1>1, <1>2, <2>1, <2>2 DEF PlacesInv, DoipTypeOK, Asked
  <2> QED
    BY <1>1, <1>2, <2>1, <2>3, ThreadsOnly DEF Asked, Doomed
<1>3. CASE ~routing /\ Request("step", "routing") /\ SessionGoes("routing")
  <2>1. stepPlace' = "routing" /\ options' = options /\ steps' = steps
    BY <1>3 DEF SessionGoes
  <2>2. "step" \in Threads /\ "routing" \in Ops
    BY DEF Threads, Ops
  <2>3. /\ LayerInv' /\ linked' = linked /\ ecuRouting' = ecuRouting
        /\ answer' = [answer EXCEPT !["step"] = Nothing]
        /\ linked => exchange' = [exchange EXCEPT !["step"] =
                       [id |-> requests + 1, op |-> "routing", expired |-> FALSE]]
        /\ ~linked => exchange' = exchange
    BY <1>3, <2>2, LayerRequest DEF DoipInv
  <2>4. /\ answer \in [Threads -> Msg \cup {Nothing}]
        /\ exchange \in [Threads -> Exchange \cup {Nothing}]
    BY DEF DoipInv, LayerInv, LayerTyped
  <2>5. answer'["step"] = Nothing
    BY <2>2, <2>3, <2>4
  <2>6. /\ exchange'["keeper"] = exchange["keeper"]
        /\ exchange'["step"] # Nothing => exchange'["step"].op = "routing"
    <3>1. exchange["step"] = Nothing
      BY <1>1, <1>p DEF PlacesInv, Asked
    <3>2. CASE linked
      BY <3>2, <2>3, <2>4 DEF Threads
    <3>3. CASE ~linked
      BY <3>3, <2>3, <3>1
    <3> QED
      BY <3>2, <3>3
  <2>7. PlacesInv'
    BY <1>p, <1>1, <1>3, <2>1, <2>3, <2>6 DEF PlacesInv, DoipTypeOK, Asked
  <2>8. AnswersInv'
    BY <1>1, <1>3, <2>1, <2>5 DEF AnswersInv, AnswersMatch, RoutingHonest
  <2>9. NoneWaits
    BY <1>1, <1>3, <1>p DEF NoneWaits, PlacesInv, Asked
  <2>10. CleanInv'
    BY <1>1, <1>3, <2>1, <2>2, <2>9, AskedIsClean DEF Asked, Doomed
  <2> QED
    BY <2>3, <2>7, <2>8, <2>10 DEF DoipInv
<1> QED
  BY <1>2, <1>3 DEF Route

\* A step asks, under ioMutex.
LEMMA AskKeeps == ASSUME DoipInv, AskBefore \/ Ask PROVE DoipInv'
<1>p. PlacesInv
  BY DEF DoipInv
<1>1. PICK op \in Services :
        /\ Request("step", op)
        /\ \/ op = "tester" /\ stepPlace = "before" /\ stepPlace' = "besides" /\ late' = late
           \/ /\ op = "business" /\ stepPlace' = "asking"
              /\ stepPlace = "ask" \/ (stepPlace = "besides" /\ exchange["step"] = Nothing)
              /\ late' = (late \/ (stepPlace = "besides" /\ answer["step"] = Nothing))
  BY Zenon DEF AskBefore, Ask, SessionGoes, Services
<1>2. /\ sessionOpen' = sessionOpen /\ routing' = routing
      /\ diagnosed' = diagnosed /\ ioMutex' = ioMutex /\ options' = options /\ steps' = steps
      /\ keeper' = keeper /\ keeperStop' = keeperStop /\ keeperEnabled' = keeperEnabled
  BY DEF AskBefore, Ask, keeperVars, sessionVars, SessionGoes
<1>3. "step" \in Threads /\ op \in Ops /\ op # "routing"
  BY DEF Threads, Ops, Services
<1>4. /\ LayerInv' /\ linked' = linked /\ ecuRouting' = ecuRouting
      /\ answer' = [answer EXCEPT !["step"] = Nothing]
      /\ linked => exchange' = [exchange EXCEPT !["step"] =
                     [id |-> requests + 1, op |-> op, expired |-> FALSE]]
      /\ ~linked => exchange' = exchange
  BY <1>1, <1>3, LayerRequest DEF DoipInv
<1>5. /\ answer \in [Threads -> Msg \cup {Nothing}]
      /\ exchange \in [Threads -> Exchange \cup {Nothing}]
  BY DEF DoipInv, LayerInv, LayerTyped
<1>6. answer'["step"] = Nothing
  BY <1>3, <1>4, <1>5
<1>7. exchange["step"] = Nothing
  BY <1>1, <1>p DEF PlacesInv, Asked
<1>8. /\ exchange'["keeper"] = exchange["keeper"]
      /\ exchange'["step"] # Nothing => exchange'["step"].op # "routing"
  <2>1. CASE linked
    BY <2>1, <1>3, <1>4, <1>5 DEF Threads
  <2>2. CASE ~linked
    BY <2>2, <1>4, <1>7
  <2> QED
    BY <2>1, <2>2
<1>9. stepPlace \in {"before", "ask", "besides"} /\ stepPlace' \in {"besides", "asking"}
  BY <1>1
<1>10. late \in BOOLEAN /\ late' \in BOOLEAN /\ (~late' => ~late)
  <2>1. late \in BOOLEAN
    BY <1>p DEF PlacesInv, DoipTypeOK
  <2>2. late' = late \/ late' = (late \/ (stepPlace = "besides" /\ answer["step"] = Nothing))
    BY <1>1, Zenon
  <2> QED
    BY <2>1, <2>2, Zenon
<1>11. PlacesInv'
  BY <1>p, <1>2, <1>4, <1>8, <1>9, <1>10 DEF PlacesInv, DoipTypeOK, Asked
<1>12. AnswersInv'
  BY <1>2, <1>4, <1>6, <1>9 DEF DoipInv, AnswersInv, AnswersMatch, RoutingHonest
<1>13. keeper # "asking" /\ exchange["keeper"] = Nothing
  BY <1>9, <1>p DEF PlacesInv
<1>14. ~late' => NoneWaits
  BY <1>1, <1>7, <1>13 DEF NoneWaits, Asked
<1>15. CleanInv'
  BY <1>1, <1>3, <1>9, <1>10, <1>14, AskedIsClean DEF Asked, Doomed
<1> QED
  BY <1>4, <1>11, <1>12, <1>15 DEF DoipInv

LEMMA KeeperAsksKeeps == ASSUME DoipInv, KeeperAsks PROVE DoipInv'
<1>p. PlacesInv
  BY DEF DoipInv
<1>1. /\ keeper = "lock" /\ ioMutex = NoThread
      /\ sessionOpen' = sessionOpen /\ routing' = routing /\ diagnosed' = diagnosed
      /\ stepPlace' = stepPlace /\ options' = options /\ steps' = steps
      /\ keeperStop' = keeperStop /\ keeperEnabled' = keeperEnabled /\ late' = late
  BY DEF KeeperAsks, sessionVars, doipStepVars
<1>2. CASE ~linked /\ keeper' = "wait" /\ UNCHANGED <<layerVars, ioMutex, late>>
  <2>1. linked' = linked /\ exchange' = exchange /\ ecuRouting' = ecuRouting
    BY <1>2 DEF layerVars
  <2>2. PlacesInv'
    BY <1>p, <1>1, <1>2, <2>1 DEF PlacesInv, DoipTypeOK, Asked
  <2> QED
    BY <1>1, <1>2, <2>2, ThreadsOnly DEF Asked, Doomed
<1>3. CASE linked /\ Request("keeper", "tester") /\ keeper' = "asking" /\ ioMutex' = "keeper"
  <2>1. "keeper" \in Threads /\ "tester" \in Ops
    BY DEF Threads, Ops, Services
  <2>2. /\ LayerInv' /\ linked' = linked /\ ecuRouting' = ecuRouting
        /\ answer' = [answer EXCEPT !["keeper"] = Nothing]
        /\ exchange' = [exchange EXCEPT !["keeper"] =
                          [id |-> requests + 1, op |-> "tester", expired |-> FALSE]]
    BY <1>3, <2>1, LayerRequest DEF DoipInv
  <2>3. /\ answer \in [Threads -> Msg \cup {Nothing}]
        /\ exchange \in [Threads -> Exchange \cup {Nothing}]
    BY DEF DoipInv, LayerInv, LayerTyped
  <2>4. answer'["step"] = answer["step"] /\ exchange'["step"] = exchange["step"]
    BY <2>2, <2>3 DEF Threads
  <2>5. exchange'["keeper"].op # "routing"
    BY <2>2, <2>3 DEF Threads
  <2>6. stepPlace \notin {"before", "ask", "besides", "asking", "routing"}
    BY <1>1, <1>p DEF PlacesInv, NoThread
  <2>7. PlacesInv'
    BY <1>p, <1>1, <1>3, <2>2, <2>4, <2>5, <2>6 DEF PlacesInv, DoipTypeOK, Asked, Threads
  <2>8. AnswersInv'
    BY <1>1, <2>2, <2>4, <2>6 DEF DoipInv, AnswersInv, AnswersMatch, RoutingHonest
  <2>9. NoneWaits
    BY <1>1, <1>p, <2>6 DEF NoneWaits, PlacesInv, Asked
  <2>10. CleanInv'
    BY <1>1, <1>3, <2>1, <2>9, AskedIsClean DEF Asked, Doomed
  <2> QED
    BY <2>2, <2>7, <2>8, <2>10 DEF DoipInv
<1> QED
  BY <1>1, <1>2, <1>3 DEF KeeperAsks

\* What a thread takes up an answer does to the layer.
LEMMA LayerConsumed ==
  ASSUME LayerInv, NEW t \in Threads, Consume(t)
  PROVE  /\ LayerInv' /\ FrameParts' = FrameParts /\ owed' = owed /\ requests' = requests
         /\ linked' = linked /\ ecuRouting' = ecuRouting /\ exchange' = exchange
         /\ exchange[t] = Nothing /\ \A u \in Threads \ {t} : answer'[u] = answer[u]
<1>1. /\ linked' = linked /\ stream' = stream /\ rxBuffer' = rxBuffer /\ owed' = owed
      /\ ecuRouting' = ecuRouting /\ requests' = requests /\ exchange' = exchange
      /\ exchange[t] = Nothing /\ answer' = [answer EXCEPT ![t] = Nothing]
  BY DEF Consume
<1>2. answer \in [Threads -> Msg \cup {Nothing}] /\ exchange \in [Threads -> Exchange \cup {Nothing}]
  BY DEF LayerInv, LayerTyped
<1>3. /\ answer' \in [Threads -> Msg \cup {Nothing}]
      /\ \A u \in Threads \ {t} : answer'[u] = answer[u]
  BY <1>1, <1>2
<1> QED
  BY <1>1, <1>2, <1>3, LayerSame

\* A thread that takes up an answer leaves things clean, if they were.
LEMMA ConsumedIsClean ==
  ASSUME DoipInv, NEW t \in Threads, Consume(t),
         ~late' /\ stepPlace' \notin Doomed => ~late /\ stepPlace \notin Doomed,
         ~late' /\ stepPlace' \notin Doomed /\ NoneWaits' => NoneWaits
  PROVE  CleanInv'
BY LayerConsumed DEF DoipInv, CleanInv, Clean, About

LEMMA RoutedKeeps == ASSUME DoipInv, Routed PROVE DoipInv'
<1>p. PlacesInv
  BY DEF DoipInv
<1>1. /\ stepPlace = "routing" /\ Consume("step") /\ "step" \in Threads
      /\ sessionOpen' = sessionOpen /\ diagnosed' = diagnosed /\ ioMutex' = ioMutex /\ late' = late
      /\ keeper' = keeper /\ keeperStop' = keeperStop /\ keeperEnabled' = keeperEnabled
  BY DEF Routed, keeperVars, Threads
<1>2. /\ LayerInv' /\ FrameParts' = FrameParts /\ owed' = owed /\ requests' = requests
      /\ linked' = linked /\ ecuRouting' = ecuRouting /\ exchange' = exchange
      /\ exchange["step"] = Nothing
  BY <1>1, LayerConsumed DEF DoipInv
<1>3. keeper = "none" /\ sessionOpen /\ options' = options /\ steps' = steps
  BY <1>1, <1>p DEF PlacesInv, DoipTypeOK, Asked, Routed, Fails, SessionGoes
<1>4. CASE answer["step"] # Nothing /\ routing' = TRUE /\ SessionGoes("configure")
  <2>1. stepPlace' = "configure"
    BY <1>4 DEF SessionGoes
  <2>2. PlacesInv'
    BY <1>p, <1>1, <1>2, <1>3, <1>4, <2>1 DEF PlacesInv, DoipTypeOK, Asked
  <2>3. linked => ecuRouting
    BY <1>1, <1>2, <1>4 DEF DoipInv, AnswersInv
  <2>4. AnswersInv'
    BY <1>2, <2>1, <2>3 DEF AnswersInv, AnswersMatch, RoutingHonest
  <2>5. NoneWaits
    BY <1>1, <1>2, <1>3, <1>4, <1>p DEF NoneWaits, PlacesInv
  <2>6. CleanInv'
    BY <1>1, <2>1, <2>5, ConsumedIsClean DEF Doomed
  <2> QED
    BY <1>2, <2>2, <2>4, <2>6 DEF DoipInv
<1>5. CASE answer["step"] = Nothing /\ Fails /\ routing' = routing
  <2>1. stepPlace' = "closing"
    BY <1>5 DEF Fails, SessionGoes
  <2>2. PlacesInv'
    BY <1>p, <1>1, <1>2, <1>3, <1>5, <2>1 DEF PlacesInv, DoipTypeOK, Asked
  <2>3. AnswersInv'
    BY <1>2, <1>5, <2>1 DEF DoipInv, AnswersInv, AnswersMatch, RoutingHonest
  <2>4. CleanInv'
    BY <2>1 DEF CleanInv, Doomed
  <2> QED
    BY <1>2, <2>2, <2>3, <2>4 DEF DoipInv
<1> QED
  BY <1>4, <1>5 DEF Routed

LEMMA AnsweredKeeps == ASSUME DoipInv, Answered PROVE DoipInv'
<1>p. PlacesInv
  BY DEF DoipInv
<1>1. /\ stepPlace = "asking" /\ Consume("step") /\ "step" \in Threads
      /\ ioMutex' = NoThread
      /\ sessionOpen' = sessionOpen /\ routing' = routing /\ late' = late
      /\ keeper' = keeper /\ keeperStop' = keeperStop /\ keeperEnabled' = keeperEnabled
  BY DEF Answered, UnlockIo, keeperVars, Threads
<1>2. /\ LayerInv' /\ FrameParts' = FrameParts /\ owed' = owed /\ requests' = requests
      /\ linked' = linked /\ ecuRouting' = ecuRouting /\ exchange' = exchange
      /\ exchange["step"] = Nothing
  BY <1>1, LayerConsumed DEF DoipInv
<1>3. /\ stepPlace' \in {"closing", "idle"} /\ (stepPlace' = "idle" => answer["step"] # Nothing)
      /\ options' \in {options, NoOptions} /\ steps' = steps /\ diagnosed' \in {diagnosed, TRUE}
  BY DEF Answered, Fails, SessionGoes
<1>4. keeper # "asking" /\ exchange["keeper"] = Nothing /\ NoOptions \in Options
  BY <1>1, <1>p DEF PlacesInv, NoOptions, Options
<1>5. PlacesInv'
  <2>1. options' \in Options /\ diagnosed' \in BOOLEAN
    BY <1>3, <1>4, <1>p DEF PlacesInv, DoipTypeOK
  <2> QED
    BY <1>p, <1>1, <1>2, <1>3, <1>4, <2>1 DEF PlacesInv, DoipTypeOK, Asked, NoThread
<1>6. AnswersInv'
  BY <1>1, <1>2, <1>3 DEF DoipInv, AnswersInv, AnswersMatch, RoutingHonest
<1>7. stepPlace' = "idle" => NoneWaits
  BY <1>1, <1>2, <1>3, <1>4 DEF NoneWaits
<1>8. CleanInv'
  BY <1>1, <1>3, <1>7, ConsumedIsClean DEF Doomed
<1> QED
  BY <1>2, <1>5, <1>6, <1>8 DEF DoipInv

LEMMA KeeperAnsweredKeeps == ASSUME DoipInv, KeeperAnswered PROVE DoipInv'
<1>p. PlacesInv
  BY DEF DoipInv
<1>1. /\ keeper = "asking" /\ Consume("keeper") /\ "keeper" \in Threads
      /\ keeper' = "wait" /\ ioMutex' = NoThread
      /\ late' = (late \/ answer["keeper"] = Nothing)
      /\ sessionOpen' = sessionOpen /\ routing' = routing /\ diagnosed' = diagnosed
      /\ keeperStop' = keeperStop /\ keeperEnabled' = keeperEnabled
      /\ stepPlace' = stepPlace /\ options' = options /\ steps' = steps
  BY DEF KeeperAnswered, Threads, sessionVars, doipStepVars
<1>2. /\ LayerInv' /\ FrameParts' = FrameParts /\ owed' = owed /\ requests' = requests
      /\ linked' = linked /\ ecuRouting' = ecuRouting /\ exchange' = exchange
      /\ exchange["keeper"] = Nothing /\ \A u \in Threads \ {"keeper"} : answer'[u] = answer[u]
  BY <1>1, LayerConsumed DEF DoipInv
<1>3. stepPlace \notin Asked /\ exchange["step"] = Nothing
  BY <1>1, <1>p DEF PlacesInv, Asked
<1>4. late \in BOOLEAN /\ late' \in BOOLEAN /\ (~late' => ~late /\ answer["keeper"] # Nothing)
  BY <1>1, <1>p, Zenon DEF PlacesInv, DoipTypeOK
<1>5. PlacesInv'
  BY <1>p, <1>1, <1>2, <1>3, <1>4 DEF PlacesInv, DoipTypeOK, Asked, NoThread
<1>6. AnswersInv'
  BY <1>1, <1>2, <1>3 DEF DoipInv, AnswersInv, AnswersMatch, RoutingHonest, Asked
<1>7. ~late' => NoneWaits
  BY <1>2, <1>3, <1>4 DEF NoneWaits
<1>8. CleanInv'
  BY <1>1, <1>4, <1>7, ConsumedIsClean
<1> QED
  BY <1>2, <1>5, <1>6, <1>8 DEF DoipInv

LEMMA CloseEndsKeeps == ASSUME DoipInv, CloseEnds PROVE DoipInv'
<1>p. PlacesInv
  BY DEF DoipInv
<1>1. /\ stepPlace \in {"joining", "rejoining"} /\ keeper \in {"none", "ended"}
      /\ keeper' = IF keeper = "ended" THEN "none" ELSE keeper
      /\ LinkDown /\ sessionOpen' = FALSE /\ routing' = FALSE
      /\ stepPlace' \in {"idle", "connect"} /\ options' \in {options, NoOptions} /\ steps' = steps
      /\ diagnosed' = diagnosed /\ keeperStop' = keeperStop /\ keeperEnabled' = keeperEnabled
      /\ ioMutex' = ioMutex /\ late' = late
  BY DEF CloseEnds, KeeperGone, SessionGoes
<1>2. /\ LayerInv' /\ FrameParts' = << >> /\ owed' = << >>
      /\ exchange' = exchange /\ answer' = answer
  BY <1>1, LayerEmpty DEF DoipInv
<1>3. linked' = FALSE /\ ecuRouting' = FALSE
  BY <1>1 DEF LinkDown
<1>4. exchange["step"] = Nothing /\ exchange["keeper"] = Nothing
  BY <1>1, <1>p DEF PlacesInv, Asked
<1>5. options' \in Options
  <2>1. NoOptions \in Options
    BY DEF Options, NoOptions
  <2> QED
    BY <2>1, <1>1, <1>p DEF PlacesInv, DoipTypeOK
<1>6. PlacesInv'
  BY <1>p, <1>1, <1>2, <1>3, <1>4, <1>5 DEF PlacesInv, DoipTypeOK, Asked
<1>7. AnswersInv'
  BY <1>1, <1>3 DEF AnswersInv, AnswersMatch, RoutingHonest
<1>8. CleanInv'
  BY <1>2, <1>4 DEF CleanInv, Clean, Threads
<1> QED
  BY <1>2, <1>6, <1>7, <1>8 DEF DoipInv

ThreadsSame ==
  UNCHANGED <<stepPlace, options, steps, sessionOpen, routing, diagnosed, keeper, keeperStop,
              keeperEnabled, ioMutex, late>>

\* What happens on the connection while no exchange ends.
LEMMA WaitingKeeps ==
  ASSUME DoipInv, ThreadsSame, LayerInv', answer' = answer, requests' = requests,
         \A u \in Threads : exchange[u] = Nothing => exchange'[u] = Nothing,
         \A u \in Threads : exchange[u] # Nothing =>
           /\ exchange'[u] # Nothing
           /\ exchange'[u].id = exchange[u].id /\ exchange'[u].op = exchange[u].op,
         linked' => linked, linked' /\ ecuRouting => ecuRouting', Clean => Clean'
  PROVE  DoipInv'
<1>p. PlacesInv
  BY DEF DoipInv
<1>1. "step" \in Threads /\ "keeper" \in Threads
  BY DEF Threads
<1>2. /\ stepPlace' = stepPlace /\ options' = options /\ steps' = steps
      /\ sessionOpen' = sessionOpen /\ routing' = routing /\ diagnosed' = diagnosed
      /\ keeper' = keeper /\ keeperStop' = keeperStop /\ keeperEnabled' = keeperEnabled
      /\ ioMutex' = ioMutex /\ late' = late
  BY DEF ThreadsSame
<1>3. PlacesInv'
  <2>1. linked' \in BOOLEAN /\ ecuRouting' \in BOOLEAN
    BY DEF LayerInv, LayerTyped
  <2> QED
    BY <1>p, <1>1, <1>2, <2>1 DEF PlacesInv, DoipTypeOK
<1>4. AnswersInv'
  BY <1>1, <1>2 DEF DoipInv, AnswersInv, AnswersMatch, RoutingHonest
<1>5. CleanInv'
  BY <1>2 DEF DoipInv, CleanInv
<1> QED
  BY <1>3, <1>4, <1>5 DEF DoipInv

\* An exchange ends: with an answer only where that answer is the last thing to come.
LEMMA EndsKeeps ==
  ASSUME DoipInv, ThreadsSame, LayerInv', requests' = requests, linked' = linked,
         ecuRouting' = ecuRouting, owed' = owed,
         NEW t \in Threads, exchange[t] # Nothing, NEW result, Ends(t, result),
         NEW m \in {0, 2}, FrameParts' \in Seq(FramePart), FrameParts \in Seq(FramePart),
         m + Len(FrameParts') <= Len(FrameParts),
         \A i \in 1..Len(FrameParts') : FrameParts'[i] = FrameParts[m + i],
         result # Nothing /\ exchange[t].op = "routing" /\ linked => ecuRouting,
         result # Nothing /\ About(exchange[t], FrameParts, owed, requests) =>
           /\ FrameParts' = << >> /\ owed = << >>
           /\ result.id = requests /\ (exchange[t].op # "routing" => result.kind = "final")
  PROVE  DoipInv'
<1>p. PlacesInv
  BY DEF DoipInv
<1>1. Threads = {"step", "keeper"}
  BY DEF Threads
<1>2. /\ stepPlace' = stepPlace /\ options' = options /\ steps' = steps
      /\ sessionOpen' = sessionOpen /\ routing' = routing /\ diagnosed' = diagnosed
      /\ keeper' = keeper /\ keeperStop' = keeperStop /\ keeperEnabled' = keeperEnabled
      /\ ioMutex' = ioMutex /\ late' = late
  BY DEF ThreadsSame
<1>3. /\ exchange'[t] = Nothing /\ answer'[t] = result
      /\ \A u \in Threads \ {t} : exchange'[u] = exchange[u] /\ answer'[u] = answer[u]
  <2>1. /\ answer \in [Threads -> Msg \cup {Nothing}]
        /\ exchange \in [Threads -> Exchange \cup {Nothing}]
    BY DEF DoipInv, LayerInv, LayerTyped
  <2> QED
    BY <2>1 DEF Ends
<1>4. PlacesInv'
  <2>1. linked' \in BOOLEAN /\ ecuRouting' \in BOOLEAN
    BY DEF LayerInv, LayerTyped
  <2>2. CASE t = "step"
    BY <2>2, <1>p, <1>1, <1>2, <1>3, <2>1 DEF PlacesInv, DoipTypeOK
  <2>3. CASE t = "keeper"
    BY <2>3, <1>p, <1>1, <1>2, <1>3, <2>1 DEF PlacesInv, DoipTypeOK
  <2> QED
    BY <2>2, <2>3, <1>1
<1>5. stepPlace = "asking" => stepPlace \notin Doomed
  BY DEF Doomed
<1>6. t = "step" => stepPlace \in Asked /\ (exchange[t].op = "routing" <=> stepPlace = "routing")
  BY <1>p DEF PlacesInv
<1>7. t = "keeper" => keeper = "asking"
  BY <1>p DEF PlacesInv
<1>8. AnswersInv'
  <2>1. CASE t = "keeper"
    <3>1. exchange'["step"] = exchange["step"] /\ answer'["step"] = answer["step"]
      BY <2>1, <1>1, <1>3
    <3> QED
      BY <3>1, <1>2 DEF DoipInv, AnswersInv, AnswersMatch, RoutingHonest
  <2>2. CASE t = "step"
    <3>1. stepPlace = "routing" /\ result # Nothing /\ linked => ecuRouting
      BY <2>2, <1>6
    <3>2. stepPlace = "asking" /\ result # Nothing /\ ~late =>
            result.id = requests /\ result.kind = "final"
      <4>1. stepPlace = "asking" /\ ~late => About(exchange[t], FrameParts, owed, requests)
        BY <1>5 DEF DoipInv, CleanInv, Clean
      <4> QED
        BY <4>1, <2>2, <1>6
    <3>3. AnswersMatch'
      BY <2>2, <3>2, <1>2, <1>3 DEF AnswersMatch
    <3> QED
      BY <2>2, <3>1, <3>3, <1>2, <1>3 DEF DoipInv, AnswersInv, RoutingHonest
  <2> QED
    BY <2>1, <2>2, <1>1
<1>9. CleanInv'
  <2> SUFFICES ASSUME ~late, stepPlace \notin Doomed PROVE Clean'
    BY <1>2 DEF CleanInv
  <2>1. Clean
    BY DEF DoipInv, CleanInv
  <2>2. ASSUME NEW u \in Threads, exchange'[u] # Nothing
        PROVE  About(exchange'[u], FrameParts', owed', requests')
    <3>1. exchange'[u] = exchange[u]
      BY <2>2, <1>3
    <3>2. About(exchange[u], FrameParts, owed, requests)
      BY <3>1, <2>1, <2>2 DEF Clean
    <3>3. About(exchange[u], FrameParts', owed, requests)
      BY <3>2, AboutCut
    <3> QED
      BY <3>1, <3>3
  <2>3. NoneWaits' => result # Nothing
    BY <1>1, <1>2, <1>3, <1>6, <1>7 DEF NoneWaits
  <2>4. About(exchange[t], FrameParts, owed, requests)
    BY <2>1 DEF Clean
  <2> QED
    BY <2>2, <2>3, <2>4 DEF Clean
<1> QED
  BY <1>4, <1>8, <1>9 DEF DoipInv

LEMMA LinkLostKeeps == ASSUME DoipInv, ThreadsSame, LinkLost PROVE DoipInv'
<1>1. /\ LayerInv' /\ linked' = FALSE /\ owed' = << >> /\ requests' = requests
      /\ exchange' = exchange /\ answer' = answer
      /\ Len(FrameParts') <= Len(FrameParts)
      /\ \A i \in 1..Len(FrameParts') : FrameParts'[i] = FrameParts[i]
      /\ FrameParts' \in Seq(FramePart)
  BY LayerLost DEF DoipInv
<1>2. FrameParts \in Seq(FramePart)
  BY PartsTyped DEF DoipInv, LayerInv
<1>3. Len(FrameParts) \in Nat /\ Len(FrameParts') \in Nat
  BY <1>1, <1>2
<1>4. Clean => Clean'
  <2> SUFFICES ASSUME Clean PROVE Clean'
    OBVIOUS
  <2>1. ASSUME NEW u \in Threads, exchange[u] # Nothing
        PROVE  About(exchange[u], FrameParts', << >>, requests)
    <3>1. About(exchange[u], FrameParts, owed, requests)
      BY <2>1 DEF Clean
    <3>2. ASSUME NEW i \in 1..Len(FrameParts')
          PROVE  /\ i \in 1..Len(FrameParts) /\ FrameParts'[i] = FrameParts[i]
                 /\ i >= Len(FrameParts) - 1 => i >= Len(FrameParts') - 1
      BY <1>1, <1>3
    <3> QED
      BY <3>1, <3>2 DEF About
  <2>2. NoneWaits' => NoneWaits
    BY <1>1 DEF NoneWaits, ThreadsSame
  <2>3. NoneWaits => FrameParts' = << >>
    <3> SUFFICES ASSUME NoneWaits PROVE FrameParts' = << >>
      OBVIOUS
    <3>1. FrameParts = << >>
      BY DEF Clean
    <3>2. Len(FrameParts) = 0
      BY <3>1
    <3>3. Len(FrameParts') = 0
      BY <3>2, <1>1, <1>3
    <3> QED
      BY <3>3, <1>1, EmptySeq
  <2> QED
    BY <1>1, <2>1, <2>2, <2>3 DEF Clean
<1> QED
  BY <1>1, <1>4, WaitingKeeps

LEMMA VehicleKeeps == ASSUME DoipInv, ThreadsSame, EcuGoesOn \/ EcuFinishes PROVE DoipInv'
<1>1. PICK kind :
        /\ linked /\ owed # << >> /\ SendsKind(kind)
        /\ \/ /\ owed[1].op # "routing" /\ kind \in {"ack", "pending"}
              /\ owed' = owed /\ ecuRouting' = ecuRouting
           \/ /\ kind \in FinalKinds(owed[1].op)
              /\ owed' = Tail(owed) /\ ecuRouting' = (ecuRouting \/ kind = "routingOk")
  <2>1. CASE EcuGoesOn
    BY <2>1 DEF EcuGoesOn
  <2>2. CASE EcuFinishes
    BY <2>2, Zenon DEF EcuFinishes
  <2> QED
    BY <2>1, <2>2
<1> DEFINE msg == [id |-> owed[1].id, op |-> owed[1].op, kind |-> kind]
<1>2. /\ LayerInv' /\ FrameParts' \in Seq(FramePart) /\ Len(FrameParts') = Len(FrameParts) + 2
      /\ \A i \in 1..Len(FrameParts) : FrameParts'[i] = FrameParts[i]
      /\ \A i \in {Len(FrameParts) + 1, Len(FrameParts) + 2} : FrameParts'[i].msg = msg
      /\ linked' = linked /\ requests' = requests /\ exchange' = exchange /\ answer' = answer
  BY <1>1, LayerSends DEF DoipInv
<1>3. FrameParts \in Seq(FramePart) /\ owed \in Seq(Order)
  BY PartsTyped DEF DoipInv, LayerInv, LayerTyped
<1>4. Len(FrameParts) \in Nat /\ Len(FrameParts') \in Nat
  BY <1>2, <1>3
<1>5. ecuRouting => ecuRouting'
  BY <1>1, Zenon
<1>6. Clean => Clean'
  <2> SUFFICES ASSUME Clean PROVE Clean'
    OBVIOUS
  <2>1. ASSUME NEW u \in Threads, exchange[u] # Nothing
        PROVE  About(exchange[u], FrameParts', owed', requests)
    <3> DEFINE x == exchange[u]
    <3>1. About(x, FrameParts, owed, requests)
      BY <2>1 DEF Clean
    <3>2. Len(owed) = 1 /\ owed[1].id = x.id /\ owed[1].op = x.op /\ x.id = requests
      BY <3>1, <1>1 DEF About
    <3>3. msg.id = x.id /\ msg.op = x.op /\ msg.kind = kind
      BY <3>2
    <3> HIDE DEF x, msg
    <3>4. ASSUME NEW i \in 1..Len(FrameParts')
          PROVE  \/ i \in 1..Len(FrameParts) /\ FrameParts'[i] = FrameParts[i]
                 \/ FrameParts'[i].msg = msg /\ i >= Len(FrameParts') - 1
      <4>1. i \in 1..Len(FrameParts) \/ i \in {Len(FrameParts) + 1, Len(FrameParts) + 2}
        BY <1>2, <1>4
      <4> QED
        BY <4>1, <1>2, <1>4
    <3>5. \A i \in 1..Len(FrameParts) : ~IsFinal(FrameParts[i].msg)
      BY <3>1, <1>1 DEF About
    <3>6. \A i \in 1..Len(FrameParts') : FrameParts'[i].msg.id = x.id /\ FrameParts'[i].msg.op = x.op
      BY <3>1, <3>3, <3>4 DEF About
    <3>7. owed' = owed \/ owed' = << >>
      <4>1. Len(owed) = 1 => Tail(owed) = << >>
        BY <1>3, TailOfOne
      <4> QED
        BY <4>1, <3>2, <1>1
    <3>8. IsFinal(msg) => owed' = << >>
      <4>1. kind \in {"ack", "pending"} => ~IsFinal(msg)
        BY <3>3 DEF IsFinal
      <4>2. Len(owed) = 1 => Tail(owed) = << >>
        BY <1>3, TailOfOne
      <4> QED
        BY <4>1, <4>2, <3>2, <1>1
    <3>9. \A i \in 1..Len(FrameParts') :
            IsFinal(FrameParts'[i].msg) => owed' = << >> /\ i >= Len(FrameParts') - 1
      BY <3>4, <3>5, <3>8
    <3>10. owed' # << >> => Len(owed') = 1 /\ owed'[1].id = x.id /\ owed'[1].op = x.op
      BY <3>2, <3>7
    <3>11. About(x, FrameParts', owed', requests)
      BY <3>2, <3>6, <3>9, <3>10 DEF About
    <3> QED
      BY <3>11 DEF x
  <2>2. ~NoneWaits'
    BY <1>1, <1>2 DEF NoneWaits, Clean, ThreadsSame
  <2> QED
    BY <1>2, <2>1, <2>2 DEF Clean
<1> QED
  BY <1>2, <1>5, <1>6, WaitingKeeps

LEMMA ExchangingKeeps ==
  ASSUME DoipInv, ThreadsSame, NEW t \in Threads, Exchanging(t) \/ Expire(t)
  PROVE  DoipInv'
<1>t. LayerInv
  BY DEF DoipInv
<1>x. /\ answer \in [Threads -> Msg \cup {Nothing}]
      /\ exchange \in [Threads -> Exchange \cup {Nothing}]
  BY <1>t DEF LayerInv, LayerTyped
<1>s. FrameParts \in Seq(FramePart) /\ Len(FrameParts) \in Nat
  BY <1>t, PartsTyped DEF LayerInv
<1>1. CASE ReadStream(t)
  <2>1. /\ LayerInv' /\ FrameParts' = FrameParts /\ owed' = owed /\ requests' = requests
        /\ linked' = linked /\ exchange' = exchange /\ answer' = answer
        /\ ecuRouting' = ecuRouting
    BY <1>1, <1>t, LayerReads
  <2>2. Clean => Clean'
    BY <2>1 DEF Clean, NoneWaits, ThreadsSame, About
  <2> QED
    BY <2>1, <2>2, WaitingKeeps
<1>2. CASE Expire(t)
  <2>1. /\ linked' = linked /\ stream' = stream /\ rxBuffer' = rxBuffer /\ owed' = owed
        /\ ecuRouting' = ecuRouting /\ requests' = requests /\ answer' = answer
        /\ exchange[t] # Nothing /\ exchange' = [exchange EXCEPT ![t].expired = TRUE]
    BY <1>2 DEF Expire
  <2>2. exchange[t] \in Exchange
    BY <1>x, <2>1
  <2>3. /\ exchange'[t] \in Exchange
        /\ exchange'[t].id = exchange[t].id /\ exchange'[t].op = exchange[t].op
        /\ \A u \in Threads \ {t} : exchange'[u] = exchange[u]
    <3>1. exchange'[t] = [exchange[t] EXCEPT !.expired = TRUE]
      BY <2>1, <1>x
    <3>2. \A u \in Threads \ {t} : exchange'[u] = exchange[u]
      BY <2>1, <1>x
    <3> QED
      BY <3>1, <3>2, <2>2 DEF Exchange
  <2>4. exchange' \in [Threads -> Exchange \cup {Nothing}]
    <3>1. exchange' = [u \in Threads |-> exchange'[u]]
      BY <2>1, <1>x
    <3>2. \A u \in Threads : exchange'[u] \in Exchange \cup {Nothing}
      BY <2>3, <1>x
    <3> QED
      BY <3>1, <3>2
  <2>5. LayerInv' /\ FrameParts' = FrameParts
    BY <1>t, <1>x, <2>1, <2>4, LayerSame
  <2>6. exchange'[t] # Nothing
    BY <2>3, DoipNamesAssumption DEF Exchange
  <2>7. Clean => Clean'
    <3>1. ASSUME NEW u \in Threads, exchange'[u] # Nothing, Clean
          PROVE  About(exchange'[u], FrameParts', owed', requests')
      <4>1. exchange[u] # Nothing /\ exchange'[u].id = exchange[u].id /\ exchange'[u].op = exchange[u].op
        BY <2>1, <2>3, <3>1
      <4> QED
        BY <4>1, <2>1, <2>5, <3>1 DEF Clean, About
    <3>2. ~NoneWaits'
      BY <2>6 DEF NoneWaits, Threads
    <3> QED
      BY <3>1, <3>2 DEF Clean
  <2> QED
    BY <2>1, <2>3, <2>5, <2>6, <2>7, WaitingKeeps
<1>3. CASE ReceiveFails(t)
  <2>1. /\ linked' = linked /\ stream' = stream /\ rxBuffer' = rxBuffer /\ owed' = owed
        /\ ecuRouting' = ecuRouting /\ requests' = requests
        /\ exchange[t] # Nothing /\ Ends(t, Nothing)
    BY <1>3 DEF ReceiveFails
  <2>2. /\ answer' \in [Threads -> Msg \cup {Nothing}]
        /\ exchange' \in [Threads -> Exchange \cup {Nothing}]
    BY <2>1, <1>x DEF Ends
  <2>3. LayerInv' /\ FrameParts' = FrameParts
    BY <1>t, <2>1, <2>2, LayerSame
  <2>4. 0 \in {0, 2} /\ 0 + Len(FrameParts') <= Len(FrameParts)
    BY <2>3, <1>s
  <2>5. \A i \in 1..Len(FrameParts') : FrameParts'[i] = FrameParts[0 + i]
    BY <2>3, <1>s
  <2>6. FrameParts' \in Seq(FramePart)
    BY <2>3, <1>s
  <2> QED
    BY <1>s, <2>1, <2>3, <2>4, <2>5, <2>6, EndsKeeps
<1>4. CASE TakeFrame(t)
  <2> DEFINE msg == rxBuffer[1].msg
             x == exchange[t]
  <2>1. /\ rxBuffer' = SubSeq(rxBuffer, 3, Len(rxBuffer)) /\ HasFrame /\ exchange[t] # Nothing
        /\ linked' = linked /\ stream' = stream /\ owed' = owed
        /\ ecuRouting' = ecuRouting /\ requests' = requests
    BY <1>4 DEF TakeFrame
  <2>2. PICK result \in {msg, Nothing} :
          \/ /\ x.op # "routing" /\ Intermediate(x, msg) /\ result = Nothing
             /\ exchange' = exchange /\ answer' = answer
          \/ /\ Ends(t, result)
             /\ result = Nothing \/
                  (Accepted(x, msg) /\ (x.op = "routing" \/ ~Intermediate(x, msg)))
    <3>1. CASE Skip(t, msg)
      BY <3>1 DEF Skip
    <3>2. CASE Conclude(t, msg)
      BY <3>2 DEF Conclude
    <3> QED
      BY <3>1, <3>2, <1>4 DEF TakeFrame
  <2>3. msg \in Msg
    <3>1. rxBuffer \in Seq(FramePart) /\ Len(rxBuffer) >= 2
      BY <1>t, <2>1, PartsTyped DEF LayerInv, HasFrame
    <3>2. rxBuffer[1] \in FramePart
      BY <3>1
    <3> QED
      BY <3>2 DEF FramePart
  <2>4. /\ answer' \in [Threads -> Msg \cup {Nothing}]
        /\ exchange' \in [Threads -> Exchange \cup {Nothing}]
    <3> HIDE DEF msg, x
    <3> QED
      BY <1>x, <2>2, <2>3 DEF Ends
  <2>5. /\ LayerInv' /\ FrameParts' \in Seq(FramePart)
        /\ Len(FrameParts) >= 2 /\ Len(FrameParts') = Len(FrameParts) - 2
        /\ \A i \in 1..Len(FrameParts') : FrameParts'[i] = FrameParts[2 + i]
        /\ rxBuffer[1] = FrameParts[1] /\ FrameParts[1] \in FramePart
    <3> HIDE DEF msg, x
    <3> QED
      BY <1>t, <2>1, <2>4, LayerTakes
  <2>6. 2 \in {0, 2} /\ 2 + Len(FrameParts') <= Len(FrameParts) /\ 1 \in 1..Len(FrameParts)
    BY <2>5, <1>s
  <2>7. CASE x.op # "routing" /\ Intermediate(x, msg) /\ exchange' = exchange /\ answer' = answer
    <3>1. Clean => Clean'
      <4>1. ASSUME NEW u \in Threads, exchange'[u] # Nothing, Clean
            PROVE  About(exchange'[u], FrameParts', owed', requests')
        <5>1. About(exchange[u], FrameParts, owed, requests)
          BY <2>7, <4>1 DEF Clean
        <5>2. About(exchange[u], FrameParts', owed, requests)
          BY <5>1, <1>s, <2>5, <2>6, AboutCut
        <5> QED
          BY <5>2, <2>1, <2>7
      <4>2. ~NoneWaits'
        BY <2>1, <2>7 DEF NoneWaits, Threads
      <4> QED
        BY <4>1, <4>2 DEF Clean
    <3> HIDE DEF msg, x
    <3> QED
      BY <2>1, <2>5, <2>7, <3>1, WaitingKeeps
  <2>8. CASE /\ Ends(t, result)
             /\ result = Nothing \/
                  (Accepted(x, msg) /\ (x.op = "routing" \/ ~Intermediate(x, msg)))
    <3>1. result # Nothing => /\ result = msg /\ Accepted(x, msg)
                              /\ x.op = "routing" \/ ~Intermediate(x, msg)
      BY <2>8, <2>2
    <3>2. result # Nothing /\ exchange[t].op = "routing" /\ linked => ecuRouting
      <4>1. result # Nothing /\ x.op = "routing" => msg.kind = "routingOk"
        BY <3>1 DEF Accepted
      <4>2. msg.kind = "routingOk" /\ linked => ecuRouting
        BY <1>t, <2>5, <2>6 DEF LayerInv
      <4> QED
        BY <4>1, <4>2
    <3>3. ASSUME result # Nothing, About(x, FrameParts, owed, requests)
          PROVE  /\ FrameParts' = << >> /\ owed = << >>
                 /\ result.id = requests /\ (x.op # "routing" => result.kind = "final")
      <4>1. msg.id = x.id /\ msg.op = x.op /\ x.id = requests /\ msg = FrameParts[1].msg
        BY <2>5, <2>6, <3>3 DEF About
      <4>2. x.op = "routing" => msg.kind = "routingOk"
        BY <3>1, <3>3 DEF Accepted
      <4>3. x.op # "routing" => msg.kind = "final"
        BY <3>1, <3>3, <4>1 DEF Accepted, Intermediate
      <4>4. IsFinal(msg)
        BY <4>2, <4>3 DEF IsFinal
      <4>5. owed = << >> /\ 1 >= Len(FrameParts) - 1
        BY <4>1, <4>4, <2>6, <3>3 DEF About
      <4>6. FrameParts' = << >>
        <5>1. Len(FrameParts') = 0
          BY <4>5, <2>5, <1>s
        <5> QED
          BY <5>1, <2>5, EmptySeq
      <4> QED
        BY <4>1, <4>3, <4>5, <4>6, <3>1, <3>3
    <3> HIDE DEF msg
    <3> QED
      BY <1>s, <2>1, <2>5, <2>6, <2>8, <3>2, <3>3, EndsKeeps
  <2> QED
    BY <2>2, <2>7, <2>8
<1> QED
  BY <1>1, <1>2, <1>3, <1>4 DEF Exchanging

LEMMA DoipStep == DoipInv /\ [DoipNext]_doipVars => DoipInv'
<1> SUFFICES ASSUME DoipInv, [DoipNext]_doipVars PROVE DoipInv'
  OBVIOUS
<1>1. CASE BeginStep
  BY <1>1, DoipBeginKeeps
<1>2. CASE EndWorkflow \/ CheckIdle \/ Configure \/ LockIo \/ CloseBegins \/ KeeperWakes
  BY <1>2, DoipEasyKeeps
<1>3. CASE Connect
  BY <1>3, DoipConnectKeeps
<1>4. CASE Route
  BY <1>4, RouteKeeps
<1>5. CASE Routed
  BY <1>5, RoutedKeeps
<1>6. CASE AskBefore \/ Ask
  BY <1>6, AskKeeps
<1>7. CASE Answered
  BY <1>7, AnsweredKeeps
<1>8. CASE CloseEnds
  BY <1>8, CloseEndsKeeps
<1>9. CASE KeeperAsks
  BY <1>9, KeeperAsksKeeps
<1>10. CASE KeeperAnswered
  BY <1>10, KeeperAnsweredKeeps
<1>11. CASE LayerNext /\ UNCHANGED <<sessionVars, keeperVars, doipStepVars, ioMutex, late>>
  <2>1. ThreadsSame
    BY <1>11 DEF ThreadsSame, sessionVars, keeperVars, doipStepVars
  <2> QED
    BY <1>11, <2>1, LinkLostKeeps, VehicleKeeps, ExchangingKeeps DEF LayerNext
<1>12. CASE UNCHANGED doipVars
  <2>1. UNCHANGED layerVars /\ ThreadsSame
    BY <1>12 DEF doipVars, ThreadsSame, sessionVars, keeperVars, doipStepVars
  <2>2. /\ linked' = linked /\ stream' = stream /\ rxBuffer' = rxBuffer /\ owed' = owed
        /\ ecuRouting' = ecuRouting /\ requests' = requests /\ exchange' = exchange
        /\ answer' = answer
    BY <2>1 DEF layerVars
  <2>3. LayerInv' /\ FrameParts' = FrameParts
    BY <2>2, LayerSame DEF DoipInv, LayerInv, LayerTyped
  <2>4. Clean => Clean'
    BY <2>1, <2>2, <2>3 DEF Clean, NoneWaits, ThreadsSame, About
  <2> QED
    BY <2>1, <2>2, <2>3, <2>4, WaitingKeeps
<1> QED
  BY <1>1, <1>2, <1>3, <1>4, <1>5, <1>6, <1>7, <1>8, <1>9, <1>10, <1>11, <1>12
  DEF DoipNext, StepThread, Keeper

LEMMA DoipIsSound == DoipInv => SessionsSound
<1> SUFFICES ASSUME DoipInv PROVE SessionsSound
  OBVIOUS
<1>1. DoipTypeOK /\ AnswersMatch /\ RoutingHonest
  BY DEF DoipInv, PlacesInv, AnswersInv
<1>2. OneExchange
  BY DEF DoipInv, PlacesInv, DoipTypeOK, OneExchange, Asked
<1>3. FramesWhole
  BY DEF DoipInv, LayerInv, FramesWhole, Framed, FrameParts
<1> QED
  BY <1>1, <1>2, <1>3 DEF SessionsSound

\* However the two threads of a session take turns, and however slow the vehicle
\* is or wherever the stream is cut, a step gets the final answer to its own
\* request, on a connection with routing (DoipMasterPlugin.cpp:244, 382, 404-413).
THEOREM SessionsAreSound == DoipSpec => []SessionsSound
<1> QED
  BY DoipInitially, DoipStep, DoipIsSound, PTL DEF DoipSpec
===============================================================================
