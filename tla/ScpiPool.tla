------------------------------- MODULE ScpiPool -------------------------------
(***************************************************************************)
(* The connections of the ScpiStep plugin: steps of several workflows, run *)
(* by several threads of one process, share a pool of connections, one per *)
(* connection key.  A step registers its connection's IO in the            *)
(* ResourceManager under the step's resource id, leases that id, and talks *)
(* to the IO of the lease, or else to its connection's own, while it holds *)
(* the mutex of its connection.  When a workflow ends (postWorkflow) the   *)
(* connections nobody refers to any more are closed.                       *)
(*                                                                         *)
(* A connection is the number of its opening, so that a pointer to one     *)
(* that is gone differs from one to its successor.  Steps are their        *)
(* configuration: the connection key and the resource id.                  *)
(***************************************************************************)
EXTENDS Integers, FiniteSets

CONSTANTS StepThreads,  \* the threads that execute steps
          WorkflowOf,   \* the workflow each thread belongs to
          Configs,      \* step configurations: records of a key and a rid
          NoOne,        \* no thread, no resource id
          MaxOpens,     \* bound: how many connections are opened
          MaxCalls      \* bound: how many steps each thread executes

ASSUME ScpiBoundsAssumption == MaxOpens \in Nat /\ MaxCalls \in Nat

Keys == {c.key : c \in Configs}
Rids == {c.rid : c \in Configs}

ASSUME ScpiNamesAssumption == Configs # {} /\ NoOne \notin StepThreads \cup Rids

Workflows == {WorkflowOf[t] : t \in StepThreads}
Connections == 1..MaxOpens

VARIABLES pool,          \* s_connectionPool: a connection per key, 0 for none
          everOpened,        \* how many connections were opened
          refs,          \* workflows of each connection
          registeredAs,  \* registeredResourceId of each connection
          ioOf,          \* the ResourceManager: whose IO an id stands for, 0 for none
          leaseOf,       \* and which thread has its exclusive lease
          ioLock,        \* which thread holds ioMutex of a connection
          stepCalls,         \* how many steps each thread was given
          stepAt,            \* where each thread is in executeStep
          stepConfig,        \* its step
          stepConn,          \* the connection it got from the pool
          stepIo             \* the connection whose IO it talks to

poolVars == <<pool, everOpened, refs, registeredAs>>
managerVars == <<ioOf, leaseOf>>
threadVars == <<stepCalls, stepAt, stepConfig, stepConn, stepIo>>
scpiVars == <<poolVars, managerVars, ioLock, threadVars>>

ScpiInit ==
  /\ pool = [k \in Keys |-> 0]
  /\ everOpened = 0
  /\ refs = [c \in Connections |-> {}]
  /\ registeredAs = [c \in Connections |-> NoOne]
  /\ ioOf = [r \in Rids |-> 0]
  /\ leaseOf = [r \in Rids |-> NoOne]
  /\ ioLock = [c \in Connections |-> NoOne]
  /\ stepCalls = [t \in StepThreads |-> 0]
  /\ stepAt = [t \in StepThreads |-> "idle"]
  /\ stepConfig \in [StepThreads -> {CHOOSE c \in Configs : TRUE}]
  /\ stepConn = [t \in StepThreads |-> 0]
  /\ stepIo = [t \in StepThreads |-> 0]

Rid(t) == stepConfig[t].rid

StepGoes(t, place) == stepAt' = [stepAt EXCEPT ![t] = place]

Enters(t, c, connection) ==
  /\ stepCalls[t] < MaxCalls
  /\ stepCalls' = [stepCalls EXCEPT ![t] = @ + 1]
  /\ stepConfig' = [stepConfig EXCEPT ![t] = c]
  /\ stepConn' = [stepConn EXCEPT ![t] = connection]
  /\ StepGoes(t, "check")
  /\ UNCHANGED <<managerVars, ioLock, stepIo>>

\* executeStep is called and getOrCreateConnection finds the connection.
ReuseConnection(t) ==
  \E c \in Configs :
    /\ stepAt[t] = "idle" /\ pool[c.key] # 0
    /\ refs' = [refs EXCEPT ![pool[c.key]] = @ \cup {WorkflowOf[t]}]
    /\ UNCHANGED <<pool, everOpened, registeredAs>>
    /\ Enters(t, c, pool[c.key])

\* It opens a new one; if that fails the step fails and nothing is kept.
OpenConnection(t) ==
  \E c \in Configs :
    /\ stepAt[t] = "idle" /\ pool[c.key] = 0 /\ everOpened < MaxOpens
    /\ everOpened' = everOpened + 1
    /\ pool' = [pool EXCEPT ![c.key] = everOpened']
    /\ refs' = [refs EXCEPT ![everOpened'] = {WorkflowOf[t]}]
    /\ UNCHANGED registeredAs
    /\ Enters(t, c, everOpened')

\* resourceState of the id, which may have changed when the step acts on it.
CheckRegistered(t) ==
  /\ stepAt[t] = "check"
  /\ StepGoes(t, IF ioOf[Rid(t)] # 0 THEN "acquire" ELSE "register")
  /\ UNCHANGED <<poolVars, managerVars, ioLock, stepCalls, stepConfig, stepConn, stepIo>>

\* registerIoResource: false if the id is registered by now.  The connection
\* remembers only the last id it was registered under.
RegisterIo(t) ==
  /\ stepAt[t] = "register"
  /\ IF ioOf[Rid(t)] = 0
     THEN /\ ioOf' = [ioOf EXCEPT ![Rid(t)] = stepConn[t]]
          /\ registeredAs' = [registeredAs EXCEPT ![stepConn[t]] = Rid(t)]
          /\ StepGoes(t, "acquire")
          /\ UNCHANGED stepIo
     ELSE /\ stepIo' = [stepIo EXCEPT ![t] = stepConn[t]]
          /\ StepGoes(t, "lock")
          /\ UNCHANGED <<ioOf, registeredAs>>
  /\ UNCHANGED <<pool, everOpened, refs, leaseOf, ioLock, stepCalls, stepConfig, stepConn>>

\* acquire: the lease brings the IO that was registered.
Acquire(t) ==
  /\ stepAt[t] = "acquire" /\ ioOf[Rid(t)] # 0 /\ leaseOf[Rid(t)] = NoOne
  /\ leaseOf' = [leaseOf EXCEPT ![Rid(t)] = t]
  /\ stepIo' = [stepIo EXCEPT ![t] = ioOf[Rid(t)]]
  /\ StepGoes(t, "lock")
  /\ UNCHANGED <<poolVars, ioOf, ioLock, stepCalls, stepConfig, stepConn>>

\* No lease, because the id is gone or leased for longer than the timeout: the
\* step goes on with the IO of its connection.
NoLease(t) ==
  /\ stepAt[t] = "acquire" /\ (ioOf[Rid(t)] = 0 \/ leaseOf[Rid(t)] # NoOne)
  /\ stepIo' = [stepIo EXCEPT ![t] = stepConn[t]]
  /\ StepGoes(t, "lock")
  /\ UNCHANGED <<poolVars, managerVars, ioLock, stepCalls, stepConfig, stepConn>>

LockConnection(t) ==
  /\ stepAt[t] = "lock" /\ ioLock[stepConn[t]] = NoOne
  /\ ioLock' = [ioLock EXCEPT ![stepConn[t]] = t]
  /\ StepGoes(t, "use")
  /\ UNCHANGED <<poolVars, managerVars, stepCalls, stepConfig, stepConn, stepIo>>

\* The commands are sent, with their retries, and executeStep returns: the mutex
\* and the lease are given back.
ReturnFromStep(t) ==
  /\ stepAt[t] = "use"
  /\ ioLock' = [ioLock EXCEPT ![stepConn[t]] = NoOne]
  /\ leaseOf' = [r \in Rids |-> IF leaseOf[r] = t THEN NoOne ELSE leaseOf[r]]
  /\ stepIo' = [stepIo EXCEPT ![t] = 0]
  /\ stepConn' = [stepConn EXCEPT ![t] = 0]
  /\ StepGoes(t, "idle")
  /\ UNCHANGED <<poolVars, ioOf, stepCalls, stepConfig>>

Pooled == {pool[k] : k \in Keys} \ {0}

\* A mutant: the connections of a workflow go, whoever else refers to them.
MutantUnreferenced(w) == {c \in Pooled : w \in refs[c]}

\* The connections no other workflow refers to.
Unreferenced(w) == {c \in Pooled : refs[c] \subseteq {w}}

\* What unregisterResource takes out: the last id of each closed connection, if
\* nobody has its lease.
Unregistered(closed) ==
  {r \in Rids : leaseOf[r] = NoOne /\ \E c \in closed : registeredAs[c] = r}

\* postWorkflow, after the last step of the workflow has returned.
PostWorkflow(w) ==
  LET closed == Unreferenced(w) IN
    /\ \A t \in StepThreads : WorkflowOf[t] = w => stepAt[t] = "idle"
    /\ \A c \in closed : ioLock[c] = NoOne
    /\ refs' = [c \in Connections |-> IF c \in closed THEN {} ELSE refs[c] \ {w}]
    /\ pool' = [k \in Keys |-> IF pool[k] \in closed THEN 0 ELSE pool[k]]
    /\ ioOf' = [r \in Rids |-> IF r \in Unregistered(closed) THEN 0 ELSE ioOf[r]]
    /\ UNCHANGED <<everOpened, registeredAs, leaseOf, ioLock, threadVars>>

ExecuteStep(t) ==
  \/ ReuseConnection(t)
  \/ OpenConnection(t)
  \/ CheckRegistered(t)
  \/ RegisterIo(t)
  \/ Acquire(t)
  \/ NoLease(t)
  \/ LockConnection(t)
  \/ ReturnFromStep(t)

ScpiNext ==
  \/ \E t \in StepThreads : ExecuteStep(t)
  \/ \E w \in Workflows : PostWorkflow(w)

ScpiSpec == ScpiInit /\ [][ScpiNext]_scpiVars

-------------------------------------------------------------------------------

\* Types; a step holds the mutex of its connection exactly while it uses an IO.
ScpiTypeOK ==
  /\ pool \in [Keys -> 0..everOpened] /\ everOpened \in 0..MaxOpens
  /\ refs \in [Connections -> SUBSET Workflows]
  /\ registeredAs \in [Connections -> Rids \cup {NoOne}]
  /\ ioOf \in [Rids -> 0..everOpened]
  /\ leaseOf \in [Rids -> StepThreads \cup {NoOne}]
  /\ ioLock \in [Connections -> StepThreads \cup {NoOne}]
  /\ stepAt \in [StepThreads -> {"idle", "check", "register", "acquire", "lock", "use"}]
  /\ stepCalls \in [StepThreads -> 0..MaxCalls] /\ stepConfig \in [StepThreads -> Configs]
  /\ stepConn \in [StepThreads -> 0..everOpened] /\ stepIo \in [StepThreads -> 0..everOpened]
  /\ \A t \in StepThreads : stepAt[t] = "use" <=> \E c \in Connections : ioLock[c] = t

\* A step names the id it registers its connection under (:172-174); one that names
\* none, or one that no step of another connection names, has an id of its own.
Own(c) == \A d \in Configs : d.rid = c.rid <=> d.key = c.key

\* "Each connection is serialized" (ScpiStepPlugin.cpp:39): two steps are never on one
\* connection at once.  And they do not talk to one IO, whether they have it from a
\* lease, from a lease of the other that timed out, or from the pool, unless the ids
\* of both are shared: where two connections share an id, the lease brings the IO of
\* one to a step that holds the mutex of the other (:179-202).
IoSerialized ==
  \A t, u \in StepThreads :
    t # u /\ stepAt[t] = "use" /\ stepAt[u] = "use" =>
      /\ stepConn[t] # stepConn[u]
      /\ Own(stepConfig[t]) \/ Own(stepConfig[u]) => stepIo[t] # stepIo[u]

\* The end of a workflow (:131-149) never closes the connection of a step of another.
\* And a step whose id is its own talks to the IO of its connection and to no other:
\* none that is closed is left under that id, whatever steps with shared ids do.  (Of
\* a connection that was registered under two ids only the last is taken back, :188.)
IoAlive ==
  /\ \A t \in StepThreads :
       /\ stepConn[t] # 0 => stepConn[t] \in Pooled
       /\ Own(stepConfig[t]) => stepIo[t] \in {0, stepConn[t]}
  /\ \A c \in Configs : Own(c) => ioOf[c.rid] \in {0, pool[c.key]}

\* A connection "is released when its final workflow reference is removed"
\* (:40): one that is in the pool is referred to, and one that a workflow's step
\* uses is referred to by that workflow until it ends.
ReferencesExact ==
  /\ \A c \in Pooled : refs[c] # {}
  /\ \A c \in Connections \ Pooled : refs[c] = {}
  /\ \A t \in StepThreads : stepConn[t] # 0 => WorkflowOf[t] \in refs[stepConn[t]]

\* Connections, their IOs and their references fit together at any time.
ConnectionsSound == ScpiTypeOK /\ IoSerialized /\ IoAlive /\ ReferencesExact

\* A step that waits for a lease or a mutex returns in the end: the two are always
\* taken in that order (:180-202), and a workflow has
\* finitely many steps.
StepsReturn == \A t \in StepThreads : stepAt[t] = "check" ~> stepAt[t] = "idle"
===============================================================================
