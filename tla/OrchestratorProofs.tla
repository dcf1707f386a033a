-------------------------- MODULE OrchestratorProofs --------------------------
(***************************************************************************)
(* The safety of the orchestrator for any number of tasks, cells, retries  *)
(* and resumes, any assignment of locks and priorities, and either         *)
(* setting of --stop-on-failure: first its types and locks; then its       *)
(* bookkeeping, which is the slots and the counters, the attempts, the     *)
(* state file and the exit code; and, from these, that the scheduler       *)
(* implements TaskPool.                                                    *)
(***************************************************************************)
EXTENDS Orchestrator, FiniteSetTheorems, FunctionTheorems, TLAPS

USE DEF memory, control, outside

-------------------------------------------------------------------------------
(* Operators on the task table *)

\* The tasks of any kind are finitely many.
LEMMA TasksFinite ==
  ASSUME NEW S \in SUBSET Tasks
  PROVE  IsFiniteSet(S) /\ Cardinality(S) \in Nat
<1>1. IsFiniteSet(Tasks)
  BY FS_Interval, BoundsAssumption DEF Tasks
<1> QED
  BY <1>1, FS_Subset, FS_CardinalityType

\* A selected task is pending, and none of its locks is held.
LEMMA SelectedRunnable ==
  ASSUME NEW t \in SelectedTasks
  PROVE  /\ t \in Tasks
         /\ task[t].status = "Pending"
         /\ ResourceLocks[t] \cap heldLocks = {}
BY DEF SelectedTasks, Selected, Descriptor, IsRunnable

\* What a failed attempt may do to a table: the task itself ends up pending or
\* failed, pending tasks may be skipped, and nothing else changes.
LEMMA AttemptFailsTable ==
  ASSUME NEW t \in Tasks, NEW table \in [Tasks -> TaskRecord],
         now \in Nat, tasksFailed \in Nat, schedulingHalted \in BOOLEAN,
         AttemptFails(t, table)
  PROVE  /\ task' \in [Tasks -> TaskRecord]
         /\ tasksFailed' \in Nat /\ schedulingHalted' \in BOOLEAN
         /\ \A u \in Tasks : task'[u].attempts = table[u].attempts
         /\ task'[t].status = "Pending" => ShouldRetry(t, table[t].attempts)
         /\ task'[t].status \in {"Pending", "Failed"}
         /\ \A u \in Tasks \ {t} :
              \/ task'[u] = table[u]
              \/ /\ task'[u].status = "Failed" /\ table[u].status = "Pending"
                 /\ schedulingHalted'
<1>1. CASE ShouldRetry(t, table[t].attempts)
  <2>1. /\ task' = [table EXCEPT ![t].status = "Pending",
                                 ![t].nextRun = now + Backoff * table[t].attempts]
        /\ UNCHANGED <<tasksFailed, schedulingHalted>>
    BY <1>1 DEF AttemptFails
  <2>2. now + Backoff * table[t].attempts \in Nat
    BY BoundsAssumption DEF TaskRecord
  <2> QED
    BY <1>1, <2>1, <2>2 DEF TaskRecord, Statuses
<1>2. CASE ~ShouldRetry(t, table[t].attempts)
  <2> DEFINE failed == [table EXCEPT ![t].status = "Failed"]
             halt == StopOnFailure /\ ~schedulingHalted
  <2>1. /\ task' = IF halt THEN SkipPending(failed) ELSE failed
        /\ tasksFailed' = tasksFailed + 1
             + (IF halt THEN Cardinality(WithStatus(failed, "Pending")) ELSE 0)
        /\ schedulingHalted' = (schedulingHalted \/ halt)
    BY <1>2, Zenon DEF AttemptFails, FailForGood
  <2>2. failed \in [Tasks -> TaskRecord]
    BY DEF TaskRecord, Statuses
  <2>3. Cardinality(WithStatus(failed, "Pending")) \in Nat
    BY TasksFinite DEF WithStatus
  <2>4. SkipPending(failed) \in [Tasks -> TaskRecord]
    BY <2>2 DEF SkipPending, TaskRecord, Statuses
  <2>5. tasksFailed' \in Nat
    BY <2>1, <2>3
  <2>6. schedulingHalted' \in BOOLEAN
    BY <2>1, OptionsAssumption
  <2>7. task' \in [Tasks -> TaskRecord]
    BY <2>1, <2>2, <2>4
  <2>8. failed[t].status = "Failed" /\ failed[t].attempts = table[t].attempts
        /\ \A u \in Tasks \ {t} : failed[u] = table[u]
    BY DEF TaskRecord
  <2>9. \A u \in Tasks :
          /\ SkipPending(failed)[u].attempts = failed[u].attempts
          /\ \/ SkipPending(failed)[u] = failed[u]
             \/ /\ failed[u].status = "Pending"
                /\ SkipPending(failed)[u].status = "Failed"
    BY <2>2 DEF SkipPending, TaskRecord
  <2>10. halt => schedulingHalted'
    BY <2>1
  <2>11. task' = failed \/ (task' = SkipPending(failed) /\ schedulingHalted')
    BY <2>1, <2>10
  <2> QED
    BY <2>5, <2>6, <2>7, <2>8, <2>9, <2>11
<1> QED
  BY <1>1, <1>2

-------------------------------------------------------------------------------
(* Types *)

\* A task record of an attempt that begins.
LEMMA BegunType ==
  ASSUME TypeOK, NEW t \in Tasks
  PROVE  Begun(t) \in [Tasks -> TaskRecord]
BY DEF Begun, TypeOK, TaskRecord, Statuses

\* Replacing the state of workers keeps the slots well-typed.
LEMMA SetProcType ==
  ASSUME NEW S \in SUBSET Slot, NEW proc \in WorkerStates
  PROVE  SetProc(S, proc) \in SUBSET Slot
BY DEF SetProc, Slot

\* The scheduler's variables keep their types.
THEOREM Typing == Spec => []TypeOK
<1> USE BoundsAssumption, OptionsAssumption, WorkflowsAssumption
<1>0. NoTasks \in [Tasks -> TaskRecord]
  BY DEF NoTasks, Absent, TaskRecord, Statuses
<1>1. Init => TypeOK
  <2>1. Init => schedulingHalted \in BOOLEAN
    BY DEF Init
  <2> QED
    BY <1>0, <2>1 DEF Init, TypeOK, PcValues
<1>2. TypeOK /\ [Next]_vars => TypeOK'
  <2> SUFFICES ASSUME TypeOK, [Next]_vars PROVE TypeOK'
    OBVIOUS
  <2> USE DEF TypeOK, PcValues
  <2>1. CASE SaveCommits
    BY <2>1 DEF SaveCommits, GoTo
  <2>2. CASE SaveFails
    <3>1. CASE resumeAt = "boot"
      <4>1. schedulingHalted' \in BOOLEAN
        BY <2>2, <3>1, Zenon DEF SaveFails, ProcessGone
      <4> QED
        BY <1>0, <2>2, <3>1, <4>1 DEF SaveFails, ProcessGone
    <3>2. CASE resumeAt # "boot"
      BY <2>2, <3>2 DEF SaveFails, GoTo
    <3> QED
      BY <3>1, <3>2
  <2>3. ASSUME NEW t \in Tasks, StartWorker(t) PROVE TypeOK'
    <3>1. task' \in [Tasks -> TaskRecord]
      BY <2>3, BegunType DEF StartWorker
    <3>2. running' \subseteq Slot
      BY <2>3 DEF StartWorker, Slot, WorkerStates
    <3>3. heldLocks' \subseteq LockNames
      BY <2>3 DEF StartWorker
    <3>4. starts' \in [Tasks -> Nat] /\ nextSlotId' \in Nat
      BY <2>3 DEF StartWorker
    <3>5. /\ pc' \in PcValues /\ resumeAt' \in {"boot", "dispatch", "reap"}
          /\ UNCHANGED <<schedulingHalted, tasksSucceeded, tasksFailed,
                         dispatchNow, cursor, db, exitCode, now, orphans, resumes>>
      BY <2>3 DEF StartWorker, SaveThen
    <3> QED
      BY <3>1, <3>2, <3>3, <3>4, <3>5
  <2>4. ASSUME NEW t \in Tasks, StartFails(t) PROVE TypeOK'
    <3>1. /\ task' \in [Tasks -> TaskRecord] /\ tasksFailed' \in Nat
          /\ schedulingHalted' \in BOOLEAN
      BY <2>4, BegunType, AttemptFailsTable DEF StartFails
    <3> QED
      BY <2>4, <3>1 DEF StartFails, SaveThen
  <2>5. CASE DispatchDone
    BY <2>5 DEF DispatchDone, AfterDispatch
  <2>6. CASE HealthSkip
    BY <2>6 DEF HealthSkip
  <2>7. CASE HealthKill
    <3>1. running' \subseteq Slot
      BY <2>7, SetProcType DEF HealthKill, WorkerStates
    <3> QED
      BY <2>7, <3>1 DEF HealthKill
  <2>8. ASSUME NEW r \in running, ReapSkips(r) PROVE TypeOK'
    BY <2>8 DEF ReapSkips, Slot
  <2>9. ASSUME NEW r \in running, ReapSucceeded(r) PROVE TypeOK'
    <3>1. r.task \in Tasks /\ r.slot \in Nat
      BY DEF Slot
    <3>2. task' \in [Tasks -> TaskRecord]
      BY <2>9, <3>1 DEF ReapSucceeded, TaskRecord, Statuses
    <3> QED
      BY <2>9, <3>1, <3>2 DEF ReapSucceeded, ReleaseSlot, SaveThen
  <2>10. ASSUME NEW r \in running, ReapFailed(r) PROVE TypeOK'
    <3>1. r.task \in Tasks /\ r.slot \in Nat
      BY DEF Slot
    <3>2. /\ task' \in [Tasks -> TaskRecord] /\ tasksFailed' \in Nat
          /\ schedulingHalted' \in BOOLEAN
      BY <2>10, <3>1, AttemptFailsTable DEF ReapFailed
    <3> QED
      BY <2>10, <3>1, <3>2 DEF ReapFailed, ReleaseSlot, SaveThen
  <2>11. CASE ReapDone
    BY <2>11 DEF ReapDone, AfterDispatch
  <2>12. CASE Finish
    BY <1>0, <2>12 DEF Finish, ProcessGone
  <2>13. ASSUME NEW r \in running, NEW proc \in WorkerStates,
                WorkerOverdue(r) \/ WorkerExits(r, proc)
         PROVE TypeOK'
    <3>1. running' \subseteq Slot
      BY <2>13, SetProcType DEF WorkerOverdue, WorkerExits, ReplaceProc, WorkerStates
    <3> QED
      BY <2>13, <3>1 DEF WorkerOverdue, WorkerExits
  <2>14. CASE Tick
    BY <2>14 DEF Tick
  <2>15. CASE Crash
    <3>1. orphans' \subseteq Tasks
      BY <2>15 DEF Crash, Slot
    <3> QED
      BY <1>0, <2>15, <3>1 DEF Crash, ProcessGone
  <2>16. ASSUME NEW t \in Tasks, OrphanExits(t) PROVE TypeOK'
    BY <2>16 DEF OrphanExits
  <2>17. ASSUME NEW n \in Tasks, StartFresh(n) PROVE TypeOK'
    <3>1. task' \in [Tasks -> TaskRecord]
      BY <2>17 DEF StartFresh, Fresh, Absent, TaskRecord, Statuses
    <3> QED
      BY <2>17, <3>1 DEF StartFresh, BootMemory, SaveThen
  <2>18. ASSUME NEW n \in Tasks, Resume(n) PROVE TypeOK'
    <3>1. \A t \in Tasks : Resumed(t, db[t]) \in TaskRecord
      BY DEF Resumed, TaskRecord, Statuses
    <3>2. task' \in [Tasks -> TaskRecord]
      BY <2>18, <3>1 DEF Resume, Fresh, Absent, TaskRecord, Statuses
    <3>3. tasksSucceeded' \in Nat /\ tasksFailed' \in Nat
      BY <2>18, TasksFinite DEF Resume, WithStatus
    <3>4. schedulingHalted' \in BOOLEAN
      BY <2>18, Zenon DEF Resume, BootMemory
    <3> QED
      BY <2>18, <3>2, <3>3, <3>4 DEF Resume, BootMemory, SaveThen
  <2>19. CASE Stopped \/ UNCHANGED vars
    BY <2>19 DEF Stopped, vars
  <2> QED
    BY <2>1, <2>2, <2>3, <2>4, <2>5, <2>6, <2>7, <2>8, <2>9, <2>10, <2>11,
       <2>12, <2>13, <2>14, <2>15, <2>16, <2>17, <2>18, <2>19
    DEF Next, Scheduler, Save, Dispatch, Reap, Environment, User, WorkerStates
<1> QED
  BY <1>1, <1>2, PTL DEF Spec

-------------------------------------------------------------------------------
(* Locks and slots *)

\* The inductive strengthening of lock exclusion: heldLocks is what the running
\* tasks hold, and a task that can be started holds no slot yet.
LocksInv == OneSlotPerTask /\ SlotsAreRunning /\ HeldLocksExact /\ LockExclusion

\* Steps that neither fill nor free a slot nor start a task.
LEMMA SlotsKept ==
  ASSUME LocksInv, UNCHANGED <<running, heldLocks>>,
         \A t \in Tasks : task'[t].status = "Running" <=> task[t].status = "Running"
  PROVE  LocksInv'
BY DEF LocksInv, OneSlotPerTask, SlotsAreRunning, HeldLocksExact, LockExclusion

\* Steps that only change the state of workers.
LEMMA WorkersKept ==
  ASSUME TypeOK, LocksInv, UNCHANGED <<task, heldLocks>>,
         NEW S \in SUBSET running, NEW proc \in WorkerStates,
         running' = (running \ S) \cup SetProc(S, proc)
  PROVE  LocksInv'
<1>1. ASSUME NEW r \in running'
      PROVE  \E q \in running : r.task = q.task
  BY DEF SetProc
<1>2. ASSUME NEW q \in running PROVE \E r \in running' : r.task = q.task
  <2>1. CASE q \in S
    <3>1. [slot |-> q.slot, task |-> q.task, proc |-> proc] \in running'
      BY <2>1 DEF SetProc
    <3> QED
      BY <3>1
  <2> QED
    BY <2>1
<1>3. OneSlotPerTask'
  <2> SUFFICES ASSUME NEW r \in running', NEW q \in running', r.task = q.task
               PROVE  r = q
    BY DEF OneSlotPerTask
  <2> QED
    BY DEF LocksInv, OneSlotPerTask, SetProc, TypeOK, Slot
<1>4. SlotsAreRunning'
  BY <1>1, <1>2 DEF LocksInv, SlotsAreRunning
<1>5. HeldLocksExact'
  BY <1>1, <1>2 DEF LocksInv, HeldLocksExact
<1>6. LockExclusion'
  <2> SUFFICES ASSUME NEW r \in running', NEW q \in running', r # q
               PROVE  ResourceLocks[r.task] \cap ResourceLocks[q.task] = {}
    BY DEF LockExclusion
  <2>1. PICK r0 \in running, q0 \in running : r0.task = r.task /\ q0.task = q.task
    BY <1>1
  <2>2. r0 # q0
    BY <1>3, <2>1 DEF LocksInv, OneSlotPerTask
  <2> QED
    BY <2>1, <2>2 DEF LocksInv, LockExclusion
<1> QED
  BY <1>3, <1>4, <1>5, <1>6 DEF LocksInv

\* A worker starts on a task that is pending and whose locks are free.
LEMMA SlotFilled ==
  ASSUME TypeOK, LocksInv, NEW t \in Tasks, StartWorker(t)
  PROVE  LocksInv'
<1> DEFINE new == [slot |-> nextSlotId, task |-> t, proc |-> "running"]
<1>1. /\ running' = running \cup {new}
      /\ heldLocks' = heldLocks \cup ResourceLocks[t]
      /\ task[t].status = "Pending" /\ ResourceLocks[t] \cap heldLocks = {}
      /\ \A u \in Tasks : task'[u].status =
                            IF u = t THEN "Running" ELSE task[u].status
  BY SelectedRunnable DEF StartWorker, Begun, TypeOK
<1>2. new.task = t
  OBVIOUS
<1>3. \A r \in running : r.task # t /\ ResourceLocks[r.task] \cap ResourceLocks[t] = {}
  BY <1>1 DEF LocksInv, SlotsAreRunning, HeldLocksExact
<1> HIDE DEF new
<1>4. OneSlotPerTask'
  BY <1>1, <1>2, <1>3 DEF LocksInv, OneSlotPerTask
<1>5. SlotsAreRunning'
  BY <1>1, <1>2 DEF LocksInv, SlotsAreRunning
<1>6. HeldLocksExact'
  BY <1>1, <1>2 DEF LocksInv, HeldLocksExact
<1>7. LockExclusion'
  BY <1>1, <1>2, <1>3 DEF LocksInv, LockExclusion
<1> QED
  BY <1>4, <1>5, <1>6, <1>7 DEF LocksInv

\* A finished worker's slot is freed, its task is no longer running.
LEMMA SlotFreed ==
  ASSUME TypeOK, LocksInv, NEW r \in running, ReleaseSlot(r),
         task'[r.task].status # "Running",
         \A u \in Tasks \ {r.task} :
           task'[u].status = "Running" <=> task[u].status = "Running"
  PROVE  LocksInv'
<1>1. /\ running' = running \ {r}
      /\ heldLocks' = heldLocks \ ResourceLocks[r.task]
      /\ r.task \in Tasks
  BY DEF ReleaseSlot, TypeOK, Slot
<1>2. \A q \in running' :
        q.task # r.task /\ ResourceLocks[q.task] \cap ResourceLocks[r.task] = {}
  BY <1>1 DEF LocksInv, OneSlotPerTask, LockExclusion
<1>3. OneSlotPerTask' /\ LockExclusion'
  BY <1>1 DEF LocksInv, OneSlotPerTask, LockExclusion
<1>4. SlotsAreRunning'
  BY <1>1, <1>2 DEF LocksInv, SlotsAreRunning
<1>5. HeldLocksExact'
  BY <1>1, <1>2 DEF LocksInv, HeldLocksExact
<1> QED
  BY <1>3, <1>4, <1>5 DEF LocksInv

\* Nothing runs before the first and after the last step of a process.
LEMMA NoSlots ==
  ASSUME running' = {}, heldLocks' = {},
         \A t \in Tasks : task'[t].status # "Running"
  PROVE  LocksInv'
BY DEF LocksInv, OneSlotPerTask, SlotsAreRunning, HeldLocksExact, LockExclusion

LEMMA NoTasksNotRunning == \A t \in Tasks : NoTasks[t].status # "Running"
BY DEF NoTasks, Absent

\* heldLocks always is what the tasks in a slot hold, and tasks that share a
\* lock never run together (main.cpp:835-1089).
THEOREM LocksInvariant == Spec => []LocksInv
<1>1. Init => LocksInv
  BY NoTasksNotRunning
  DEF Init, LocksInv, OneSlotPerTask, SlotsAreRunning, HeldLocksExact, LockExclusion
<1>2. TypeOK /\ LocksInv /\ [Next]_vars => LocksInv'
  <2> SUFFICES ASSUME TypeOK, LocksInv, [Next]_vars PROVE LocksInv'
    OBVIOUS
  <2>1. CASE SaveCommits
    BY <2>1, SlotsKept DEF SaveCommits
  <2>2. CASE SaveFails
    <3>1. CASE ProcessGone
      BY <3>1, NoSlots, NoTasksNotRunning DEF ProcessGone
    <3>2. CASE UNCHANGED memory
      BY <3>2, SlotsKept
    <3> QED
      BY <2>2, <3>1, <3>2 DEF SaveFails
  <2>3. ASSUME NEW t \in Tasks, StartWorker(t) PROVE LocksInv'
    BY <2>3, SlotFilled
  <2>4. ASSUME NEW t \in Tasks, StartFails(t) PROVE LocksInv'
    <3>1. task[t].status = "Pending"
      BY <2>4, SelectedRunnable DEF StartFails
    <3>2. \A u \in Tasks \ {t} : Begun(t)[u] = task[u]
      BY DEF Begun, TypeOK
    <3>3. /\ task'[t].status \in {"Pending", "Failed"}
          /\ \A u \in Tasks \ {t} :
               \/ task'[u] = task[u]
               \/ task'[u].status = "Failed" /\ task[u].status = "Pending"
      BY <2>4, <3>2, BegunType, AttemptFailsTable DEF StartFails, TypeOK
    <3>4. \A u \in Tasks : task'[u].status = "Running" <=> task[u].status = "Running"
      BY <3>1, <3>3
    <3> QED
      BY <2>4, <3>4, SlotsKept DEF StartFails
  <2>5. CASE DispatchDone
    BY <2>5, SlotsKept DEF DispatchDone
  <2>6. CASE HealthSkip
    BY <2>6, SlotsKept DEF HealthSkip
  <2>7. CASE HealthKill
    <3> DEFINE S == {r \in running : r.proc = "overdue"}
    <3>1. running' = (running \ S) \cup SetProc(S, "failed")
      BY <2>7 DEF HealthKill
    <3> HIDE DEF S
    <3>2. S \in SUBSET running
      BY DEF S
    <3> QED
      BY <2>7, <3>1, <3>2, WorkersKept DEF HealthKill, WorkerStates
  <2>8. ASSUME NEW r \in running, ReapSkips(r) PROVE LocksInv'
    BY <2>8, SlotsKept DEF ReapSkips
  <2>9. ASSUME NEW r \in running, ReapSucceeded(r) PROVE LocksInv'
    <3>1. r.task \in Tasks
      BY DEF TypeOK, Slot
    <3>2. \A u \in Tasks : task'[u].status =
                            IF u = r.task THEN "Succeeded" ELSE task[u].status
      BY <2>9, <3>1 DEF ReapSucceeded, TypeOK
    <3> QED
      BY <2>9, <3>1, <3>2, SlotFreed DEF ReapSucceeded
  <2>10. ASSUME NEW r \in running, ReapFailed(r) PROVE LocksInv'
    <3>1. r.task \in Tasks
      BY DEF TypeOK, Slot
    <3>2. /\ task'[r.task].status \in {"Pending", "Failed"}
          /\ \A u \in Tasks \ {r.task} :
               \/ task'[u] = task[u]
               \/ task'[u].status = "Failed" /\ task[u].status = "Pending"
      BY <2>10, <3>1, AttemptFailsTable DEF ReapFailed, TypeOK
    <3>3. \A u \in Tasks \ {r.task} :
            task'[u].status = "Running" <=> task[u].status = "Running"
      BY <3>2
    <3> QED
      BY <2>10, <3>2, <3>3, SlotFreed DEF ReapFailed
  <2>11. CASE ReapDone
    BY <2>11, SlotsKept DEF ReapDone
  <2>12. CASE Finish
    BY <2>12, NoSlots, NoTasksNotRunning DEF Finish, ProcessGone
  <2>13. ASSUME NEW r \in running, NEW proc \in {"ok", "failed"},
                WorkerOverdue(r) \/ WorkerExits(r, proc)
         PROVE LocksInv'
    <3>1. PICK p \in WorkerStates : running' = (running \ {r}) \cup SetProc({r}, p)
      BY <2>13 DEF WorkerOverdue, WorkerExits, ReplaceProc, WorkerStates
    <3> QED
      BY <2>13, <3>1, WorkersKept DEF WorkerOverdue, WorkerExits
  <2>14. CASE Tick
    BY <2>14, SlotsKept DEF Tick
  <2>15. CASE Crash
    BY <2>15, NoSlots, NoTasksNotRunning DEF Crash, ProcessGone
  <2>16. ASSUME NEW t \in Tasks, OrphanExits(t) PROVE LocksInv'
    BY <2>16, SlotsKept DEF OrphanExits
  <2>17. ASSUME NEW n \in Tasks, StartFresh(n) PROVE LocksInv'
    <3>1. \A t \in Tasks : task'[t].status # "Running"
      BY <2>17 DEF StartFresh, Fresh, Absent
    <3> QED
      BY <2>17, <3>1, NoSlots DEF StartFresh, BootMemory
  <2>18. ASSUME NEW n \in Tasks, Resume(n) PROVE LocksInv'
    <3>1. \A t \in Tasks : Resumed(t, db[t]).status # "Running"
      BY DEF Resumed, Decided, TypeOK, TaskRecord
    <3>2. \A t \in Tasks : task'[t].status # "Running"
      BY <2>18, <3>1 DEF Resume, Fresh, Absent
    <3> QED
      BY <2>18, <3>2, NoSlots DEF Resume, BootMemory
  <2>19. CASE Stopped \/ UNCHANGED vars
    BY <2>19, SlotsKept DEF Stopped, vars
  <2> QED
    BY <2>1, <2>2, <2>3, <2>4, <2>5, <2>6, <2>7, <2>8, <2>9, <2>10, <2>11,
       <2>12, <2>13, <2>14, <2>15, <2>16, <2>17, <2>18, <2>19
    DEF Next, Scheduler, Save, Dispatch, Reap, Environment, User
<1> QED
  BY <1>1, <1>2, Typing, PTL DEF Spec

\* Two tasks that name the same lock never run at the same time, no lock leaks and
\* none is given up early (main.cpp:853-947, 1066).
THEOREM LocksAreSound == Spec => []LocksSound
<1>1. LocksInv => LocksSound
  BY DEF LocksInv, LocksSound
<1> QED
  BY <1>1, LocksInvariant, PTL

-------------------------------------------------------------------------------
(* What a step does to the tasks and to what is kept of them *)

Settled == {"dispatch", "health", "reap", "finish"}

\* No task changes, nor anything kept of one.
QuietStep ==
  /\ UNCHANGED <<task, tasksSucceeded, tasksFailed, db, exitCode, resumes, starts>>
  /\ pc' = "down" <=> pc = "down"
  /\ pc' = "finish" /\ pc # "finish" => ~HasPendingWork
  /\ ~SaveMayFail /\ pc' # pc => pc \in Settled /\ pc' \in Settled

BeginStep(t) ==
  /\ pc = "dispatch" /\ pc' = "save"
  /\ task[t].status = "Pending" /\ ResourceLocks[t] \cap heldLocks = {}
  /\ Cardinality(running) < CellCount
  /\ task' = Begun(t)
  /\ starts' = [starts EXCEPT ![t] = @ + 1]
  /\ UNCHANGED <<tasksSucceeded, tasksFailed, db, exitCode, resumes>>

SucceedStep(t) ==
  /\ pc = "reap" /\ pc' = "save"
  /\ task[t].status = "Running"
  /\ task' = [task EXCEPT ![t].status = "Succeeded"]
  /\ tasksSucceeded' = tasksSucceeded + 1
  /\ UNCHANGED <<tasksFailed, db, exitCode, resumes, starts>>

FailStep(t) ==
  /\ pc \in {"dispatch", "reap"} /\ pc' = "save"
  /\ \/ pc = "dispatch" /\ task[t].status = "Pending" /\ AttemptFails(t, Begun(t))
     \/ task[t].status = "Running" /\ AttemptFails(t, task)
  /\ UNCHANGED <<tasksSucceeded, db, exitCode, resumes, starts>>

EndStep ==
  /\ pc # "down" /\ ProcessGone
  /\ \/ db' = db /\ exitCode' \notin {"0", "12"}
     \/ /\ pc = "finish" /\ db' = task
        /\ exitCode' = IF tasksFailed = 0 THEN "0" ELSE "12"
  /\ UNCHANGED <<resumes, starts>>

-------------------------------------------------------------------------------
(* The invariant *)

\* The counters are those of the statuses, and no more tasks run than there are
\* cells; without a process there is no task in memory.
CountInv ==
  /\ CountersAgree
  /\ Cardinality(WithStatus(task, "Running")) <= CellCount
  /\ pc = "down" => task = NoTasks

\* Attempts, in memory and on disk; a task that waits has one to spare.
AttemptsInv ==
  \A t \in Tasks :
    /\ task[t].attempts <= MaxRetries[t] + 1 + resumes
    /\ task[t].status = "Pending" => task[t].attempts <= MaxRetries[t] + resumes
    /\ db[t].attempts <= MaxRetries[t] + 1 + resumes

\* Workers started, when no save fails: every process but the last may have
\* started one that the state file does not count.
StartsInv ==
  ~SaveMayFail =>
    \A t \in Tasks :
      /\ starts[t] <= MaxRetries[t] + 1 + resumes
      /\ starts[t] <= db[t].attempts + resumes + 1
      /\ db[t].status = "Absent" => starts[t] = 0
      /\ pc # "down" =>
           /\ starts[t] <= task[t].attempts + resumes
           /\ task[t].status = "Absent" => starts[t] = 0
           /\ task[t].status = "Pending" => starts[t] <= MaxRetries[t] + resumes

\* The exit code is that of the last process, which ended with nothing to do.
ExitInv ==
  /\ exitCode \in {"0", "12"} => pc = "down"
  /\ pc = "finish" => ~HasPendingWork
  /\ ExitCodeTruthful

\* A process leaves the tasks alone that were decided when it began.
RecordInv == pc # "down" => \A t \in Tasks : Decided(t, db[t]) => task[t] = db[t]

BooksInv == CountInv /\ AttemptsInv /\ StartsInv /\ StateFileCurrent /\ ExitInv /\ RecordInv

-------------------------------------------------------------------------------
(* Every step is of one of these kinds *)

\* Steps of the workers, the clock and the health check.
LEMMA QuietKinds ==
  ASSUME TypeOK, 
         UNCHANGED <<task, tasksSucceeded, tasksFailed, db, exitCode, resumes, starts>>,
         \/ UNCHANGED pc
         \/ DispatchDone \/ HealthSkip \/ HealthKill \/ ReapDone
         \/ SaveFails /\ resumeAt # "boot"
  PROVE  QuietStep
<1> USE DEF QuietStep, Settled
<1>1. CASE UNCHANGED pc
  BY <1>1
<1>2. CASE DispatchDone
  BY <1>2 DEF DispatchDone, AfterDispatch, LoopAgain
<1>3. CASE HealthSkip \/ HealthKill
  BY <1>3 DEF HealthSkip, HealthKill
<1>4. CASE ReapDone
  BY <1>4 DEF ReapDone, AfterDispatch, LoopAgain
<1>5. CASE SaveFails /\ resumeAt # "boot"
  BY <1>5 DEF SaveFails, GoTo, ProcessGone, TypeOK
<1> QED
  BY <1>1, <1>2, <1>3, <1>4, <1>5

\* The steps that start, end or skip an attempt, and all others.
LEMMA StepKinds ==
  ASSUME TypeOK, LocksInv, [Next]_vars
  PROVE  \/ QuietStep \/ SaveCommits \/ EndStep
         \/ \E t \in Tasks : \/ BeginStep(t) \/ SucceedStep(t) \/ FailStep(t)
                             \/ StartFresh(t) \/ Resume(t)
<1>1. CASE SaveFails
  <2>1. CASE resumeAt = "boot"
    BY <1>1, <2>1 DEF SaveFails, EndStep
  <2>2. CASE resumeAt # "boot"
    BY <1>1, <2>2, QuietKinds DEF SaveFails
  <2> QED
    BY <2>1, <2>2
<1>2. ASSUME NEW t \in Tasks, StartWorker(t) PROVE BeginStep(t)
  BY <1>2, SelectedRunnable DEF StartWorker, MayStart, SaveThen, BeginStep
<1>3. ASSUME NEW t \in Tasks, StartFails(t) PROVE FailStep(t)
  BY <1>3, SelectedRunnable DEF StartFails, MayStart, SaveThen, FailStep
<1>4. CASE DispatchDone \/ HealthSkip \/ HealthKill \/ ReapDone
  BY <1>4, QuietKinds DEF DispatchDone, HealthSkip, HealthKill, ReapDone
<1>5. ASSUME NEW r \in running
      PROVE  r.task \in Tasks /\ task[r.task].status = "Running"
  BY DEF TypeOK, Slot, LocksInv, SlotsAreRunning
<1>6. ASSUME NEW r \in running, ReapSkips(r) PROVE QuietStep
  BY <1>6, QuietKinds DEF ReapSkips
<1>7. ASSUME NEW r \in running, ReapSucceeded(r) PROVE SucceedStep(r.task)
  BY <1>5, <1>7 DEF ReapSucceeded, SaveThen, SucceedStep
<1>8. ASSUME NEW r \in running, ReapFailed(r) PROVE FailStep(r.task)
  BY <1>5, <1>8 DEF ReapFailed, SaveThen, FailStep
<1>9. CASE Finish
  BY <1>9 DEF Finish, EndStep
<1>10. ASSUME NEW r \in running, NEW proc \in {"ok", "failed"},
              WorkerOverdue(r) \/ WorkerExits(r, proc)
       PROVE  QuietStep
  BY <1>10, QuietKinds DEF WorkerOverdue, WorkerExits
<1>11. CASE Tick \/ \E t \in Tasks : OrphanExits(t)
  BY <1>11, QuietKinds DEF Tick, OrphanExits
<1>12. CASE Crash
  BY <1>12 DEF Crash, EndStep
<1>13. CASE Stopped \/ UNCHANGED vars
  BY <1>13, QuietKinds DEF Stopped, vars
<1> QED
  BY <1>1, <1>2, <1>3, <1>4, <1>5, <1>6, <1>7, <1>8, <1>9, <1>10, <1>11, <1>12, <1>13
  DEF Next, Scheduler, Save, Dispatch, Reap, Environment, User

-------------------------------------------------------------------------------
(* Counting *)

\* As many slots as running tasks.
LEMMA SlotCount ==
  ASSUME TypeOK, LocksInv
  PROVE  Cardinality(running) = Cardinality(WithStatus(task, "Running"))
<1> DEFINE busy == WithStatus(task, "Running")
           slotOf == [t \in busy |-> CHOOSE r \in running : r.task = t]
<1>1. \A t \in busy : slotOf[t] \in running /\ slotOf[t].task = t
  BY DEF LocksInv, SlotsAreRunning, WithStatus
<1>2. \A r \in running : r.task \in busy
  BY DEF LocksInv, SlotsAreRunning, WithStatus, TypeOK, Slot
<1>3. \A r \in running : slotOf[r.task] = r
  BY <1>1, <1>2 DEF LocksInv, OneSlotPerTask
<1> HIDE DEF slotOf
<1>4. slotOf \in [busy -> running]
  BY <1>1 DEF slotOf
<1>5. \A t, u \in busy : slotOf[t] = slotOf[u] => t = u
  BY <1>1
<1>6. ExistsBijection(busy, running)
  BY <1>2, <1>3, <1>4, <1>5, Fun_IsBij DEF ExistsBijection
<1>7. IsFiniteSet(busy)
  BY TasksFinite DEF WithStatus
<1> QED
  BY <1>6, <1>7, FS_Bijection

\* One task changes its status.
LEMMA CountMoves ==
  ASSUME NEW a, NEW b, NEW t \in Tasks, NEW s,
         \A u \in Tasks \ {t} : b[u].status = a[u].status
  PROVE  Cardinality(WithStatus(b, s)) =
           Cardinality(WithStatus(a, s)) + (IF b[t].status = s THEN 1 ELSE 0)
                                         - (IF a[t].status = s THEN 1 ELSE 0)
<1> DEFINE rest == WithStatus(a, s) \ {t}
<1>1. IsFiniteSet(rest) /\ Cardinality(rest) \in Nat /\ t \notin rest
  BY TasksFinite DEF WithStatus
<1>2. WithStatus(a, s) = (IF a[t].status = s THEN rest \cup {t} ELSE rest)
  BY DEF WithStatus
<1>3. WithStatus(b, s) = (IF b[t].status = s THEN rest \cup {t} ELSE rest)
  BY DEF WithStatus
<1> HIDE DEF rest
<1>4. Cardinality(rest \cup {t}) = Cardinality(rest) + 1
  BY <1>1, FS_AddElement
<1> QED
  BY <1>1, <1>2, <1>3, <1>4

\* Skipping makes the pending tasks failed ones.
LEMMA CountSkips ==
  ASSUME NEW table \in [Tasks -> TaskRecord]
  PROVE  /\ Cardinality(WithStatus(SkipPending(table), "Failed")) =
              Cardinality(WithStatus(table, "Failed"))
                + Cardinality(WithStatus(table, "Pending"))
         /\ \A s \in {"Running", "Succeeded"} :
              WithStatus(SkipPending(table), s) = WithStatus(table, s)
<1> DEFINE failed == WithStatus(table, "Failed")
           pending == WithStatus(table, "Pending")
<1>1. \A t \in Tasks : SkipPending(table)[t].status =
                         IF table[t].status = "Pending" THEN "Failed" ELSE table[t].status
  BY DEF SkipPending, TaskRecord
<1>2. /\ WithStatus(SkipPending(table), "Failed") = failed \cup pending
      /\ failed \cap pending = {}
  BY <1>1 DEF WithStatus
<1>3. \A s \in {"Running", "Succeeded"} :
        WithStatus(SkipPending(table), s) = WithStatus(table, s)
  BY <1>1 DEF WithStatus
<1>4. /\ IsFiniteSet(failed) /\ Cardinality(failed) \in Nat
      /\ IsFiniteSet(pending) /\ Cardinality(pending) \in Nat
  BY TasksFinite DEF WithStatus
<1>5. Cardinality(failed \cup pending) = Cardinality(failed) + Cardinality(pending)
  <2> HIDE DEF failed, pending
  <2> QED
    BY <1>2, <1>4, FS_Union, FS_EmptySet
<1> QED
  BY <1>2, <1>3, <1>5

\* A failed attempt, for good or not: what it does to the counts.
LEMMA FailureCounts ==
  ASSUME TypeOK, NEW t \in Tasks, NEW table \in [Tasks -> TaskRecord],
         task[t].status \in {"Pending", "Running"},
         \A u \in Tasks \ {t} : table[u] = task[u],
         AttemptFails(t, table)
  PROVE  /\ Cardinality(WithStatus(task', "Failed")) - Cardinality(WithStatus(task, "Failed"))
              = tasksFailed' - tasksFailed
         /\ Cardinality(WithStatus(task', "Succeeded")) = Cardinality(WithStatus(task, "Succeeded"))
         /\ Cardinality(WithStatus(task', "Running")) <= Cardinality(WithStatus(task, "Running"))
<1> DEFINE count(a, s) == Cardinality(WithStatus(a, s))
<1>0. \A a : \A s : count(a, s) \in Nat
  BY TasksFinite DEF WithStatus
<1>1. CASE ShouldRetry(t, table[t].attempts)
  <2>1. /\ task' = [table EXCEPT ![t].status = "Pending",
                                 ![t].nextRun = now + Backoff * table[t].attempts]
        /\ tasksFailed' = tasksFailed
    BY <1>1 DEF AttemptFails
  <2>2. \A u \in Tasks : task'[u].status = IF u = t THEN "Pending" ELSE task[u].status
    BY <2>1 DEF TaskRecord
  <2>3. \A s : count(task', s) = count(task, s) + (IF task'[t].status = s THEN 1 ELSE 0)
                                                - (IF task[t].status = s THEN 1 ELSE 0)
    BY <2>2, CountMoves
  <2>4. tasksFailed \in Nat
    BY DEF TypeOK
  <2> HIDE DEF count
  <2>5. \A s : count(task, s) \in Nat
    BY <1>0
  <2>6. task'[t].status = "Pending"
    BY <2>2
  <2>7. /\ count(task', "Failed") = count(task, "Failed")
        /\ count(task', "Succeeded") = count(task, "Succeeded")
        /\ count(task', "Running") <= count(task, "Running")
    BY <2>3, <2>5, <2>6
  <2>8. count(task', "Failed") - count(task, "Failed") = tasksFailed' - tasksFailed
    BY <2>1, <2>4, <2>5, <2>7
  <2> QED
    BY <2>7, <2>8 DEF count
<1>2. CASE ~ShouldRetry(t, table[t].attempts)
  <2> DEFINE failed == [table EXCEPT ![t].status = "Failed"]
             halt == StopOnFailure /\ ~schedulingHalted
  <2>1. /\ task' = IF halt THEN SkipPending(failed) ELSE failed
        /\ tasksFailed' = tasksFailed + 1 + (IF halt THEN count(failed, "Pending") ELSE 0)
    BY <1>2, Zenon DEF AttemptFails, FailForGood
  <2>2. failed \in [Tasks -> TaskRecord]
    BY DEF TaskRecord, Statuses
  <2>3. \A u \in Tasks : failed[u].status = IF u = t THEN "Failed" ELSE task[u].status
    BY DEF TaskRecord
  <2> HIDE DEF failed
  <2>4. \A s : count(failed, s) = count(task, s) + (IF failed[t].status = s THEN 1 ELSE 0)
                                                 - (IF task[t].status = s THEN 1 ELSE 0)
    BY <2>3, CountMoves
  <2>5. /\ count(SkipPending(failed), "Failed") = count(failed, "Failed") + count(failed, "Pending")
        /\ \A s \in {"Running", "Succeeded"} : count(SkipPending(failed), s) = count(failed, s)
    BY <2>2, CountSkips
  <2>6. tasksFailed \in Nat
    BY DEF TypeOK
  <2> HIDE DEF count, halt
  <2>7. /\ count(failed, "Failed") = count(task, "Failed") + 1
        /\ count(failed, "Succeeded") = count(task, "Succeeded")
        /\ count(failed, "Running") <= count(task, "Running")
    BY <1>0, <2>3, <2>4
  <2>8. /\ count(task', "Failed") - count(task, "Failed") = tasksFailed' - tasksFailed
        /\ count(task', "Succeeded") = count(task, "Succeeded")
        /\ count(task', "Running") <= count(task, "Running")
    BY <1>0, <2>1, <2>5, <2>6, <2>7
  <2> QED
    BY <2>8 DEF count
<1> QED
  BY <1>1, <1>2

\* What a failed attempt does to the tasks.
LEMMA FailureEffect ==
  ASSUME TypeOK, NEW t \in Tasks, FailStep(t)
  PROVE  /\ task[t].status \in {"Pending", "Running"}
         /\ task'[t].status \in {"Pending", "Failed"}
         /\ task'[t].attempts = task[t].attempts + IF task[t].status = "Pending" THEN 1 ELSE 0
         /\ task'[t].status = "Pending" => task'[t].attempts <= MaxRetries[t]
         /\ \A u \in Tasks \ {t} :
              \/ task'[u] = task[u]
              \/ /\ task[u].status = "Pending" /\ task'[u].status = "Failed"
                 /\ task'[u].attempts = task[u].attempts
<1>1. PICK table \in [Tasks -> TaskRecord] :
        /\ AttemptFails(t, table)
        /\ table[t].attempts = task[t].attempts + IF task[t].status = "Pending" THEN 1 ELSE 0
        /\ \A u \in Tasks \ {t} : table[u] = task[u]
  <2>1. CASE task[t].status = "Pending" /\ AttemptFails(t, Begun(t))
    <3>1. /\ Begun(t)[t].attempts = task[t].attempts + 1
          /\ \A u \in Tasks \ {t} : Begun(t)[u] = task[u]
      BY DEF Begun, TypeOK
    <3> QED
      BY <2>1, <3>1, BegunType
  <2>2. CASE task[t].status = "Running" /\ AttemptFails(t, task)
    <3>1. task \in [Tasks -> TaskRecord] /\ task[t].attempts + 0 = task[t].attempts
      BY DEF TypeOK, TaskRecord
    <3> QED
      BY <2>2, <3>1
  <2> QED
    BY <2>1, <2>2 DEF FailStep
<1>2. now \in Nat /\ tasksFailed \in Nat /\ schedulingHalted \in BOOLEAN
  BY DEF TypeOK
<1>3. /\ \A u \in Tasks : task'[u].attempts = table[u].attempts
      /\ task'[t].status = "Pending" => ShouldRetry(t, table[t].attempts)
      /\ task'[t].status \in {"Pending", "Failed"}
      /\ \A u \in Tasks \ {t} :
           \/ task'[u] = table[u]
           \/ task'[u].status = "Failed" /\ table[u].status = "Pending"
  BY <1>1, <1>2, AttemptFailsTable
<1>4. ShouldRetry(t, table[t].attempts) => table[t].attempts <= MaxRetries[t]
  BY WorkflowsAssumption DEF ShouldRetry, TaskRecord
<1> QED
  BY <1>1, <1>3, <1>4 DEF FailStep

\* An attempt that is tried again changes no other task.
LEMMA RetryEffect ==
  ASSUME TypeOK, NEW t \in Tasks, FailStep(t), task'[t].status = "Pending"
  PROVE  \A u \in Tasks \ {t} : task'[u].status = task[u].status
<1>1. PICK table \in {task, Begun(t)} : AttemptFails(t, table)
  BY DEF FailStep
<1>2. table \in [Tasks -> TaskRecord] /\ \A u \in Tasks \ {t} : table[u] = task[u]
  BY BegunType DEF Begun, TypeOK
<1>3. now \in Nat /\ tasksFailed \in Nat /\ schedulingHalted \in BOOLEAN
  BY DEF TypeOK
<1>4. ShouldRetry(t, table[t].attempts)
  BY <1>1, <1>2, <1>3, AttemptFailsTable
<1>5. task' = [table EXCEPT ![t].status = "Pending",
                            ![t].nextRun = now + Backoff * table[t].attempts]
  BY <1>1, <1>4 DEF AttemptFails
<1> QED
  BY <1>2, <1>5

-------------------------------------------------------------------------------
(* The parts of the invariant *)

\* No task has a status that no task has.
LEMMA CountNone ==
  ASSUME NEW table, NEW s, \A t \in Tasks : table[t].status # s
  PROVE  Cardinality(WithStatus(table, s)) = 0
<1>1. WithStatus(table, s) = {}
  BY DEF WithStatus
<1> QED
  BY <1>1, FS_EmptySet

\* The same of a step that gives one task the status v.
LEMMA StatusMoves ==
  ASSUME NEW t \in Tasks, NEW v,
         \A u \in Tasks : task'[u].status = IF u = t THEN v ELSE task[u].status
  PROVE  \A s : Cardinality(WithStatus(task', s)) =
                  Cardinality(WithStatus(task, s)) + (IF task'[t].status = s THEN 1 ELSE 0)
                                                   - (IF task[t].status = s THEN 1 ELSE 0)
<1> DEFINE new == task'
<1>1. \A u \in Tasks \ {t} : new[u].status = task[u].status
  OBVIOUS
<1> HIDE DEF new
<1>2. \A s : Cardinality(WithStatus(new, s)) =
               Cardinality(WithStatus(task, s)) + (IF new[t].status = s THEN 1 ELSE 0)
                                                - (IF task[t].status = s THEN 1 ELSE 0)
  BY <1>1, CountMoves
<1> QED
  BY <1>2 DEF new

LEMMA CountKept ==
  ASSUME TypeOK, TypeOK', LocksInv, CountInv, [Next]_vars
  PROVE  CountInv'
<1> USE BoundsAssumption DEF CountInv, CountersAgree
<1> DEFINE count(a, s) == Cardinality(WithStatus(a, s))
<1>0. \A s : count(task, s) \in Nat
  BY TasksFinite DEF WithStatus
<1>1. CASE QuietStep \/ SaveCommits
  <2>1. task' = task /\ tasksSucceeded' = tasksSucceeded /\ tasksFailed' = tasksFailed
    BY <1>1 DEF QuietStep, SaveCommits
  <2>2. \A s : WithStatus(task, s)' = WithStatus(task, s)
    BY <2>1 DEF WithStatus
  <2>3. pc' = "down" <=> pc = "down"
    BY <1>1 DEF QuietStep, SaveCommits, GoTo, TypeOK
  <2> QED
    BY <2>1, <2>2, <2>3
<1>2. CASE EndStep
  <2>1. task' = NoTasks /\ pc' = "down"
    BY <1>2 DEF EndStep, ProcessGone
  <2>2. \A t \in Tasks : task'[t].status # "Running"
    BY <2>1, NoTasksNotRunning
  <2>3. Cardinality(WithStatus(task', "Running")) = 0
    BY <2>2, CountNone
  <2> QED
    BY <2>1, <2>3 DEF WithStatus
<1>3. ASSUME NEW t \in Tasks, BeginStep(t) PROVE CountInv'
  <2>1. \A u \in Tasks : task'[u].status = IF u = t THEN "Running" ELSE task[u].status
    BY <1>3 DEF BeginStep, Begun, TypeOK
  <2>2. \A s : count(task', s) = count(task, s) + (IF task'[t].status = s THEN 1 ELSE 0)
                                                - (IF task[t].status = s THEN 1 ELSE 0)
    BY <2>1, StatusMoves
  <2>3. task'[t].status = "Running" /\ task[t].status = "Pending"
    BY <1>3, <2>1 DEF BeginStep
  <2>4. count(task, "Running") < CellCount
    BY <1>3, SlotCount DEF BeginStep
  <2> HIDE DEF count
  <2>5. /\ count(task', "Succeeded") = count(task, "Succeeded")
        /\ count(task', "Failed") = count(task, "Failed")
        /\ count(task', "Running") <= CellCount
    BY <1>0, <2>2, <2>3, <2>4
  <2>6. /\ Cardinality(WithStatus(task', "Succeeded")) = Cardinality(WithStatus(task, "Succeeded"))
        /\ Cardinality(WithStatus(task', "Failed")) = Cardinality(WithStatus(task, "Failed"))
        /\ Cardinality(WithStatus(task', "Running")) <= CellCount
    BY <2>5 DEF count
  <2> QED
    BY <1>3, <2>6 DEF BeginStep, WithStatus
<1>4. ASSUME NEW t \in Tasks, SucceedStep(t) PROVE CountInv'
  <2>1. \A u \in Tasks : task'[u].status = IF u = t THEN "Succeeded" ELSE task[u].status
    BY <1>4 DEF SucceedStep, TypeOK, TaskRecord
  <2>2. \A s : count(task', s) = count(task, s) + (IF task'[t].status = s THEN 1 ELSE 0)
                                                - (IF task[t].status = s THEN 1 ELSE 0)
    BY <2>1, StatusMoves
  <2>3. task'[t].status = "Succeeded" /\ task[t].status = "Running"
    BY <1>4, <2>1 DEF SucceedStep
  <2>4. count(task, "Running") <= CellCount
    OBVIOUS
  <2> HIDE DEF count
  <2>5. /\ count(task', "Succeeded") = count(task, "Succeeded") + 1
        /\ count(task', "Failed") = count(task, "Failed")
        /\ count(task', "Running") <= CellCount
    BY <1>0, <2>2, <2>3, <2>4
  <2>6. /\ Cardinality(WithStatus(task', "Succeeded")) = Cardinality(WithStatus(task, "Succeeded")) + 1
        /\ Cardinality(WithStatus(task', "Failed")) = Cardinality(WithStatus(task, "Failed"))
        /\ Cardinality(WithStatus(task', "Running")) <= CellCount
    BY <2>5 DEF count
  <2> QED
    BY <1>4, <2>6 DEF SucceedStep, WithStatus
<1>5. ASSUME NEW t \in Tasks, FailStep(t) PROVE CountInv'
  <2>1. /\ count(task', "Failed") - count(task, "Failed") = tasksFailed' - tasksFailed
        /\ count(task', "Succeeded") = count(task, "Succeeded")
        /\ count(task', "Running") <= count(task, "Running")
    <3>1. CASE task[t].status = "Pending" /\ AttemptFails(t, Begun(t))
      <4>1. \A u \in Tasks \ {t} : Begun(t)[u] = task[u]
        BY DEF Begun, TypeOK
      <4> QED
        BY <3>1, <4>1, BegunType, FailureCounts
    <3>2. CASE task[t].status = "Running" /\ AttemptFails(t, task)
      <4>1. task \in [Tasks -> TaskRecord]
        BY DEF TypeOK
      <4> QED
        BY <3>2, <4>1, FailureCounts
    <3> QED
      BY <1>5, <3>1, <3>2 DEF FailStep
  <2>2. count(task', "Failed") \in Nat /\ count(task', "Running") \in Nat
    BY TasksFinite DEF WithStatus
  <2>3. pc # "down" /\ pc' = "save" /\ tasksSucceeded' = tasksSucceeded
    BY <1>5 DEF FailStep
  <2>4. tasksFailed \in Nat /\ tasksFailed' \in Nat
    BY DEF TypeOK
  <2> HIDE DEF count
  <2>5. tasksFailed = count(task, "Failed")
    BY <2>3 DEF count
  <2>6. tasksFailed' = count(task', "Failed")
    BY <1>0, <2>1, <2>2, <2>4, <2>5
  <2>7. count(task', "Running") <= CellCount
    <3>1. count(task, "Running") <= CellCount
      BY DEF count
    <3> QED
      BY <1>0, <2>1, <2>2, <3>1
  <2> QED
    BY <2>1, <2>3, <2>6, <2>7 DEF count, WithStatus
<1>6. ASSUME NEW n \in Tasks, StartFresh(n) PROVE CountInv'
  <2>1. \A t \in Tasks : task'[t].status \in {"Pending", "Absent"}
    BY <1>6 DEF StartFresh, Fresh, Absent
  <2>2. \A s \in {"Succeeded", "Failed", "Running"} : Cardinality(WithStatus(task', s)) = 0
    BY <2>1, CountNone
  <2> QED
    BY <1>6, <2>2 DEF StartFresh, BootMemory, SaveThen, WithStatus
<1>7. ASSUME NEW n \in Tasks, Resume(n) PROVE CountInv'
  <2>1. \A t \in Tasks : Resumed(t, db[t]).status # "Running"
    BY DEF Resumed, Decided, TypeOK, TaskRecord
  <2>2. \A t \in Tasks : task'[t].status # "Running"
    BY <1>7, <2>1 DEF Resume, Fresh, Absent
  <2>3. Cardinality(WithStatus(task', "Running")) = 0
    BY <2>2, CountNone
  <2> QED
    BY <1>7, <2>3 DEF Resume, BootMemory, SaveThen, WithStatus
<1> QED
  BY <1>1, <1>2, <1>3, <1>4, <1>5, <1>6, <1>7, StepKinds

\* What --resume makes of a saved task.
LEMMA ResumeEffect ==
  ASSUME TypeOK, NEW n \in Tasks, Resume(n), NEW t \in Tasks
  PROVE  /\ task'[t].status # "Running"
         /\ t \in Known(db) =>
              /\ task'[t].attempts = db[t].attempts /\ task'[t].status # "Absent"
              /\ Decided(t, db[t]) => task'[t] = db[t]
         /\ t \notin Known(db) => task'[t].attempts = 0
<1>1. /\ Resumed(t, db[t]).attempts = db[t].attempts
      /\ Resumed(t, db[t]).status # "Running"
      /\ t \in Known(db) => Resumed(t, db[t]).status # "Absent"
      /\ Decided(t, db[t]) => Resumed(t, db[t]) = db[t]
  BY DEF Resumed, Decided, TypeOK, TaskRecord, Known
<1> QED
  BY <1>1 DEF Resume, Fresh, Absent

LEMMA AttemptsKept ==
  ASSUME TypeOK, LocksInv, AttemptsInv, [Next]_vars
  PROVE  AttemptsInv'
<1> USE WorkflowsAssumption
<1>0. /\ resumes \in Nat /\ \A t \in Tasks : MaxRetries[t] \in Nat
      /\ \A t \in Tasks : task[t].attempts \in Nat /\ db[t].attempts \in Nat
  BY DEF TypeOK, TaskRecord
<1>1. CASE QuietStep
  BY <1>1 DEF QuietStep, AttemptsInv
<1>2. CASE SaveCommits
  BY <1>2 DEF SaveCommits, AttemptsInv
<1>3. CASE EndStep
  <2>1. task' = NoTasks /\ resumes' = resumes /\ db' \in {db, task}
    BY <1>3 DEF EndStep, ProcessGone
  <2>2. \A t \in Tasks : NoTasks[t].attempts = 0 /\ NoTasks[t].status = "Absent"
    BY DEF NoTasks, Absent
  <2> QED
    BY <1>0, <2>1, <2>2 DEF AttemptsInv
<1>4. ASSUME NEW t \in Tasks, BeginStep(t) PROVE AttemptsInv'
  <2>1. \A u \in Tasks :
          IF u = t THEN task'[u].attempts = task[u].attempts + 1 /\ task'[u].status = "Running"
                   ELSE task'[u] = task[u]
    BY <1>4 DEF BeginStep, Begun, TypeOK
  <2>2. task[t].status = "Pending" /\ resumes' = resumes /\ db' = db
    BY <1>4 DEF BeginStep
  <2> QED
    BY <1>0, <2>1, <2>2 DEF AttemptsInv
<1>5. ASSUME NEW t \in Tasks, SucceedStep(t) PROVE AttemptsInv'
  <2>1. \A u \in Tasks :
          IF u = t THEN task'[u].attempts = task[u].attempts /\ task'[u].status = "Succeeded"
                   ELSE task'[u] = task[u]
    BY <1>5 DEF SucceedStep, TypeOK, TaskRecord
  <2>2. resumes' = resumes /\ db' = db
    BY <1>5 DEF SucceedStep
  <2> QED
    BY <1>0, <2>1, <2>2 DEF AttemptsInv
<1>6. ASSUME NEW t \in Tasks, FailStep(t) PROVE AttemptsInv'
  <2>1. resumes' = resumes /\ db' = db
    BY <1>6 DEF FailStep
  <2>2. /\ task'[t].attempts = task[t].attempts + IF task[t].status = "Pending" THEN 1 ELSE 0
        /\ task'[t].status = "Pending" => task'[t].attempts <= MaxRetries[t]
        /\ \A u \in Tasks \ {t} :
             /\ task'[u].attempts = task[u].attempts
             /\ task'[u].status = "Pending" => task[u].status = "Pending"
    BY <1>6, FailureEffect
  <2>3. /\ task'[t].attempts <= MaxRetries[t] + 1 + resumes
        /\ task'[t].status = "Pending" => task'[t].attempts <= MaxRetries[t] + resumes
    <3>1. task[t].attempts <= MaxRetries[t] + 1 + resumes
      BY DEF AttemptsInv
    <3>2. task[t].status = "Pending" => task[t].attempts <= MaxRetries[t] + resumes
      BY DEF AttemptsInv
    <3>3. task'[t].attempts \in Nat
      BY <1>0, <2>2
    <3> QED
      BY <1>0, <2>2, <3>1, <3>2, <3>3
  <2> QED
    BY <1>0, <2>1, <2>2, <2>3 DEF AttemptsInv
<1>7. ASSUME NEW n \in Tasks, StartFresh(n) PROVE AttemptsInv'
  <2>1. \A t \in Tasks : task'[t].attempts = 0
    BY <1>7 DEF StartFresh, Fresh, Absent
  <2>2. resumes' = resumes /\ db' = db
    BY <1>7 DEF StartFresh
  <2> QED
    BY <1>0, <2>1, <2>2 DEF AttemptsInv
<1>8. ASSUME NEW n \in Tasks, Resume(n) PROVE AttemptsInv'
  <2>1. \A t \in Tasks : task'[t].attempts \in {0, db[t].attempts}
    BY <1>8, ResumeEffect
  <2>2. resumes' = resumes + 1 /\ db' = db
    BY <1>8 DEF Resume
  <2> QED
    BY <1>0, <2>1, <2>2 DEF AttemptsInv
<1> QED
  BY <1>1, <1>2, <1>3, <1>4, <1>5, <1>6, <1>7, <1>8, StepKinds

\* A save is due before every step that reads the state file again.
LEMMA StateFileKept ==
  ASSUME TypeOK, LocksInv, StateFileCurrent, [Next]_vars
  PROVE  StateFileCurrent'
<1> USE DEF StateFileCurrent
<1>1. CASE QuietStep
  BY <1>1 DEF QuietStep, Settled
<1>2. CASE SaveCommits
  BY <1>2 DEF SaveCommits
<1>3. CASE EndStep
  BY <1>3 DEF EndStep, ProcessGone
<1>4. ASSUME NEW t \in Tasks, \/ BeginStep(t) \/ SucceedStep(t) \/ FailStep(t)
                              \/ StartFresh(t) \/ Resume(t)
      PROVE  StateFileCurrent'
  <2>1. pc' = "save"
    BY <1>4
    DEF BeginStep, SucceedStep, FailStep, StartFresh, Resume, BootMemory, SaveThen
  <2> QED
    BY <2>1
<1> QED
  BY <1>1, <1>2, <1>3, <1>4, StepKinds

\* A decided task is never taken up again by the process that found it decided.
LEMMA RecordKept ==
  ASSUME TypeOK, LocksInv, RecordInv, [Next]_vars
  PROVE  RecordInv'
<1> USE DEF RecordInv
<1>0. \A t \in Tasks : Decided(t, task[t]) => task[t].status \in {"Succeeded", "Failed"}
  BY DEF Decided
<1>1. CASE QuietStep
  BY <1>1 DEF QuietStep
<1>2. CASE SaveCommits
  BY <1>2 DEF SaveCommits
<1>3. CASE EndStep
  BY <1>3 DEF EndStep, ProcessGone
<1>4. ASSUME NEW t \in Tasks, BeginStep(t) PROVE RecordInv'
  <2>1. \A u \in Tasks \ {t} : task'[u] = task[u]
    BY <1>4 DEF BeginStep, Begun, TypeOK
  <2>2. db' = db /\ pc # "down" /\ task[t].status = "Pending"
    BY <1>4 DEF BeginStep
  <2> QED
    BY <1>0, <2>1, <2>2
<1>5. ASSUME NEW t \in Tasks, SucceedStep(t) PROVE RecordInv'
  <2>1. \A u \in Tasks \ {t} : task'[u] = task[u]
    BY <1>5 DEF SucceedStep, TypeOK
  <2>2. db' = db /\ pc # "down" /\ task[t].status = "Running"
    BY <1>5 DEF SucceedStep
  <2> QED
    BY <1>0, <2>1, <2>2
<1>6. ASSUME NEW t \in Tasks, FailStep(t) PROVE RecordInv'
  <2>1. db' = db /\ pc # "down"
    BY <1>6 DEF FailStep
  <2>2. /\ task[t].status \in {"Pending", "Running"}
        /\ \A u \in Tasks \ {t} : task'[u] = task[u] \/ task[u].status = "Pending"
    BY <1>6, FailureEffect
  <2> QED
    BY <1>0, <2>1, <2>2
<1>7. ASSUME NEW n \in Tasks, StartFresh(n) PROVE RecordInv'
  <2>1. db' = db /\ \A t \in Tasks : db[t].status = "Absent"
    BY <1>7 DEF StartFresh, NoTasks, Absent
  <2> QED
    BY <2>1 DEF Decided
<1>8. ASSUME NEW n \in Tasks, Resume(n) PROVE RecordInv'
  <2>1. db' = db /\ \A t \in Tasks : Decided(t, db[t]) => t \in Known(db)
    BY <1>8 DEF Resume, Decided, Known
  <2> QED
    BY <1>8, <2>1, ResumeEffect
<1> QED
  BY <1>1, <1>2, <1>3, <1>4, <1>5, <1>6, <1>7, <1>8, StepKinds

\* A process ends with 0 or 12 after it has decided its tasks and counted them.
LEMMA ExitKept ==
  ASSUME TypeOK, LocksInv, CountInv, ExitInv, [Next]_vars
  PROVE  ExitInv'
<1> USE DEF ExitInv
<1>1. CASE QuietStep
  BY <1>1
  DEF QuietStep, HasPendingWork, WithStatus, ExitCodeTruthful, Known
<1>2. CASE SaveCommits
  <2>1. pc' \in {"dispatch", "reap"} /\ exitCode' = exitCode /\ exitCode \notin {"0", "12"}
    BY <1>2 DEF SaveCommits, GoTo, TypeOK
  <2> QED
    BY <2>1 DEF ExitCodeTruthful
<1>3. CASE EndStep
  <2>1. pc' = "down" /\ pc # "down"
    BY <1>3 DEF EndStep, ProcessGone
  <2>2. CASE exitCode' \notin {"0", "12"}
    BY <2>1, <2>2 DEF ExitCodeTruthful
  <2>3. CASE pc = "finish" /\ db' = task /\ exitCode' = IF tasksFailed = 0 THEN "0" ELSE "12"
    <3>1. \A t \in Tasks : task[t].status \in {"Absent", "Succeeded", "Failed"}
      BY <2>3 DEF HasPendingWork, WithStatus, TypeOK, TaskRecord, Statuses
    <3>2. Known(task) = WithStatus(task, "Succeeded") \cup WithStatus(task, "Failed")
      BY <3>1 DEF Known, WithStatus
    <3>3. IsFiniteSet(WithStatus(task, "Failed"))
      BY TasksFinite DEF WithStatus
    <3>4. tasksFailed = 0 <=> WithStatus(task, "Failed") = {}
      BY <2>1, <3>3, FS_EmptySet DEF CountInv, CountersAgree
    <3>5. exitCode' = "0" <=> tasksFailed = 0
      BY <2>3
    <3>6. ExitCodeTruthful'
      BY <2>3, <3>2, <3>4, <3>5 DEF ExitCodeTruthful, Known, WithStatus
    <3> QED
      BY <2>1, <3>6
  <2> QED
    BY <1>3, <2>2, <2>3 DEF EndStep
<1>4. ASSUME NEW t \in Tasks, BeginStep(t) \/ SucceedStep(t) \/ FailStep(t) PROVE ExitInv'
  <2>1. pc # "down" /\ pc' = "save" /\ exitCode' = exitCode
    BY <1>4 DEF BeginStep, SucceedStep, FailStep
  <2> QED
    BY <2>1 DEF ExitCodeTruthful
<1>5. ASSUME NEW n \in Tasks, StartFresh(n) \/ Resume(n) PROVE ExitInv'
  <2>1. pc' = "save" /\ exitCode' = "none"
    BY <1>5 DEF StartFresh, Resume, BootMemory, SaveThen
  <2> QED
    BY <2>1 DEF ExitCodeTruthful
<1> QED
  BY <1>1, <1>2, <1>3, <1>4, <1>5, StepKinds

\* The workers started for a task outnumber its attempts by the crashes between a
\* start and its save at most, and there is a resume for each of these but the last.
LEMMA StartsKept ==
  ASSUME TypeOK, LocksInv, StateFileCurrent, StartsInv, [Next]_vars
  PROVE  StartsInv'
<1> SUFFICES ASSUME ~SaveMayFail PROVE StartsInv'
  BY DEF StartsInv
<1> USE WorkflowsAssumption DEF StartsInv
<1>0. /\ resumes \in Nat /\ \A t \in Tasks : MaxRetries[t] \in Nat /\ starts[t] \in Nat
      /\ \A t \in Tasks : task[t].attempts \in Nat /\ db[t].attempts \in Nat
  BY DEF TypeOK, TaskRecord
<1>1. CASE QuietStep
  BY <1>1 DEF QuietStep
<1>2. CASE SaveCommits
  <2>1. pc # "down" /\ db' = task /\ UNCHANGED <<task, resumes, starts>>
    BY <1>2 DEF SaveCommits
  <2> QED
    BY <1>0, <2>1
<1>3. CASE EndStep
  <2>1. pc # "down" /\ pc' = "down" /\ db' \in {db, task} /\ UNCHANGED <<resumes, starts>>
    BY <1>3 DEF EndStep, ProcessGone
  <2> QED
    BY <1>0, <2>1
<1>4. ASSUME NEW t \in Tasks, BeginStep(t) PROVE StartsInv'
  <2>1. /\ task'[t].attempts = task[t].attempts + 1 /\ task'[t].status = "Running"
        /\ starts'[t] = starts[t] + 1
        /\ \A u \in Tasks \ {t} : task'[u] = task[u] /\ starts'[u] = starts[u]
    BY <1>4 DEF BeginStep, Begun, TypeOK
  <2>2. /\ task[t].status = "Pending" /\ pc = "dispatch" /\ pc' = "save"
        /\ db' = db /\ resumes' = resumes
    BY <1>4 DEF BeginStep
  <2>3. db = task
    BY <2>2 DEF StateFileCurrent
  <2> QED
    BY <1>0, <2>1, <2>2, <2>3
<1>5. ASSUME NEW t \in Tasks, SucceedStep(t) PROVE StartsInv'
  <2>1. /\ task'[t].attempts = task[t].attempts /\ task'[t].status = "Succeeded"
        /\ \A u \in Tasks \ {t} : task'[u] = task[u]
    BY <1>5 DEF SucceedStep, TypeOK, TaskRecord
  <2>2. pc # "down" /\ UNCHANGED <<db, resumes, starts>>
    BY <1>5 DEF SucceedStep
  <2> QED
    BY <1>0, <2>1, <2>2
<1>6. ASSUME NEW t \in Tasks, FailStep(t) PROVE StartsInv'
  <2>1. pc # "down" /\ UNCHANGED <<db, resumes, starts>>
    BY <1>6 DEF FailStep
  <2>2. /\ task'[t].attempts = task[t].attempts + IF task[t].status = "Pending" THEN 1 ELSE 0
        /\ task'[t].status \in {"Pending", "Failed"}
        /\ task'[t].status = "Pending" => task'[t].attempts <= MaxRetries[t]
        /\ \A u \in Tasks \ {t} :
             \/ task'[u] = task[u]
             \/ task'[u].status = "Failed" /\ task'[u].attempts = task[u].attempts
    BY <1>6, FailureEffect
  <2>3. starts[t] <= task[t].attempts + resumes
    BY <2>1
  <2>4. /\ starts[t] <= task'[t].attempts + resumes
        /\ task'[t].status = "Pending" => starts[t] <= MaxRetries[t] + resumes
    BY <1>0, <2>2, <2>3
  <2> QED
    BY <1>0, <2>1, <2>2, <2>4
<1>7. ASSUME NEW n \in Tasks, StartFresh(n) PROVE StartsInv'
  <2>1. \A t \in Tasks : task'[t].attempts = 0 /\ db[t].status = "Absent"
    BY <1>7 DEF StartFresh, Fresh, Absent, NoTasks
  <2>2. UNCHANGED <<db, resumes, starts>>
    BY <1>7 DEF StartFresh
  <2> QED
    BY <1>0, <2>1, <2>2
<1>8. ASSUME NEW n \in Tasks, Resume(n) PROVE StartsInv'
  <2>1. \A t \in Tasks :
          /\ t \in Known(db) => task'[t].attempts = db[t].attempts /\ task'[t].status # "Absent"
          /\ t \notin Known(db) => task'[t].attempts = 0 /\ starts[t] = 0
    BY <1>8, ResumeEffect DEF Known
  <2>2. resumes' = resumes + 1 /\ UNCHANGED <<db, starts>>
    BY <1>8 DEF Resume
  <2> QED
    BY <1>0, <2>1, <2>2
<1> QED
  BY <1>1, <1>2, <1>3, <1>4, <1>5, <1>6, <1>7, <1>8, StepKinds

-------------------------------------------------------------------------------
(* The theorems *)

LEMMA BooksInit == Init => BooksInv
<1> SUFFICES ASSUME Init PROVE BooksInv
  OBVIOUS
<1>0. /\ task = NoTasks /\ db = NoTasks /\ pc = "down" /\ exitCode = "none"
      /\ resumes = 0 /\ starts = [t \in Tasks |-> 0]
  BY DEF Init
<1>1. \A t \in Tasks : NoTasks[t].status = "Absent" /\ NoTasks[t].attempts = 0
  BY DEF NoTasks, Absent
<1>2. Cardinality(WithStatus(task, "Running")) = 0
  BY <1>0, <1>1, CountNone
<1>3. CountInv
  BY <1>0, <1>2, BoundsAssumption DEF CountInv, CountersAgree
<1>4. AttemptsInv /\ StartsInv
  BY <1>0, <1>1, WorkflowsAssumption DEF AttemptsInv, StartsInv
<1>5. StateFileCurrent /\ ExitInv /\ RecordInv
  BY <1>0 DEF StateFileCurrent, ExitInv, ExitCodeTruthful, RecordInv
<1> QED
  BY <1>3, <1>4, <1>5 DEF BooksInv

LEMMA BooksKept ==
  ASSUME TypeOK, TypeOK', LocksInv, BooksInv, [Next]_vars
  PROVE  BooksInv'
<1>1. CountInv /\ AttemptsInv /\ StartsInv /\ StateFileCurrent /\ ExitInv /\ RecordInv
  BY DEF BooksInv
<1>2. CountInv' /\ ExitInv'
  BY <1>1, CountKept, ExitKept
<1>3. AttemptsInv' /\ StartsInv'
  BY <1>1, AttemptsKept, StartsKept
<1>4. StateFileCurrent' /\ RecordInv'
  BY <1>1, StateFileKept, RecordKept
<1> QED
  BY <1>2, <1>3, <1>4 DEF BooksInv

\* Everything that is proved of the scheduler's bookkeeping.
THEOREM Bookkeeping == Spec => [](TypeOK /\ LocksInv /\ BooksInv)
<1>1. Init => BooksInv
  BY BooksInit
<1>2. TypeOK /\ TypeOK' /\ LocksInv /\ BooksInv /\ [Next]_vars => BooksInv'
  BY BooksKept
<1> QED
  BY <1>1, <1>2, Typing, LocksInvariant, PTL DEF Spec

\* A task is in one slot exactly while it is running, there are never more slots
\* than cells, and the counters agree with the statuses (main.cpp:823-1066).
THEOREM SlotsAreSound == Spec => []SlotsSound
<1>1. TypeOK /\ LocksInv /\ BooksInv => SlotsSound
  <2> SUFFICES ASSUME TypeOK, LocksInv, BooksInv PROVE SlotsSound
    OBVIOUS
  <2>1. WithinCells
    BY SlotCount DEF BooksInv, CountInv, WithinCells
  <2> QED
    BY <2>1 DEF LocksInv, BooksInv, CountInv, SlotsSound, SlotsMatchStatuses
<1> QED
  BY <1>1, Bookkeeping, PTL

\* Attempts and started workers stay within the limit of a task and the number of
\* resumes (main.cpp:172, 701-710, 864).
THEOREM AttemptsAreBounded == Spec => []AttemptsBounded
<1>1. BooksInv => AttemptsBounded
  BY DEF BooksInv, AttemptsInv, StartsInv, AttemptsBounded
<1> QED
  BY <1>1, Bookkeeping, PTL

\* The exit codes 0 and 12 say what the state file says (main.cpp:1091-1123).
THEOREM ExitCodeIsTruthful == Spec => []ExitCodeTruthful
<1>1. BooksInv => ExitCodeTruthful
  BY DEF BooksInv, ExitInv
<1> QED
  BY <1>1, Bookkeeping, PTL

\* The state file is behind only while a save is due (main.cpp:358-459).
THEOREM StateFileIsCurrent == Spec => []StateFileCurrent
<1>1. BooksInv => StateFileCurrent
  BY DEF BooksInv
<1> QED
  BY <1>1, Bookkeeping, PTL

\* A call of startRunnableTasks that goes on after scheduling was halted has
\* nothing to start: the halt has skipped all pending tasks, and a task becomes
\* pending again only where finished workers are reaped.
HaltInv ==
  schedulingHalted =>
    /\ pc = "dispatch" \/ (pc = "save" /\ resumeAt = "dispatch")
         => WithStatus(task, "Pending") = {}
    /\ ~(pc = "save" /\ resumeAt = "boot") /\ pc # "down"

LEMMA HaltKept ==
  ASSUME TypeOK, TypeOK', HaltInv, [Next]_vars
  PROVE  HaltInv'
<1> USE DEF HaltInv, WithStatus
<1>1. CASE SaveCommits \/ SaveFails
  <2>1. resumeAt \in {"boot", "dispatch", "reap"}
    BY DEF TypeOK
  <2>2. CASE schedulingHalted' = FALSE
    BY <2>2
  <2>3. CASE UNCHANGED <<task, schedulingHalted, resumeAt>> /\ GoTo(resumeAt) /\ pc = "save"
    BY <2>1, <2>3 DEF GoTo
  <2> QED
    BY <1>1, <2>2, <2>3 DEF SaveCommits, SaveFails, ProcessGone, memory
<1>2. ASSUME NEW t \in Tasks, StartWorker(t) \/ StartFails(t) PROVE HaltInv'
  <2>1. pc = "dispatch" /\ task[t].status = "Pending"
    BY <1>2, SelectedRunnable DEF StartWorker, StartFails, MayStart
  <2>2. ~schedulingHalted
    BY <2>1
  <2>3. CASE StartWorker(t)
    BY <2>2, <2>3 DEF StartWorker
  <2>4. CASE StartFails(t) /\ ~schedulingHalted'
    BY <2>4
  <2>5. CASE StartFails(t) /\ schedulingHalted'
    <3>1. PICK failed \in [Tasks -> TaskRecord] : task' = SkipPending(failed)
      <4>1. Begun(t) \in [Tasks -> TaskRecord]
        BY <2>1, BegunType
      <4>2. FailForGood(t, Begun(t))
        BY <2>2, <2>5 DEF StartFails, AttemptFails
      <4>3. [Begun(t) EXCEPT ![t].status = "Failed"] \in [Tasks -> TaskRecord]
        BY <4>1 DEF TaskRecord, Statuses
      <4> QED
        BY <2>2, <2>5, <4>2, <4>3 DEF FailForGood
    <3>2. \A u \in Tasks : task'[u].status # "Pending"
      BY <3>1 DEF SkipPending, TaskRecord
    <3>3. pc' = "save" /\ resumeAt' = "dispatch"
      BY <2>5 DEF StartFails, SaveThen
    <3> QED
      BY <3>2, <3>3
  <2> QED
    BY <1>2, <2>3, <2>4, <2>5
<1>3. CASE DispatchDone \/ HealthSkip \/ HealthKill \/ ReapDone
  BY <1>3 DEF DispatchDone, HealthSkip, HealthKill, ReapDone, AfterDispatch, memory
<1>4. ASSUME NEW r \in running, ReapSkips(r) \/ ReapSucceeded(r) \/ ReapFailed(r)
      PROVE  HaltInv'
  BY <1>4 DEF ReapSkips, ReapSucceeded, ReapFailed, SaveThen, memory
<1>5. CASE Finish \/ Crash
  BY <1>5 DEF Finish, Crash, ProcessGone
<1>6. ASSUME NEW r \in running, NEW proc \in {"ok", "failed"},
             WorkerOverdue(r) \/ WorkerExits(r, proc)
      PROVE  HaltInv'
  BY <1>6 DEF WorkerOverdue, WorkerExits, control
<1>7. CASE Tick \/ \E t \in Tasks : OrphanExits(t)
  BY <1>7 DEF Tick, OrphanExits, memory, control
<1>8. CASE \E n \in Tasks : StartFresh(n) \/ Resume(n)
  BY <1>8 DEF StartFresh, Resume, BootMemory
<1>9. CASE Stopped \/ UNCHANGED vars
  BY <1>9 DEF Stopped, vars, memory, control
<1> QED
  BY <1>1, <1>2, <1>3, <1>4, <1>5, <1>6, <1>7, <1>8, <1>9
  DEF Next, Scheduler, Save, Dispatch, Reap, Environment, User

\* Neither a worker nor an attempt begins after --stop-on-failure halted scheduling,
\* although the loop that starts tasks does not test the flag (main.cpp:836-902).
THEOREM HaltIsFinal == Spec => NoStartAfterHalt
<1> DEFINE Quiet == /\ starts' = starts
                    /\ \A t \in Tasks : task'[t].attempts <= task[t].attempts
<1>1. Init => HaltInv
  BY DEF Init, HaltInv
<1>2. TypeOK /\ TypeOK' /\ HaltInv /\ [Next]_vars => HaltInv'
  BY HaltKept
<1>3. TypeOK /\ LocksInv /\ BooksInv /\ HaltInv /\ [Next]_vars
        => [schedulingHalted => Quiet]_vars
  <2> SUFFICES ASSUME TypeOK, LocksInv, BooksInv, HaltInv, [Next]_vars, schedulingHalted
               PROVE  Quiet
    OBVIOUS
  <2>1. /\ \A t \in Tasks : task[t].attempts \in Nat /\ NoTasks[t].attempts = 0
        /\ pc # "down" /\ (pc = "dispatch" => \A t \in Tasks : task[t].status # "Pending")
    BY DEF TypeOK, TaskRecord, NoTasks, Absent, HaltInv, WithStatus
  <2>2. CASE QuietStep \/ SaveCommits \/ EndStep
    <3>1. starts' = starts /\ (task' = task \/ task' = NoTasks)
      BY <2>2 DEF QuietStep, SaveCommits, EndStep, ProcessGone, memory
    <3>2. \A t \in Tasks : task'[t].attempts <= task[t].attempts
      BY <2>1, <3>1
    <3> QED
      BY <3>1, <3>2
  <2>3. ASSUME NEW t \in Tasks, SucceedStep(t) PROVE Quiet
    BY <2>1, <2>3 DEF SucceedStep, TypeOK, TaskRecord
  <2>4. ASSUME NEW t \in Tasks, FailStep(t) PROVE Quiet
    <3>1. task[t].status = "Running"
      BY <2>1, <2>4 DEF FailStep
    <3>2. \A u \in Tasks : task'[u].attempts = task[u].attempts
      BY <2>1, <2>4, <3>1, FailureEffect
    <3> QED
      BY <2>1, <2>4, <3>2 DEF FailStep
  <2>5. \A t \in Tasks : ~BeginStep(t) /\ ~StartFresh(t) /\ ~Resume(t)
    BY <2>1 DEF BeginStep, StartFresh, Resume
  <2> QED
    BY <2>2, <2>3, <2>4, <2>5, StepKinds
<1> QED
  BY <1>1, <1>2, <1>3, Bookkeeping, PTL DEF Spec, NoStartAfterHalt

-------------------------------------------------------------------------------
(* The scheduler implements TaskPool *)

Waiting == WithStatus(task, "Pending")
Active == {r.task : r \in running}
Recorded == {t \in Tasks : Decided(t, db[t])}

\* The pool counts as the scheduler does.
LEMMA PoolCardinality == \A S : Pool!Cardinality(S) = Cardinality(S)
BY DEF Pool!Cardinality, Cardinality

\* Every step of the scheduler is one of the pool, or none.
LEMMA PoolStep ==
  ASSUME TypeOK, TypeOK', LocksInv, LocksInv', BooksInv, [Next]_vars
  PROVE  [Pool!PoolNext]_(Pool!poolVars)
<1> USE DEF Waiting, Recorded
<1>1. Active = WithStatus(task, "Running") /\ Active' = WithStatus(task, "Running")'
  BY DEF Active, WithStatus, LocksInv, SlotsAreRunning, TypeOK, Slot
<1>2. CountInv /\ RecordInv /\ ExitInv
  BY DEF BooksInv
<1>3. CASE QuietStep
  <2>1. Waiting' = Waiting /\ Active' = Active /\ Recorded' = Recorded
    BY <1>1, <1>3 DEF QuietStep, WithStatus
  <2> QED
    BY <2>1 DEF Pool!poolVars, Waiting, Active, Recorded
<1>4. CASE SaveCommits
  <2>1. Waiting' = Waiting /\ Active' = Active
    BY <1>1, <1>4 DEF SaveCommits, WithStatus
  <2>2. Recorded \subseteq Recorded' /\ Recorded' \subseteq Tasks
    BY <1>2, <1>4 DEF SaveCommits, RecordInv
  <2>3. Recorded' \cap (Waiting \cup Active) = {}
    BY <1>1, <1>4 DEF SaveCommits, WithStatus, Decided
  <2> QED
    BY <2>1, <2>2, <2>3 DEF Pool!Record, Pool!PoolNext, Active
<1>5. CASE EndStep
  <2>1. /\ task' = NoTasks /\ pc # "down"
        /\ \A t \in Tasks : NoTasks[t].status = "Absent"
    BY <1>5 DEF EndStep, ProcessGone, NoTasks, Absent
  <2>2. Waiting' = {} /\ Active' = {}
    BY <1>1, <2>1 DEF WithStatus
  <2>3. CASE db' = db
    BY <2>2, <2>3 DEF Pool!Crashes, Pool!PoolNext, Active
  <2>4. CASE pc = "finish" /\ db' = task
    <3>1. Waiting = {} /\ Active = {}
      BY <1>1, <1>2, <2>4 DEF ExitInv, HasPendingWork
    <3>2. Recorded \subseteq Recorded' /\ Recorded' \subseteq Tasks
      BY <1>2, <2>1, <2>4 DEF RecordInv
    <3> QED
      BY <2>2, <3>1, <3>2 DEF Pool!Record, Pool!PoolNext, Active
  <2> QED
    BY <1>5, <2>3, <2>4 DEF EndStep
<1>6. ASSUME NEW t \in Tasks, BeginStep(t) PROVE Pool!Begin(t)
  <2>1. \A u \in Tasks : task'[u].status = IF u = t THEN "Running" ELSE task[u].status
    BY <1>6 DEF BeginStep, Begun, TypeOK
  <2>2. /\ task[t].status = "Pending" /\ ResourceLocks[t] \cap heldLocks = {}
        /\ Cardinality(running) < CellCount /\ db' = db /\ pc # "down"
    BY <1>6 DEF BeginStep
  <2>3. Waiting' = Waiting \ {t} /\ Active' = Active \cup {t} /\ Recorded' = Recorded
    BY <1>1, <2>1, <2>2 DEF WithStatus
  <2>4. t \in Waiting \ Recorded
    BY <1>2, <2>2 DEF WithStatus, RecordInv, Decided
  <2>5. Cardinality(Active) < CellCount
    BY <1>1, <2>2, SlotCount
  <2>6. \A u \in Active : u # t /\ ResourceLocks[u] \cap ResourceLocks[t] = {}
    <3>1. \A u \in Active : u # t
      BY <1>1, <2>2 DEF WithStatus
    <3>2. \A r \in running : ResourceLocks[r.task] \subseteq heldLocks
      BY DEF LocksInv, HeldLocksExact
    <3> QED
      BY <2>2, <3>1, <3>2 DEF Active
  <2> QED
    <3>1. Pool!Compatible(t)
      BY <2>6 DEF Pool!Compatible, Active
    <3> QED
      BY <2>3, <2>4, <2>5, <3>1, PoolCardinality DEF Pool!Begin, Active
<1>7. ASSUME NEW t \in Tasks, SucceedStep(t) PROVE Pool!End(t)
  <2>1. \A u \in Tasks : task'[u].status = IF u = t THEN "Succeeded" ELSE task[u].status
    BY <1>7 DEF SucceedStep, TypeOK, TaskRecord
  <2>2. task[t].status = "Running" /\ db' = db
    BY <1>7 DEF SucceedStep
  <2>3. /\ t \in Active /\ Active' = Active \ {t}
        /\ Waiting' = Waiting /\ Recorded' = Recorded
    BY <1>1, <2>1, <2>2 DEF WithStatus
  <2> QED
    BY <2>3 DEF Pool!End, Active
<1>8. ASSUME NEW t \in Tasks, FailStep(t) PROVE [Pool!PoolNext]_(Pool!poolVars)
  <2>1. Recorded' = Recorded
    BY <1>8 DEF FailStep
  <2>2. /\ task[t].status \in {"Pending", "Running"}
        /\ task'[t].status \in {"Pending", "Failed"}
        /\ \A u \in Tasks \ {t} :
             \/ task'[u].status = task[u].status
             \/ task[u].status = "Pending" /\ task'[u].status = "Failed"
    BY <1>8, FailureEffect
  <2>3. Active' = Active \ {t} /\ Waiting' \subseteq Waiting \cup {t}
    BY <1>1, <2>2 DEF WithStatus
  <2>4. CASE task[t].status = "Pending" \/ task'[t].status = "Failed"
    <3>1. Waiting' \subseteq Waiting
      BY <2>2, <2>4 DEF WithStatus
    <3>2. Active' = Active \/ \E u \in Active : Active' = Active \ {u}
      BY <2>3
    <3> QED
      BY <2>1, <3>1, <3>2 DEF Pool!GiveUp, Pool!PoolNext, Active
  <2>5. CASE task[t].status = "Running" /\ task'[t].status = "Pending"
    <3>1. t \in Active
      BY <1>1, <2>5 DEF WithStatus
    <3>2. Waiting' = Waiting \cup {t}
      <4>1. \A u \in Tasks \ {t} : task'[u].status = task[u].status
        BY <1>8, <2>5, RetryEffect
      <4> QED
        BY <2>5, <4>1 DEF WithStatus
    <3> QED
      BY <2>1, <2>3, <3>1, <3>2 DEF Pool!End, Pool!PoolNext, Active
  <2> QED
    BY <2>2, <2>4, <2>5
<1>9. ASSUME NEW n \in Tasks, StartFresh(n) \/ Resume(n) PROVE Pool!Submit
  <2>1. task = NoTasks /\ db' = db
    BY <1>2, <1>9 DEF StartFresh, Resume, CountInv
  <2>2. Waiting = {} /\ Active = {}
    BY <1>1, <2>1 DEF NoTasks, Absent, WithStatus
  <2>3. \A t \in Tasks :
          /\ task'[t].status # "Running"
          /\ task'[t].status = "Pending" => ~Decided(t, db[t])
    <3>1. CASE StartFresh(n)
      BY <3>1 DEF StartFresh, Fresh, Absent, NoTasks, Decided
    <3>2. CASE Resume(n)
      <4>1. \A t \in Tasks : Decided(t, db[t]) => t \in Known(db)
        BY DEF Decided, Known
      <4>2. \A t \in Tasks : Decided(t, db[t]) => db[t].status # "Pending"
        BY DEF Decided
      <4> QED
        BY <3>2, <4>1, <4>2, ResumeEffect
    <3> QED
      BY <1>9, <3>1, <3>2
  <2>4. Active' = {} /\ Waiting' \subseteq Tasks \ Recorded /\ Recorded' = Recorded
    BY <1>1, <2>1, <2>3 DEF WithStatus
  <2> QED
    BY <2>2, <2>4 DEF Pool!Submit, Active
<1> QED
  BY <1>3, <1>4, <1>5, <1>6, <1>7, <1>8, <1>9, StepKinds DEF Pool!PoolNext

\* The scheduler implements the pool its users rely on: locks and cells are respected
\* and a recorded task never runs again, crash or not.
THEOREM PoolRefinement == Spec => RefinesPool
<1>1. Init => Pool!PoolInit
  BY DEF Init, NoTasks, Absent, WithStatus, Decided, Pool!PoolInit
<1>2. /\ TypeOK /\ TypeOK' /\ LocksInv /\ LocksInv' /\ BooksInv /\ [Next]_vars
      => [Pool!PoolNext]_(Pool!poolVars)
  BY PoolStep
<1> QED
  BY <1>1, <1>2, Bookkeeping, PTL DEF Spec, RefinesPool, Pool!PoolSpec
===============================================================================
