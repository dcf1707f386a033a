----------------------------- MODULE Orchestrator -----------------------------
(***************************************************************************)
(* eon-orchestrator: one process that runs a queue of workflow tasks, each *)
(* in a worker process of its own, on at most CellCount cells at a time.   *)
(* The scheduler is a single thread that polls; the workers, the clock, a  *)
(* crash of the scheduler and the user who restarts it with --resume       *)
(* interleave with it.  A SQLite file keeps the task table across crashes. *)
(*                                                                         *)
(* Tasks are numbered in the order they were enqueued, as the code numbers *)
(* them (taskId = enqueueOrder = ++taskCounter).                           *)
(***************************************************************************)
EXTENDS SchedulingPolicy, FiniteSets

CONSTANTS MaxTasks,      \* bound: how many tasks are ever enqueued
          MaxResumes,    \* bound: how often the user restarts with --resume
          CellCount,     \* --cells
          Policy,        \* --scheduling-policy
          StopOnFailure, \* --stop-on-failure
          Backoff,       \* --retry-backoff-ms, in ticks of the model's clock
          MaxRetries,    \* per task: --max-task-retries when it was enqueued
          Priority,      \* per task: the workflow's "priority"
          LockNames,     \* the lock names the workflows use
          ResourceLocks, \* per task: the workflow's "resourceLocks"
          SaveMayFail    \* may saving the state file fail

Tasks == 1..MaxTasks

ASSUME BoundsAssumption ==
  /\ MaxTasks \in Nat \ {0} /\ MaxResumes \in Nat
  /\ CellCount \in Nat \ {0} /\ Backoff \in Nat
ASSUME OptionsAssumption ==
  /\ Policy \in PolicyNames
  /\ StopOnFailure \in BOOLEAN /\ SaveMayFail \in BOOLEAN
ASSUME WorkflowsAssumption ==
  /\ MaxRetries \in [Tasks -> Nat]
  /\ Priority \in [Tasks -> Int]
  /\ ResourceLocks \in [Tasks -> SUBSET LockNames]

VARIABLES
  \* memory of the orchestrator process
  task,        \* allTasks: status, attempts made, earliest next run
  running,     \* runningTasks: slot, task and the state of its worker process
  heldLocks,
  nextSlotId,
  schedulingHalted,
  tasksSucceeded, tasksFailed,
  dispatchNow, \* nowMs of the startRunnableTasks call in progress
  cursor,      \* the reaping loop has passed the slots >= cursor
  pc,          \* where the scheduler is; "down" when there is no process
  resumeAt,    \* where it goes on after the save in progress
  \* outside the process
  db,          \* the task table of the state file
  exitCode,    \* how the last process ended
  now,         \* the clock
  orphans,     \* tasks whose worker outlived the process that started it
  resumes,     \* how often --resume was used (bounded by MaxResumes)
  starts       \* history: how often a worker was started for each task

memory == <<task, running, heldLocks, nextSlotId, schedulingHalted,
            tasksSucceeded, tasksFailed>>
control == <<dispatchNow, cursor, pc, resumeAt>>
outside == <<db, exitCode, now, orphans, resumes, starts>>
vars == <<memory, control, outside>>

-------------------------------------------------------------------------------
(* Task records *)

Statuses == {"Absent", "Pending", "Running", "Succeeded", "Failed"}
TaskRecord == [status : Statuses, attempts : Nat, nextRun : Nat]

Absent  == [status |-> "Absent",  attempts |-> 0, nextRun |-> 0]
Fresh   == [status |-> "Pending", attempts |-> 0, nextRun |-> 0]
NoTasks == [t \in Tasks |-> Absent]

Known(table) == {t \in Tasks : table[t].status # "Absent"}
WithStatus(table, status) == {t \in Tasks : table[t].status = status}

ShouldRetry(t, attempts) == attempts < MaxRetries[t] + 1

Decided(t, record) ==
  \/ record.status = "Succeeded"
  \/ record.status = "Failed" /\ ~ShouldRetry(t, record.attempts)

\* A mutant: the locks of a task are not handed to the policy.
MutantDescriptor(t) ==
  [priority |-> Priority[t], enqueueOrder |-> t, nextRunAt |-> task[t].nextRun,
   deadline |-> 0, resourceLocks |-> {}, isPending |-> task[t].status = "Pending"]

\* selectRunnableTaskIndex: the descriptors leave deadline at 0.
Descriptor(t) ==
  [priority |-> Priority[t], enqueueOrder |-> t, nextRunAt |-> task[t].nextRun,
   deadline |-> 0, resourceLocks |-> ResourceLocks[t],
   isPending |-> task[t].status = "Pending"]

SelectedTasks ==
  Selected(Policy, [t \in Tasks |-> Descriptor(t)], heldLocks, dispatchNow)

-------------------------------------------------------------------------------
(* Workers *)

WorkerStates == {"running", "overdue", "ok", "failed"}
Slot == [slot : Nat, task : Tasks, proc : WorkerStates]

Alive(r) == r.proc \in {"running", "overdue"}

SetProc(rs, proc) == {[slot |-> r.slot, task |-> r.task, proc |-> proc] : r \in rs}

-------------------------------------------------------------------------------
(* Starting a process *)

Init ==
  /\ task = NoTasks /\ running = {} /\ heldLocks = {} /\ nextSlotId = 1
  /\ schedulingHalted = FALSE /\ tasksSucceeded = 0 /\ tasksFailed = 0
  /\ dispatchNow = 0 /\ cursor = 0 /\ pc = "down" /\ resumeAt = "boot"
  /\ db = NoTasks /\ exitCode = "none" /\ now = 1 /\ orphans = {} /\ resumes = 0
  /\ starts = [t \in Tasks |-> 0]

\* A mutant: the save after a start is forgotten.
MutantSaveThen(next) ==
  pc' = (IF next = "dispatch" THEN "dispatch" ELSE "save") /\ resumeAt' = next

\* A save of the whole task table is due; the scheduler then goes on at `next`.
SaveThen(next) == pc' = "save" /\ resumeAt' = next

\* What every process starts with, and the save before its first dispatch.
BootMemory ==
  /\ running' = {} /\ heldLocks' = {} /\ nextSlotId' = 1
  /\ schedulingHalted' = FALSE /\ dispatchNow' = 0 /\ cursor' = 0
  /\ exitCode' = "none"
  /\ SaveThen("boot")

\* The process ends, one way or another, and with it everything in memory.
ProcessGone ==
  /\ task' = NoTasks /\ running' = {} /\ heldLocks' = {} /\ nextSlotId' = 1
  /\ schedulingHalted' = FALSE /\ tasksSucceeded' = 0 /\ tasksFailed' = 0
  /\ dispatchNow' = 0 /\ cursor' = 0 /\ pc' = "down" /\ resumeAt' = "boot"

\* A run without --resume on the first n workflows.
StartFresh(n) ==
  /\ pc = "down" /\ db = NoTasks
  /\ task' = [t \in Tasks |-> IF t <= n THEN Fresh ELSE Absent]
  /\ tasksSucceeded' = 0 /\ tasksFailed' = 0
  /\ BootMemory
  /\ UNCHANGED <<db, now, orphans, resumes, starts>>

\* A mutant: a resumed run starts over with every task.
MutantResumed(t, record) == [record EXCEPT !.status = "Pending"]

\* What --resume makes of a task of the state file: decided tasks stay, all
\* others (also those that were running or skipped) are pending again.  The
\* attempts made are kept and not compared with the limit.
Resumed(t, record) ==
  IF Decided(t, record) THEN record ELSE [record EXCEPT !.status = "Pending"]

\* --resume, with the workflows up to n appended to the saved queue.
Resume(n) ==
  /\ pc = "down" /\ resumes < MaxResumes
  /\ Known(db) # {} /\ Known(db) \subseteq 1..n
  /\ task' = [t \in Tasks |->
                IF t \in Known(db) THEN Resumed(t, db[t])
                ELSE IF t <= n THEN Fresh ELSE Absent]
  /\ tasksSucceeded' = Cardinality(WithStatus(task', "Succeeded"))
  /\ tasksFailed' = Cardinality(WithStatus(task', "Failed"))
  /\ BootMemory
  /\ resumes' = resumes + 1
  /\ UNCHANGED <<db, now, orphans, starts>>

-------------------------------------------------------------------------------
(* saveSchedulerState: one transaction, all tasks or nothing *)

\* Where the scheduler continues; entering startRunnableTasks reads the clock.
GoTo(next) ==
  IF next = "boot"
  THEN pc' = "dispatch" /\ dispatchNow' = now
  ELSE pc' = next /\ UNCHANGED dispatchNow

SaveCommits ==
  /\ pc = "save"
  /\ db' = task
  /\ GoTo(resumeAt)
  /\ UNCHANGED <<memory, cursor, resumeAt, exitCode, now, orphans, resumes, starts>>

\* A failed save is logged and the run goes on; only the first one ends it.
SaveFails ==
  /\ pc = "save" /\ SaveMayFail
  /\ \/ resumeAt = "boot" /\ ProcessGone /\ exitCode' = "5"
     \/ /\ resumeAt # "boot" /\ GoTo(resumeAt)
        /\ UNCHANGED <<memory, cursor, resumeAt, exitCode>>
  /\ UNCHANGED <<db, now, orphans, resumes, starts>>

-------------------------------------------------------------------------------
(* A failed attempt *)

\* haltPendingTasksAfterFailure on the table: every pending task is skipped.
SkipPending(table) ==
  [t \in Tasks |-> IF table[t].status = "Pending"
                   THEN [table[t] EXCEPT !.status = "Failed", !.nextRun = 0]
                   ELSE table[t]]

\* A mutant: the skipped tasks are not counted as failed.
MutantFailForGood(t, table) ==
  LET failed == [table EXCEPT ![t].status = "Failed"]
      halt   == StopOnFailure /\ ~schedulingHalted
  IN  /\ task' = IF halt THEN SkipPending(failed) ELSE failed
      /\ tasksFailed' = tasksFailed + 1
      /\ schedulingHalted' = (schedulingHalted \/ halt)

FailForGood(t, table) ==
  LET failed == [table EXCEPT ![t].status = "Failed"]
      halt   == StopOnFailure /\ ~schedulingHalted
  IN  /\ task' = IF halt THEN SkipPending(failed) ELSE failed
      /\ tasksFailed' = tasksFailed + 1
           + (IF halt THEN Cardinality(WithStatus(failed, "Pending")) ELSE 0)
      /\ schedulingHalted' = (schedulingHalted \/ halt)

\* What follows a failed attempt of t, `table` counting that attempt.
AttemptFails(t, table) ==
  IF ShouldRetry(t, table[t].attempts)
  THEN /\ task' = [table EXCEPT ![t].status = "Pending",
                                ![t].nextRun = now + Backoff * table[t].attempts]
       /\ UNCHANGED <<tasksFailed, schedulingHalted>>
  ELSE FailForGood(t, table)

-------------------------------------------------------------------------------
(* startRunnableTasks *)

\* The condition of the loop.  schedulingHalted is tested once, on entry (see
\* ReapDone), and not again after a task that failed for good in the loop.
MayStart == pc = "dispatch" /\ Cardinality(running) < CellCount

\* A mutant: the attempt is not counted.
MutantBegun(t) == [task EXCEPT ![t].status = "Running", ![t].nextRun = 0]

\* The task record of the attempt that begins.
Begun(t) == [task EXCEPT ![t] = [status |-> "Running",
                                 attempts |-> task[t].attempts + 1,
                                 nextRun |-> 0]]

\* The worker starts: the task takes its locks and a slot.
StartWorker(t) ==
  /\ MayStart /\ t \in SelectedTasks
  /\ task' = Begun(t)
  /\ running' = running \cup {[slot |-> nextSlotId, task |-> t, proc |-> "running"]}
  /\ heldLocks' = heldLocks \cup ResourceLocks[t]
  /\ nextSlotId' = nextSlotId + 1
  /\ starts' = [starts EXCEPT ![t] = @ + 1]
  /\ SaveThen("dispatch")
  /\ UNCHANGED <<schedulingHalted, tasksSucceeded, tasksFailed, dispatchNow,
                 cursor, db, exitCode, now, orphans, resumes>>

\* The worker does not start within waitForStarted(5000).
StartFails(t) ==
  /\ MayStart /\ t \in SelectedTasks
  /\ AttemptFails(t, Begun(t))
  /\ SaveThen("dispatch")
  /\ UNCHANGED <<running, heldLocks, nextSlotId, tasksSucceeded, dispatchNow,
                 cursor, outside>>

HasPendingWork ==
  WithStatus(task, "Pending") \cup WithStatus(task, "Running") # {}

\* A mutant: the main loop ends as soon as no worker runs.
MutantLoopAgain == running # {}

LoopAgain == HasPendingWork \/ running # {}

\* Where startRunnableTasks returns to: the condition of the main loop.
AfterDispatch == IF LoopAgain THEN "health" ELSE "finish"

\* Nothing (more) to start.
DispatchDone ==
  /\ pc = "dispatch"
  /\ ~MayStart \/ SelectedTasks = {}
  /\ pc' = AfterDispatch
  /\ dispatchNow' = 0
  /\ UNCHANGED <<memory, cursor, resumeAt, outside>>

-------------------------------------------------------------------------------
(* The main loop: health check, reaping of finished workers, dispatch *)

\* The check is not due (it runs every ten seconds).
HealthSkip ==
  /\ pc = "health"
  /\ pc' = "reap" /\ cursor' = nextSlotId
  /\ UNCHANGED <<memory, dispatchNow, resumeAt, outside>>

\* The check is due: workers beyond cellTimeoutMs are killed.
HealthKill ==
  /\ pc = "health"
  /\ \E r \in running : r.proc = "overdue"
  /\ running' = {r \in running : r.proc # "overdue"}
                  \cup SetProc({r \in running : r.proc = "overdue"}, "failed")
  /\ pc' = "reap" /\ cursor' = nextSlotId
  /\ UNCHANGED <<task, heldLocks, nextSlotId, schedulingHalted, tasksSucceeded,
                 tasksFailed, dispatchNow, resumeAt, outside>>

\* The reaping loop goes down the list, and slots are appended in ascending
\* order: the next element is the one with the largest slot below the cursor.
NextToReap ==
  {r \in running : /\ r.slot < cursor
                   /\ \A q \in running : q.slot < cursor => q.slot <= r.slot}

ReapSkips(r) ==
  /\ pc = "reap" /\ r \in NextToReap
  /\ Alive(r)
  /\ cursor' = r.slot
  /\ UNCHANGED <<memory, dispatchNow, pc, resumeAt, outside>>

\* A mutant: the locks are released only when the task is decided.
MutantReleaseSlot(r) ==
  /\ running' = running \ {r}
  /\ heldLocks' = IF task'[r.task].status = "Pending" THEN heldLocks
                  ELSE heldLocks \ ResourceLocks[r.task]
  /\ UNCHANGED nextSlotId

ReleaseSlot(r) ==
  /\ running' = running \ {r}
  /\ heldLocks' = heldLocks \ ResourceLocks[r.task]
  /\ UNCHANGED nextSlotId

ReapSucceeded(r) ==
  /\ pc = "reap" /\ r \in NextToReap
  /\ r.proc = "ok"
  /\ task' = [task EXCEPT ![r.task].status = "Succeeded"]
  /\ tasksSucceeded' = tasksSucceeded + 1
  /\ ReleaseSlot(r)
  /\ cursor' = r.slot
  /\ SaveThen("reap")
  /\ UNCHANGED <<schedulingHalted, tasksFailed, dispatchNow, outside>>

ReapFailed(r) ==
  /\ pc = "reap" /\ r \in NextToReap
  /\ r.proc = "failed"
  /\ AttemptFails(r.task, task)
  /\ ReleaseSlot(r)
  /\ cursor' = r.slot
  /\ SaveThen("reap")
  /\ UNCHANGED <<tasksSucceeded, dispatchNow, outside>>

\* A mutant: startRunnableTasks does not ask whether scheduling was halted.
MutantReapDone ==
  /\ pc = "reap" /\ NextToReap = {}
  /\ pc' = "dispatch" /\ dispatchNow' = now
  /\ cursor' = 0
  /\ UNCHANGED <<memory, resumeAt, outside>>

\* The loop is through and startRunnableTasks is called, which returns at once
\* when scheduling was halted, and reads the clock otherwise.
ReapDone ==
  /\ pc = "reap" /\ NextToReap = {}
  /\ \/ ~schedulingHalted /\ pc' = "dispatch" /\ dispatchNow' = now
     \/ schedulingHalted /\ pc' = AfterDispatch /\ UNCHANGED dispatchNow
  /\ cursor' = 0
  /\ UNCHANGED <<memory, resumeAt, outside>>

\* The end of main: exit code by tasksFailed, unless the last save fails.
Finish ==
  /\ pc = "finish"
  /\ ProcessGone
  /\ \/ db' = task /\ exitCode' = IF tasksFailed = 0 THEN "0" ELSE "12"
     \/ SaveMayFail /\ exitCode' = "6" /\ UNCHANGED db
  /\ UNCHANGED <<now, orphans, resumes, starts>>

-------------------------------------------------------------------------------
(* The environment *)

ReplaceProc(r, proc) == running' = (running \ {r}) \cup SetProc({r}, proc)

\* A worker ends by itself, with exit code 0 or not (a crash counts as not).
WorkerExits(r, proc) ==
  /\ r \in running /\ Alive(r) /\ proc \in {"ok", "failed"}
  /\ ReplaceProc(r, proc)
  /\ UNCHANGED <<task, heldLocks, nextSlotId, schedulingHalted, tasksSucceeded,
                 tasksFailed, control, outside>>

\* A worker has been running for longer than cellTimeoutMs.
WorkerOverdue(r) ==
  /\ r \in running /\ r.proc = "running"
  /\ ReplaceProc(r, "overdue")
  /\ UNCHANGED <<task, heldLocks, nextSlotId, schedulingHalted, tasksSucceeded,
                 tasksFailed, control, outside>>

\* The clock; it only moves while a pending task waits for it, since nothing
\* else in the model reads it.
Tick ==
  /\ \E t \in Tasks : task[t].status = "Pending" /\ task[t].nextRun > now
  /\ now' = now + 1
  /\ UNCHANGED <<memory, control, db, exitCode, orphans, resumes, starts>>

\* The process dies: its memory is gone, and any of its workers may live on
\* (nothing kills the children of a dead orchestrator).
Crash ==
  /\ pc # "down"
  /\ \E survivors \in SUBSET {r \in running : Alive(r)} :
       orphans' = orphans \cup {r.task : r \in survivors}
  /\ ProcessGone
  /\ exitCode' = "crash"
  /\ UNCHANGED <<db, now, resumes, starts>>

OrphanExits(t) ==
  /\ t \in orphans
  /\ orphans' = orphans \ {t}
  /\ UNCHANGED <<memory, control, db, exitCode, now, resumes, starts>>

\* No process, and the user leaves it at that.
Stopped == pc = "down" /\ UNCHANGED vars

-------------------------------------------------------------------------------

Dispatch == DispatchDone \/ \E t \in Tasks : StartWorker(t) \/ StartFails(t)

Reap == ReapDone \/ \E r \in running : ReapSkips(r) \/ ReapSucceeded(r) \/ ReapFailed(r)

Save == SaveCommits \/ SaveFails

Scheduler == Save \/ Dispatch \/ HealthSkip \/ HealthKill \/ Reap \/ Finish

Environment ==
  \/ \E r \in running : WorkerOverdue(r) \/ \E proc \in {"ok", "failed"} : WorkerExits(r, proc)
  \/ Tick
  \/ Crash
  \/ \E t \in Tasks : OrphanExits(t)

User == \E n \in Tasks : StartFresh(n) \/ Resume(n)

Next == Scheduler \/ Environment \/ User \/ Stopped

Spec == Init /\ [][Next]_vars

\* The scheduler thread runs, time passes for every worker and every backoff,
\* and the health check, due every ten seconds, comes round again and again.
\* No worker is assumed to end by itself, and no user to do anything.
Fairness ==
  /\ WF_vars(Scheduler)
  /\ SF_vars(HealthKill)
  /\ WF_vars(Tick)
  /\ WF_vars(\E r \in running : WorkerOverdue(r))

FairSpec == Spec /\ Fairness

-------------------------------------------------------------------------------
(* Properties *)

PcValues == {"down", "save", "dispatch", "health", "reap", "finish"}

TypeOK ==
  /\ task \in [Tasks -> TaskRecord] /\ db \in [Tasks -> TaskRecord]
  /\ running \subseteq Slot
  /\ heldLocks \subseteq LockNames
  /\ nextSlotId \in Nat /\ cursor \in Nat
  /\ schedulingHalted \in BOOLEAN
  /\ tasksSucceeded \in Nat /\ tasksFailed \in Nat
  /\ dispatchNow \in Nat /\ now \in Nat /\ resumes \in Nat
  /\ pc \in PcValues /\ resumeAt \in {"boot", "dispatch", "reap"}
  /\ exitCode \in {"none", "0", "12", "5", "6", "crash"}
  /\ orphans \subseteq Tasks
  /\ starts \in [Tasks -> Nat]

\* Two tasks that name the same resource lock never run at the same time under
\* one orchestrator (main.cpp:853-947, resourceLocks and heldLocks).
LockExclusion ==
  \A r, q \in running :
    r # q => ResourceLocks[r.task] \cap ResourceLocks[q.task] = {}

\* heldLocks is exactly what the running tasks hold: no lock leaks when a task
\* is retried, fails or is killed, and none is given up early.
HeldLocksExact == heldLocks = UNION {ResourceLocks[r.task] : r \in running}

\* The locks are sound: they exclude, and they neither leak nor end early
\* (main.cpp:853-947, 1066).
LocksSound == LockExclusion /\ HeldLocksExact

\* A task occupies a slot exactly while its status is Running, never two slots,
\* and there are never more slots than cells.
OneSlotPerTask == \A r, q \in running : r.task = q.task => r = q
SlotsAreRunning ==
  \A t \in Tasks : task[t].status = "Running" <=> \E r \in running : r.task = t
WithinCells == Cardinality(running) <= CellCount

SlotsMatchStatuses == OneSlotPerTask /\ SlotsAreRunning /\ WithinCells

\* tasksSucceeded and tasksFailed, from which the exit code is computed, agree
\* with the statuses after every retry, skip and resume.
CountersAgree ==
  pc # "down" =>
    /\ tasksSucceeded = Cardinality(WithStatus(task, "Succeeded"))
    /\ tasksFailed = Cardinality(WithStatus(task, "Failed"))

\* What five places of one pass change stays in step: the slots are those of the
\* running tasks, and the counters are those of the statuses (main.cpp:823-1066).
SlotsSound == TypeOK /\ SlotsMatchStatuses /\ CountersAgree

\* A run that ends with 0 or 12 has decided every task it knew, says so in the
\* state file, and returns 0 exactly when all of them succeeded.
ExitCodeTruthful ==
  exitCode \in {"0", "12"} =>
    /\ Known(db) = WithStatus(db, "Succeeded") \cup WithStatus(db, "Failed")
    /\ exitCode = "0" <=> WithStatus(db, "Failed") = {}

\* The recorded attempts of a task exceed its limit by at most the number of
\* resumes: --resume puts a task that was running back in the queue without
\* looking at its attempts, so each crash can add one.  With a state file that can
\* be written no task gets more workers than that either, although a crash
\* between the start of a worker and the save forgets that start.
AttemptsBounded ==
  \A t \in Tasks :
    /\ task[t].attempts <= MaxRetries[t] + 1 + resumes
    /\ ~SaveMayFail => starts[t] <= MaxRetries[t] + 1 + resumes

\* While nothing is being saved the state file holds what the scheduler has in
\* memory, so that a crash loses at most the transition in progress.
StateFileCurrent ==
  ~SaveMayFail /\ pc \in {"dispatch", "health", "reap", "finish"} => db = task

\* --stop-on-failure: after the first terminal failure no worker is started and
\* no attempt is made, also not by the call of startRunnableTasks in which that
\* failure happened: its loop does not test the flag, and goes on; it finds nothing
\* because the halt has skipped all that was pending.  What becomes pending later,
\* by a retry, is not tried (main.cpp:802-823, 836-902, 1031).
NoStartAfterHalt ==
  [][schedulingHalted =>
       /\ starts' = starts
       /\ \A t \in Tasks : task'[t].attempts <= task[t].attempts]_vars

\* Every process ends: workers that hang are killed, retries run out, and the
\* locks of finished tasks let the blocked ones run.
EveryRunEnds == pc # "down" ~> pc = "down"

\* The scheduler implements the pool its users rely on.
Pool == INSTANCE TaskPool
  WITH Task <- Tasks, Cells <- CellCount, LocksOf <- ResourceLocks,
       waiting <- WithStatus(task, "Pending"),
       active <- {r.task : r \in running},
       recorded <- {t \in Tasks : Decided(t, db[t])}

\* Refinement of TaskPool: pending tasks wait, tasks in a slot are active, and
\* the outcomes the state file would not put back in the queue are recorded.
\* A recorded task never runs again, crash or not (main.cpp:672-711).
RefinesPool == Pool!PoolSpec
===============================================================================
