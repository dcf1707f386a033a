# A TLA+ verification of EonTest

EonTest runs test workflows.  An *orchestrator* process hands workflow files to
*worker* processes; a worker runs one workflow with the *workflow engine*, whose
steps are plugins that use instruments under leases of a *resource manager*.
This directory models the parts whose correctness depends on the order of
events, checks the models with TLC on small instances and proves theorems about
them, for every instance, with TLAPS.

    tlc -workers 2 -config MC_Orchestrator.cfg MC_Orchestrator
    tlapm OrchestratorProofs.tla

All paths below are relative to the repository.

## 1. Inventory

What each part keeps, does and must guarantee.  `PROJECT.json` lists every part
under "components" and the lines that are hard to test under "hazards".

**Orchestrator** (`Orchestrator/src/main.cpp`).  One thread.  State: the task
table (status, attempts, earliest next run), the running slots with their
`QProcess`, `heldLocks`, the counters of succeeded and failed tasks, the halt
flag, and a SQLite file with a copy of the table.  Operations: enqueue or
`--resume`, dispatch (`startRunnableTasks`), health check, reaping, the halt of
`--stop-on-failure`, saving.  It talks to workers through processes and exit
codes.  Hard: worker exits, kills and crashes at any moment, retries with
backoff, resuming from a table that may be behind.  Correct when: lock holders
exclude each other and locks are given back, at most one worker per cell and
task, attempts stay bounded, decided tasks stay decided across crashes, the exit
code tells the truth, every run ends.

**Scheduling policies** (`SchedulingPolicy.h`).  No state: three one-pass
selections over the task table.  Correct when the pass returns the task the
policy's order puts first, and none only if no task can run.

**ResourceManager** (`Runtime/src/ResourceManager.cpp`).  Shared by all threads
of a worker.  State: the table of resources (state, shared count, exclusive
flag), lease and heartbeat tables, a wait-for graph.  Operations: register,
acquire (shared, exclusive, with a timeout), release, renew, preallocate, the
monitor thread that reclaims expired leases and looks for deadlocks.  Hard: five
mutexes taken and dropped inside one operation, opening outside the lock,
reclaiming a lease that is being renewed or released.  Correct when: readers and
writers exclude each other, a lease counts once, a holder's resource is open.

**WorkflowEngine** (`Runtime/src/WorkflowEngine.cpp`).  State: the current step,
the context, visit and transition counts, executed steps, the verdict, pause
signals.  Operations: validate, preallocate, run a step with retries, run a
parallel group, break offers, compensate, clean up, analyze, report.  Hard:
parallel steps over one context, pause/resume/skip signals that arrive at any
time, clean-up on every exit path.  Correct when: it terminates, compensation
runs once per step in reverse order, leases are given back on every path, the
verdict tells what the analyzers found.

**ResourceDependencyAnalyzer** (`Runtime/src/ResourceDependencyAnalyzer.cpp`).
A sequential algorithm: a depth-first list of nodes, a closure in place, a
topological sort.  Correct when dependencies come first and a cycle is reported.

**JobScheduler** (`Runtime/src/JobScheduler.cpp`).  A dispatch thread over a
vector of jobs and agents; submit and cancel come from other threads.  Hard: a
pointer into the vector is used after the lock is gone; cancel races dispatch.
**CellWorker** (`CellWorker.cpp`).  A work queue with one thread, stop and
restart.  Correct when each accepted step gets one answer, in order.
**MatrixManager** (`MatrixManager.cpp`).  Routes of a switch matrix with leases
that take them down, batches with a rollback.  Correct when no route is left
that no lease can take down.
**AlertManager** (`Core/src/AlertManager.cpp`).  Rules, active alerts, cooldowns.
**Plugin host** (`PluginManager.cpp`, `CapabilityRegistry.cpp`).  A table for each
kind of plugin and an index of capabilities.  Correct when a plugin that is
refused leaves no trace and hides no other.

**RuntimeWorker** (`RuntimeWorker/src/main.cpp`).  A worker's main: runs the
engine and polls a control file for pause, resume, skip and abort.
**Studio** (`Studio/src`).  The front end: it starts an orchestrator for each cell,
writes the control file, keeps lists of tasks and steps from telemetry, and edits
workflows.  Hard: one control file for all processes, events of several workers,
long sequences of edits.  Correct when an order is obeyed at most once, the
lists and counters say what happened, and an edited workflow can be saved and
started.
**Workflow files** (`Infrastructure/src/XlsxParser.cpp`).  Spreadsheet rows to steps
and back.

**Plugins** (`Plugins/ScpiStep`, `DoipMaster`, `ModbusMaster`).  Pools of connections
shared by the threads of several workflows, each with a mutex and a life that
ends with the last workflow that uses it; a keep-alive thread.  Hard: closing
against use, answers that come too late or in pieces.
**Protocols** (`Infrastructure/src/Protocols`).  UDS and DoIP: which frame is the answer.
**HardwareManager** (`Infrastructure/src/Hardware/HardwareManager.cpp`).  Buses over
drivers, one driver per type, protocols bound to buses.  Correct when nobody is
left with a driver that is gone.
**Drivers and instruments** (`Drivers`, `Backends`, `InstrumentManager.cpp`).  The
virtual bus with receivers that wait; the list of instruments with their ports.
**Response decoder** (`ResponseDecoder.cpp`).  Numbers cut from an answer, a formula
applied to them.

**Persistence** (`Infrastructure/src/Persistence`).  A collector of the events of a
run, results written in one transaction, recipes with versions.  Hard: threads
of a parallel group, crashes, readers on other connections.

**Domain**, **SDK types**, **Application**, the other plugins, bench settings and QML:
interfaces, parsing, data and forms.  **ThirdParty**: vendored.

## 2. Plan

1. Scheduling policies and the orchestrator; the abstract pool it implements;
   the selection, locks, bookkeeping and the refinement proved.  *Done.*
2. ResourceManager: leases and opening with every interleaving of its mutexes,
   the lease table it implements; exclusion and the refinement proved.  *Done.*
3. WorkflowEngine: transitions, limits, parallel groups, pause, compensation and
   clean-up; the saga it implements, that it ends; the refinement proved.  *Done.*
4. The services of a process: JobScheduler (proved), CellWorker, MatrixManager,
   AlertManager, stores, tables of plugins and instruments, and the algorithms.  *Done.*
5. The bench: connections of the plugins, protocols, hardware, virtual bus.  *Done.*
6. Studio: control file with its worker and orchestrator, lists, editor, tables.  *Done.*
7. The safety of the services, the bench and Studio, and the wakeups and deadlock
   detection of the ResourceManager, proved.  *Done.*
8. The algorithms over lists and graphs, proved for every input: the dependency
   analysis, the tables and the editor of Studio; the safety of the alerts.  *Done.*
9. What remains worth doing: the expression engine; preallocation inside the
   engine with leases instead of a choice.

Each stage has one MC module.  The modules of stages 4 to 6 share no state, so
their MC module runs one of them at a time, `subject`: a run of several is one
question per subsystem and no product of independent state spaces.  What such a run
checks of a subsystem is stated in the module of the subsystem (`Services` joins
three pairs), so that the theorems are about the same formulas, under the
specification of the subsystem alone (`ScpiSpec`, `StoresSpec`, ...).

## 3. Modules

**SchedulingPolicy** states the comparison each policy makes (`Beats`) and the
index a selection must return (`Selected`), without the loop.
**SchedulingScan** is the loop: one step per iteration, with `i` and `best` as in
`selectNext`.  The task list, the held locks and the policy are arbitrary
initial values.

**Orchestrator** is the scheduler process with its environment.  A task is a
record `[status, attempts, nextRun]`, `Absent` before it is enqueued; a running
slot carries the state of its process (`running`, `overdue`, `ok`, `failed`).
`pc` says where the single thread is: `save` (a `saveSchedulerState` is due, after
which it goes on at `resumeAt`), `dispatch`, `health`, `reap`, `finish`, and `down`
without a process.

| action | code (`main.cpp`) |
|---|---|
| `StartFresh`, `Resume` | 549-761: enqueue, `--resume` |
| `SaveCommits`, `SaveFails` | 358-459 and its callers' error branches |
| `StartWorker`, `StartFails`, `DispatchDone` | 835-959, 972 |
| `HealthSkip`, `HealthKill` | 975-996 |
| `ReapSkips`, `ReapSucceeded`, `ReapFailed`, `ReapDone` | 998-1089 |
| `Finish` | 1091-1123 |
| `WorkerExits`, `WorkerOverdue`, `Tick`, `Crash`, `OrphanExits` | the environment |

The save is a step of its own because a crash can fall between a transition and
its save; everything else a handler does is in its action (a reaped failure
counts, retries or fails for good, skips the pending tasks when scheduling halts
and releases locks and slot in one step: no other actor sees what is between).
The halt flag is tested where the code tests it, once per call of `startRunnableTasks`
(`ReapDone`): the loop in which a task fails for good goes on.
Slots are a set, and the order of the reaping loop (descending) is kept by a
cursor over slot numbers.  Left out: argument and workflow parsing, telemetry,
`lastError`, exit codes of workers other than zero and not zero, the columns of
the SQLite tables.  A `findTaskIndexById` that fails (1007-1011) cannot happen:
slots only name tasks of the table.

**TaskPool** is what the orchestrator promises its user: waiting tasks begin when
a cell and their locks are free, end and wait again or are given up, and an
outcome that has been recorded is final, crash or not.  `RefinesPool` checks that
the orchestrator implements it: pending tasks wait, tasks in a slot are active,
and tasks the state file would not put back in the queue are recorded.

**ResourceManager** is the manager as its threads see it.  One step is what a
thread does under one acquisition of a mutex; where the code unlocks an entry to
call back (253-255, 471-475) a step ends.  `releaseLease` keeps `globalMutex_`
while it calls back, so other steps that need it wait for `GlobalFree`.

| action | code (`ResourceManager.cpp`) |
|---|---|
| `Register`, `Unregister` | 145-218 |
| `Acquire`, `StartOpening`, `Opened`, `OpenFails` | 220-258: lookup, opening outside the mutex |
| `Grant`, `GiveUp`, `Sleep`, `WakeUp` | 260-347: the waiting loop, the lease and its heartbeat |
| `Release`, `Unmap`, `Account`, `Notify` | 110-121, 432-479: in the owner or in the monitor |
| `Renew`, `Expire` | 485-493, 513-514 |
| `StartMonitor`, `StopMonitor`, `MonitorTest` | 495-503, 560-567 |
| `Detect` (`Chain`, `Victims`, `Preempted`) | 573-627 |
| `Scan`, `NextExpired`, `EraseHeartbeat`, `CloseExpired`, `PassDone` | 508-556, 434-437 |

`Unregister` assumes that no thread is acquiring that resource, as its only
caller (ScpiStepPlugin) makes sure: `acquire` keeps a pointer into the table
after it has unlocked it.  A release in two threads at once is decided by who
takes the lease out of `leaseMap_`; the test for a missing entry that follows
(451-453) never fails (`LeasedIsRegistered`) and is not an action.  `preallocate`
and `preallocateAll` are an acquire and a release.  Time is abstract: a heartbeat
is fresh or stale, and a timeout may end any wait.  The local variables of
`acquire` and the argument of `releaseLease` are reset when the call returns.  In
the repository nobody starts the monitor; the model has it as the library offers
it.  Left out: the destructor, the SCPI handles, the events themselves.

**LeaseTable** is what the manager promises: numbered leases, each granted once
and taken back once, compatible ones only on a resource at a time.
`RefinesLeases` maps a lease to "held" from its grant until it has been taken off
the entry (`Accounted`), which spans the steps between `leaseMap_` and the entry.

**WorkflowEngine** is one run of a workflow definition, an arbitrary member of
`Workflows` (the worker process makes an engine, runs one workflow and ends).  `pc`
says where the thread of `executeWorkflow` is: the `loop` over the steps, a break
`offer`, `paused`, `running` a step or a group, `undo`, `report`.  `task[s]` is the call of
`runStep` for step `s`; the threads of a parallel group are the tasks of its members.

| action | code (`WorkflowEngine.cpp`) |
|---|---|
| `Begin`, `Reject` | 354-464, 127-257: validation, preallocation |
| `TooManyTransitions`, `MissingOrLoops`, `Enter`, `PassGroup` | 800-843, 948-963 |
| `OfferContinue/Pause/Skip/Abort`, `PauseEnds` | 845-891 and 966-1020, one for both |
| `StepSkipped`, `StepWithoutPlugin`, `StepBegins` | 570-610 |
| `Succeeds`, `Retries`, `FailsSoftly`, `StepTolerated`, `FailsHard` | 611-686, 758-794 |
| `Collect` in `Analyze`, `Record` | 688-757: the verdict is read, then written |
| `StepBreaks`, `StepReturns`, `GroupReturns` | 911-963, 1022-1106 |
| `PostWorkflow`, `Reported`, `ReportFails` | 1109-1232 |
| `Undo`, `FailureEnds` | 466-553 |
| `ResumeExecution`, `SkipStep` | `WorkflowEngine.h:119-120` |

The context is shared by the threads of a group without a lock.  Of the data races
this makes, the model has those on `executedStepIds` (two appends may leave one entry), on
the collected analyzer results (likewise) and on the verdict (a merge writes over another); one that crashes the process is
the crash of a worker in the Orchestrator's model.  Of the context's values it keeps whose
parameters were merged last; a condition on them may come out either way.  An
analyzer may find a pass, a failure or nothing: the engine's reading of the context
(`AnalyzerResult.h:72-77`) yields no other status.  `abortSignal_` is never set and
`activeLeases_` never filled, so neither is a variable.  `finished`, `executions`,
`foundFailure` and `skips` are history.  `VerdictTruthful` compares the verdicts with the last two,
which no merge writes: what was found and what was skipped.

**Saga** is what the engine promises about compensation: steps are done until the
run ends or fails; a failed run undoes what it has done, last first, runs nothing
twice for it, and only then is over.  `RefinesSaga` maps the executed steps to what
is done and, while the engine compensates, those up to `undoIndex`.

**JobScheduler** has one action per critical section of `jobsMutex_`: clients
(`SubmitJob`, `CancelJob`, `RegisterAgent`, `StartScheduler`, `StopScheduler`) and the
dispatch thread (`SelectJob`, `NoAgent`, `SendJob`, `AgentSucceeds`, `AgentFails`).  The pointer the
thread keeps after unlocking (139) is a job number and a flag `dangling`, set by a
submission that moves the vector; what is then written through it goes nowhere
(`AgentAnswersDangling`), or tears the record.  `raced` and `torn` are history: the jobs
that were cancelled between selection and marking, or moved under the thread.  `start` tests `running_` alone (97); that it
finds no dispatch thread left is due to `stop`, which returns only after its join, and to the owner, who calls one
after the other.  A `start` of another thread within `stop` would replace a joinable `std::thread`, which ends the
program, and is left out.

**CellWorker**: the queue, the thread with its wait, start, stop and restart (49-139).
**MatrixManager**: one action per critical section of `routesMutex_` and per access to
the atomic count; clients route, drop leases (`Dropped`) and ask for batches, which fail at any
entry.
**AlertManager**: rules, alerts and what is left of their cooldowns; a gauge breaches or does not.
**ResultStore**: the events of the engine reach the collector in the thread that
publishes them; `save` is one step per statement; other connections read in
two statements and purge in between; the process may crash.  A database is the set of
results and, for each, its step rows in the order of their ids.
**RecipeStore**: two statements per save, from two editors, with a clock of seconds.
**DependencyAnalyzer**: one step per call or return of `buildTree`, per node of a pass of
`expandTree` and per resource taken off Kahn's queue.  A graph gives every name its
dependencies in order, or `Unknown`; `GraphsAssumption` says that every name that occurs is one it has.
**ResponseDecoder**: `Decode` and the parser `Expression`, `Term`, `Factor` with the registers
`result` and `rhs` that all its activations share; the references are the digits of
a number (`DecodingExact`) and the sentences of the grammar with their trees (`Sentences`).
A byte has two bits and a word two bytes; the shift by more than a word, which is undefined,
is any word.  It declares recursive operators and is checked only.
**PluginHost**: `ReadFile` is the body of the loop over the files (38-104), `ReadFiles` the loop,
`LoadPlugins` a whole load; `RegisterPlugin` and `ClearRegistry` are those of CapabilityRegistry.
**InstrumentManager**: `ConnectEntry` is the body of `connectAll`, `Connected` its loop; an object is
a number, and keeps its port after it has fallen out of the map.
**Services** joins cell and matrix, the two stores, and the tables of plugins and instruments, for the
properties a run checks of them; they share no state.

**ScpiPool** (`executeStep` between its locks, `postWorkflow`), **DoipLayer** (the stream, frames in
two parts, which frame is taken), **DoipMaster** (session, steps, keep-alive thread, lock and
close over DoipLayer), **ModbusMaster** (pool, mutex of a connection, opening, request, the
pieces of an answer, judgement and close; the slave may be slow, answer late or with an exception), **UdsClient**
(the frames on a CAN bus against request and answer), **VirtualBus** (receivers
waiting on a condition variable, delivery, replay, close) and **HardwareManager** (files of drivers,
buses, protocols, `unloadAll`) model one component each; a
connection is the number of its opening, so that a pointer to one that is gone
differs from one to its successor.

**ControlFile** composes three programs over one file: Studio's buttons, which truncate and then
write it, an orchestrator for each run of a cell, and the workers, which read it at every break and while they
are paused (RuntimeWorker 165) and delete it in a second step, which may fail without anyone looking (39-41).
A worker takes as many steps as it likes, so that nothing but an order is sure to end it.
**TaskList** is what Studio makes of the telemetry of orchestrator and engine: task rows,
step rows with their ids, status and result (`StepFinished`, 1288-1368, and for the events of analyzers,
which name no step, `StepAnalyzed`, 1370-1398), counters and their correction on a retry.
**WorkflowEditor** is the list of nodes and connections, entry and selection; `Saved` and `Load`
are toJson and loadFromJson, `ReloadTable` goes through a table.
**WorkflowSheet** reads rows to steps (`Parsed`) and writes steps to rows (`Written`), and splits
the text of a configuration cell (`Segments`) character by kind of character.  The assumptions are
about the files: a row is a row, a saved step has a plugin, an id and one of the two policies the editor
offers, and an id is not an empty cell; in the editor's, the ids of a file written by hand are typed
and its entry, where it names one, is a step.
**ListLoops** has the loop that several of them contain: `Picked` copies what a list has at some positions.

## 4. Runs

A property that a run checks is often a conjunction of parts of one module, each
with its own comment there; TLC says which part fails when it is run alone.

| run | properties | instance |
|---|---|---|
| `orchestrator` | `LocksSound`, `AttemptsBounded`, `StateFileCurrent`, `ExitCodeTruthful`, `RefinesPool`, `EveryRunEnds` | 3 tasks, 2 cells, 2 locks, 1 resume, retries; 670,000 states |
| `stop_on_failure` | `SlotsSound`, `NoStartAfterHalt` | 3 tasks without locks, fifo, saves may fail; 920,000 |
| `leases` | `LeasesSound`, `NoMissedWakeup`, `RefinesLeases` | 2 threads, the monitor, 1 resource, 3 leases, both modes; 650,000 |
| `lease_deadlock` | `DeadlocksDetected`, `CallsReturn` | 2 threads, 2 resources, 4 exclusive leases; 68,000 |
| `workflow` | `WithinLimits`, `NothingForgotten`, `SessionsClosed`, `VerdictTruthful`, `RefinesSaga`, `RunEnds` | workflows of 3 steps, below; 630,000 |
| `services` | `JobsSound`, `OutcomesAreFinal`, `CellsSound`, `ServicesLive`, `StoresSound`, `TablesSound`, `ReturnsWinner`, `AnalysisExact`, `DecoderSound` | below; 450,000 |
| `bench` | `ConnectionsSound`, `SessionsSound`, `HardwareSound`, `ClientSound`, `VirtualSound`, `ModbusSound`, `StepsComeBack` | below; 410,000 |
| `studio` | `ControlSound`, `ListTruthful`, `EditorSound`, `SheetSound`, `OrdersReach` | below; 310,000 |
| `halt_livelock`, `lease_closed`, `matrix_batch`, `studio_retry` | disagreements, below | smallest that shows each |

What the properties of the later runs say.  `JobsSound`: nothing is left running and
none is sent too often; `OutcomesAreFinal`: a decided job stays decided.  `CellsSound`: steps
are answered in order across restarts and stop is prompt; a route has a lease, and a count
drifts only by what was replaced.  `ServicesLive`: jobs are decided, steps answered, stop
returns, and `AlertFollowsGauge`: an alert has a rule, a gauge that
stays bad has an alert in the end, one that stays well has none.  `StoresSound`: a stored
result is whole and that of one run, nothing of a failed save stays, and no save of a
recipe is lost.  `TablesSound`: tables and index lead to what is there.  `ReturnsWinner`,
`AnalysisExact`, `DecoderSound`: selection, dependencies and decoder against reference definitions.
`ConnectionsSound`, `ModbusSound`: a connection is used by one step at a time, is alive while it is
used, is closed after its last workflow; a step whose id is its own has the IO of its connection to itself, though others share ids; and no step takes the answer to another's request, but on a connection where an
answer was taken in part or, on a serial line, left to come.  `SessionsSound`: one
exchange at a time, frames whole, and a session that believes its routing is active
has a vehicle that activated it.  `ClientSound`: on a bus with other nodes, echoes, "pending" and late
answers, a UDS client takes answers that are late by exactly the timeouts and strange frames it had, so once out of step it stays so.  `VirtualSound`: no receiver sleeps while a frame is there or the bus is
closed, and a replay is read past its end only if it was moved on while a receiver slept before its frame.  `HardwareSound`: nobody has a driver that is gone.  `ControlSound`: a worker obeys no more
orders than were given, but one for each time it could not delete the file, and every orchestrator that lives is that
of one cell.  `OrdersReach`: an order that lies in the file reaches the one worker that still looks into it, whatever was lost
or taken by others before: "abort" ends it, "resume" and "skip" end its pause.  While several workers
look, nothing says which of them takes the order, and the property claims nothing.  `ListTruthful`: the counters are those of the workflows, no step row replaces another's, and each says
the last result that was reported of its step, with the status of the last one up to the step's last end.  `EditorSound`, `SheetSound`: entry and connections lead to
nodes, and saving and loading gives back the workflow, or what a table can hold of it.

Why the bounds are enough.  Three tasks are two that compete for a lock and one
that does not, which is what selection can tell apart; a scan of three elements
has a first, a replaced and a skipped candidate.  Two cells let one worker finish
while another runs.  One retry lets a task fail, wait for its backoff and fail
for good.  One resume lets a run be interrupted anywhere and continued; the
bounds on attempts and starts are stated in terms of the number of resumes.  The
clock is not bounded but moves only while a task waits for it.  Two threads and
the monitor are every pair that can race for one lease, and three leases let one
be released while another is granted and a third is waited for; the proofs take
the bounds away.  Two threads and two resources make the smallest cycle of the
wait-for graph, and four leases (each thread has one and asks for another) let it
come about.  The workflows are every chain of two steps with a third that
compensates them, missing, shared, unloaded or not, with a retry, soft failures,
conditions, break conditions and transitions that end, repeat, fail over or name
nothing; every group of two with a follower or handler that may lead back into it;
and one of each kind that is refused.  The limits are constants: four transitions
(1024 in the code) and two visits (100) are enough to be exceeded by a loop of one
step, of two and of a group, and two successes with a failure after them come before
the limit.

Services: two jobs (one under the pointer, one that moves it), retry limits 0 and 2 (0 means one
attempt), three steps and three starts of a cell, two clients with three batches over two
sources, two rules, two runs of two steps, two editors with three saves in two seconds (so that
two versions share a second), lists of up to three tasks over every order of the fields a
policy compares, all graphs on three names and the acyclic ones on four, payloads of up
to three bytes (a value that fits a word, and one that does not), formulas of up to four tokens
and every sentence of up to seven (an operand of an outer term is kept over an
inner one from five on), directories of up to three files loaded twice (a good one before and
after a refused one of its id), up to three instruments over two ports.
Bench: three threads of two workflows, three connection keys (one with an id of its own, one with two ids, of which
it shares one with the third) and two openings; two
frames in flight and three requests (one late answer between two); three drivers, buses
and two protocols; three frames for two receivers and a replay of two; a Modbus connection over TCP and
one over a serial line, with two entries and two requests each (three requests were checked once).
Studio: two cells with two runs, two clicks and one delete that fails, enough for an order that
is left over, lost or obeyed by the wrong worker; two tasks of one step with two attempts over two orchestrations; three nodes, two
connections; tables of up to three rows of twelve kinds, and texts of five characters.

Fairness (`FairSpec`).  The scheduler's thread runs on (it never waits for
anything but `waitForStarted` and `waitForFinished`, which have timeouts); time
passes, so a backoff ends and a worker that does not finish becomes overdue; the
health check is due every ten seconds and the loop passes it every few
milliseconds, so it is taken again and again: strong fairness of `HealthKill`.
Workers are not assumed to end and users not assumed to do anything.  In the
ResourceManager a thread inside a call goes on, `open()` returns, and a waiting
thread reaches its deadline: however often the lease it waits for is taken again,
it gets one or gives up (strong fairness of `GiveUp \/ Grant`).  No thread is
assumed to give a lease back.  In the WorkflowEngine the thread of the run and those of a
group go on, plugins return (the engine cannot interrupt one), a break offer is
answered, and a pause ends because it is polled for five minutes at most; nobody is
assumed to resume, skip or abort.  That an offer is answered is not up to the engine:
the callback of RuntimeWorker polls the control file while it is told to pause, for as long
as the user wants.  In the services the dispatch thread and the worker thread go on, the timer
of the alerts fires and the clock moves; on the bench a thread inside a step goes on and every wait
has a timeout that passes; in Studio the processes run, the step of a worker comes to an end (though another may always follow), and a file
that is being written gets written.  Nobody is assumed to submit, click, answer or release anything.

### Disagreements between the code and its documents

* `halt_livelock`: with `--stop-on-failure` and two cells, a task that fails after
  the halt with retries left becomes pending (1031), nothing is dispatched any
  more (836), and the loop at 972 never ends.
* `lease_closed`: the monitor releases an expired lease (532) and closes the
  resource in a second critical section (535): the next holder loses it.
* `matrix_batch`: two batches over the same sources, or a failing one over an earlier
  one, leave half of a batch (`MatrixManager.cpp:125`), which `MatrixManager.h:74-75` calls atomic.
* `studio_retry`: the orchestrator reports `orchestration.task.finished` for every
  attempt (1052), Studio takes each for a success (`StudioBackend.cpp:1524`), and Retry Failed
  (README.md:123) finds no failed task.

Noted, without a run.  Some of these were model-checked once while the modules were written.

*Orchestrator.*  Workers of a crashed orchestrator go on with what their tasks locked while a
resumed one starts others (799).  Among tasks of equal priority the earlier `nextRunAtMs` goes first
(SchedulingPolicy.h:72), so a retried task falls behind, against the FIFO order README.md:72
promises; the descriptors never carry a deadline, so the deadline policy selects in list order; a new
task may get the `cellId` of one that still runs (927); `retryBackoffMs * attemptsMade` is an int
(880); the gauge `orchestrator.tasks.running` is decremented and never incremented.

*ResourceManager.*  A thread that finds a resource `Opening` gets its lease before, or without, a
successful `open()` (237).  A shared grant leaves the thread's edge in the wait-for graph (279-285),
and a cycle is reported that does not exist.  `ForcePreempt` takes a wait record
out of the graph, and the threads go on waiting (613-617).  A lease renewed between the scan and
its turn is reclaimed (521-532).  `acquire` keeps a pointer to an entry that may be unregistered (230); the
destructor neither stops the monitor nor waits (127).

*WorkflowEngine.*  A compensation step runs without merging its own `initialData` (510-512; `docs/workflow-spec.md:34`).
The steps of a group merge their parameters into one context (608, 901); a group that failed into its
handler and is reached again is passed by as a success (830, 948); a step that
fails, under `continue_on_error` or into its failure target, has no verdict, so that a run may
pass whose plugin failed (`Verdict.h:19-20` has Aborted and Error for that: nothing yields them);
all results so far are merged into the verdict of each step, so that one that passes after a failure is written to
`step-results.jsonl` as failed (705, 738); one that succeeds too late is
retried, and if it then fails is not compensated (630, 635); a break condition ends the run as
finished (1044); a resume or skip signal that comes while nothing is paused acts on the next pause
(993); the lookup of `preallocateResources` returns no resource (167-172), so that preallocating a
registered one always fails, and a failed preallocation leaves the DUT open (455).

*Other services.*  A job's priority is ignored (JobScheduler.h:24); `activeRouteCount` drifts
(`MatrixManager.cpp:97`); `destroyAllCellWorkers` joins under its mutex; `hasCycle_` is never true
(ResourceDependencyAnalyzer.h:58).  The capability registry keeps the old ids of a plugin that is
registered again.  An instrument whose name repeats leaves a port open that nobody can close;
`connectAll` after a failure fails at the first entry that is connected; a Python backend is opened without a script
and always refuses; `disconnectAll` empties the map without deleting what is in it.

*Response decoder.*  float32 and float64 are copied in host order, so on x86 `big` is read little
endian and `little` reversed (284-289; docs/统一通信响应解码与测量配置架构实施方案.md §7); a bit field
of more than eight bytes is not refused (259-266): what reaches beyond the lowest eight reads as zero, and
what begins there is an undefined shift, although §5 there (352) asks for an explicit error
whenever decoding fails.  `DecodingExact` states this as the code does it.

*Persistence.*  A step that fails for good publishes nothing (`WorkflowEngine.cpp:779-794`), so no row says
"failed" and the failure statistics stay empty; `workflow.failed` comes before the compensation
(543), so none says "compensated"; `findById` reads in three statements, between which a purge may fall
(291); a run that ends in a break or with verdict FAIL is stored as a pass; `created_at` has seconds
without a tie-break (`SqliteRecipeRepository.cpp:269`); the pass rate comes from two queries.

*ScpiStep and DoIP.*  Two steps with one resource id and two connections share an IO under two
mutexes (`ScpiStepPlugin.cpp:202`), though "each connection is serialized" (39), and a connection under two
ids leaves the first one pointing to what is closed (188): the run `bench` reaches both, and `ConnectionsSound`
claims of ids that are shared only that they do no harm to others; a `lock_guard` unlocks a destroyed mutex (142-147).  The late
answer of a timed-out TesterPresent is taken by a later request (`DoipMasterPlugin.cpp:239`); a
pending of another service counts as final; discovery accepts any announcement.  Steps of a parallel group on one cell
would share the table of sessions (422-428) and a session's `routingActive` (208-214) without a lock; **DoipMaster** has
one thread of steps, so that nothing here is said of such groups.

*UDS, buses.*  Frames of other nodes are not filtered (`IDriverPlugin.h:211`); longer requests are cut to seven
bytes (`UdsProtocolLayer.cpp:379-386`); closing one bus closes the driver another uses (`HardwareManager.h:40`);
`VirtualBusDriver::shutdown` calls close under the mutex it holds (36); a receiver that sleeps before a replayed frame
does not test the index again (113-118), so that another receiver, a close or a new replay makes it read past the end
(`overrun`, which the run `bench` reaches).

*Modbus.*  Only `readCoils` looks for an exception, and on a serial line at the slave id (267-272); every other
function takes an exception for a success (289-440; §13.3 of the document above makes the plugin
responsible); `read` counts the unit id twice, so every TCP read waits 500 ms more (`Transports.cpp:160`); an
answer in three pieces is taken in part and shifts the next; CRC and transaction ids are not compared.

*Studio.*  An order written between a worker's read and its delete is lost; all cells share one file,
and a left-over abort ends the next run; the orchestrators of cells all report cell 0 and tasks
from 1, so rows collide; a step id is the number of rows plus 1000; a step that ends without telling its result is shown with
the one it was given before (1337-1340), so that one an analyzer found to fail in one attempt (1367) is shown "failed" when
it passes in the next, and "succeeded" until then; the end of an analysis gets a row of its own, for ever "running"; `removeTransition` deletes all connections of
a step (`WorkflowEditorModel.cpp:343-353`); removing a node leaves references for compensation;
two nodes may get one id, typed or counted, and the engine refuses what is saved then (`WorkflowEngine.cpp:379-384`), so that
`EditorSound` promises an entry, not that the workflow starts.
A saved table keeps the order of its rows only: retries, failure, skip and compensation links,
groups and conditions are gone (`XlsxParser.cpp:511-535`); ids whose last section is the same become one; a number
used twice makes two success links of one step (against `WorkflowEditorModel.cpp:235`); a row without
a number ends the run before it; a Modbus TCP step without a port gets the IP address for one (420).

## 5. Proofs

Each module of proofs is about one program or part; the operators they share have their lemmas in
`ListProofs` (induction, what is picked out of a list, lists put together).

`AlgorithmProofs` is about two algorithms.  *Selection*: for any list and clock the loop returns the
winner (`ScanReturnsWinner`).  The invariant is `PrefixWinner`: `best` is the winner of
the elements before `i`.  It is preserved because each `Beats` is a strict weak
order (`BeatsWeakOrder`): an element that does not beat `best` cannot beat a later
`best`, and one that does beats all that `best` beat.

*Dependencies* (`AnalysisIsExact`): for every graph and request, with cycles, repeated and unknown
dependencies, `analyze` returns the resources needed, each once, with exactly what it reaches, behind
what it depends on, and it reports an error exactly if one of them reaches itself.  `AnalyzerInv` has a part for each
stage.  `BuildOK`: the activations of `buildTree` are a path of the graph, the nodes are what has been seen and
left, and a node that is in front of one of its dependencies reaches itself (`PostOrder`).
`ExpandOK`: a node lists its direct dependencies and nothing it does not reach; a pass that has changed nothing
up to a node has found all those closed (`ClosedUpTo`), so when no pass changes anything the
lists are exactly what is reached (`ClosureOK`), and a component of several nodes has been
found as a node that depends on itself.  `SortOK`: nothing is sorted or queued twice, `pending` counts the
dependencies that are not sorted yet, and what is sorted has all of its own before it.  Kahn's sort may give up,
for a dependency that is unknown or listed twice is waited for in vain; then the nodes stay as `buildTree` listed
them, and without an error `PostOrder` is the order that was promised.  `Reach` is the
least set closed under dependencies: the proof uses only that it is closed and lies in every closed set.

`OrchestratorProofs` proves the type invariant (`Typing`), then `LocksInv`: slots
have numbers below `nextSlotId` and are distinct, tasks in slots are distinct and
`Running`, running tasks have disjoint locks, and `heldLocks` is the union of their
locks.  `LockExclusion` alone is not inductive: a new worker excludes the old ones
because selection looks at `heldLocks`, so `HeldLocksExact` is needed; releasing a
slot removes exactly its locks, which needs the exclusion; and a selected task is
not running, which needs the statuses.  `LocksAreSound`
follows for every number of tasks and cells, every assignment of locks, every
policy and every failure.  Assumptions: the named ASSUMEs on the constants.

Its second half adds the bookkeeping, `BooksInv`: the slots are those of the running
tasks and the counters those of the decided ones (`CountInv`), attempts are bounded by the
limit and the resumes (`AttemptsInv`, `StartsInv`), the state file is the memory unless a save is
due, the exit code follows from it (`ExitInv`), and a task that is on record as decided is
decided in memory too (`RecordInv`).  `StepKinds` reduces the many actions to eight
kinds of step (nothing changes, a save, an end of the process, a task begins, succeeds, fails, a fresh start, a
resume), and each part is preserved kind by kind.  `SlotsAreSound`, `AttemptsAreBounded`,
`ExitCodeIsTruthful` and `StateFileIsCurrent` follow.  `HaltIsFinal` needs `HaltInv`: no flag stops the
loop in which scheduling was halted, but the halt has left nothing pending for it, and a retry puts a task
back only where workers are reaped.  `PoolRefinement`: the
orchestrator implements `TaskPool`.  The last needs `RecordInv`, because a resume reads the record and
not what the crashed process knew.

`ResourceManagerProofs` proves, for any number of threads, resources and leases,
`LeasesAreSound`: exclusive leases are alone, the accounts of the entries and the
active count are exact, and a leased resource stays registered; and that the manager implements
`LeaseTable` (`Refinement`).  None of these is inductive alone: an entry is released by
what its flags say, which is right only if they are exact and the modes exclude
each other; a lease is taken off once only if whoever took it out of `leaseMap_` is
alone (`ReleasedOnce`); the entry is there only if nobody unregisters a resource that is
being acquired (`AcquiresRegistered`); and a granted number is new only if all
leases that count have smaller ones (`AccountedGranted`).  `IInv` joins them; a step
either leaves all they speak of alone (`Untouched`) or is one of five: `Grant`, `Account`,
`Unmap`, `Register`, `Unregister`.

`WorkflowEngineProofs` proves, for any workflows and limits, the types (`Typing`), that every
way out of a run has told the plugins to close their sessions (`SessionsEnd`) and that
the engine implements `Saga` (`Refinement`).  `IInv` joins the types to `Control`: what may be
true where the thread is.  The two facts the refinement needs of it are that a task is only
active while the thread waits for it in a run that has no result yet, so that nothing is
done once compensation has begun, and that a run begins with nothing done or undone.  The theorem
covers parallel groups: an append that is lost is no step of the saga, and what is in
the list is undone from the list.  With `Memory` (in a workflow without groups only the
current step runs, so no append is lost; whatever `undoIndex` has passed is
undone or cannot be) it proves `NothingForgotten` (`Compensation`).  `Evidence` follows what was found
from the collected results into the record of the step and from there into the verdict of the run,
and says that every verdict the engine holds on the way has its ground in a failure or a skip; with `Memory`
it is inductive, and gives `VerdictTruthful` (`Verdict`).  `ExecutionsBounded` (`BoundedExecutions`) needs `Budget`: each visit, or the one entry
of a group, allows `maxRetries + 1` executions, and those of a step that is about to run
are reserved from the moment it is entered.

For the wakeups (`WakeupsAreNotMissed`) the property is nearly inductive: `WakeInv` adds that
whoever is about to notify holds a lease that was granted.  Every step either lets all who sleep sleep
on (`SleepsOn`: nobody's lease becomes free, and the same actors are about to notify), or it frees a
lease and is then itself about to notify, or notifies.

`DeadlocksAreDetected` is about chains of any length.  `OwnersAgree` (`ownerMap_` names the thread of
every exclusive lease and nobody else) is `OwnersAreExact`; `WaitInv` says that a thread has an edge exactly
while it waits.  So a blocked thread leads to the one that holds what it wants (`BlockedWaits`).  A
chain that is followed for as many steps as there are threads meets one of them twice, so
following it so far is enough: the pigeonhole principle over sets of threads (`ChainExists`,
`ReportedIsDeadlocked`, `DeadlockIsReported`).  The hypotheses are those under which the code
can do it: exclusive leases only (a shared one leaves an edge, see above), no `ForcePreempt`, and
at most `kMaxDepth` threads, because `detectDeadlock` follows no longer chain.

`ServiceProofs` proves what the run `services` checks of jobs, cell, alerts, stores and tables.
*Jobs*: for any number of jobs, retries and starts no job is left running or
sent too often (`JobsAreSound`) and that outcomes are final but for the two races
(`OutcomesFinal`).  What the thread knows of the job it points to without looking again
(`PointerKnown`) makes it inductive: a job about to be sent is pending or was cancelled meanwhile, one that was sent is running.

*Alerts* (`AlertsAreOfRules`): an active alert has a rule, and only active alerts are acknowledged.
*Cell* (`CellInv`): the answered steps, the one in hand and the queue are the submitted
steps, each at its place.  *Matrix* (`MatrixInv`): one step changes what one client has of one entry, a
batch that is held is never empty, and the sets that are counted are finite.  *Results* (`ResInv`): what was collected
is what happened in this run but for what a thread is about to append; the image of a
transaction is the disk with the beginning of that; and a reader that found no steps was overtaken by a
purge.  A run in which two threads appended at once is excepted (`racedRuns`), since a lost append is a
lost row.  *Recipes* (`RecInv`): every save is stored, broken off or under way, and those under way are
overtaken but for the latest, so nothing newer than the recipe's own version is stored.  *Plugins*
(`LoadInv`): after the first `n` files a table has the first good file of every id, whatever was refused
between (`HostAfter`), and the index follows one registration at a time (`RegistryInv`).  *Instruments*
(`InstrumentsInv`): along a list of entries the map stays linked to open ports (`Linked`), and
as long as the names differ an object is never replaced.

`BenchProofs` proves the safety of the run `bench`.  *ScpiStep* (`ScpiInv`): the keys of the pool have
connections of their own, a thread inside a step has one that is in the pool, and a lease of an id
is held by a step of that id.  Steps may name any ids; an id is *own* (`Own`) if no step of another
connection names it and its connection no other, and the IO of a connection with an own id is under no
other id and in no other step's hands (`StrangersAway`).  *Sessions* (`DoipInv`): what is buffered and on its way is one sequence of parts of whole frames, in
the order of their requests; while no TesterPresent was late and no close is pending, all of it belongs to the
one request that is waited for, and ends with its answer.  *Hardware* (`HwInv`): every driver in the list was
initialized when it was put there.  *UDS* (`UdsInv`): a function
counts the stray frames up to each frame that waits; an answer's request is that far behind its place in the
buffer, and the requests the ECU still has follow (`Line`).  *Virtual bus* (`VbInv`): frames are queued in
order, the receivers on their way are at least as many as the frames they were notified of, and the frame a receiver sleeps
before is there unless the replay was moved on.  *Modbus*
(`MbInv`): pool, references and mutexes agree, and on a connection nothing was left on, all that is owed, has
arrived or was read belongs to the request of the thread inside.

`StudioProofs` proves `ControlIsTruthful` (`ControlInv`: a worker has obeyed fewer orders than were given, and than
failed to be deleted, while one is in the file, in the hand that writes it or in the hand that read it, since it deletes
the file with whatever else was written, or counts one more failure) and `ListIsTruthful` (`ListInv`: step ids grow with the number of rows
and stay above the task ids, so that a report finds its own row, a row says what the histories do of its step, a step
without a row was never reported, and what was counted has begun).
Hypothesis `TaskIdsAreLow`: fewer than a thousand tasks, which is what the step ids leave for
them (`StudioBackend.cpp:1289`).

`SheetIsSound` is the rest of Studio's files.  `SheetInv`: the table is a list of rows, and what was read of it is what
`Parsed` makes of it.  The steps are the rows that are steps, in their order (`ReadSteps`); if all are,
the step of row `i` is step `i`, which gives the order of the run, the ports and the way back from a saved
table.  *Splitting a text* (`SplitExact`) compares a scanner that counts with a definition that does not:
a place is a cut if an even number of quotes precede it and no bracket opened before it is still open, however many were closed
without one.  By induction over the text (`Scanned`) the scanner's `quote` is the parity of the
quotes, its `nesting` is the greatest excess of opened brackets over any stretch that ends here, `current`
is the text since the last cut, and `pairs` are the pieces before it that are not empty.

`EditorIsSound` needs one invariant, `WellFormed`: lists of known ids, an entry among the nodes, connections that leave
nodes and, for an id that one node has, one connection of each type (`SingleTargets`).  Adding and removing
preserve it operation by operation.  Loading does for any `Loadable` workflow, and three kinds of workflow
are loadable: a file that meets the assumption, what the editor saves (`Saved`) and what it gets back from a
table (`TableWorkflow`).  `RoundTrip` is not a part of the invariant; it follows from it, since what is saved of a step with one
connection of a type is that connection, and each target loaded becomes one connection (`SavingKeepsLinks`).

Induction over data.  The provers cannot instantiate the induction theorems of the library, which take an
operator.  What recursive functions compute is therefore proved from `WFMin`, which takes a
set: the least number at which a statement fails does not exist (`LeastOf`, `SetInduction`).  That
is why the loops of these modules are recursive functions; folds, `SelectSeq` and recursive
operators stay out of reach.

Only model-checked: liveness, which is out of the prover's reach (`EveryRunEnds`, `CallsReturn`,
`RunEnds`, `ServicesLive`, `StepsComeBack`, `OrdersReach`), and the decoder (`DecoderSound`), whose parser is three operators
that call each other and have to be declared recursive.  All other properties of
passing runs are theorems: 33 of the 40, the hypotheses being those named above.

## 6. Not modelled

The components of `PROJECT.json` with status `not_modelled`, and the rest of those that are `partly`:
vendored QXlsx (almost half of the lines of the repository), QML and bench settings (forms over a settings file),
sample plugins and reports (data only), domain and SDK types (parsing, interfaces, expressions, version
ranges), the application layer (forwards), socket, serial and VISA input and output, the text of SQL,
JSON and telemetry, file dialogs, and what floating-point arithmetic gives.  The map covers about a quarter of the
repository's own implementation lines, and 15 % with the vendored code counted.
