------------------------------- MODULE TaskList -------------------------------
(***************************************************************************)
(* What Studio shows of an orchestration: it reads the telemetry of the    *)
(* orchestrator, in which the orchestrator passes on what its workers      *)
(* write, line by line, and keeps a row per task, a row per step and       *)
(* counters of the workflows.  "Retry Failed" starts an orchestration of   *)
(* the paths in the rows that failed or were skipped.                      *)
(*                                                                         *)
(* The orchestrator is abstracted to what it reports: a task is started,   *)
(* its worker's steps and verdicts follow, its end is reported as          *)
(* "finished" whatever it was, and a failed task is tried again or not.    *)
(* A line is read in the step that writes it: the pipe keeps the order.    *)
(* Single cells (runCell) are left out.                                    *)
(***************************************************************************)
EXTENDS Integers, Sequences, FiniteSets, SequencesExt

CONSTANTS ShownTasks,  \* tasks of an orchestration, numbers from 1
          WorkflowFor, \* the workflow each of them runs
          ShownSteps,  \* steps of a workflow
          Judged,      \* the workflows whose steps have limits: others get no result
          StepIdBase,  \* ids of step rows begin here: 1000
          MaxAttempts, \* bound: how often a task is tried
          MaxReports,  \* bound: how many ends of steps and analyses are reported in a run
          MaxOrchestrations \* bound: how many orchestrations are started

ASSUME ShownTasksAssumption == ShownTasks \subseteq Nat \ {0} /\ StepIdBase \in Nat

ShownWorkflows == {WorkflowFor[t] : t \in ShownTasks}
NoStep == "none"
Unnamed == "unnamed"
ASSUME NoStepAssumption == {NoStep, Unnamed} \cap ShownSteps = {}

\* What a row is about: a step of a workflow, its analysis, or the workflow of a task.
\* The events of an analysis name no step (WorkflowEngine.cpp:1141-1196): what they say
\* gets the row of a step without a name.
TaskOf(w) == [wf |-> w, step |-> NoStep]
StepsOf(w) == {[wf |-> w, step |-> s] : s \in ShownSteps}
AnalysisOf(w) == [wf |-> w, step |-> Unnamed]
AllSteps == UNION {StepsOf(w) \cup {AnalysisOf(w)} : w \in ShownWorkflows}

\* resultText of a row, or of a report: FAIL, anything else (PASS), or nothing yet.
NoResult == "none"
Results == {NoResult, "PASS", "FAIL"}
ResultsIn(w) == IF w \in Judged THEN Results ELSE {NoResult}

VARIABLES rows,       \* tasks_: id, what the row is about, status, result
          outcome,    \* workflowOutcomeInRun_
          begun,      \* uniqueWorkflowsStarted_
          countStarted, countFinished, countFailed,  \* telemetry_
          task,       \* the orchestrator: where each task of this run is
          tries,      \* and how often it was tried
          reports,    \* how many ends of steps and analyses it reported in this run
          orchestrated, \* how many orchestrations were started
          judged,     \* history: the last result reported of each step in this run
          shown,      \* history: the status each of them had a right to at its last report
          ended,      \* history: how each task of this run has ended so far
          before      \* history: the three counters when this run began

shownVars == <<rows, outcome, begun, countStarted, countFinished, countFailed>>
reportVars == <<task, tries, reports, orchestrated, judged, shown, ended, before>>
taskListVars == <<shownVars, reportVars>>

TaskListInit ==
  /\ rows = <<>>
  /\ outcome = [w \in ShownWorkflows |-> "none"] /\ begun = {}
  /\ countStarted = 0 /\ countFinished = 0 /\ countFailed = 0
  /\ task = [t \in ShownTasks |-> "out"] /\ tries = [t \in ShownTasks |-> 0]
  /\ reports = 0 /\ orchestrated = 0
  /\ judged = [s \in AllSteps |-> NoResult] /\ shown = [s \in AllSteps |-> "none"]
  /\ ended = [t \in ShownTasks |-> "no"]
  /\ before = [started |-> 0, finished |-> 0, failed |-> 0]

-------------------------------------------------------------------------------
(***************************************************************************)
(* The list.                                                               *)
(***************************************************************************)

RowOf(list, about) == SelectInSeq(list, LAMBDA row : row.about = about)

\* updateTask: the first row with that id is replaced, or a row is appended.
UpdateTask(list, row) ==
  LET i == SelectInSeq(list, LAMBDA other : other.id = row.id) IN
    IF i = 0 THEN Append(list, row) ELSE [list EXCEPT ![i] = row]

\* updateTaskFromTelemetry: the row is found by its id.
TaskRow(t, status) == [id |-> t, about |-> TaskOf(WorkflowFor[t]), status |-> status,
                       result |-> NoResult]

\* A mutant: rows of tasks and rows of steps are numbered alike.
MutantNewStepId == Len(rows) + 1

NewStepId == Len(rows) + StepIdBase

\* The row of a step, found by what it is about or made.
WithStepRow(s, status) ==
  IF RowOf(rows, s) # 0 THEN rows
  ELSE UpdateTask(rows, [id |-> NewStepId, about |-> s, status |-> status, result |-> NoResult])

\* The row that is written then: the one found, or the last.
StepRowIndex(s, list) == IF RowOf(rows, s) # 0 THEN RowOf(rows, s) ELSE Len(list)

StatusOf(result) == IF result = "FAIL" THEN "failed" ELSE "succeeded"

\* A result that is reported takes the place of the one before.
Later(reported, earlier) == IF reported = NoResult THEN earlier ELSE reported

\* activity.finished, with the result the step tells and the one an analyzer has found.  The
\* status is that of the result told, or else of the one the row still has: of an earlier
\* attempt, or of an analyzer.  What the analyzer found comes after the status.
StepFinished(s, told, found) ==
  LET list == WithStepRow(s, StatusOf(told))
      row == list[StepRowIndex(s, list)]
      result == Later(told, row.result)
  IN UpdateTask(list, [row EXCEPT !.status = StatusOf(result), !.result = Later(found, result)])

\* analyzer.finished and analyzer.failed: the result, but not the status.
StepAnalyzed(s, found) ==
  LET list == WithStepRow(s, "running")
      row == list[StepRowIndex(s, list)]
  IN UpdateTask(list, [row EXCEPT !.result = Later(found, row.result)])

-------------------------------------------------------------------------------
(***************************************************************************)
(* Reports of the orchestrator and its workers.                            *)
(***************************************************************************)

NothingRuns == \A t \in ShownTasks : task[t] = "out"

\* startOrchestration with some workflows: list and sets are cleared, counters stay;
\* the process is started, or it is not.
Start(workflows) ==
  /\ NothingRuns /\ orchestrated < MaxOrchestrations
  /\ orchestrated' = orchestrated + 1
  /\ rows' = <<>> /\ begun' = {} /\ outcome' = [w \in ShownWorkflows |-> "none"]
  /\ \E starts \in BOOLEAN :
       task' = [t \in ShownTasks |-> IF starts /\ WorkflowFor[t] \in workflows THEN "waiting" ELSE "out"]
  /\ tries' = [t \in ShownTasks |-> 0] /\ reports' = 0
  /\ judged' = [s \in AllSteps |-> NoResult] /\ shown' = [s \in AllSteps |-> "none"]
  /\ ended' = [t \in ShownTasks |-> "no"]
  /\ before' = [started |-> countStarted, finished |-> countFinished, failed |-> countFailed]
  /\ UNCHANGED <<countStarted, countFinished, countFailed>>

\* runSelected, and resumeFromState, where the state file names the workflows.
RunSelected == \E workflows \in SUBSET ShownWorkflows \ {{}} : Start(workflows)

\* What is retried: what the rows that failed or were skipped are about.  Their paths are
\* given to the orchestrator: of a task its workflow's file, of a step the step's name.
Retried == {rows[i].about : i \in {j \in DOMAIN rows : rows[j].status \in {"failed", "skipped"}}}

\* retryFailed.  The name of a step is no file: a task for it, which cannot do
\* anything, is left out here.
RetryFailed == Retried # {} /\ Start({w \in ShownWorkflows : TaskOf(w) \in Retried})

TaskStarted(t) ==
  LET w == WorkflowFor[t] IN
    /\ task[t] = "waiting" /\ tries[t] < MaxAttempts
    /\ task' = [task EXCEPT ![t] = "running"]
    /\ tries' = [tries EXCEPT ![t] = @ + 1]
    /\ rows' = UpdateTask(rows, TaskRow(t, "running"))
    /\ begun' = begun \cup {w}
    /\ countStarted' = IF w \in begun THEN countStarted ELSE countStarted + 1
    /\ UNCHANGED <<outcome, countFinished, countFailed, reports, orchestrated, judged, shown, ended, before>>

\* A worker's step is finished, whatever it tells of its result.
ActivityFinished(t, s) ==
  /\ task[t] = "running" /\ reports < MaxReports
  /\ reports' = reports + 1
  /\ \E told, found \in ResultsIn(WorkflowFor[t]) :
       /\ rows' = StepFinished(s, told, found)
       /\ shown' = [shown EXCEPT ![s] = StatusOf(Later(told, judged[s]))]
       /\ judged' = [judged EXCEPT ![s] = Later(found, Later(told, @))]
  /\ UNCHANGED <<outcome, begun, countStarted, countFinished, countFailed, task, tries, orchestrated,
                 ended, before>>

\* analyzer.finished, analyzer.failed: one by one, at the end of the worker's workflow.
AnalyzerFinished(t) ==
  LET s == AnalysisOf(WorkflowFor[t]) IN
    /\ task[t] = "running" /\ reports < MaxReports
    /\ reports' = reports + 1
    /\ \E found \in ResultsIn(WorkflowFor[t]) :
         /\ rows' = StepAnalyzed(s, found)
         /\ judged' = [judged EXCEPT ![s] = Later(found, @)]
    /\ shown' = [shown EXCEPT ![s] = IF @ = "none" THEN "running" ELSE @]
    /\ UNCHANGED <<outcome, begun, countStarted, countFinished, countFailed, task, tries, orchestrated,
                   ended, before>>

\* workflow.finished
CountFinished(w) ==
  /\ countFinished' = countFinished + (IF outcome[w] = "finished" THEN 0 ELSE 1)
  /\ countFailed' = IF outcome[w] = "failed" /\ countFailed > 0 THEN countFailed - 1 ELSE countFailed

\* workflow.failed
CountFailed(w) ==
  /\ countFailed' = countFailed + (IF outcome[w] = "none" THEN 1 ELSE 0)
  /\ UNCHANGED countFinished

\* The worker is over: whatever its end was, the row then says "succeeded"; if the task failed it waits for the next try, or that was it.
TaskFinished(t) ==
  LET w == WorkflowFor[t] IN
    /\ task[t] = "running"
    /\ \/ CountFinished(w) /\ outcome' = [outcome EXCEPT ![w] = "finished"]
          /\ task' = [task EXCEPT ![t] = "out"]
          /\ ended' = [ended EXCEPT ![t] = "succeeded"]
       \/ CountFailed(w) /\ outcome' = [outcome EXCEPT ![w] = IF @ = "none" THEN "failed" ELSE @]
          /\ task' = [task EXCEPT ![t] = IF tries[t] < MaxAttempts THEN "waiting" ELSE "out"]
          /\ ended' = [ended EXCEPT ![t] = IF tries[t] < MaxAttempts THEN "no" ELSE "failed"]
    /\ rows' = UpdateTask(rows, TaskRow(t, "succeeded"))
    /\ UNCHANGED <<begun, countStarted, tries, reports, orchestrated, judged, shown, before>>

\* The worker of a task cannot be started: the task is tried again, or failed.
TaskFailed(t) ==
  LET again == tries[t] + 1 < MaxAttempts IN
    /\ task[t] = "waiting" /\ tries[t] < MaxAttempts
    /\ tries' = [tries EXCEPT ![t] = @ + 1]
    /\ task' = [task EXCEPT ![t] = IF again THEN @ ELSE "out"]
    /\ ended' = [ended EXCEPT ![t] = IF again THEN @ ELSE "failed"]
    /\ rows' = UpdateTask(rows, TaskRow(t, IF again THEN "retry_scheduled" ELSE "failed"))
    /\ UNCHANGED <<outcome, begun, countStarted, countFinished, countFailed, reports, orchestrated, judged, shown,
                   before>>

\* After a failure the orchestrator skips what waits.
TaskSkipped(t) ==
  /\ task[t] = "waiting" /\ \E u \in ShownTasks : ended[u] = "failed"
  /\ task' = [task EXCEPT ![t] = "out"]
  /\ ended' = [ended EXCEPT ![t] = "skipped"]
  /\ rows' = UpdateTask(rows, TaskRow(t, "skipped"))
  /\ UNCHANGED <<outcome, begun, countStarted, countFinished, countFailed, tries, reports, orchestrated,
                 judged, shown, before>>

TaskListNext ==
  \/ RunSelected \/ RetryFailed
  \/ \E t \in ShownTasks :
       \/ TaskStarted(t) \/ TaskFinished(t) \/ TaskFailed(t) \/ TaskSkipped(t)
       \/ AnalyzerFinished(t)
       \/ \E s \in StepsOf(WorkflowFor[t]) : ActivityFinished(t, s)

TaskListSpec == TaskListInit /\ [][TaskListNext]_taskListVars

-------------------------------------------------------------------------------

\* Types; no two rows have one id.
TaskListTypeOK ==
  /\ \A i, j \in DOMAIN rows : i # j => rows[i].id # rows[j].id
  /\ \A i \in DOMAIN rows :
       /\ rows[i].status \in {"running", "succeeded", "failed", "skipped", "retry_scheduled"}
       /\ rows[i].result \in Results
  /\ begun \subseteq ShownWorkflows
  /\ outcome \in [ShownWorkflows -> {"none", "finished", "failed"}]
  /\ task \in [ShownTasks -> {"out", "waiting", "running"}]
  /\ {countStarted, countFinished, countFailed} \subseteq Nat

\* "Each step is shown by itself" (StudioBackend.cpp:1274): every step that was
\* reported in this run has one row, with the last result reported of it and the status
\* of the last result reported up to its last end, and no row of a task is lost to it, in
\* whatever order tasks and steps report and however often they are tried.  The status may
\* be an earlier attempt's: a step that does not tell its result is shown as it was judged
\* before, by the run that was repeated.
StepsShown ==
  /\ \A s \in AllSteps : shown[s] # "none" =>
       \E i \in DOMAIN rows :
         /\ rows[i].about = s
         /\ rows[i].status = shown[s] /\ rows[i].result = judged[s]
         /\ \A j \in DOMAIN rows : rows[j].about = s => j = i
  /\ \A t \in ShownTasks : task[t] = "running" => \E i \in DOMAIN rows : rows[i].id = t

\* The counters of the dashboard say how the workflows of the run ended, over earlier
\* runs, retries and several tasks of one workflow: nothing is counted twice, and the
\* pass rate (:1116-1121) is never above 100 percent.
CountersTruthful ==
  /\ countStarted = before.started + Cardinality(begun)
  /\ countFinished = before.finished + Cardinality({w \in ShownWorkflows : outcome[w] = "finished"})
  /\ countFailed = before.failed + Cardinality({w \in ShownWorkflows : outcome[w] = "failed"})
  /\ countFinished + countFailed <= countStarted

\* The list and the counters show the run as it went.
ListTruthful == TaskListTypeOK /\ StepsShown /\ CountersTruthful

\* "Retry Failed: rerun workflows that failed/skipped in last run" (README.md:123): when
\* the run is over, the workflow of every task that failed or was skipped is retried.
FailedAreRetried ==
  NothingRuns => \A t \in ShownTasks :
    ended[t] \in {"failed", "skipped"} => TaskOf(WorkflowFor[t]) \in Retried
===============================================================================
