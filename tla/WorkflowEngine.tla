---------------------------- MODULE WorkflowEngine ----------------------------
(***************************************************************************)
(* One run of a workflow by the engine of a worker: from step to step      *)
(* along the transitions, a parallel group by one thread per step, with    *)
(* retries, break offers and pauses, and compensation when it fails.       *)
(*                                                                         *)
(* The context of a run is shared by all its threads without a lock.  Of   *)
(* it the model keeps whose parameters were merged last (params); values   *)
(* that plugins compute from it, such as conditions, are arbitrary.        *)
(***************************************************************************)
EXTENDS Integers, Sequences, Functions

CONSTANTS
  StepIds,          \* every name a step or a transition may use
  NoStep,           \* the empty name
  NoGroup,          \* the empty name of a parallel group
  Workflows,        \* the workflow definitions the run may get
  kMaxTransitions,  \* 1024 in the code
  kMaxVisits,       \* 100 in the code
  MaxRetries        \* bound: the largest maxRetries of a step

ASSUME NamesAssumption == NoStep \notin StepIds
ASSUME LimitsAssumption ==
  kMaxTransitions \in Nat /\ kMaxVisits \in Nat /\ MaxRetries \in Nat

Names == StepIds \cup {NoStep}

StepRecord ==
  [loaded : BOOLEAN,                 \* pluginId names a loaded plugin
   parallelGroupId : StepIds \cup {NoGroup},
   maxRetries : 0..MaxRetries,
   continueOnError : BOOLEAN,        \* failurePolicy
   conditional : BOOLEAN,            \* conditionKey is set
   breakCondition : SUBSET {"BreakOnFail", "BreakOnError"},
   compensationStepId : Names,
   onSuccessStepId : Names, onFailureStepId : Names, onSkippedStepId : Names]

WorkflowDefinition ==
  [entryStepId : Names, order : Seq(Names), step : [StepIds -> StepRecord]]

ASSUME WorkflowsAssumption == Workflows \subseteq WorkflowDefinition

\* The values of enum Verdict.
NotSet == 0
Pass == 10
Inconclusive == 20
VerdictFail == 30
Aborted == 40
Error == 50
Verdicts == {NotSet, Pass, Inconclusive, VerdictFail, Aborted, Error}

\* What collectAnalyzerResults may find in the context: no result, or whether
\* the value was within its limits.
Findings == {NotSet, Pass, VerdictFail}

MergeVerdicts(a, b) == IF a >= b THEN a ELSE b

VARIABLES
  workflow,                 \* the definition of the run
  pc,                       \* where the thread of executeWorkflow is
  currentStepId, transitionCount, stepVisitCount, processedParallelGroups,
  task,                     \* per step: its thread or call of runStep
  params,                   \* whose initialData was merged into the context last
  executedStepIds,
  finalVerdict, pendingVerdict,  \* the latter: pendingAnalyzerResults_, merged
  resumeSignal, skipSignal,
  undoIndex, undone,        \* compensation: what is left, what has run
  result,                   \* "none", then "finished" or "failed"
  sessions,                 \* plugins hold sessions opened since postWorkflow
  finished, executions,     \* history: steps that ended well, calls of
                            \* executeStep,
  foundFailure, skips       \* and whether a step collected a failing result,
                            \* or the user skipped one

position == <<currentStepId, transitionCount, stepVisitCount,
              processedParallelGroups>>
verdicts == <<finalVerdict, pendingVerdict, foundFailure, skips>>
signals == <<resumeSignal, skipSignal>>
rollback == <<undoIndex, undone>>
history == <<finished, executions>>
vars == <<workflow, pc, position, task, params, executedStepIds, verdicts,
          signals, rollback, result, sessions, history>>

-------------------------------------------------------------------------------

\* The keys of stepById.
Defined == Range(workflow.order) \cap StepIds

Entry(w) == IF w.entryStepId # NoStep THEN w.entryStepId ELSE Head(w.order)

Valid(w) ==
  /\ w.order # <<>> /\ NoStep \notin Range(w.order)
  /\ IsInjective(w.order)
  /\ Entry(w) \in Range(w.order)

Current == workflow.step[currentStepId]

Grouped == Current.parallelGroupId # NoGroup

\* The steps the next launch runs: the current one, or its whole group.
Members ==
  IF Grouped
  THEN {s \in Defined : workflow.step[s].parallelGroupId = Current.parallelGroupId}
  ELSE {currentStepId}

\* pickTransitionTarget, as both its callers use it.
SkipTarget(step) ==
  IF step.onSkippedStepId # NoStep THEN step.onSkippedStepId
  ELSE step.onSuccessStepId

\* The step that compensates s, when there is one and its plugin is loaded.
UndoneBy(s) ==
  LET c == workflow.step[s].compensationStepId IN
  IF c \in Defined /\ workflow.step[c].loaded THEN c ELSE NoStep

Idle == [at |-> "none", attempt |-> 0, outcome |-> "none",
         verdict |-> NotSet, seen |-> NotSet]

Init ==
  /\ workflow \in Workflows
  /\ pc = "idle"
  /\ currentStepId = NoStep /\ transitionCount = 0
  /\ stepVisitCount = [s \in StepIds |-> 0]
  /\ processedParallelGroups = {}
  /\ task = [s \in StepIds |-> Idle]
  /\ params = NoStep
  /\ executedStepIds = <<>>
  /\ finalVerdict = NotSet /\ pendingVerdict = NotSet
  /\ foundFailure = FALSE /\ skips = FALSE
  /\ resumeSignal = FALSE /\ skipSignal = FALSE
  /\ undoIndex = 0 /\ undone = <<>>
  /\ result = "none" /\ sessions = FALSE
  /\ finished = {} /\ executions = [s \in StepIds |-> 0]

-------------------------------------------------------------------------------
(* Where a run goes next *)

\* A mutant: compensation begins one step too early in the list.
MutantFailWorkflow ==
  /\ pc' = "undo"
  /\ undoIndex' = IF executedStepIds = <<>> THEN 0 ELSE Len(executedStepIds) - 1
  /\ UNCHANGED <<currentStepId, undone>>

\* failWorkflow: compensation begins with the last executed step.
FailWorkflow ==
  /\ pc' = "undo"
  /\ undoIndex' = Len(executedStepIds)
  /\ UNCHANGED <<currentStepId, undone>>

\* A transition: none ends the steps, a missing target fails the run.
Follow(target) ==
  \/ /\ target \in Defined \cup {NoStep}
     /\ currentStepId' = target /\ pc' = "loop"
     /\ UNCHANGED rollback
  \/ /\ target \notin Defined \cup {NoStep}
     /\ FailWorkflow

\* After a hard failure a run without a failure target fails.
FollowFailure(target) ==
  \/ target # NoStep /\ Follow(target)
  \/ target = NoStep /\ FailWorkflow

Launch(S) ==
  /\ task' = [s \in StepIds |->
                IF s \in S THEN [Idle EXCEPT !.at = "start"] ELSE task[s]]
  /\ pc' = "running"

-------------------------------------------------------------------------------
(* The thread of executeWorkflow *)

Begin ==
  /\ pc = "idle" /\ Valid(workflow)
  /\ currentStepId' = Entry(workflow)
  /\ pc' = "loop"
  /\ UNCHANGED <<workflow, transitionCount, stepVisitCount,
                 processedParallelGroups, task, params, executedStepIds,
                 verdicts, signals, rollback, result, sessions, history>>

\* The definition is not valid, or resources cannot be preallocated.
Reject ==
  /\ pc = "idle"
  /\ pc' = "ended" /\ result' = "failed"
  /\ UNCHANGED <<workflow, position, task, params, executedStepIds, verdicts,
                 signals, rollback, sessions, history>>

\* Every pass of the loop counts the transition and the visit.
Visit ==
  /\ transitionCount' = transitionCount + 1
  /\ stepVisitCount' = [stepVisitCount EXCEPT ![currentStepId] = @ + 1]

MayVisit ==
  /\ pc = "loop" /\ currentStepId # NoStep
  /\ transitionCount < kMaxTransitions

TooManyTransitions ==
  /\ pc = "loop" /\ currentStepId # NoStep
  /\ transitionCount >= kMaxTransitions
  /\ transitionCount' = transitionCount + 1
  /\ FailWorkflow
  /\ UNCHANGED <<workflow, stepVisitCount, processedParallelGroups, task, params,
                 executedStepIds, verdicts, signals, result, sessions, history>>

\* A target that was not checked (after a skip), or a loop in the workflow.
MissingOrLoops ==
  /\ MayVisit /\ Visit
  /\ currentStepId \notin Defined \/ stepVisitCount[currentStepId] >= kMaxVisits
  /\ FailWorkflow
  /\ UNCHANGED <<workflow, processedParallelGroups, task, params,
                 executedStepIds, verdicts, signals, result, sessions, history>>

MayEnter ==
  /\ MayVisit
  /\ currentStepId \in Defined /\ stepVisitCount[currentStepId] < kMaxVisits

\* A mutant: the group is not remembered.
MutantEnter ==
  /\ MayEnter /\ Visit
  /\ Grouped => Current.parallelGroupId \notin processedParallelGroups
  /\ pc' = "offer"
  /\ UNCHANGED <<workflow, currentStepId, processedParallelGroups, task, params,
                 executedStepIds, verdicts, signals, rollback, result, sessions,
                 history>>

\* A step, or a group that is entered for the first time, is offered a break.
Enter ==
  /\ MayEnter /\ Visit
  /\ Grouped => Current.parallelGroupId \notin processedParallelGroups
  /\ processedParallelGroups' =
       IF Grouped THEN processedParallelGroups \cup {Current.parallelGroupId}
       ELSE processedParallelGroups
  /\ pc' = "offer"
  /\ UNCHANGED <<workflow, currentStepId, task, params, executedStepIds,
                 verdicts, signals, rollback, result, sessions, history>>

\* A group that was entered before is passed by.
PassGroup ==
  /\ MayEnter /\ Visit
  /\ Grouped /\ Current.parallelGroupId \in processedParallelGroups
  /\ Follow(Current.onSuccessStepId)
  /\ UNCHANGED <<workflow, processedParallelGroups, task, params,
                 executedStepIds, verdicts, signals, result, sessions, history>>

\* The user skips the step or the group; the target is checked by the loop.
SkipBlock ==
  /\ currentStepId' = SkipTarget(Current) /\ pc' = "loop"
  /\ IF Grouped THEN UNCHANGED <<finalVerdict, skips>>
     ELSE /\ finalVerdict' = MergeVerdicts(finalVerdict, Inconclusive)
          /\ skips' = TRUE

OfferContinue ==
  /\ pc = "offer" /\ Launch(Members)
  /\ UNCHANGED <<workflow, position, params, executedStepIds, verdicts,
                 signals, rollback, result, sessions, history>>

OfferPause ==
  /\ pc = "offer" /\ pc' = "paused"
  /\ UNCHANGED <<workflow, position, task, params, executedStepIds, verdicts,
                 signals, rollback, result, sessions, history>>

OfferSkip ==
  /\ pc = "offer" /\ SkipBlock
  /\ UNCHANGED <<workflow, transitionCount, stepVisitCount,
                 processedParallelGroups, task, params, executedStepIds,
                 pendingVerdict, foundFailure, signals, rollback, result, sessions,
                 history>>

OfferAbort ==
  /\ pc = "offer" /\ FailWorkflow
  /\ UNCHANGED <<workflow, transitionCount, stepVisitCount,
                 processedParallelGroups, task, params, executedStepIds,
                 verdicts, signals, result, sessions, history>>

\* A mutant: the pause has no time limit.
MutantPauseEnds ==
  /\ pc = "paused" /\ (resumeSignal \/ skipSignal)
  /\ resumeSignal' = FALSE /\ skipSignal' = FALSE
  /\ IF skipSignal
     THEN SkipBlock /\ UNCHANGED task
     ELSE Launch(Members) /\ UNCHANGED <<currentStepId, finalVerdict, skips>>
  /\ UNCHANGED <<workflow, transitionCount, stepVisitCount,
                 processedParallelGroups, params, executedStepIds,
                 pendingVerdict, foundFailure, rollback, result, sessions,
                 history>>

\* A signal, or five minutes, end the pause.  (abortSignal_ is never set.)
PauseEnds ==
  /\ pc = "paused"
  /\ resumeSignal' = FALSE /\ skipSignal' = FALSE
  /\ IF skipSignal
     THEN SkipBlock /\ UNCHANGED task
     ELSE Launch(Members) /\ UNCHANGED <<currentStepId, finalVerdict, skips>>
  /\ UNCHANGED <<workflow, transitionCount, stepVisitCount,
                 processedParallelGroups, params, executedStepIds,
                 pendingVerdict, foundFailure, rollback, result, sessions,
                 history>>

-------------------------------------------------------------------------------
(* runStep, in the thread of the run or in a thread of a group *)

TaskGoes(s, at) == task' = [task EXCEPT ![s].at = at]

Returns(s, outcome) ==
  task' = [task EXCEPT ![s].at = "done", ![s].outcome = outcome]

\* The condition is decided, the plugin found, the step's parameters merged.
StepSkipped(s) ==
  /\ task[s].at = "start" /\ workflow.step[s].conditional
  /\ Returns(s, "Skipped")
  /\ UNCHANGED <<workflow, pc, position, params, executedStepIds, verdicts,
                 signals, rollback, result, sessions, history>>

StepWithoutPlugin(s) ==
  /\ task[s].at = "start" /\ ~workflow.step[s].loaded
  /\ Returns(s, "HardFailed")
  /\ UNCHANGED <<workflow, pc, position, params, executedStepIds, verdicts,
                 signals, rollback, result, sessions, history>>

StepBegins(s) ==
  /\ task[s].at = "start" /\ workflow.step[s].loaded
  /\ params' = s
  /\ task' = [task EXCEPT ![s].at = "attempt", ![s].attempt = 1]
  /\ UNCHANGED <<workflow, pc, position, executedStepIds, verdicts, signals,
                 rollback, result, sessions, history>>

\* executeStep of the plugin, which may open a session.  A success that took
\* longer than timeoutMs counts as a failure.
Attempt(s) ==
  /\ sessions' = TRUE
  /\ executions' = [executions EXCEPT ![s] = @ + 1]

Succeeds(s) ==
  /\ task[s].at = "attempt" /\ Attempt(s)
  /\ TaskGoes(s, "analyze")
  /\ UNCHANGED <<workflow, pc, position, params, executedStepIds, verdicts,
                 signals, rollback, result, finished>>

Retries(s) ==
  /\ task[s].at = "attempt" /\ Attempt(s)
  /\ task[s].attempt < workflow.step[s].maxRetries + 1
  /\ task' = [task EXCEPT ![s].attempt = @ + 1]
  /\ UNCHANGED <<workflow, pc, position, params, executedStepIds, verdicts,
                 signals, rollback, result, finished>>

\* Two threads that append at once may lose one of the entries.
Appended(s) ==
  executedStepIds' \in
    {Append(executedStepIds, s)} \cup
    (IF \E t \in StepIds \ {s} : task[t].at \in {"append", "record"}
     THEN {executedStepIds} ELSE {})

\* The last attempt fails under ContinueOnError, or for good.
FailsSoftly(s) ==
  /\ task[s].at = "attempt" /\ Attempt(s)
  /\ task[s].attempt >= workflow.step[s].maxRetries + 1
  /\ workflow.step[s].continueOnError
  /\ TaskGoes(s, "append")
  /\ UNCHANGED <<workflow, pc, position, params, executedStepIds, verdicts,
                 signals, rollback, result, finished>>

\* A step that failed so counts as executed; it has no verdict.
StepTolerated(s) ==
  /\ task[s].at = "append"
  /\ Appended(s)
  /\ finished' = finished \cup {s}
  /\ Returns(s, "ContinueOnError")
  /\ UNCHANGED <<workflow, pc, position, params, verdicts, signals, rollback,
                 result, sessions, executions>>

FailsHard(s) ==
  /\ task[s].at = "attempt" /\ Attempt(s)
  /\ task[s].attempt >= workflow.step[s].maxRetries + 1
  /\ ~workflow.step[s].continueOnError
  /\ Returns(s, "HardFailed")
  /\ UNCHANGED <<workflow, pc, position, params, executedStepIds, verdicts,
                 signals, rollback, result, finished>>

\* The analyzers leave a result in the context, or an old one is there, or
\* none.  Two threads that add theirs at once may lose one of the two.
Collect(s, found) ==
  /\ foundFailure' = (foundFailure \/ found = VerdictFail)
  /\ pendingVerdict' \in
       {MergeVerdicts(pendingVerdict, found)} \cup
       (IF \E t \in StepIds \ {s} : task[t].at = "analyze"
        THEN {pendingVerdict} ELSE {})

\* All results collected since the engine was made are merged.
Analyze(s) ==
  /\ task[s].at = "analyze"
  /\ \E found \in Findings : Collect(s, found)
  /\ task' = [task EXCEPT ![s].at = "record",
                          ![s].verdict = MergeVerdicts(Pass, pendingVerdict'),
                          ![s].seen = finalVerdict]
  /\ UNCHANGED <<workflow, pc, position, params, executedStepIds, finalVerdict,
                 skips, signals, rollback, result, sessions, history>>

\* A mutant: the verdict of the step replaces that of the run.
MutantRecord(s) ==
  /\ task[s].at = "record"
  /\ finalVerdict' = task[s].verdict
  /\ Appended(s)
  /\ finished' = finished \cup {s}
  /\ Returns(s, "Success")
  /\ UNCHANGED <<workflow, pc, position, params, pendingVerdict, foundFailure,
                 skips, signals, rollback, result, sessions, executions>>

\* updateFinalVerdict writes what it computed from the value it had read.
Record(s) ==
  /\ task[s].at = "record"
  /\ finalVerdict' = MergeVerdicts(task[s].seen, task[s].verdict)
  /\ Appended(s)
  /\ finished' = finished \cup {s}
  /\ Returns(s, "Success")
  /\ UNCHANGED <<workflow, pc, position, params, pendingVerdict, foundFailure,
                 skips, signals, rollback, result, sessions, executions>>

RunStep(s) ==
  \/ StepSkipped(s) \/ StepWithoutPlugin(s) \/ StepBegins(s)
  \/ Succeeds(s) \/ Retries(s) \/ FailsSoftly(s) \/ StepTolerated(s)
  \/ FailsHard(s) \/ Analyze(s) \/ Record(s)

-------------------------------------------------------------------------------
(* The outcome of a step or a group *)

\* The launched steps have returned; the next launch starts from idle tasks.
Joined ==
  /\ pc = "running"
  /\ \A s \in Members : task[s].at = "done"
  /\ task' = [s \in StepIds |-> Idle]

ShouldBreak(step, outcome) ==
  \/ outcome = "HardFailed" /\ "BreakOnError" \in step.breakCondition
  \/ outcome \in {"HardFailed", "ContinueOnError"}
     /\ "BreakOnFail" \in step.breakCondition

Outcome == task[currentStepId].outcome

\* A break condition ends the steps of the run as if they had all been done.
StepBreaks ==
  /\ Joined /\ ~Grouped /\ ShouldBreak(Current, Outcome)
  /\ currentStepId' = NoStep /\ pc' = "loop"
  /\ UNCHANGED <<workflow, transitionCount, stepVisitCount,
                 processedParallelGroups, params, executedStepIds, verdicts,
                 signals, rollback, result, sessions, history>>

StepReturns ==
  /\ Joined /\ ~Grouped /\ ~ShouldBreak(Current, Outcome)
  /\ IF Outcome = "HardFailed" THEN FollowFailure(Current.onFailureStepId)
     ELSE Follow(IF Outcome = "Skipped" THEN SkipTarget(Current)
                 ELSE Current.onSuccessStepId)
  /\ UNCHANGED <<workflow, transitionCount, stepVisitCount,
                 processedParallelGroups, params, executedStepIds, verdicts,
                 signals, result, sessions, history>>

GroupReturns ==
  /\ Joined /\ Grouped
  /\ IF \E s \in Members : task[s].outcome = "HardFailed"
     THEN FollowFailure(Current.onFailureStepId)
     ELSE Follow(Current.onSuccessStepId)
  /\ UNCHANGED <<workflow, transitionCount, stepVisitCount,
                 processedParallelGroups, params, executedStepIds, verdicts,
                 signals, result, sessions, history>>

-------------------------------------------------------------------------------
(* The end of a run *)

\* The steps are done: leases go, plugins close their sessions.
PostWorkflow ==
  /\ pc = "loop" /\ currentStepId = NoStep
  /\ pc' = "report" /\ sessions' = FALSE
  /\ UNCHANGED <<workflow, position, task, params, executedStepIds, verdicts,
                 signals, rollback, result, history>>

\* All analyzers and reporters are content, or the first that is not fails
\* the run after all.
Reported ==
  /\ pc = "report"
  /\ pc' = "ended" /\ result' = "finished"
  /\ UNCHANGED <<workflow, position, task, params, executedStepIds, verdicts,
                 signals, rollback, sessions, history>>

ReportFails ==
  /\ pc = "report" /\ FailWorkflow
  /\ UNCHANGED <<workflow, transitionCount, stepVisitCount,
                 processedParallelGroups, task, params, executedStepIds,
                 verdicts, signals, result, sessions, history>>

\* One compensation step per executed step, last first, none run twice; its
\* failure is only reported, and its own parameters are not merged.
NextToUndo == UndoneBy(executedStepIds[undoIndex])

\* A mutant: a compensation step that several steps share runs for each.
MutantRunsCompensation ==
  pc = "undo" /\ undoIndex > 0 /\ NextToUndo # NoStep

RunsCompensation ==
  /\ pc = "undo" /\ undoIndex > 0
  /\ NextToUndo # NoStep /\ NextToUndo \notin Range(undone)

Undo ==
  /\ pc = "undo" /\ undoIndex > 0
  /\ undoIndex' = undoIndex - 1
  /\ IF RunsCompensation
     THEN undone' = Append(undone, NextToUndo) /\ sessions' = TRUE
     ELSE UNCHANGED <<undone, sessions>>
  /\ UNCHANGED <<workflow, pc, position, task, params, executedStepIds,
                 verdicts, signals, result, history>>

\* A mutant: the failure path does not notify the plugins.
MutantFailureEnds ==
  /\ pc = "undo" /\ undoIndex = 0
  /\ result' = "failed" /\ pc' = "ended"
  /\ UNCHANGED <<workflow, position, task, params, executedStepIds, verdicts,
                 signals, rollback, sessions, history>>

FailureEnds ==
  /\ pc = "undo" /\ undoIndex = 0
  /\ sessions' = FALSE
  /\ result' = "failed" /\ pc' = "ended"
  /\ UNCHANGED <<workflow, position, task, params, executedStepIds, verdicts,
                 signals, rollback, history>>

-------------------------------------------------------------------------------
(* Whoever has the engine may resume or skip, paused or not *)

ResumeExecution ==
  /\ resumeSignal' = TRUE
  /\ UNCHANGED <<workflow, pc, position, task, params, executedStepIds, verdicts,
                 skipSignal, rollback, result, sessions, history>>

SkipStep ==
  /\ skipSignal' = TRUE
  /\ UNCHANGED <<workflow, pc, position, task, params, executedStepIds, verdicts,
                 resumeSignal, rollback, result, sessions, history>>

Transition ==
  \/ Begin \/ Reject
  \/ TooManyTransitions \/ MissingOrLoops \/ Enter \/ PassGroup
  \/ OfferContinue \/ OfferPause \/ OfferSkip \/ OfferAbort \/ PauseEnds
  \/ StepBreaks \/ StepReturns \/ GroupReturns
  \/ PostWorkflow \/ Reported \/ ReportFails \/ Undo \/ FailureEnds

Next ==
  \/ Transition
  \/ \E s \in StepIds : RunStep(s)
  \/ ResumeExecution \/ SkipStep

Spec == Init /\ [][Next]_vars

\* The thread of the run goes on, plugins return, and a break offer is
\* answered; nobody is assumed to resume, skip or abort anything.
Fairness ==
  /\ WF_vars(Transition)
  /\ \A s \in StepIds : WF_vars(RunStep(s))

FairSpec == Spec /\ Fairness

-------------------------------------------------------------------------------
(* Properties *)

TaskRecord ==
  [at : {"none", "start", "attempt", "append", "analyze", "record", "done"},
   attempt : 0..(MaxRetries + 1),
   outcome : {"none", "Success", "Skipped", "ContinueOnError", "HardFailed"},
   verdict : Verdicts, seen : Verdicts]

\* The types of the engine's state; the counters stay within the limits.
TypeOK ==
  /\ workflow \in Workflows
  /\ pc \in {"idle", "loop", "offer", "paused", "running", "undo", "report",
             "ended"}
  /\ currentStepId \in Names
  /\ transitionCount \in 0..(kMaxTransitions + 1)
  /\ stepVisitCount \in [StepIds -> 0..(kMaxVisits + 1)]
  /\ processedParallelGroups \subseteq StepIds
  /\ task \in [StepIds -> TaskRecord]
  /\ params \in Names
  /\ executedStepIds \in Seq(StepIds)
  /\ {finalVerdict, pendingVerdict} \subseteq Verdicts
  /\ resumeSignal \in BOOLEAN /\ skipSignal \in BOOLEAN /\ sessions \in BOOLEAN
  /\ undoIndex \in 0..Len(executedStepIds) /\ undone \in Seq(StepIds)
  /\ result \in {"none", "finished", "failed"}
  /\ finished \subseteq StepIds /\ executions \in [StepIds -> Nat]
  /\ foundFailure \in BOOLEAN /\ skips \in BOOLEAN

\* No definition makes the engine hang: retries, loops, group revisits and
\* pauses all end, at the latest at the limits (WorkflowEngine.cpp:798-830).
RunEnds == <>(pc = "ended")

\* The engine implements the saga: compensation runs over exactly the
\* executed steps, last first, once each, after the last step has returned and
\* before the run is over, and never in a run that finishes.
Plan == [s \in StepIds |-> UndoneBy(s)]

Phase == IF pc \in {"idle", "ended"} THEN pc
         ELSE IF pc = "undo" THEN "backward" ELSE "forward"

Done == IF pc = "undo" THEN SubSeq(executedStepIds, 1, undoIndex)
        ELSE IF result = "failed" THEN <<>> ELSE executedStepIds

S == INSTANCE Saga WITH Step <- StepIds, None <- NoStep, phase <- Phase,
                        plan <- Plan, done <- Done
RefinesSaga == S!SagaSpec

Sequential == \A s \in Defined : workflow.step[s].parallelGroupId = NoGroup

\* In a workflow without groups nothing that ended well is forgotten: when the
\* run has failed, every such step that can be compensated has been.
NothingForgotten ==
  Sequential /\ result = "failed" =>
    \A s \in finished : UndoneBy(s) # NoStep => UndoneBy(s) \in Range(undone)

\* On every path out of a run the plugins have been told to close the sessions
\* they opened, compensation steps included (IStepPlugin.h:44).
SessionsClosed == pc = "ended" => ~sessions

\* A group runs once in a run however the transitions lead back to it, and a
\* step never more often than its visits and retries allow.
ExecutionsBounded ==
  \A s \in Defined :
    LET step == workflow.step[s] IN
    executions[s] <= (step.maxRetries + 1) *
      (IF step.parallelGroupId = NoGroup THEN stepVisitCount[s] ELSE 1)

\* No limit of a run is exceeded: transitions, visits and attempts stay within
\* theirs (TypeOK), and so do the executions that multiply from them.
WithinLimits == TypeOK /\ ExecutionsBounded

\* The verdict of a run tells what its analyzers found.  A run is judged failed
\* only if some step collected a failing result, and inconclusive only if the
\* user skipped one.  In a workflow without groups neither is lost, whatever
\* passes after it: a skip keeps the run from passing; the verdict a step gets
\* in step-results.jsonl is a failure exactly when it or a step before it
\* collected one (all results so far are merged, WorkflowEngine.cpp:705); and
\* once it is recorded the run has failed.
NoneAt(at) == \A s \in StepIds : task[s].at # at

VerdictTruthful ==
  /\ finalVerdict = VerdictFail => foundFailure
  /\ finalVerdict = Inconclusive => skips
  /\ Sequential =>
       /\ skips => finalVerdict >= Inconclusive
       /\ \A s \in StepIds : task[s].at = "record" =>
            (task[s].verdict = VerdictFail <=> foundFailure)
       /\ NoneAt("record") /\ foundFailure => finalVerdict = VerdictFail
===============================================================================
