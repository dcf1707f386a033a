------------------------- MODULE WorkflowEngineProofs -------------------------
(***************************************************************************)
(* A run of the engine, for any workflow and any limits: the counters stay *)
(* within the limits, sessions are closed at the end, the engine           *)
(* implements Saga, compensation forgets nothing that ended well, the      *)
(* verdict tells what was found, and executions are bounded.               *)
(***************************************************************************)
EXTENDS WorkflowEngine, SequenceTheorems, TLAPS

USE DEF position, verdicts, signals, rollback, history

Stepping == {"offer", "paused", "running"}

\* Where the run is decides what the rest of the state may be.
Control ==
  /\ pc \in Stepping => currentStepId \in Defined
  /\ pc = "idle" => executedStepIds = <<>> /\ finished = {} /\ undone = <<>>
  /\ pc # "running" => \A s \in StepIds : task[s] = Idle
  /\ pc # "ended" => result = "none"
  /\ pc \in {"idle", "report", "ended"} => ~sessions
  /\ pc \notin {"undo", "ended"} =>
       /\ transitionCount <= kMaxTransitions
       /\ \A s \in StepIds : stepVisitCount[s] <= kMaxVisits

IInv == TypeOK /\ Control

-------------------------------------------------------------------------------
(* Types of the parts *)

\* A definition has the types it was parsed with.
LEMMA StepTypes ==
  ASSUME workflow \in Workflows, NEW s \in StepIds
  PROVE  /\ workflow.step[s].loaded \in BOOLEAN
         /\ workflow.step[s].parallelGroupId \in StepIds \cup {NoGroup}
         /\ workflow.step[s].maxRetries \in 0..MaxRetries
         /\ workflow.step[s].onSuccessStepId \in Names
         /\ workflow.step[s].onFailureStepId \in Names
         /\ workflow.step[s].onSkippedStepId \in Names
         /\ SkipTarget(workflow.step[s]) \in Names
         /\ UndoneBy(s) \in Names
         /\ UndoneBy(s) # NoStep => UndoneBy(s) \in StepIds
<1>1. workflow \in WorkflowDefinition
  BY WorkflowsAssumption
<1>2. workflow.step[s] \in StepRecord
  BY <1>1 DEF WorkflowDefinition
<1> QED
  BY <1>2, NamesAssumption DEF StepRecord, SkipTarget, UndoneBy, Names, Defined

\* The entry of a valid workflow is one of its names.
LEMMA EntryType ==
  ASSUME workflow \in Workflows, Valid(workflow)
  PROVE  Entry(workflow) \in Names
<1>1. workflow.order \in Seq(Names)
  BY WorkflowsAssumption DEF WorkflowDefinition
<1> QED
  BY <1>1 DEF Valid, Range

\* Verdicts are closed under merging.
LEMMA MergeTypes ==
  ASSUME NEW a \in Verdicts, NEW b \in Verdicts
  PROVE  MergeVerdicts(a, b) \in Verdicts
BY DEF Verdicts, MergeVerdicts, NotSet, Pass, Inconclusive, VerdictFail, Aborted, Error

\* Records of tasks keep their type when a field is set.
LEMMA TaskTypes ==
  ASSUME NEW r \in TaskRecord
  PROVE  /\ \A at \in {"none", "start", "attempt", "append", "analyze", "record",
                      "done"} :
              [r EXCEPT !.at = at] \in TaskRecord
         /\ \A o \in {"none", "Success", "Skipped", "ContinueOnError",
                      "HardFailed"} :
              [r EXCEPT !.at = "done", !.outcome = o] \in TaskRecord
         /\ \A n \in 0..(MaxRetries + 1) :
              /\ [r EXCEPT !.attempt = n] \in TaskRecord
              /\ [r EXCEPT !.at = "attempt", !.attempt = n] \in TaskRecord
         /\ \A v, w \in Verdicts :
              [r EXCEPT !.at = "record", !.verdict = v, !.seen = w] \in TaskRecord
BY DEF TaskRecord

LEMMA IdleTypes == Idle \in TaskRecord /\ [Idle EXCEPT !.at = "start"] \in TaskRecord
BY LimitsAssumption DEF TaskRecord, Idle, Verdicts

-------------------------------------------------------------------------------
(* The invariant of the control state *)

\* A run starts in it.
LEMMA Initially == Init => IInv
<1> SUFFICES ASSUME Init PROVE IInv
  OBVIOUS
<1>1. TypeOK
  <2>1. <<>> \in Seq(StepIds) /\ Len(<<>>) = 0
    BY EmptySeq
  <2>2. /\ task \in [StepIds -> TaskRecord]
        /\ stepVisitCount \in [StepIds -> 0..(kMaxVisits + 1)]
        /\ executions \in [StepIds -> Nat]
    BY IdleTypes, LimitsAssumption DEF Init
  <2>3. /\ resumeSignal \in BOOLEAN /\ skipSignal \in BOOLEAN /\ sessions \in BOOLEAN
        /\ foundFailure \in BOOLEAN /\ skips \in BOOLEAN
    BY Zenon DEF Init
  <2> QED
    BY <2>1, <2>2, <2>3, LimitsAssumption DEF Init, TypeOK, Names, Verdicts
<1>2. Control
  BY LimitsAssumption DEF Init, Control, Stepping
<1> QED
  BY <1>1, <1>2 DEF IInv

\* What failWorkflow leaves behind.
LEMMA FailKeeps ==
  ASSUME IInv, FailWorkflow, pc \notin {"idle", "undo", "ended"},
         workflow' = workflow,
         executedStepIds' = executedStepIds, task' = task \/ task' = [s \in StepIds |-> Idle],
         UNCHANGED <<params, verdicts, signals, result, sessions, history>>,
         processedParallelGroups' = processedParallelGroups,
         transitionCount' \in 0..(kMaxTransitions + 1),
         stepVisitCount' \in [StepIds -> 0..(kMaxVisits + 1)],
         pc = "running" => task' = [s \in StepIds |-> Idle]
  PROVE  IInv'
<1>1. TypeOK'
  BY IdleTypes, LenProperties DEF IInv, TypeOK, FailWorkflow
<1>2. Control'
  BY DEF IInv, TypeOK, Control, FailWorkflow, Stepping
<1> QED
  BY <1>1, <1>2 DEF IInv

\* A transition either goes to a step, or to the end, or fails the run.
LEMMA FollowKeeps ==
  ASSUME IInv, NEW target \in Names, Follow(target),
         pc \notin {"idle", "undo", "ended"},
         workflow' = workflow,
         executedStepIds' = executedStepIds,
         task' = task \/ task' = [s \in StepIds |-> Idle],
         UNCHANGED <<params, verdicts, signals, result, sessions, history>>,
         processedParallelGroups' = processedParallelGroups,
         transitionCount' \in 0..kMaxTransitions,
         stepVisitCount' \in [StepIds -> 0..kMaxVisits],
         pc = "running" => task' = [s \in StepIds |-> Idle]
  PROVE  IInv'
<1>1. CASE FailWorkflow
  <2>1. /\ transitionCount' \in 0..(kMaxTransitions + 1)
        /\ stepVisitCount' \in [StepIds -> 0..(kMaxVisits + 1)]
    BY LimitsAssumption
  <2> QED
    BY <1>1, <2>1, FailKeeps
<1>2. CASE /\ currentStepId' = target /\ pc' = "loop"
           /\ UNCHANGED rollback
  <2>1. TypeOK'
    BY <1>2, IdleTypes, LimitsAssumption DEF IInv, TypeOK
  <2>2. Control'
    BY <1>2 DEF IInv, TypeOK, Control, Stepping
  <2> QED
    BY <2>1, <2>2 DEF IInv
<1> QED
  BY <1>1, <1>2 DEF Follow

LEMMA FollowFailureKeeps ==
  ASSUME IInv, NEW target \in Names, FollowFailure(target),
         pc \notin {"idle", "undo", "ended"},
         workflow' = workflow,
         executedStepIds' = executedStepIds,
         task' = [s \in StepIds |-> Idle],
         UNCHANGED <<params, verdicts, signals, result, sessions, history>>,
         processedParallelGroups' = processedParallelGroups,
         transitionCount' \in 0..kMaxTransitions,
         stepVisitCount' \in [StepIds -> 0..kMaxVisits]
  PROVE  IInv'
<1>1. CASE FailWorkflow
  <2>1. /\ transitionCount' \in 0..(kMaxTransitions + 1)
        /\ stepVisitCount' \in [StepIds -> 0..(kMaxVisits + 1)]
    BY LimitsAssumption
  <2> QED
    BY <1>1, <2>1, FailKeeps
<1>2. CASE Follow(target)
  BY <1>2, FollowKeeps
<1> QED
  BY <1>1, <1>2 DEF FollowFailure

\* What the counters allow before a pass of the loop, and after it.
LEMMA VisitCounts ==
  ASSUME IInv, MayVisit, Visit
  PROVE  /\ transitionCount' \in 0..kMaxTransitions
         /\ stepVisitCount' \in [StepIds -> 0..(kMaxVisits + 1)]
         /\ currentStepId \in StepIds
         /\ stepVisitCount[currentStepId] < kMaxVisits =>
              stepVisitCount' \in [StepIds -> 0..kMaxVisits]
<1>1. currentStepId \in StepIds
  BY DEF IInv, TypeOK, MayVisit, Names
<1>2. \A s \in StepIds : stepVisitCount[s] \in 0..kMaxVisits
  BY LimitsAssumption DEF IInv, TypeOK, Control, MayVisit
<1> QED
  BY <1>1, <1>2, LimitsAssumption DEF IInv, TypeOK, MayVisit, Visit

\* While the steps are not over, the current step is defined.
LEMMA CurrentTypes ==
  ASSUME IInv, currentStepId \in Defined
  PROVE  /\ currentStepId \in StepIds
         /\ Current.onSuccessStepId \in Names
         /\ Current.onFailureStepId \in Names
         /\ SkipTarget(Current) \in Names
         /\ Grouped => Current.parallelGroupId \in StepIds
         /\ Members \subseteq StepIds
<1>1. currentStepId \in StepIds /\ workflow \in Workflows
  BY DEF Defined, IInv, TypeOK
<1>2. Members \subseteq StepIds
  BY <1>1 DEF Members, Defined
<1> QED
  BY <1>1, <1>2, StepTypes DEF Current, Grouped

\* The launched tasks are new ones.
LEMMA LaunchTypes ==
  ASSUME IInv, NEW T, Launch(T)
  PROVE  task' \in [StepIds -> TaskRecord]
BY IdleTypes DEF IInv, TypeOK, Launch

-------------------------------------------------------------------------------
(* The thread of executeWorkflow keeps the invariant *)

LEMMA BeginKeeps == ASSUME IInv, Begin PROVE IInv'
<1>1. Entry(workflow) \in Names
  BY EntryType DEF Begin, IInv, TypeOK
<1>2. TypeOK'
  BY <1>1 DEF IInv, TypeOK, Begin
<1>3. Control'
  BY DEF IInv, TypeOK, Control, Begin, Stepping
<1> QED
  BY <1>2, <1>3 DEF IInv

LEMMA RejectKeeps == ASSUME IInv, Reject PROVE IInv'
BY DEF IInv, TypeOK, Control, Reject, Stepping

LEMMA LoopKeeps ==
  ASSUME IInv, TooManyTransitions \/ MissingOrLoops \/ Enter \/ PassGroup
  PROVE  IInv'
<1>1. CASE TooManyTransitions
  <2>1. transitionCount' \in 0..(kMaxTransitions + 1)
    BY <1>1, LimitsAssumption DEF IInv, TypeOK, Control, TooManyTransitions
  <2>2. stepVisitCount' \in [StepIds -> 0..(kMaxVisits + 1)]
    BY <1>1 DEF IInv, TypeOK, TooManyTransitions
  <2> QED
    BY <1>1, <2>1, <2>2, FailKeeps DEF TooManyTransitions
<1>2. CASE MissingOrLoops
  BY <1>2, VisitCounts, FailKeeps, LimitsAssumption DEF MissingOrLoops, MayVisit
<1>3. CASE Enter
  <2>1. /\ currentStepId \in Defined
        /\ transitionCount' \in 0..kMaxTransitions
        /\ stepVisitCount' \in [StepIds -> 0..kMaxVisits]
    BY <1>3, VisitCounts DEF Enter, MayEnter
  <2>2. processedParallelGroups' \subseteq StepIds
    BY <1>3, <2>1, CurrentTypes DEF Enter, IInv, TypeOK
  <2>3. TypeOK'
    BY <1>3, <2>1, <2>2, LimitsAssumption DEF IInv, TypeOK, Enter
  <2>4. Defined' = Defined
    BY <1>3 DEF Enter, Defined
  <2>5. Control'
    BY <1>3, <2>1, <2>4 DEF IInv, TypeOK, Control, Enter, MayEnter, MayVisit, Stepping
  <2> QED
    BY <2>3, <2>5 DEF IInv
<1>4. CASE PassGroup
  <2>1. /\ currentStepId \in Defined /\ pc = "loop"
        /\ transitionCount' \in 0..kMaxTransitions
        /\ stepVisitCount' \in [StepIds -> 0..kMaxVisits]
    BY <1>4, VisitCounts DEF PassGroup, MayEnter, MayVisit
  <2> QED
    BY <1>4, <2>1, CurrentTypes, FollowKeeps DEF PassGroup
<1> QED
  BY <1>1, <1>2, <1>3, <1>4

\* The counters while a step is offered or runs.
LEMMA SteppingCounts ==
  ASSUME IInv, pc \notin {"undo", "ended"}
  PROVE  /\ transitionCount \in 0..kMaxTransitions
         /\ stepVisitCount \in [StepIds -> 0..kMaxVisits]
<1>1. \A s \in StepIds : stepVisitCount[s] \in 0..kMaxVisits
  BY LimitsAssumption DEF IInv, TypeOK, Control
<1> QED
  BY <1>1, LimitsAssumption DEF IInv, TypeOK, Control

LEMMA OfferKeeps ==
  ASSUME IInv, OfferContinue \/ OfferPause \/ OfferSkip \/ OfferAbort \/ PauseEnds
  PROVE  IInv'
<1>1. /\ pc \in {"offer", "paused"} /\ workflow' = workflow
      /\ currentStepId \in Defined /\ Defined' = Defined
  BY DEF OfferContinue, OfferPause, OfferSkip, OfferAbort, PauseEnds, IInv,
         Control, Stepping, Defined
<1>2. SkipTarget(Current) \in Names
  BY <1>1, CurrentTypes
<1>3. /\ transitionCount \in 0..kMaxTransitions
      /\ stepVisitCount \in [StepIds -> 0..kMaxVisits]
  BY <1>1, SteppingCounts
<1>4. CASE OfferContinue
  <2>1. TypeOK'
    BY <1>4, LaunchTypes DEF OfferContinue, Launch, IInv, TypeOK
  <2> QED
    BY <1>1, <1>4, <2>1 DEF OfferContinue, Launch, IInv, Control, Stepping
<1>5. CASE OfferPause
  BY <1>1, <1>5 DEF OfferPause, IInv, TypeOK, Control, Stepping
<1>6. SkipBlock => finalVerdict' \in Verdicts /\ skips' \in BOOLEAN
  <2>1. SkipBlock => finalVerdict' \in Verdicts
    BY MergeTypes DEF SkipBlock, IInv, TypeOK, Verdicts
  <2>2. SkipBlock => skips' \in BOOLEAN
    BY Zenon DEF SkipBlock, IInv, TypeOK
  <2> QED
    BY <2>1, <2>2
<1>7. CASE OfferSkip
  <2>1. TypeOK'
    BY <1>2, <1>6, <1>7 DEF OfferSkip, SkipBlock, IInv, TypeOK
  <2> QED
    BY <1>1, <1>7, <2>1 DEF OfferSkip, SkipBlock, IInv, Control, Stepping
<1>8. CASE OfferAbort
  BY <1>1, <1>3, <1>8, FailKeeps, LimitsAssumption DEF OfferAbort
<1>9. CASE PauseEnds
  <2>1. CASE skipSignal
    <3>1. TypeOK'
      BY <1>2, <1>6, <1>9, <2>1 DEF PauseEnds, SkipBlock, IInv, TypeOK
    <3> QED
      BY <1>1, <1>9, <2>1, <3>1 DEF PauseEnds, SkipBlock, IInv, Control, Stepping
  <2>2. CASE ~skipSignal
    <3>1. TypeOK'
      BY <1>9, <2>2, LaunchTypes DEF PauseEnds, Launch, IInv, TypeOK
    <3> QED
      BY <1>1, <1>9, <2>2, <3>1 DEF PauseEnds, Launch, IInv, Control, Stepping
  <2> QED
    BY <2>1, <2>2
<1> QED
  BY <1>4, <1>5, <1>7, <1>8, <1>9

LEMMA ReturnsKeep ==
  ASSUME IInv, StepBreaks \/ StepReturns \/ GroupReturns
  PROVE  IInv'
<1>1. /\ pc = "running" /\ workflow' = workflow
      /\ task' = [s \in StepIds |-> Idle]
      /\ currentStepId \in Defined
  BY DEF StepBreaks, StepReturns, GroupReturns, Joined, IInv, Control, Stepping
<1>2. /\ transitionCount \in 0..kMaxTransitions
      /\ stepVisitCount \in [StepIds -> 0..kMaxVisits]
  BY <1>1, SteppingCounts
<1>3. /\ Current.onSuccessStepId \in Names /\ Current.onFailureStepId \in Names
      /\ SkipTarget(Current) \in Names
  BY <1>1, CurrentTypes
<1>4. CASE StepBreaks
  <2>1. TypeOK'
    BY <1>1, <1>4, IdleTypes DEF StepBreaks, IInv, TypeOK, Names
  <2> QED
    BY <1>1, <1>4, <2>1 DEF StepBreaks, IInv, Control, Stepping
<1>5. CASE StepReturns
  BY <1>1, <1>2, <1>3, <1>5, FollowKeeps, FollowFailureKeeps DEF StepReturns
<1>6. CASE GroupReturns
  BY <1>1, <1>2, <1>3, <1>6, FollowKeeps, FollowFailureKeeps DEF GroupReturns
<1> QED
  BY <1>4, <1>5, <1>6

LEMMA EndKeeps ==
  ASSUME IInv, PostWorkflow \/ Reported \/ ReportFails \/ Undo \/ FailureEnds
  PROVE  IInv'
<1>1. CASE PostWorkflow
  BY <1>1 DEF PostWorkflow, IInv, TypeOK, Control, Stepping
<1>2. CASE Reported
  BY <1>2 DEF Reported, IInv, TypeOK, Control, Stepping
<1>3. CASE ReportFails
  BY <1>3, SteppingCounts, FailKeeps, LimitsAssumption DEF ReportFails
<1>4. CASE Undo
  <2>1. RunsCompensation => NextToUndo \in StepIds
    <3>1. pc = "undo" /\ undoIndex > 0 => executedStepIds[undoIndex] \in StepIds
      BY DEF IInv, TypeOK
    <3> QED
      BY <3>1, StepTypes DEF RunsCompensation, NextToUndo, IInv, TypeOK
  <2>2. undone' \in Seq(StepIds) /\ sessions' \in BOOLEAN
    <3>1. CASE RunsCompensation
      <4>1. undone' \in Seq(StepIds)
        <5>1. undone \in Seq(StepIds) /\ NextToUndo \in StepIds
          BY <2>1, <3>1 DEF IInv, TypeOK
        <5>2. Append(undone, NextToUndo) \in Seq(StepIds)
          BY <5>1, AppendProperties
        <5> QED
          BY <1>4, <3>1, <5>2 DEF Undo
      <4>2. sessions' \in BOOLEAN
        BY <1>4, <3>1, Zenon DEF Undo
      <4> QED
        BY <4>1, <4>2
    <3>2. CASE ~RunsCompensation
      BY <1>4, <3>2 DEF Undo, IInv, TypeOK
    <3> QED
      BY <3>1, <3>2
  <2>3. undoIndex' \in 0..Len(executedStepIds) /\ executedStepIds' = executedStepIds
    BY <1>4, LenProperties DEF Undo, IInv, TypeOK
  <2>4. TypeOK'
    BY <1>4, <2>2, <2>3 DEF Undo, IInv, TypeOK
  <2> QED
    BY <1>4, <2>4 DEF Undo, IInv, Control, Stepping
<1>5. CASE FailureEnds
  BY <1>5 DEF FailureEnds, IInv, TypeOK, Control, Stepping
<1> QED
  BY <1>1, <1>2, <1>3, <1>4, <1>5

-------------------------------------------------------------------------------
(* runStep keeps the invariant *)

\* Steps run only while the run waits for them.
LEMMA RunningTask ==
  ASSUME IInv, NEW s \in StepIds, task[s].at # "none"
  PROVE  pc = "running"
BY DEF IInv, Control, Idle

\* The list of executed steps grows by the step, or not at all.
LEMMA AppendedTypes ==
  ASSUME IInv, NEW s \in StepIds, Appended(s)
  PROVE  /\ executedStepIds' \in Seq(StepIds)
         /\ Len(executedStepIds) <= Len(executedStepIds')
         /\ executedStepIds' \in {executedStepIds, Append(executedStepIds, s)}
<1>1. executedStepIds \in Seq(StepIds)
  BY DEF IInv, TypeOK
<1>2. /\ Append(executedStepIds, s) \in Seq(StepIds)
      /\ Len(Append(executedStepIds, s)) = Len(executedStepIds) + 1
      /\ Len(executedStepIds) \in Nat
  BY <1>1, AppendProperties, LenProperties
<1>3. executedStepIds' \in {executedStepIds, Append(executedStepIds, s)}
  BY DEF Appended
<1> QED
  BY <1>1, <1>2, <1>3

LEMMA RunStepKeeps ==
  ASSUME IInv, NEW s \in StepIds, RunStep(s)
  PROVE  IInv'
<1>1. task[s] \in TaskRecord /\ workflow \in Workflows
  BY DEF IInv, TypeOK
<1>2. task[s].at # "none"
  BY DEF RunStep, StepSkipped, StepWithoutPlugin, StepBegins, Succeeds, Retries,
         FailsSoftly, StepTolerated, FailsHard, Analyze, Record
<1>3. pc = "running"
  BY <1>2, RunningTask
<1>4. workflow' = workflow /\ Defined' = Defined
  BY DEF RunStep, StepSkipped, StepWithoutPlugin, StepBegins, Succeeds, Retries,
         FailsSoftly, StepTolerated, FailsHard, Analyze, Record, Defined
<1>5. ASSUME task' \in [StepIds -> TaskRecord], params' \in Names,
             executedStepIds' \in Seq(StepIds),
             Len(executedStepIds) <= Len(executedStepIds'),
             {finalVerdict', pendingVerdict'} \subseteq Verdicts,
             foundFailure' \in BOOLEAN, skips' \in BOOLEAN,
             sessions' \in BOOLEAN, finished' \subseteq StepIds,
             executions' \in [StepIds -> Nat],
             UNCHANGED <<workflow, pc, position, signals, rollback, result>>
      PROVE  IInv'
  <2>1. Len(executedStepIds) \in Nat /\ Len(executedStepIds') \in Nat
    BY <1>5, LenProperties DEF IInv, TypeOK
  <2>2. TypeOK'
    BY <1>5, <2>1 DEF IInv, TypeOK
  <2> QED
    BY <1>3, <1>4, <1>5, <2>2 DEF IInv, Control, Stepping
<1>6. CASE StepSkipped(s) \/ StepWithoutPlugin(s)
  <2>1. task' \in [StepIds -> TaskRecord]
    BY <1>1, <1>6, TaskTypes DEF StepSkipped, StepWithoutPlugin, Returns, IInv, TypeOK
  <2> QED
    BY <1>5, <1>6, <2>1, LenProperties
    DEF StepSkipped, StepWithoutPlugin, IInv, TypeOK
<1>7. CASE StepBegins(s)
  <2>1. 1 \in 0..(MaxRetries + 1)
    BY LimitsAssumption
  <2>2. task' \in [StepIds -> TaskRecord]
    BY <1>1, <1>7, <2>1, TaskTypes DEF StepBegins, IInv, TypeOK
  <2> QED
    BY <1>5, <1>7, <2>2, LenProperties DEF StepBegins, IInv, TypeOK, Names
<1>8. Attempt(s) => sessions' \in BOOLEAN /\ executions' \in [StepIds -> Nat]
  <2>1. Attempt(s) => sessions' \in BOOLEAN
    BY Zenon DEF Attempt
  <2>2. Attempt(s) => executions' \in [StepIds -> Nat]
    BY DEF Attempt, IInv, TypeOK
  <2> QED
    BY <2>1, <2>2
<1>9. CASE Succeeds(s)
  <2>1. task' \in [StepIds -> TaskRecord]
    BY <1>1, <1>9, TaskTypes DEF Succeeds, TaskGoes, IInv, TypeOK
  <2> QED
    BY <1>5, <1>8, <1>9, <2>1, LenProperties DEF Succeeds, IInv, TypeOK
<1>10. CASE Retries(s)
  <2>1. task[s].attempt + 1 \in 0..(MaxRetries + 1)
    <3>1. workflow.step[s].maxRetries \in 0..MaxRetries
      BY <1>1, StepTypes
    <3>2. task[s].attempt \in 0..(MaxRetries + 1)
      BY <1>1 DEF TaskRecord
    <3>3. task[s].attempt < workflow.step[s].maxRetries + 1
      BY <1>10 DEF Retries
    <3> QED
      BY <3>1, <3>2, <3>3, LimitsAssumption
  <2>2. [task[s] EXCEPT !.attempt = task[s].attempt + 1] \in TaskRecord
    BY <1>1, <2>1, TaskTypes
  <2>3. task' \in [StepIds -> TaskRecord]
    BY <1>10, <2>2 DEF Retries, IInv, TypeOK
  <2> QED
    BY <1>5, <1>8, <1>10, <2>3, LenProperties DEF Retries, IInv, TypeOK
<1>11. CASE FailsSoftly(s)
  <2>1. task' \in [StepIds -> TaskRecord]
    BY <1>1, <1>11, TaskTypes DEF FailsSoftly, TaskGoes, IInv, TypeOK
  <2> QED
    BY <1>5, <1>8, <1>11, <2>1, LenProperties DEF FailsSoftly, IInv, TypeOK
<1>15. CASE StepTolerated(s)
  <2>1. task' \in [StepIds -> TaskRecord]
    BY <1>1, <1>15, TaskTypes DEF StepTolerated, Returns, IInv, TypeOK
  <2>2. finished' \subseteq StepIds
    BY <1>15 DEF StepTolerated, IInv, TypeOK
  <2>3. /\ executedStepIds' \in Seq(StepIds)
        /\ Len(executedStepIds) <= Len(executedStepIds')
    BY <1>15, AppendedTypes DEF StepTolerated
  <2> QED
    BY <1>5, <1>15, <2>1, <2>2, <2>3 DEF StepTolerated, IInv, TypeOK
<1>12. CASE FailsHard(s)
  <2>1. task' \in [StepIds -> TaskRecord]
    BY <1>1, <1>12, TaskTypes DEF FailsHard, Returns, IInv, TypeOK
  <2> QED
    BY <1>5, <1>8, <1>12, <2>1, LenProperties DEF FailsHard, IInv, TypeOK
<1>13. CASE Analyze(s)
  <2>1. pendingVerdict' \in Verdicts
    BY <1>13, MergeTypes DEF Analyze, Collect, Findings, IInv, TypeOK, Verdicts
  <2>4. foundFailure' \in BOOLEAN
    BY <1>13, Zenon DEF Analyze, Collect
  <2>2. MergeVerdicts(Pass, pendingVerdict') \in Verdicts
    BY <2>1, MergeTypes DEF Verdicts
  <2>3. task' \in [StepIds -> TaskRecord]
    BY <1>1, <1>13, <2>2, TaskTypes DEF Analyze, IInv, TypeOK
  <2> QED
    BY <1>5, <1>13, <2>1, <2>3, <2>4, LenProperties DEF Analyze, IInv, TypeOK
<1>14. CASE Record(s)
  <2>1. task' \in [StepIds -> TaskRecord]
    BY <1>1, <1>14, TaskTypes DEF Record, Returns, IInv, TypeOK
  <2>2. finished' \subseteq StepIds
    BY <1>14 DEF Record, IInv, TypeOK
  <2>3. /\ executedStepIds' \in Seq(StepIds)
        /\ Len(executedStepIds) <= Len(executedStepIds')
    BY <1>14, AppendedTypes DEF Record
  <2>4. task[s].verdict \in Verdicts /\ task[s].seen \in Verdicts
    BY <1>1 DEF TaskRecord
  <2>5. finalVerdict' \in Verdicts
    BY <1>14, <2>4, MergeTypes DEF Record, IInv, TypeOK
  <2> QED
    BY <1>5, <1>14, <2>1, <2>2, <2>3, <2>5 DEF Record, IInv, TypeOK
<1> QED
  BY <1>6, <1>7, <1>9, <1>10, <1>11, <1>12, <1>13, <1>14, <1>15 DEF RunStep

LEMMA SignalKeeps ==
  ASSUME IInv, ResumeExecution \/ SkipStep \/ UNCHANGED vars
  PROVE  IInv'
<1>1. resumeSignal' \in BOOLEAN /\ skipSignal' \in BOOLEAN
  BY Zenon DEF ResumeExecution, SkipStep, vars, IInv, TypeOK
<1>2. UNCHANGED <<workflow, pc, position, task, params, executedStepIds, verdicts,
                  rollback, result, sessions, history>>
  BY DEF ResumeExecution, SkipStep, vars
<1> QED
  BY <1>1, <1>2 DEF IInv, TypeOK, Control, Stepping, Defined

LEMMA NextKeeps == IInv /\ [Next]_vars => IInv'
BY BeginKeeps, RejectKeeps, LoopKeeps, OfferKeeps, ReturnsKeep, EndKeeps,
   RunStepKeeps, SignalKeeps DEF Next, Transition

THEOREM Invariance == Spec => []IInv
BY Initially, NextKeeps, PTL DEF Spec

\* The types of the engine's state, in particular that neither counter passes
\* its limit by more than one (WorkflowEngine.cpp:803-830).
THEOREM Typing == Spec => []TypeOK
<1>1. IInv => TypeOK
  BY DEF IInv
<1> QED
  BY <1>1, Invariance, PTL

\* Every path out of a run has told the plugins to close their sessions
\* (WorkflowEngine.cpp:546-552, 1109-1114).
THEOREM SessionsEnd == Spec => []SessionsClosed
<1>1. IInv => SessionsClosed
  BY DEF IInv, Control, SessionsClosed
<1> QED
  BY <1>1, Invariance, PTL

-------------------------------------------------------------------------------
(* The engine implements the saga *)

\* Nothing the saga speaks of changes while the run goes from step to step.
LEMMA ForwardStutters ==
  ASSUME IInv, pc \notin {"idle", "undo", "ended"},
         pc' \notin {"idle", "undo", "ended"},
         UNCHANGED <<workflow, executedStepIds, result, undone>>
  PROVE  UNCHANGED S!sagaVars
<1>1. Plan' = Plan
  BY DEF Plan, UndoneBy, Defined
<1>2. Phase' = Phase
  BY DEF Phase
<1>3. Done' = Done
  BY DEF Done, IInv, Control
<1> QED
  BY <1>1, <1>2, <1>3 DEF S!sagaVars

\* failWorkflow begins to undo with everything that was executed.
LEMMA FailRefines ==
  ASSUME IInv, FailWorkflow, pc \notin {"idle", "undo", "ended"},
         UNCHANGED <<workflow, executedStepIds, result>>
  PROVE  S!Fail
<1>1. Plan' = Plan
  BY DEF Plan, UndoneBy, Defined
<1>2. Phase = "forward" /\ Phase' = "backward"
  BY DEF Phase, FailWorkflow
<1>3. Done' = Done
  <2>1. SubSeq(executedStepIds, 1, Len(executedStepIds)) = executedStepIds
    BY SubSeqFull DEF IInv, TypeOK
  <2> QED
    BY <2>1 DEF Done, FailWorkflow, IInv, Control
<1> QED
  BY <1>1, <1>2, <1>3 DEF S!Fail, S!Leave, FailWorkflow

LEMMA FollowRefines ==
  ASSUME IInv, NEW target, Follow(target) \/ FollowFailure(target),
         pc \notin {"idle", "undo", "ended"},
         UNCHANGED <<workflow, executedStepIds, result>>
  PROVE  S!Fail \/ UNCHANGED S!sagaVars
<1>1. CASE FailWorkflow
  BY <1>1, FailRefines
<1>2. CASE pc' = "loop" /\ UNCHANGED rollback
  BY <1>2, ForwardStutters
<1> QED
  BY <1>1, <1>2 DEF Follow, FollowFailure

\* Undoing takes the last executed step that is left.
LEMMA UndoRefines == ASSUME IInv, Undo PROVE S!Undo
<1>1. /\ executedStepIds \in Seq(StepIds) /\ undoIndex \in 1..Len(executedStepIds)
      /\ pc = "undo" /\ undoIndex' = undoIndex - 1
  BY DEF Undo, IInv, TypeOK
<1>2. Plan' = Plan
  BY DEF Plan, UndoneBy, Defined, Undo
<1>3. Phase = "backward" /\ Phase' = Phase
  BY <1>1 DEF Phase, Undo
<1>4. Done = SubSeq(executedStepIds, 1, undoIndex)
      /\ Done' = SubSeq(executedStepIds, 1, undoIndex - 1)
  BY <1>1 DEF Done, Undo
<1>5. /\ Len(Done) = undoIndex /\ Done \in Seq(StepIds)
      /\ Done[undoIndex] = executedStepIds[undoIndex]
  <2>1. undoIndex \in Int /\ 1 \in 1..(Len(executedStepIds) + 1)
        /\ undoIndex \in 0..Len(executedStepIds)
    BY <1>1, LenProperties
  <2>2. /\ Len(Done) = undoIndex - 1 + 1 /\ Done \in Seq(StepIds)
        /\ \A i \in 1..(undoIndex - 1 + 1) : Done[i] = executedStepIds[1 + i - 1]
    BY <1>1, <1>4, <2>1, SubSeqProperties
  <2> QED
    BY <1>1, <2>1, <2>2
<1>6. Done' = SubSeq(Done, 1, Len(Done) - 1)
  BY <1>1, <1>4, <1>5, SubSeqOfSubSeq, LenProperties
<1>7. Done # <<>>
  BY <1>1, <1>5, EmptySeq
<1>8. Plan[Done[Len(Done)]] = NextToUndo
  BY <1>1, <1>5 DEF Plan, NextToUndo
<1>9. undone' = IF NextToUndo = NoStep \/ NextToUndo \in Range(undone) THEN undone
                ELSE Append(undone, NextToUndo)
  BY <1>1 DEF Undo, RunsCompensation
<1>10. Range(undone) = S!Range(undone)
  BY DEF Range, S!Range
<1> QED
  BY <1>2, <1>3, <1>6, <1>7, <1>8, <1>9, <1>10 DEF S!Undo

\* An executed step is one the saga has done; a lost entry is no step of it.
LEMMA RunStepRefines ==
  ASSUME IInv, NEW s \in StepIds, RunStep(s)
  PROVE  S!Do(s) \/ UNCHANGED S!sagaVars
<1>1. task[s].at # "none"
  BY DEF RunStep, StepSkipped, StepWithoutPlugin, StepBegins, Succeeds, Retries,
         FailsSoftly, StepTolerated, FailsHard, Analyze, Record
<1>2. pc = "running" /\ result = "none"
  BY <1>1, RunningTask DEF IInv, Control
<1>3. UNCHANGED <<workflow, pc, rollback, result>>
  BY DEF RunStep, StepSkipped, StepWithoutPlugin, StepBegins, Succeeds, Retries,
         FailsSoftly, StepTolerated, FailsHard, Analyze, Record
<1>4. executedStepIds' \in {executedStepIds, Append(executedStepIds, s)}
  <2>1. Appended(s) \/ executedStepIds' = executedStepIds
    BY DEF RunStep, StepSkipped, StepWithoutPlugin, StepBegins, Succeeds, Retries,
           FailsSoftly, StepTolerated, FailsHard, Analyze, Record
  <2> QED
    BY <2>1, AppendedTypes
<1>5. CASE executedStepIds' = executedStepIds
  BY <1>2, <1>3, <1>5, ForwardStutters
<1>6. CASE executedStepIds' = Append(executedStepIds, s)
  <2>1. Plan' = Plan
    BY <1>3 DEF Plan, UndoneBy, Defined
  <2>2. Phase = "forward" /\ Phase' = Phase
    BY <1>2, <1>3 DEF Phase
  <2>3. Done' = Append(Done, s)
    BY <1>2, <1>3, <1>6 DEF Done
  <2> QED
    BY <1>3, <2>1, <2>2, <2>3 DEF S!Do
<1> QED
  BY <1>4, <1>5, <1>6

LEMMA NextRefines == IInv /\ [Next]_vars => [S!SagaNext]_(S!sagaVars)
<1> SUFFICES ASSUME IInv, [Next]_vars
             PROVE  S!SagaNext \/ UNCHANGED S!sagaVars
  OBVIOUS
<1> USE DEF S!SagaNext
<1>1. workflow' = workflow => Plan' = Plan
  BY DEF Plan, UndoneBy, Defined
<1>2. CASE Begin
  BY <1>1, <1>2 DEF Begin, S!Begin, S!Leave, Phase, Done, IInv, Control
<1>3. CASE Reject
  BY <1>1, <1>3 DEF Reject, S!Refuse, S!Leave, Phase, Done, IInv, Control
<1>4. CASE TooManyTransitions \/ MissingOrLoops \/ OfferAbort \/ ReportFails
  BY <1>4, FailRefines
  DEF TooManyTransitions, MissingOrLoops, OfferAbort, ReportFails, MayVisit
<1>5. CASE Enter \/ OfferContinue \/ OfferPause \/ OfferSkip \/ PauseEnds
        \/ StepBreaks \/ PostWorkflow
  <2>1. /\ pc \notin {"idle", "undo", "ended"} /\ pc' \notin {"idle", "undo", "ended"}
        /\ UNCHANGED <<workflow, executedStepIds, result, undone>>
    BY <1>5
    DEF Enter, OfferContinue, OfferPause, OfferSkip, PauseEnds, StepBreaks, Joined,
        PostWorkflow, SkipBlock, Launch, MayEnter, MayVisit
  <2> QED
    BY <2>1, ForwardStutters
<1>6. CASE PassGroup \/ StepReturns \/ GroupReturns
  <2>1. /\ pc \notin {"idle", "undo", "ended"}
        /\ UNCHANGED <<workflow, executedStepIds, result>>
        /\ \E target : Follow(target) \/ FollowFailure(target)
    BY <1>6 DEF PassGroup, StepReturns, GroupReturns, Joined, MayEnter, MayVisit
  <2> QED
    BY <2>1, FollowRefines
<1>7. CASE Reported
  BY <1>1, <1>7 DEF Reported, S!Commit, S!Leave, Phase, Done, IInv, Control
<1>8. CASE Undo
  BY <1>8, UndoRefines
<1>9. CASE FailureEnds
  <2>1. SubSeq(executedStepIds, 1, 0) = <<>>
    BY SubSeqEmpty DEF IInv, TypeOK
  <2> QED
    BY <1>1, <1>9, <2>1 DEF FailureEnds, S!Abort, S!Leave, Phase, Done
<1>10. ASSUME NEW s \in StepIds, RunStep(s) PROVE S!SagaNext \/ UNCHANGED S!sagaVars
  BY <1>10, RunStepRefines
<1>11. CASE ResumeExecution \/ SkipStep \/ UNCHANGED vars
  <2>1. UNCHANGED <<workflow, pc, executedStepIds, rollback, result>>
    BY <1>11 DEF ResumeExecution, SkipStep, vars
  <2>2. Phase' = Phase /\ Done' = Done
    BY <2>1 DEF Phase, Done
  <2> QED
    BY <1>1, <2>1, <2>2 DEF S!sagaVars
<1> QED
  BY <1>2, <1>3, <1>4, <1>5, <1>6, <1>7, <1>8, <1>9, <1>10, <1>11
  DEF Next, Transition

\* Whatever the workflow, its groups, failures and interruptions, the engine
\* undoes exactly what it has executed, last first, before the run is over
\* (WorkflowEngine.cpp:466-554).
THEOREM Refinement == Spec => RefinesSaga
<1>1. Init => S!SagaInit
  <2> SUFFICES ASSUME Init PROVE S!SagaInit
    OBVIOUS
  <2>1. Phase = "idle" /\ Done = <<>> /\ undone = <<>>
    BY DEF Init, Phase, Done
  <2>2. \A s \in StepIds : UndoneBy(s) \in StepIds \cup {NoStep}
    BY StepTypes DEF Init, Names
  <2>3. Plan \in [StepIds -> StepIds \cup {NoStep}]
    BY <2>2 DEF Plan
  <2> QED
    BY <2>1, <2>3 DEF S!SagaInit
<1> QED
  BY <1>1, Invariance, NextRefines, PTL DEF Spec, RefinesSaga, S!SagaSpec

-------------------------------------------------------------------------------
(* Without groups nothing is forgotten *)

Forgotten(i) == UndoneBy(executedStepIds[i]) \notin Range(undone) \cup {NoStep}

\* Only the current step runs, so no append is lost; and what compensation has
\* passed is undone or cannot be.
Memory ==
  /\ Sequential =>
       /\ \A s \in StepIds : task[s].at # "none" => s = currentStepId
       /\ finished \subseteq Range(executedStepIds)
  /\ pc = "undo" \/ result = "failed" =>
       \A i \in (undoIndex + 1)..Len(executedStepIds) : ~Forgotten(i)
  /\ result = "failed" => undoIndex = 0

LEMMA InitialMemory == Init => Memory
BY DEF Init, Memory, Idle

\* A workflow does not change while it runs.
LEMMA WorkflowFixed ==
  [Next]_vars => workflow' = workflow /\ Defined' = Defined /\ Sequential' = Sequential
<1>1. [Next]_vars => workflow' = workflow
  BY DEF Next, Transition, vars, Begin, Reject, TooManyTransitions, MissingOrLoops,
         Enter, PassGroup, OfferContinue, OfferPause, OfferSkip, OfferAbort,
         PauseEnds, StepBreaks, StepReturns, GroupReturns, PostWorkflow, Reported,
         ReportFails, Undo, FailureEnds, ResumeExecution, SkipStep, RunStep,
         StepSkipped, StepWithoutPlugin, StepBegins, Succeeds, Retries,
         FailsSoftly, StepTolerated, FailsHard, Analyze, Record
<1> QED
  BY <1>1 DEF Defined, Sequential

\* A step that is neither runStep nor Undo leaves what has been executed
\* alone, and enters compensation at the end of the list.
LEMMA ControlSteps ==
  ASSUME IInv, [Next]_vars, ~Undo, ~\E s \in StepIds : RunStep(s)
  PROVE  /\ UNCHANGED <<executedStepIds, finished, undone>>
         /\ UNCHANGED <<pendingVerdict, foundFailure>>
         /\ \/ UNCHANGED <<finalVerdict, skips>>
            \/ /\ pc # "running" /\ pc' # "running"
               /\ finalVerdict' = MergeVerdicts(finalVerdict, Inconclusive)
               /\ skips'
         /\ \/ pc' # "undo" /\ result' # "failed"
            \/ pc = "idle" /\ undoIndex' = undoIndex
            \/ undoIndex' = Len(executedStepIds) /\ result' = result /\ pc # "ended"
            \/ UNCHANGED <<pc, undoIndex, result>>
            \/ pc = "undo" /\ undoIndex = 0 /\ undoIndex' = 0
         /\ \/ UNCHANGED <<task, currentStepId>>
            \/ /\ pc' # "running"
               /\ pc = "running" => \A s \in Members : task[s].at = "done"
            \/ Launch(Members) /\ currentStepId' = currentStepId /\ pc \in {"offer", "paused"}
<1>1. CASE Begin \/ Reject \/ TooManyTransitions \/ MissingOrLoops \/ Enter
  BY <1>1 DEF Begin, Reject, TooManyTransitions, MissingOrLoops, Enter, MayEnter,
              MayVisit, FailWorkflow, IInv, Control
<1>2. CASE PassGroup
  BY <1>2 DEF PassGroup, MayEnter, MayVisit, Follow, FailWorkflow, IInv, Control
<1>3. CASE OfferContinue \/ OfferPause \/ OfferAbort
  BY <1>3 DEF OfferContinue, OfferPause, OfferAbort, Launch, FailWorkflow, IInv,
              Control
<1>7. CASE OfferSkip
  BY <1>7 DEF OfferSkip, SkipBlock, IInv, Control
<1>8. CASE PauseEnds
  BY <1>8 DEF PauseEnds, SkipBlock, Launch, IInv, Control
<1>4. CASE StepBreaks \/ StepReturns \/ GroupReturns
  BY <1>4 DEF StepBreaks, StepReturns, GroupReturns, Joined, Follow, FollowFailure,
              FailWorkflow, IInv, Control
<1>5. CASE PostWorkflow \/ Reported \/ ReportFails \/ FailureEnds
  BY <1>5 DEF PostWorkflow, Reported, ReportFails, FailureEnds, FailWorkflow,
              IInv, Control
<1>6. CASE ResumeExecution \/ SkipStep \/ UNCHANGED vars
  BY <1>6 DEF ResumeExecution, SkipStep, vars
<1> QED
  BY <1>1, <1>2, <1>3, <1>4, <1>5, <1>6, <1>7, <1>8 DEF Next, Transition

LEMMA Beyond == \A a, n \in Nat : \A i \in (a + 1)..n : i \in 1..n /\ a < i
OBVIOUS

LEMMA ControlRemembers ==
  ASSUME IInv, IInv', Memory, [Next]_vars, ~Undo, ~\E s \in StepIds : RunStep(s)
  PROVE  Memory'
<1>1. workflow' = workflow /\ Defined' = Defined /\ Sequential' = Sequential
  BY WorkflowFixed
<1>2. \A s \in StepIds : UndoneBy(s)' = UndoneBy(s)
  BY <1>1 DEF UndoneBy
<1>3. ASSUME Sequential, NEW s \in StepIds, (task[s].at # "none")'
      PROVE  (s = currentStepId)'
  <2>1. pc' = "running"
    BY <1>3 DEF IInv, Control, Idle
  <2>2. CASE Launch(Members) /\ currentStepId' = currentStepId /\ pc \in {"offer", "paused"}
    <3>1. currentStepId \in Defined
      BY <2>2 DEF IInv, Control, Stepping
    <3>2. Members = {currentStepId}
      BY <1>3, <3>1 DEF Members, Grouped, Current, Sequential
    <3>3. task[s].at = "none"
      BY <2>2 DEF IInv, Control, Idle
    <3> QED
      BY <1>3, <2>2, <3>2, <3>3 DEF Launch
  <2> QED
    BY <1>3, <2>1, <2>2, ControlSteps DEF Memory
<1>5. Sequential => (finished \subseteq Range(executedStepIds))'
  BY ControlSteps DEF Memory
<1>6. (pc = "undo" \/ result = "failed")' =>
        \A i \in (undoIndex' + 1)..Len(executedStepIds') : ~Forgotten(i)'
  <2>1. executedStepIds' = executedStepIds /\ undone' = undone
    BY ControlSteps
  <2>2. /\ executedStepIds \in Seq(StepIds) /\ undoIndex \in 0..Len(executedStepIds)
        /\ undoIndex' \in 0..Len(executedStepIds) /\ Len(executedStepIds) \in Nat
    BY <2>1, LenProperties DEF IInv, TypeOK
  <2>3. \A i \in 1..Len(executedStepIds) : Forgotten(i)' <=> Forgotten(i)
    BY <1>2, <2>1, <2>2, ElementOfSeq DEF Forgotten
  <2>8. undoIndex' \in Nat /\ Len(executedStepIds) \in Nat
    BY <2>2
  <2>9. \A i \in (undoIndex' + 1)..Len(executedStepIds) :
          i \in 1..Len(executedStepIds) /\ undoIndex' < i
    BY <2>8, Beyond
  <2>4. SUFFICES ASSUME pc' = "undo" \/ result' = "failed",
                        NEW i \in 1..Len(executedStepIds), undoIndex' < i
                 PROVE  ~Forgotten(i)'
    BY <2>1, <2>9
  <2>5. CASE pc = "idle"
    BY <2>2, <2>4, <2>5, EmptySeq DEF IInv, Control
  <2>6. CASE undoIndex' = Len(executedStepIds)
    BY <2>2, <2>4, <2>6
  <2>7. CASE undoIndex' = undoIndex /\ (pc = "undo" \/ result = "failed")
    BY <2>2, <2>3, <2>4, <2>7 DEF Memory
  <2> QED
    BY <2>4, <2>5, <2>6, <2>7, ControlSteps
<1>7. (result = "failed" => undoIndex = 0)'
  <2>1. pc = "idle" => undoIndex = 0
    BY EmptySeq DEF IInv, TypeOK, Control
  <2>2. pc # "ended" => result # "failed"
    BY DEF IInv, Control
  <2> QED
    BY <2>1, <2>2, ControlSteps DEF Memory
<1> QED
  BY <1>1, <1>3, <1>5, <1>6, <1>7 DEF Memory

LEMMA RangeOfAppend ==
  ASSUME NEW T, NEW q \in Seq(T), NEW x \in T
  PROVE  Range(Append(q, x)) = Range(q) \cup {x}
<1>1. /\ Len(q) \in Nat /\ Len(Append(q, x)) = Len(q) + 1
      /\ \A i \in 1..Len(q) : Append(q, x)[i] = q[i]
      /\ Append(q, x)[Len(q) + 1] = x
      /\ Append(q, x) \in Seq(T)
  BY AppendProperties, LenProperties
<1>2. DOMAIN q = 1..Len(q) /\ DOMAIN Append(q, x) = 1..(Len(q) + 1)
  BY <1>1, LenProperties
<1> QED
  BY <1>1, <1>2 DEF Range

\* Undoing remembers the step that has been undone.
LEMMA UndoRemembers == ASSUME IInv, Memory, Undo PROVE Memory'
<1>1. /\ executedStepIds \in Seq(StepIds) /\ undone \in Seq(StepIds)
      /\ undoIndex \in 1..Len(executedStepIds) /\ Len(executedStepIds) \in Nat
      /\ undoIndex' = undoIndex - 1 /\ pc = "undo" /\ result = "none"
      /\ UNCHANGED <<workflow, pc, position, task, executedStepIds, verdicts,
                     result, history>>
  BY LenProperties DEF Undo, IInv, TypeOK, Control
<1>2. NextToUndo \in StepIds \cup {NoStep}
  BY DEF NextToUndo, UndoneBy, Defined
<1>3. NextToUndo \in Range(undone') \cup {NoStep}
      /\ Range(undone) \subseteq Range(undone')
  <2>1. CASE RunsCompensation
    <3>1. undone' = Append(undone, NextToUndo) /\ NextToUndo \in StepIds
      BY <1>2, <2>1 DEF Undo, RunsCompensation
    <3> QED
      BY <1>1, <3>1, RangeOfAppend
  <2>2. CASE ~RunsCompensation
    BY <1>1, <2>2 DEF Undo, RunsCompensation
  <2> QED
    BY <2>1, <2>2
<1>4. \A s : UndoneBy(s)' = UndoneBy(s)
  BY <1>1 DEF UndoneBy, Defined
<1>5. \A i \in undoIndex..Len(executedStepIds) : ~Forgotten(i)'
  <2> SUFFICES ASSUME NEW i \in undoIndex..Len(executedStepIds)
               PROVE  ~Forgotten(i)'
    OBVIOUS
  <2>1. Forgotten(i)' <=>
          UndoneBy(executedStepIds[i]) \notin Range(undone') \cup {NoStep}
    BY <1>1, <1>4 DEF Forgotten, Range
  <2>2. CASE i = undoIndex
    BY <1>3, <2>1, <2>2 DEF NextToUndo
  <2>3. CASE i \in (undoIndex + 1)..Len(executedStepIds)
    BY <1>1, <1>3, <2>1, <2>3 DEF Memory, Forgotten
  <2> QED
    BY <1>1, <2>2, <2>3
<1>6. (undoIndex' + 1)..Len(executedStepIds') = undoIndex..Len(executedStepIds)
  BY <1>1
<1>7. Sequential' = Sequential
  BY <1>1 DEF Sequential, Defined
<1> QED
  BY <1>1, <1>5, <1>6, <1>7 DEF Memory

\* A step that runs alone is in the list when it has ended well.
LEMMA RunStepRemembers ==
  ASSUME IInv, Memory, NEW s \in StepIds, RunStep(s)
  PROVE  Memory'
<1>1. /\ task \in [StepIds -> TaskRecord] /\ executedStepIds \in Seq(StepIds)
      /\ task[s].at # "none"
  BY DEF RunStep, StepSkipped, StepWithoutPlugin, StepBegins, Succeeds, Retries,
         FailsSoftly, StepTolerated, FailsHard, Analyze, Record, IInv, TypeOK
<1>2. pc = "running" /\ result = "none"
  BY <1>1, RunningTask DEF IInv, Control
<1>3. UNCHANGED <<workflow, pc, position, rollback, result>>
  BY DEF RunStep, StepSkipped, StepWithoutPlugin, StepBegins, Succeeds, Retries,
         FailsSoftly, StepTolerated, FailsHard, Analyze, Record
<1>4. Sequential' = Sequential
  BY <1>3 DEF Sequential, Defined
<1>5. \A t \in StepIds \ {s} : task'[t] = task[t]
  BY <1>1 DEF RunStep, StepSkipped, StepWithoutPlugin, StepBegins, Succeeds, Retries,
         FailsSoftly, StepTolerated, FailsHard, Analyze, Record, Returns, TaskGoes
<1>6. CASE ~Sequential
  BY <1>2, <1>3, <1>4, <1>6 DEF Memory
<1>7. CASE Sequential
  <2>1. s = currentStepId /\ \A t \in StepIds \ {s} : task[t].at = "none"
    BY <1>1, <1>7 DEF Memory
  <2>2. \A t \in StepIds : task'[t].at # "none" => t = currentStepId'
    BY <1>3, <1>5, <2>1
  <2>3. Appended(s) => executedStepIds' = Append(executedStepIds, s)
    BY <2>1 DEF Appended
  <2>4. finished' \subseteq Range(executedStepIds')
    <3>1. CASE StepTolerated(s) \/ Record(s)
      <4>1. /\ executedStepIds' = Append(executedStepIds, s)
            /\ finished' = finished \cup {s}
        BY <2>3, <3>1 DEF StepTolerated, Record
      <4> QED
        BY <1>1, <1>7, <4>1, RangeOfAppend DEF Memory
    <3>2. CASE ~(StepTolerated(s) \/ Record(s))
      <4>1. UNCHANGED <<executedStepIds, finished>>
        BY <3>2 DEF RunStep, StepSkipped, StepWithoutPlugin, StepBegins, Succeeds,
                    Retries, FailsSoftly, FailsHard, Analyze
      <4> QED
        BY <1>7, <4>1 DEF Memory
    <3> QED
      BY <3>1, <3>2
  <2> QED
    BY <1>2, <1>3, <2>2, <2>4 DEF Memory
<1> QED
  BY <1>6, <1>7

THEOREM Remembering == Spec => [](IInv /\ Memory)
<1>1. Init => IInv /\ Memory
  BY Initially, InitialMemory
<1>2. IInv /\ Memory /\ [Next]_vars => (IInv /\ Memory)'
  BY NextKeeps, ControlRemembers, UndoRemembers, RunStepRemembers
<1> QED
  BY <1>1, <1>2, PTL DEF Spec

\* When a run without groups has failed, every step that ended well and can be
\* compensated has been, for every workflow (WorkflowEngine.cpp:467-532, 722, 780).
THEOREM Compensation == Spec => []NothingForgotten
<1>1. IInv /\ Memory => NothingForgotten
  <2> SUFFICES ASSUME IInv, Memory, Sequential, result = "failed",
                      NEW s \in finished, UndoneBy(s) # NoStep
               PROVE  UndoneBy(s) \in Range(undone)
    BY DEF NothingForgotten
  <2>1. executedStepIds \in Seq(StepIds)
    BY DEF IInv, TypeOK
  <2>2. DOMAIN executedStepIds = 1..Len(executedStepIds)
    BY <2>1, LenProperties
  <2>3. PICK i \in 1..Len(executedStepIds) : executedStepIds[i] = s
    BY <2>2 DEF Memory, Range
  <2>4. ~Forgotten(i)
    BY <2>3 DEF Memory
  <2> QED
    BY <2>3, <2>4 DEF Forgotten
<1> QED
  BY <1>1, Remembering, PTL

-------------------------------------------------------------------------------
(* The verdict tells what was found *)

\* A failure is claimed only after one was found, and doubt after a skip.
Grounded(v, found, skipped) ==
  /\ v \in {NotSet, Pass, Inconclusive, VerdictFail}
  /\ v = VerdictFail => found
  /\ v = Inconclusive => skipped

\* Every verdict in the engine has its ground; and in a workflow without groups
\* what was found is in the collected results, in the record to be written and,
\* once that is written, in the verdict of the run.
Evidence ==
  /\ Grounded(finalVerdict, foundFailure, skips)
  /\ Grounded(pendingVerdict, foundFailure, FALSE)
  /\ \A s \in StepIds : /\ Grounded(task[s].seen, foundFailure, skips)
                        /\ Grounded(task[s].verdict, foundFailure, FALSE)
  /\ Sequential =>
       /\ foundFailure => pendingVerdict = VerdictFail
       /\ skips => finalVerdict >= Inconclusive
       /\ \A s \in StepIds : task[s].at = "record" =>
            /\ task[s].seen = finalVerdict
            /\ foundFailure => task[s].verdict = VerdictFail
       /\ NoneAt("record") /\ foundFailure => finalVerdict = VerdictFail

LEMMA GroundedMerges ==
  ASSUME NEW found, NEW skipped, NEW a, NEW b,
         Grounded(a, found, skipped), Grounded(b, found, skipped)
  PROVE  /\ Grounded(MergeVerdicts(a, b), found, skipped)
         /\ MergeVerdicts(a, b) >= a /\ MergeVerdicts(a, b) >= b
         /\ a = VerdictFail \/ b = VerdictFail => MergeVerdicts(a, b) = VerdictFail
BY DEF Grounded, MergeVerdicts, NotSet, Pass, Inconclusive, VerdictFail

LEMMA InitialEvidence == Init => Evidence
BY DEF Init, Evidence, Grounded, Idle, NoneAt, NotSet, Pass, Inconclusive, VerdictFail

\* A step alone at work is not left before its record is written.
LEMMA RecordStays ==
  ASSUME IInv, Memory, Sequential, [Next]_vars, ~Undo,
         ~\E s \in StepIds : RunStep(s), NEW s \in StepIds, task[s].at = "record"
  PROVE  task' = task
<1>1. pc = "running" /\ s = currentStepId
  BY RunningTask DEF Memory
<1>2. Members = {s}
  BY <1>1 DEF Members, Grouped, Current, Sequential, IInv, Control, Stepping
<1> QED
  BY <1>1, <1>2, ControlSteps

LEMMA ControlEvident ==
  ASSUME IInv, IInv', Memory, Evidence, [Next]_vars, ~\E s \in StepIds : RunStep(s)
  PROVE  Evidence'
<1>1. Sequential' = Sequential
  BY WorkflowFixed
<1>2. CASE Undo
  BY <1>1, <1>2 DEF Undo, Evidence, NoneAt
<1>3. CASE ~Undo
  <2>1. /\ UNCHANGED <<pendingVerdict, foundFailure>>
        /\ \/ UNCHANGED <<finalVerdict, skips>>
           \/ /\ pc # "running" /\ pc' # "running" /\ skips'
              /\ finalVerdict' = MergeVerdicts(finalVerdict, Inconclusive)
    BY <1>3, ControlSteps
  <2>2. \A s \in StepIds :
          task'[s] = task[s] \/ task'[s] \in {Idle, [Idle EXCEPT !.at = "start"]}
    BY <1>3, ControlSteps DEF Launch, IInv, Control
  <2>3. /\ Grounded(finalVerdict', foundFailure', skips')
        /\ Sequential /\ skips' => finalVerdict' >= Inconclusive
        /\ finalVerdict = VerdictFail => finalVerdict' = VerdictFail
        /\ \A v : Grounded(v, foundFailure, skips)
                    => Grounded(v, foundFailure', skips')
    BY <2>1
    DEF Evidence, Grounded, MergeVerdicts, NotSet, Pass, Inconclusive, VerdictFail
  <2>4. \A s \in StepIds : /\ Grounded(task'[s].seen, foundFailure', skips')
                           /\ Grounded(task'[s].verdict, foundFailure', FALSE)
    BY <2>1, <2>2, <2>3
    DEF Evidence, Idle, Grounded, NotSet, Pass, Inconclusive, VerdictFail
  <2>5. ASSUME Sequential, NEW s \in StepIds, task'[s].at = "record"
        PROVE  /\ task'[s].seen = finalVerdict'
               /\ foundFailure' => task'[s].verdict = VerdictFail
    <3>1. task'[s] = task[s]
      BY <2>2, <2>5 DEF Idle
    <3>2. pc = "running"
      BY <2>5, <3>1, RunningTask
    <3> QED
      BY <2>1, <2>5, <3>1, <3>2 DEF Evidence
  <2>6. Sequential /\ NoneAt("record")' => NoneAt("record")
    BY <1>3, RecordStays DEF NoneAt
  <2>7. Sequential /\ NoneAt("record")' /\ foundFailure' => finalVerdict' = VerdictFail
    BY <2>1, <2>3, <2>6 DEF Evidence
  <2>8. /\ Grounded(pendingVerdict', foundFailure', FALSE)
        /\ Sequential /\ foundFailure' => pendingVerdict' = VerdictFail
    BY <2>1 DEF Evidence
  <2> QED
    BY <1>1, <2>3, <2>4, <2>5, <2>7, <2>8 DEF Evidence
<1> QED
  BY <1>2, <1>3

\* What analysis finds is in the results, and in the record of the step.
LEMMA AnalysisEvident ==
  ASSUME IInv, Memory, Evidence, NEW s \in StepIds, Analyze(s)
  PROVE  Evidence'
<1>1. PICK found \in Findings : Collect(s, found)
  BY DEF Analyze
<1>2. /\ UNCHANGED <<workflow, finalVerdict, skips>> /\ task \in [StepIds -> TaskRecord]
      /\ task[s].at = "analyze"
  BY DEF Analyze, IInv, TypeOK
<1>3. /\ task'[s].at = "record" /\ task'[s].seen = finalVerdict
      /\ task'[s].verdict = MergeVerdicts(Pass, pendingVerdict')
      /\ \A t \in StepIds \ {s} : task'[t] = task[t]
  BY <1>2 DEF Analyze, TaskRecord
<1>11. foundFailure' <=> foundFailure \/ found = VerdictFail
  BY <1>1, Zenon DEF Collect
<1>4. /\ foundFailure => foundFailure'
      /\ \A v, k : Grounded(v, foundFailure, k) => Grounded(v, foundFailure', k)
  BY <1>11 DEF Grounded
<1>5. Grounded(found, foundFailure', FALSE) /\ Grounded(Pass, foundFailure', FALSE)
  BY <1>11 DEF Findings, Grounded, NotSet, Pass, Inconclusive, VerdictFail
<1>6. /\ Grounded(pendingVerdict', foundFailure', FALSE)
      /\ Grounded(task'[s].verdict, foundFailure', FALSE)
  <2>1. Grounded(pendingVerdict, foundFailure', FALSE)
    BY <1>4 DEF Evidence
  <2>2. Grounded(MergeVerdicts(pendingVerdict, found), foundFailure', FALSE)
    BY <1>5, <2>1, GroundedMerges
  <2>3. Grounded(pendingVerdict', foundFailure', FALSE)
    BY <1>1, <2>1, <2>2 DEF Collect
  <2> QED
    BY <1>3, <1>5, <2>3, GroundedMerges
<1>7. \A t \in StepIds : /\ Grounded(task'[t].seen, foundFailure', skips')
                         /\ Grounded(task'[t].verdict, foundFailure', FALSE)
  BY <1>2, <1>3, <1>4, <1>6 DEF Evidence
<1>8. Grounded(finalVerdict', foundFailure', skips')
  BY <1>2, <1>4 DEF Evidence
<1>9. ASSUME Sequential
      PROVE  /\ foundFailure' => pendingVerdict' = VerdictFail
             /\ foundFailure' => task'[s].verdict = VerdictFail
             /\ \A t \in StepIds \ {s} : task'[t].at # "record"
  <2>1. \A t \in StepIds \ {s} : task[t].at = "none"
    BY <1>2, <1>9 DEF Memory
  <2>2. pendingVerdict' = MergeVerdicts(pendingVerdict, found)
    BY <1>1, <2>1 DEF Collect
  <2>3. foundFailure' => pendingVerdict = VerdictFail \/ found = VerdictFail
    BY <1>9, <1>11 DEF Evidence
  <2>4. foundFailure' => pendingVerdict' = VerdictFail
    <3>1. Grounded(pendingVerdict, foundFailure', FALSE)
      BY <1>4 DEF Evidence
    <3> QED
      BY <1>5, <2>2, <2>3, <3>1, GroundedMerges
  <2>5. foundFailure' => task'[s].verdict = VerdictFail
    BY <1>3, <1>5, <1>6, <2>4, GroundedMerges
  <2> QED
    BY <1>3, <2>1, <2>4, <2>5
<1>10. Sequential' = Sequential /\ ~NoneAt("record")'
  BY <1>2, <1>3 DEF Sequential, Defined, NoneAt
<1> QED
  BY <1>2, <1>3, <1>6, <1>7, <1>8, <1>9, <1>10 DEF Evidence

\* The verdict of the step is merged into what the step had read.
LEMMA RecordEvident ==
  ASSUME IInv, Memory, Evidence, NEW s \in StepIds, Record(s)
  PROVE  Evidence'
<1>1. /\ UNCHANGED <<workflow, pendingVerdict, foundFailure, skips>>
      /\ task \in [StepIds -> TaskRecord]
      /\ task[s].at = "record"
      /\ finalVerdict' = MergeVerdicts(task[s].seen, task[s].verdict)
  BY DEF Record, IInv, TypeOK
<1>2. /\ task'[s].at = "done" /\ task'[s].seen = task[s].seen
      /\ task'[s].verdict = task[s].verdict
      /\ \A t \in StepIds \ {s} : task'[t] = task[t]
  BY <1>1 DEF Record, Returns, TaskRecord
<1>3. /\ Grounded(task[s].seen, foundFailure, skips)
      /\ Grounded(task[s].verdict, foundFailure, skips)
  BY DEF Evidence, Grounded
<1>4. /\ Grounded(finalVerdict', foundFailure', skips')
      /\ finalVerdict' >= task[s].seen
      /\ task[s].verdict = VerdictFail => finalVerdict' = VerdictFail
  BY <1>1, <1>3, GroundedMerges
<1>5. \A t \in StepIds : /\ Grounded(task'[t].seen, foundFailure', skips')
                         /\ Grounded(task'[t].verdict, foundFailure', FALSE)
  BY <1>1, <1>2 DEF Evidence
<1>6. ASSUME Sequential
      PROVE  /\ \A t \in StepIds : task'[t].at # "record"
             /\ skips' => finalVerdict' >= Inconclusive
             /\ foundFailure' => finalVerdict' = VerdictFail
  <2>1. \A t \in StepIds \ {s} : task[t].at = "none"
    BY <1>1, <1>6 DEF Memory
  <2>2. task[s].seen = finalVerdict /\ (foundFailure => task[s].verdict = VerdictFail)
    BY <1>1, <1>6 DEF Evidence
  <2>3. skips' => finalVerdict' >= Inconclusive
    BY <1>1, <1>3, <1>4, <1>6, <2>2
    DEF Evidence, Grounded, NotSet, Pass, Inconclusive, VerdictFail
  <2> QED
    BY <1>1, <1>2, <1>4, <2>1, <2>2, <2>3
<1>7. Sequential' = Sequential
  BY <1>1 DEF Sequential, Defined
<1> QED
  BY <1>1, <1>4, <1>5, <1>6, <1>7 DEF Evidence

\* Before a step has succeeded it has no part in the verdict.
LEMMA RunStepEvident ==
  ASSUME IInv, Memory, Evidence, NEW s \in StepIds, RunStep(s)
  PROVE  Evidence'
<1>1. CASE Analyze(s)
  BY <1>1, AnalysisEvident
<1>2. CASE Record(s)
  BY <1>2, RecordEvident
<1>3. CASE ~Analyze(s) /\ ~Record(s)
  <2>1. task \in [StepIds -> TaskRecord] /\ task[s] \in TaskRecord
    BY DEF IInv, TypeOK
  <2>2. UNCHANGED <<workflow, verdicts>>
    BY <1>3 DEF RunStep, StepSkipped, StepWithoutPlugin, StepBegins, Succeeds, Retries,
                FailsSoftly, StepTolerated, FailsHard
  <2>3. /\ \A t \in StepIds \ {s} : task'[t] = task[t]
        /\ task'[s].seen = task[s].seen /\ task'[s].verdict = task[s].verdict
        /\ task[s].at # "record" /\ task'[s].at # "record"
    BY <1>3, <2>1
    DEF RunStep, StepSkipped, StepWithoutPlugin, StepBegins, Succeeds, Retries,
        FailsSoftly, StepTolerated, FailsHard, Returns, TaskGoes, TaskRecord
  <2>4. \A t \in StepIds :
          /\ task'[t].seen = task[t].seen /\ task'[t].verdict = task[t].verdict
          /\ task'[t].at = "record" <=> task[t].at = "record"
    BY <2>3
  <2>5. Sequential' = Sequential
    BY <2>2 DEF Sequential, Defined
  <2> QED
    BY <2>2, <2>4, <2>5 DEF Evidence, NoneAt
<1> QED
  BY <1>1, <1>2, <1>3

THEOREM Evident == Spec => [](IInv /\ Memory /\ Evidence)
<1>1. Init => IInv /\ Memory /\ Evidence
  BY Initially, InitialMemory, InitialEvidence
<1>2. IInv /\ Memory /\ Evidence /\ [Next]_vars => (IInv /\ Memory /\ Evidence)'
  BY NextKeeps, ControlRemembers, UndoRemembers, RunStepRemembers, ControlEvident,
     RunStepEvident
<1> QED
  BY <1>1, <1>2, PTL DEF Spec

\* The verdict of a run claims no failure that was not found and no doubt
\* without a skip; without groups it loses neither, and the record of every step
\* tells the failures found so far (WorkflowEngine.cpp:345-348, 704-706, 981, 1012).
THEOREM Verdict == Spec => []VerdictTruthful
<1>1. Memory /\ Evidence => VerdictTruthful
  BY DEF Evidence, Grounded, VerdictTruthful
<1> QED
  BY <1>1, Evident, PTL

-------------------------------------------------------------------------------
(* Executions stay within what visits and retries allow *)

Attempts(s) == workflow.step[s].maxRetries + 1

Allowance(s) ==
  IF workflow.step[s].parallelGroupId = NoGroup THEN stepVisitCount[s]
  ELSE IF workflow.step[s].parallelGroupId \in processedParallelGroups THEN 1
  ELSE 0

\* The executions that a step which is about to run, or runs, may still make.
Reserved(s) ==
  IF (pc \in {"offer", "paused"} /\ s \in Members) \/ task[s].at = "start"
  THEN Attempts(s)
  ELSE IF task[s].at = "attempt" THEN Attempts(s) - task[s].attempt + 1 ELSE 0

Budget ==
  \A s \in Defined :
    /\ executions[s] + Reserved(s) <= Attempts(s) * Allowance(s)
    /\ task[s].at = "attempt" => task[s].attempt \in 1..Attempts(s)

LEMMA Products ==
  ASSUME NEW r \in Nat, NEW a \in Nat, NEW b \in Nat
  PROVE  /\ a <= b => r * a <= r * b
         /\ r * (a + 1) = r * a + r
         /\ r * a \in Nat
OBVIOUS

LEMMA BudgetTypes ==
  ASSUME IInv, NEW s \in Defined
  PROVE  /\ s \in StepIds /\ executions[s] \in Nat /\ Attempts(s) \in Nat \ {0}
         /\ Allowance(s) \in Nat /\ task[s] \in TaskRecord
         /\ Reserved(s) \in Int
<1>1. /\ s \in StepIds /\ executions[s] \in Nat /\ task[s] \in TaskRecord
      /\ stepVisitCount[s] \in 0..(kMaxVisits + 1) /\ workflow \in Workflows
  BY DEF IInv, TypeOK, Defined
<1>2. Attempts(s) \in Nat \ {0}
  BY <1>1, StepTypes, LimitsAssumption DEF Attempts
<1>3. Allowance(s) \in Nat
  BY <1>1, LimitsAssumption DEF Allowance
<1>4. task[s].attempt \in 0..(MaxRetries + 1)
  BY <1>1 DEF TaskRecord
<1>5. Reserved(s) \in Int
  BY <1>2, <1>4, LimitsAssumption DEF Reserved
<1> QED
  BY <1>1, <1>2, <1>3, <1>5

LEMMA InitialBudget == Init => Budget
<1> SUFFICES ASSUME Init, NEW s \in Defined
             PROVE  /\ executions[s] + Reserved(s) <= Attempts(s) * Allowance(s)
                    /\ task[s].at # "attempt"
  BY DEF Budget
<1>1. s \in StepIds /\ executions[s] = 0 /\ task[s].at = "none" /\ pc = "idle"
  BY DEF Init, Defined, Idle
<1>2. Reserved(s) = 0
  BY <1>1 DEF Reserved
<1>3. Attempts(s) \in Nat /\ Allowance(s) \in Nat
  BY Initially, BudgetTypes
<1> QED
  BY <1>1, <1>2, <1>3, Products

\* A step of the run that executes nothing and reserves nothing new.
LEMMA Spared ==
  ASSUME IInv, IInv', Budget, workflow' = workflow, executions' = executions,
         NEW s \in Defined, Allowance(s) <= Allowance(s)',
         Reserved(s)' <= Reserved(s)
  PROVE  executions'[s] + Reserved(s)' <= Attempts(s)' * Allowance(s)'
<1>1. Defined' = Defined /\ Attempts(s)' = Attempts(s)
  BY DEF Defined, Attempts
<1>2. /\ executions[s] \in Nat /\ Attempts(s) \in Nat /\ Allowance(s) \in Nat
      /\ Reserved(s) \in Int
  BY BudgetTypes
<1>3. Allowance(s)' \in Nat /\ Reserved(s)' \in Int
  <2>1. /\ s \in StepIds /\ task'[s] \in TaskRecord
        /\ stepVisitCount'[s] \in 0..(kMaxVisits + 1)
    BY DEF IInv, TypeOK, Defined
  <2>2. Allowance(s)' \in Nat
    BY <2>1, LimitsAssumption DEF Allowance
  <2>3. task'[s].attempt \in 0..(MaxRetries + 1)
    BY <2>1 DEF TaskRecord
  <2>4. Reserved(s)' \in Int
    BY <1>1, <1>2, <2>3, LimitsAssumption DEF Reserved
  <2> QED
    BY <2>2, <2>4
<1>4. Attempts(s) * Allowance(s) <= Attempts(s) * Allowance(s)'
  BY <1>2, <1>3, Products
<1>5. /\ Attempts(s) * Allowance(s) \in Nat
      /\ Attempts(s) * Allowance(s)' \in Nat
  BY <1>2, <1>3, Products
<1>6. executions[s] + Reserved(s) <= Attempts(s) * Allowance(s)
  BY DEF Budget
<1> QED
  BY <1>1, <1>2, <1>3, <1>4, <1>5, <1>6

\* Who is not running reserves nothing.
LEMMA NothingReserved ==
  ASSUME IInv', workflow' = workflow, pc' \notin Stepping, NEW s \in Defined
  PROVE  Reserved(s)' = 0 /\ task'[s].at = "none"
<1>1. task'[s] = Idle
  BY DEF IInv, Control, Stepping, Defined
<1> QED
  BY <1>1 DEF Reserved, Idle, Stepping

\* Visits and groups are only ever added.
LEMMA ControlSpends ==
  ASSUME IInv, [Next]_vars, ~\E s \in StepIds : RunStep(s)
  PROVE  /\ UNCHANGED executions
         /\ processedParallelGroups \subseteq processedParallelGroups'
         /\ \A s \in StepIds : stepVisitCount[s] <= stepVisitCount'[s]
         /\ \/ pc' \notin Stepping
            \/ Enter
            \/ OfferPause
            \/ Launch(Members) /\ pc \in {"offer", "paused"}
            \/ UNCHANGED <<pc, task, currentStepId>>
<1>1. /\ stepVisitCount \in [StepIds -> 0..(kMaxVisits + 1)]
      /\ \A s \in StepIds : stepVisitCount[s] \in Int
  BY LimitsAssumption DEF IInv, TypeOK
<1>2. Visit => \A s \in StepIds : stepVisitCount[s] <= stepVisitCount'[s]
  BY <1>1 DEF Visit
<1>3. CASE Enter
  BY <1>1, <1>2, <1>3 DEF Enter
<1>4. CASE MissingOrLoops \/ PassGroup
  BY <1>1, <1>2, <1>4 DEF MissingOrLoops, PassGroup, Follow, FailWorkflow, Stepping
<1>5. CASE Begin \/ Reject \/ TooManyTransitions
  BY <1>1, <1>5 DEF Begin, Reject, TooManyTransitions, FailWorkflow, Stepping
<1>6. CASE OfferContinue \/ OfferPause \/ OfferSkip \/ OfferAbort
  BY <1>1, <1>6 DEF OfferContinue, OfferPause, OfferSkip, OfferAbort, SkipBlock,
                    FailWorkflow, Stepping
<1>7. CASE PauseEnds
  BY <1>1, <1>7 DEF PauseEnds, SkipBlock, Stepping
<1>8. CASE StepBreaks \/ StepReturns \/ GroupReturns
  BY <1>1, <1>8 DEF StepBreaks, StepReturns, GroupReturns, Follow, FollowFailure,
                    FailWorkflow, Stepping
<1>9. CASE PostWorkflow \/ Reported \/ ReportFails \/ Undo \/ FailureEnds
  BY <1>1, <1>9 DEF PostWorkflow, Reported, ReportFails, Undo, FailureEnds,
                    FailWorkflow, Stepping, IInv, Control
<1>10. CASE ResumeExecution \/ SkipStep \/ UNCHANGED vars
  BY <1>1, <1>10 DEF ResumeExecution, SkipStep, vars
<1> QED
  BY <1>3, <1>4, <1>5, <1>6, <1>7, <1>8, <1>9, <1>10 DEF Next, Transition

\* A step or a group that is entered gets one more visit to spend.
LEMMA EnterBudgets ==
  ASSUME IInv, IInv', Budget, Enter, NEW s \in Defined
  PROVE  /\ executions'[s] + Reserved(s)' <= Attempts(s)' * Allowance(s)'
         /\ task'[s].at = "none"
<1>1. /\ s \in StepIds /\ executions[s] \in Nat /\ Attempts(s) \in Nat \ {0}
      /\ Allowance(s) \in Nat /\ Reserved(s) \in Int
  BY BudgetTypes
<1>2. /\ workflow' = workflow /\ executions' = executions /\ task' = task
      /\ currentStepId' = currentStepId /\ currentStepId \in Defined
      /\ pc = "loop" /\ pc' = "offer"
  BY DEF Enter, MayEnter, MayVisit
<1>3. task[s] = Idle
  BY <1>1, <1>2 DEF IInv, Control
<1>4. Attempts(s)' = Attempts(s) /\ Members' = Members
  BY <1>2 DEF Attempts, Members, Grouped, Current, Defined
<1>5. Reserved(s) = 0 /\ Reserved(s)' = IF s \in Members THEN Attempts(s) ELSE 0
  BY <1>2, <1>3, <1>4 DEF Reserved, Idle
<1>6. Allowance(s)' = IF s \in Members THEN Allowance(s) + 1 ELSE Allowance(s)
  <2>1. stepVisitCount \in [StepIds -> 0..(kMaxVisits + 1)] /\ currentStepId \in StepIds
    BY <1>2 DEF IInv, TypeOK, Defined
  <2>2. stepVisitCount' = [stepVisitCount EXCEPT ![currentStepId] = @ + 1]
    BY DEF Enter, Visit
  <2>3. CASE Grouped
    BY <1>2, <2>1, <2>2, <2>3 DEF Enter, Allowance, Members, Grouped, Current
  <2>4. CASE ~Grouped
    BY <1>1, <1>2, <2>1, <2>2, <2>4 DEF Enter, Allowance, Members, Grouped, Current
  <2> QED
    BY <2>3, <2>4
<1>7. executions[s] <= Attempts(s) * Allowance(s)
  BY <1>1, <1>5 DEF Budget
<1>8. /\ Attempts(s) * Allowance(s) \in Nat
      /\ Attempts(s) * (Allowance(s) + 1) = Attempts(s) * Allowance(s) + Attempts(s)
  BY <1>1, Products
<1> QED
  BY <1>1, <1>2, <1>3, <1>4, <1>5, <1>6, <1>7, <1>8 DEF Idle

LEMMA ControlBudgets ==
  ASSUME IInv, IInv', Budget, [Next]_vars, ~\E s \in StepIds : RunStep(s)
  PROVE  Budget'
<1>1. workflow' = workflow /\ Defined' = Defined /\ executions' = executions
  BY WorkflowFixed, ControlSpends
<1>2. SUFFICES ASSUME NEW s \in Defined
               PROVE  /\ executions'[s] + Reserved(s)' <= Attempts(s)' * Allowance(s)'
                      /\ task'[s].at = "attempt" => task'[s].attempt \in 1..Attempts(s)'
  BY <1>1 DEF Budget
<1>3. /\ s \in StepIds /\ Attempts(s) \in Nat \ {0} /\ Attempts(s)' = Attempts(s)
      /\ task[s] \in TaskRecord /\ Reserved(s) \in Int
      /\ task[s].at = "attempt" => task[s].attempt \in 1..Attempts(s)
  BY <1>1, BudgetTypes DEF Attempts, Budget
<1>4. 0 <= Reserved(s)
  BY <1>3 DEF Reserved
<1>5. Allowance(s) <= Allowance(s)'
  BY <1>1, <1>3, ControlSpends DEF Allowance
<1>6. CASE pc' \notin Stepping
  BY <1>1, <1>4, <1>5, <1>6, NothingReserved, Spared
<1>7. CASE Enter
  BY <1>7, EnterBudgets
<1>8. CASE OfferPause
  <2>1. Reserved(s)' = Reserved(s) /\ task' = task
    BY <1>1, <1>8 DEF OfferPause, Reserved, Members, Grouped, Current, Attempts
  <2> QED
    BY <1>1, <1>3, <1>5, <2>1, Spared
<1>9. CASE Launch(Members) /\ pc \in {"offer", "paused"}
  <2>1. task[s] = Idle
    BY <1>3, <1>9 DEF IInv, Control
  <2>2. task'[s] = IF s \in Members THEN [Idle EXCEPT !.at = "start"] ELSE Idle
    BY <1>3, <1>9, <2>1 DEF Launch
  <2>3. Reserved(s)' = Reserved(s) /\ task'[s].at # "attempt"
    BY <1>3, <1>9, <2>1, <2>2 DEF Launch, Reserved, Idle
  <2> QED
    BY <1>1, <1>3, <1>5, <2>3, Spared
<1>10. CASE UNCHANGED <<pc, task, currentStepId>>
  <2>1. Reserved(s)' = Reserved(s)
    BY <1>1, <1>10 DEF Reserved, Members, Grouped, Current, Attempts
  <2> QED
    BY <1>1, <1>3, <1>5, <1>10, <2>1, Spared
<1> QED
  BY <1>6, <1>7, <1>8, <1>9, <1>10, ControlSpends

\* An attempt spends what was reserved for it.
LEMMA RunStepBudgets ==
  ASSUME IInv, IInv', Budget, NEW s \in StepIds, RunStep(s)
  PROVE  Budget'
<1>1. /\ UNCHANGED <<workflow, pc, position>> /\ task[s].at # "none"
      /\ task \in [StepIds -> TaskRecord] /\ executions \in [StepIds -> Nat]
  BY DEF RunStep, StepSkipped, StepWithoutPlugin, StepBegins, Succeeds, Retries,
         FailsSoftly, StepTolerated, FailsHard, Analyze, Record, IInv, TypeOK
<1>2. pc = "running"
  BY <1>1, RunningTask
<1>3. Defined' = Defined /\ \A t : Attempts(t)' = Attempts(t) /\ Allowance(t)' = Allowance(t)
  BY <1>1 DEF Defined, Attempts, Allowance
<1>4. SUFFICES ASSUME NEW t \in Defined
               PROVE  /\ executions'[t] + Reserved(t)' <= Attempts(t)' * Allowance(t)'
                      /\ task'[t].at = "attempt" => task'[t].attempt \in 1..Attempts(t)'
  BY <1>3 DEF Budget
<1>5. /\ t \in StepIds /\ executions[t] \in Nat /\ Attempts(t) \in Nat \ {0}
      /\ Allowance(t) \in Nat /\ task[t] \in TaskRecord /\ Reserved(t) \in Int
      /\ Attempts(t) * Allowance(t) \in Nat
      /\ executions[t] + Reserved(t) <= Attempts(t) * Allowance(t)
      /\ task[t].at = "attempt" => task[t].attempt \in 1..Attempts(t)
  BY BudgetTypes, Products DEF Budget
<1>6. Reserved(t) = IF task[t].at = "start" THEN Attempts(t)
                    ELSE IF task[t].at = "attempt" THEN Attempts(t) - task[t].attempt + 1
                    ELSE 0
  BY <1>2 DEF Reserved
<1>7. Reserved(t)' = IF task'[t].at = "start" THEN Attempts(t)
                     ELSE IF task'[t].at = "attempt"
                          THEN Attempts(t) - task'[t].attempt + 1
                     ELSE 0
  BY <1>1, <1>2, <1>3 DEF Reserved
<1>8. CASE t # s
  <2>1. task'[t] = task[t] /\ executions'[t] = executions[t]
    BY <1>1, <1>5, <1>8
    DEF RunStep, StepSkipped, StepWithoutPlugin, StepBegins, Succeeds, Retries,
        FailsSoftly, StepTolerated, FailsHard, Analyze, Record, Returns, TaskGoes, Attempt
  <2> QED
    BY <1>3, <1>5, <1>6, <1>7, <2>1
<1>9. ASSUME t = s, UNCHANGED executions, task'[s].at \notin {"start", "attempt"}
      PROVE  /\ executions'[t] + Reserved(t)' <= Attempts(t)' * Allowance(t)'
             /\ task'[t].at = "attempt" => task'[t].attempt \in 1..Attempts(t)'
  BY <1>3, <1>5, <1>6, <1>7, <1>9
<1>10. ASSUME t = s, task[s].at = "attempt", Attempt(s),
              task'[s].at \notin {"start", "attempt"}
       PROVE  /\ executions'[t] + Reserved(t)' <= Attempts(t)' * Allowance(t)'
              /\ task'[t].at = "attempt" => task'[t].attempt \in 1..Attempts(t)'
  <2>1. executions'[s] = executions[s] + 1
    BY <1>1, <1>10 DEF Attempt
  <2> QED
    BY <1>3, <1>5, <1>6, <1>7, <1>10, <2>1
<1>11. \A o : Returns(s, o) => task'[s].at = "done"
  BY <1>1 DEF Returns, TaskRecord
<1>12. CASE t = s /\ (\/ StepSkipped(s) \/ StepWithoutPlugin(s) \/ StepTolerated(s)
                     \/ Analyze(s) \/ Record(s))
  <2>1. UNCHANGED executions
    BY <1>12 DEF StepSkipped, StepWithoutPlugin, StepTolerated, Analyze, Record
  <2>2. Analyze(s) => task'[s].at = "record"
    BY <1>1 DEF Analyze, TaskRecord
  <2>3. task'[s].at \notin {"start", "attempt"}
    BY <1>11, <1>12, <2>2 DEF StepSkipped, StepWithoutPlugin, StepTolerated, Record
  <2> QED
    BY <1>9, <1>12, <2>1, <2>3
<1>13. CASE t = s /\ (Succeeds(s) \/ FailsSoftly(s) \/ FailsHard(s))
  <2>1. Succeeds(s) \/ FailsSoftly(s) => task'[s].at \in {"analyze", "append"}
    BY <1>1 DEF Succeeds, FailsSoftly, TaskGoes, TaskRecord
  <2>2. task'[s].at \notin {"start", "attempt"}
    BY <1>11, <1>13, <2>1 DEF FailsHard
  <2> QED
    BY <1>10, <1>13, <2>2 DEF Succeeds, FailsSoftly, FailsHard
<1>14. CASE t = s /\ StepBegins(s)
  <2>1. /\ task[s].at = "start" /\ task'[s].at = "attempt" /\ task'[s].attempt = 1
        /\ executions' = executions
    BY <1>1, <1>14 DEF StepBegins, TaskRecord
  <2> QED
    BY <1>3, <1>5, <1>6, <1>7, <1>14, <2>1
<1>15. CASE t = s /\ Retries(s)
  <2>1. /\ task[s].at = "attempt" /\ task'[s].at = "attempt"
        /\ task'[s].attempt = task[s].attempt + 1 /\ task[s].attempt < Attempts(s)
    BY <1>1, <1>15 DEF Retries, TaskRecord, Attempts
  <2>2. executions'[s] = executions[s] + 1
    BY <1>1, <1>15 DEF Retries, Attempt
  <2> QED
    BY <1>3, <1>5, <1>6, <1>7, <1>15, <2>1, <2>2
<1> QED
  BY <1>8, <1>12, <1>13, <1>14, <1>15 DEF RunStep

THEOREM Budgeting == Spec => [](IInv /\ Budget)
<1>1. Init => IInv /\ Budget
  BY Initially, InitialBudget
<1>2. IInv /\ Budget /\ [Next]_vars => (IInv /\ Budget)'
  BY NextKeeps, ControlBudgets, RunStepBudgets
<1> QED
  BY <1>1, <1>2, PTL DEF Spec

\* A parallel group runs once in a run, and a step never more often than its
\* visits and retries allow, for any workflow (WorkflowEngine.cpp:611, 811, 830).
THEOREM BoundedExecutions == Spec => []ExecutionsBounded
<1>1. IInv /\ Budget => ExecutionsBounded
  <2> SUFFICES ASSUME IInv, Budget, NEW s \in Defined
               PROVE  executions[s] <= Attempts(s) *
                        (IF workflow.step[s].parallelGroupId = NoGroup
                         THEN stepVisitCount[s] ELSE 1)
    BY DEF ExecutionsBounded, Attempts
  <2>1. /\ s \in StepIds /\ executions[s] \in Nat /\ Attempts(s) \in Nat \ {0}
        /\ Allowance(s) \in Nat /\ task[s] \in TaskRecord /\ Reserved(s) \in Int
        /\ Attempts(s) * Allowance(s) \in Nat /\ Attempts(s) * 1 \in Nat
    BY BudgetTypes, Products
  <2>2. 0 <= Reserved(s)
    BY <2>1 DEF Reserved, Budget
  <2>3. executions[s] <= Attempts(s) * Allowance(s)
    BY <2>1, <2>2 DEF Budget
  <2>4. CASE workflow.step[s].parallelGroupId = NoGroup
    BY <2>3, <2>4 DEF Allowance
  <2>5. CASE workflow.step[s].parallelGroupId # NoGroup
    <3>1. Allowance(s) <= 1
      BY <2>5 DEF Allowance
    <3>2. Attempts(s) * Allowance(s) <= Attempts(s) * 1
      BY <2>1, <3>1, Products
    <3> QED
      BY <2>1, <2>3, <2>5, <3>2
  <2> QED
    BY <2>4, <2>5
<1> QED
  BY <1>1, Budgeting, PTL

\* No limit of a run is exceeded, for any workflow (WorkflowEngine.cpp:611, 803-830).
THEOREM Limits == Spec => []WithinLimits
<1>1. TypeOK /\ ExecutionsBounded => WithinLimits
  BY DEF WithinLimits
<1> QED
  BY <1>1, Typing, BoundedExecutions, PTL
===============================================================================
