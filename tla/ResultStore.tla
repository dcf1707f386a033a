------------------------------ MODULE ResultStore ------------------------------
(***************************************************************************)
(* TestResultCollector and SqliteTestRepository.  The events of the        *)
(* workflow engine reach the collector in the thread that publishes them,  *)
(* those of a parallel group in a thread per step and without a lock.  At  *)
(* the end of a workflow the collected result is written in one            *)
(* transaction; other connections read and purge meanwhile.                *)
(*                                                                         *)
(* A result has the number of its run for an id (a fresh UUID).  The steps *)
(* of a run are numbered as they happen.                                   *)
(***************************************************************************)
EXTENDS Integers, Sequences, SequencesExt

CONSTANTS MaxResRuns,   \* bound: workflows run
          MaxResSteps,  \* bound: steps and compensations of one run
          NoImage       \* no transaction is open

ASSUME ResultBoundsAssumption == MaxResRuns \in Nat /\ MaxResSteps \in Nat

ResRuns == 1..MaxResRuns
Members == {1, 2}

\* What the engine tells of a step ("success", "skipped" or "continue_on_error"); it
\* publishes nothing for one that fails for good.
Told == {"told"}

RowType == [step : 1..MaxResSteps, status : Told \cup {"failed", "compensated"}]

\* The results, and the rows of their steps in the order of their ids.
Database == [results : SUBSET ResRuns, steps : [ResRuns -> Seq(RowType)]]

ASSUME NoImageAssumption == NoImage \notin Database

VARIABLES resRun,      \* runs begun
          resPhase,    \* what the engine is doing
          resDone,     \* the steps of each run, told or not
          resEnd,      \* how each run ended
          collecting,  \* collecting_
          collected,   \* the steps of currentResult_
          member,      \* the steps of a parallel group, each in its thread
          racedRuns,       \* runs in which two threads appended at once
          disk,        \* what is committed
          image,       \* what the open transaction sees
          saved,       \* step rows written by this save, -1 before the result's row
          persisted,   \* persistedIds_
          purged,      \* results that were purged
          reading,     \* findById of another connection: the id it reads, 0 for none
          found        \* the steps it found, after the result

engineVars == <<resRun, resPhase, resDone, resEnd>>
collectorVars == <<collecting, collected, member, racedRuns>>
storeVars == <<disk, image, saved, persisted, purged>>
readerVars == <<reading, found>>
resultVars == <<engineVars, collectorVars, storeVars, readerVars>>

NoMember == [at |-> "none", row |-> << >>, read |-> << >>]

ResInit ==
  /\ resRun = 0
  /\ resPhase = "idle"
  /\ resDone = [r \in ResRuns |-> << >>]
  /\ resEnd = [r \in ResRuns |-> "none"]
  /\ collecting = FALSE
  /\ collected = << >>
  /\ member = [k \in Members |-> NoMember]
  /\ racedRuns = {}
  /\ disk = [results |-> {}, steps |-> [r \in ResRuns |-> << >>]]
  /\ image = NoImage
  /\ saved = -1
  /\ persisted = {}
  /\ purged = {}
  /\ reading = 0
  /\ found = << >>

-------------------------------------------------------------------------------
\* The engine publishes, the collector listens.

Row(status) == [step |-> Len(resDone[resRun]) + 1, status |-> status]

HasRoom(n) == Len(resDone[resRun]) + n <= MaxResSteps

Happens(row) == resDone' = [resDone EXCEPT ![resRun] = Append(@, row)]

Collect(row) == collected' = IF collecting THEN Append(collected, row) ELSE collected

\* A mutant: the steps of the last result stay.
MutantResetCollector == collecting' = TRUE /\ UNCHANGED collected

\* workflow.started: a result of its own.
ResetCollector == collecting' = TRUE /\ collected' = << >>

StartRun ==
  /\ resPhase = "idle" /\ resRun < MaxResRuns
  /\ resRun' = resRun + 1
  /\ resPhase' = "steps"
  /\ ResetCollector
  /\ UNCHANGED <<resDone, resEnd, member, racedRuns, storeVars, readerVars>>

RunStep ==
  \E status \in Told :
    /\ resPhase = "steps" /\ HasRoom(1)
    /\ Happens(Row(status))
    /\ Collect(Row(status))
    /\ UNCHANGED <<resRun, resPhase, resEnd, collecting, member, racedRuns, storeVars, readerVars>>

\* A step that fails for good, and leads on to its failure handler or breaks the flow.
FailedStepHandled ==
  /\ resPhase = "steps" /\ HasRoom(1)
  /\ Happens(Row("failed"))
  /\ UNCHANGED <<resRun, resPhase, resEnd, collectorVars, storeVars, readerVars>>

\* finalizeResult: workflow.finished or workflow.failed, which comes before the
\* compensations.
Finalize(outcome) ==
  /\ collecting' = FALSE
  /\ resEnd' = [resEnd EXCEPT ![resRun] = outcome]
  /\ resPhase' = "saving"
  /\ saved' = -1
  /\ UNCHANGED <<resRun, collected, member, racedRuns, disk, image, persisted, purged, readerVars>>

FinishRun == resPhase = "steps" /\ Finalize("pass") /\ UNCHANGED resDone

\* A step fails for good, or the preallocation, a missing step or the analyzer does.
FailRun ==
  /\ resPhase = "steps"
  /\ Finalize("fail")
  /\ \/ HasRoom(1) /\ Happens(Row("failed"))
     \/ UNCHANGED resDone

\* A parallel group of two.
StartGroup ==
  /\ resPhase = "steps" /\ HasRoom(2)
  /\ resPhase' = "group"
  /\ member' = [k \in Members |-> [NoMember EXCEPT !.at = "runs"]]
  /\ UNCHANGED <<resRun, resDone, resEnd, collecting, collected, racedRuns, storeVars, readerVars>>

\* A thread enters the append to stepResults_; one whose step failed does not.
MemberEnds(k) ==
  \E status \in Told \cup {"failed"} :
    /\ member[k].at = "runs"
    /\ Happens(Row(status))
    /\ member' = [member EXCEPT ![k] =
         [at |-> IF status = "failed" THEN "done" ELSE "appends", row |-> Row(status), read |-> collected]]
    /\ UNCHANGED <<resRun, resPhase, resEnd, collecting, collected, racedRuns, storeVars, readerVars>>

\* It leaves it: of two that were in it, the row of one is lost.
MemberAppends(k) ==
  /\ member[k].at = "appends"
  /\ collected' = Append(member[k].read, member[k].row)
  /\ racedRuns' = IF collected = member[k].read THEN racedRuns ELSE racedRuns \cup {resRun}
  /\ member' = [member EXCEPT ![k] = [NoMember EXCEPT !.at = "done"]]
  /\ UNCHANGED <<engineVars, collecting, storeVars, readerVars>>

EndGroup ==
  /\ resPhase = "group" /\ \A k \in Members : member[k].at = "done"
  /\ resPhase' = "steps"
  /\ member' = [k \in Members |-> NoMember]
  /\ UNCHANGED <<resRun, resDone, resEnd, collecting, collected, racedRuns, storeVars, readerVars>>

Compensate ==
  /\ resPhase = "compensating" /\ HasRoom(1)
  /\ Happens(Row("compensated"))
  /\ Collect(Row("compensated"))
  /\ UNCHANGED <<resRun, resPhase, resEnd, collecting, member, racedRuns, storeVars, readerVars>>

EndRun ==
  /\ resPhase = "compensating"
  /\ resPhase' = "idle"
  /\ UNCHANGED <<resRun, resDone, resEnd, collectorVars, storeVars, readerVars>>

-------------------------------------------------------------------------------
\* The repository.

InSave == UNCHANGED <<resRun, resDone, resEnd, collectorVars, purged, readerVars>>

\* save returns to the engine.
SaveReturns == resPhase' = IF resEnd[resRun] = "fail" THEN "compensating" ELSE "idle"

\* The transaction begins and writes the row of the result.
InsertResult ==
  /\ resPhase = "saving" /\ saved = -1
  /\ image' = [disk EXCEPT !.results = @ \cup {resRun}]
  /\ saved' = 0
  /\ UNCHANGED <<resPhase, disk, persisted>>
  /\ InSave

InsertStep ==
  /\ resPhase = "saving" /\ saved \in 0..Len(collected) - 1
  /\ image' = [image EXCEPT !.steps[resRun] = Append(@, collected[saved + 1])]
  /\ saved' = saved + 1
  /\ UNCHANGED <<resPhase, disk, persisted>>
  /\ InSave

Commit ==
  /\ resPhase = "saving" /\ saved = Len(collected)
  /\ disk' = image
  /\ image' = NoImage
  /\ saved' = -1
  /\ persisted' = persisted \cup {resRun}
  /\ SaveReturns
  /\ InSave

\* A statement, or the commit, fails: rollback.
SaveFails ==
  /\ resPhase = "saving"
  /\ image' = NoImage
  /\ saved' = -1
  /\ SaveReturns
  /\ UNCHANGED <<disk, persisted>>
  /\ InSave

\* purgeOlderThan, of another connection: it waits while a transaction writes.  The
\* steps go with their results.
Purge ==
  \E r \in disk.results :
    LET old == {o \in disk.results : o <= r} IN
      /\ image = NoImage
      /\ disk' = [results |-> disk.results \ old,
                  steps |-> [s \in ResRuns |-> IF s \in old THEN << >> ELSE disk.steps[s]]]
      /\ purged' = purged \cup old
      /\ UNCHANGED <<engineVars, collectorVars, image, saved, persisted, readerVars>>

StepsOf(db, r) == db.steps[r]

\* findById of another connection: the result, then its steps, outside a transaction.
FindResult ==
  \E r \in disk.results :
    /\ reading' = r
    /\ found' = << >>
    /\ UNCHANGED <<engineVars, collectorVars, storeVars>>

FindSteps ==
  /\ reading # 0
  /\ found' = <<reading, StepsOf(disk, reading)>>
  /\ reading' = 0
  /\ UNCHANGED <<engineVars, collectorVars, storeVars>>

\* The process dies: what was not committed is gone.
ResCrash ==
  /\ resPhase # "idle"
  /\ resPhase' = "idle"
  /\ collecting' = FALSE
  /\ collected' = << >>
  /\ member' = [k \in Members |-> NoMember]
  /\ image' = NoImage
  /\ saved' = -1
  /\ persisted' = {}
  /\ UNCHANGED <<resRun, resDone, resEnd, racedRuns, disk, purged, readerVars>>

ResNext ==
  \/ StartRun
  \/ RunStep
  \/ FailedStepHandled
  \/ FinishRun
  \/ FailRun
  \/ StartGroup
  \/ \E k \in Members : MemberEnds(k) \/ MemberAppends(k)
  \/ EndGroup
  \/ Compensate
  \/ EndRun
  \/ InsertResult
  \/ InsertStep
  \/ Commit
  \/ SaveFails
  \/ Purge
  \/ FindResult
  \/ FindSteps
  \/ ResCrash

ResSpec == ResInit /\ [][ResNext]_resultVars

-------------------------------------------------------------------------------

ResTypeOK ==
  /\ resRun \in 0..MaxResRuns
  /\ resPhase \in {"idle", "steps", "group", "saving", "compensating"}
  /\ \A r \in ResRuns : resDone[r] \in Seq(RowType) /\ resEnd[r] \in {"none", "pass", "fail"}
  /\ collecting \in BOOLEAN /\ collected \in Seq(RowType)
  /\ disk \in Database /\ (image # NoImage => resPhase = "saving" /\ image \in Database)
  /\ saved \in -1..MaxResSteps /\ persisted \subseteq ResRuns /\ reading \in 0..MaxResRuns

\* What the collector was told of a run.
Reported(r) == {e \in ToSet(resDone[r]) : e.status \in Told}

\* The rows are all of it, in order.
Whole(rows, r) ==
  /\ ToSet(rows) = Reported(r)
  /\ \A j, k \in DOMAIN rows : j < k => rows[j].step < rows[k].step

\* A stored result is that of a run that ended, whole and without a step of another
\* run, whatever failed or crashed; where threads of a group appended at once,
\* nothing it has is invented.
StoredAreWhole ==
  \A r \in disk.results :
    /\ resEnd[r] # "none"
    /\ r \notin racedRuns => Whole(StepsOf(disk, r), r)
    /\ ToSet(StepsOf(disk, r)) \subseteq Reported(r)

\* No step is stored without its result, and a result that save has reported as
\* stored is there until it is purged.
NothingOrphaned ==
  /\ \A r \in ResRuns : StepsOf(disk, r) # << >> => r \in disk.results
  /\ persisted \subseteq disk.results \cup purged

\* A read finds all of a result, or, of one that is purged meanwhile, nothing.
ReadsAllOrNone ==
  found # << >> /\ found[1] \notin racedRuns =>
    \/ Whole(found[2], found[1])
    \/ found[2] = << >> /\ found[1] \in purged

ResultsSound == ResTypeOK /\ StoredAreWhole /\ NothingOrphaned /\ ReadsAllOrNone
===============================================================================
