--------------------------------- MODULE Saga ---------------------------------
(***************************************************************************)
(* What the workflow engine promises about compensation, without steps'    *)
(* plugins, retries, groups or pauses: a run does steps until it ends or   *)
(* fails; a run that fails undoes what it has done, the last one first,    *)
(* runs nothing twice to do so, and only then is over.                     *)
(***************************************************************************)
EXTENDS Sequences, Functions

CONSTANTS Step, None

VARIABLES phase,   \* "idle", "forward", "backward" or "ended"
          plan,    \* the step that undoes a step, or None
          done,    \* the steps done and not undone yet
          undone   \* the steps run to undo others, in order

sagaVars == <<phase, plan, done, undone>>

SagaInit ==
  /\ phase = "idle" /\ done = <<>> /\ undone = <<>>
  /\ plan \in [Step -> Step \cup {None}]

Leave(p, q) == phase = p /\ phase' = q /\ UNCHANGED <<plan, done, undone>>

Begin == Leave("idle", "forward")

\* The workflow is refused: nothing happens.
Refuse == Leave("idle", "ended")

Do(s) ==
  /\ phase = "forward"
  /\ done' = Append(done, s)
  /\ UNCHANGED <<phase, plan, undone>>

Commit == Leave("forward", "ended")

Fail == Leave("forward", "backward")

\* The last step done is undone, unless what undoes it has run already.
Undo ==
  /\ phase = "backward" /\ done # <<>>
  /\ done' = SubSeq(done, 1, Len(done) - 1)
  /\ LET u == plan[done[Len(done)]] IN
       undone' = IF u = None \/ u \in Range(undone) THEN undone
                 ELSE Append(undone, u)
  /\ UNCHANGED <<phase, plan>>

Abort == done = <<>> /\ Leave("backward", "ended")

SagaNext ==
  \/ Begin \/ Refuse \/ Commit \/ Fail \/ Undo \/ Abort
  \/ \E s \in Step : Do(s)

SagaSpec == SagaInit /\ [][SagaNext]_sagaVars
===============================================================================
