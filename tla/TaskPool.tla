------------------------------- MODULE TaskPool -------------------------------
(***************************************************************************)
(* What the orchestrator promises to the owners of its tasks, without its  *)
(* loop, retries, clock or files: a pool of cells that runs waiting tasks, *)
(* never two that share a lock, and that never runs again a task whose     *)
(* outcome it has put on record.                                           *)
(***************************************************************************)
EXTENDS Naturals, FiniteSets

CONSTANTS Task, Cells, LocksOf

VARIABLES waiting,   \* tasks that may be started
          active,    \* tasks that run
          recorded   \* tasks whose outcome survives a crash

poolVars == <<waiting, active, recorded>>

PoolInit == waiting = {} /\ active = {} /\ recorded = {}

\* A process takes up the tasks that have no recorded outcome.
Submit ==
  /\ waiting = {} /\ active = {} /\ active' = {}
  /\ waiting' \subseteq Task \ recorded
  /\ UNCHANGED recorded

Compatible(t) == \A u \in active : u # t /\ LocksOf[u] \cap LocksOf[t] = {}

Begin(t) ==
  /\ t \in waiting \ recorded
  /\ Compatible(t)
  /\ Cardinality(active) < Cells
  /\ waiting' = waiting \ {t}
  /\ active' = active \cup {t}
  /\ UNCHANGED recorded

\* An attempt ends: the task is through, or waits for its next attempt.
End(t) ==
  /\ t \in active
  /\ active' = active \ {t}
  /\ waiting' \in {waiting, waiting \cup {t}}
  /\ UNCHANGED recorded

\* Waiting tasks are given up, possibly together with the end of an attempt.
GiveUp ==
  /\ waiting' \subseteq waiting
  /\ active' = active \/ \E t \in active : active' = active \ {t}
  /\ UNCHANGED recorded

\* Outcomes go on record, and stay there.
Record ==
  /\ recorded \subseteq recorded' /\ recorded' \subseteq Task
  /\ recorded' \cap (waiting \cup active) = {}
  /\ UNCHANGED <<waiting, active>>

Crashes == waiting' = {} /\ active' = {} /\ UNCHANGED recorded

PoolNext ==
  \/ Submit \/ GiveUp \/ Record \/ Crashes
  \/ \E t \in Task : Begin(t) \/ End(t)

PoolSpec == PoolInit /\ [][PoolNext]_poolVars
===============================================================================
