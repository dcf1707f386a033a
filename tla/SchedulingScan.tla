---------------------------- MODULE SchedulingScan ----------------------------
(***************************************************************************)
(* selectNext, the loop all three policies share: one pass over the task   *)
(* list that keeps the index of the best runnable task so far (0 for the   *)
(* code's -1).  One step is one iteration.                                 *)
(***************************************************************************)
EXTENDS SchedulingPolicy, Sequences

CONSTANTS TaskDescriptors,  \* the descriptors a list is made of
          MaxTasks,         \* how long a list may be
          HeldSets,         \* the sets of resource locks that may be held
          NowMs             \* the time of the scan

DescriptorType ==
  [priority : Int, enqueueOrder : Int, nextRunAt : Int, deadline : Int,
   resourceLocks : SUBSET UNION HeldSets, isPending : BOOLEAN]

ASSUME DescriptorsAssumption == TaskDescriptors \subseteq DescriptorType
ASSUME BoundsAssumption == MaxTasks \in Nat /\ NowMs \in Int

\* The task lists to scan.
Lists == UNION {[1..n -> TaskDescriptors] : n \in 0..MaxTasks}

VARIABLES policy, tasks, held,   \* the arguments, constant during the scan
          i,                     \* the next index to look at
          best                   \* the index chosen so far, 0 if none

scanVars == <<policy, tasks, held, i, best>>

ScanTypeOK ==
  /\ policy \in PolicyNames
  /\ tasks \in Lists
  /\ held \in HeldSets
  /\ i \in 1..Len(tasks) + 1
  /\ best \in 0..Len(tasks)

ScanInit ==
  /\ policy \in PolicyNames
  /\ tasks \in Lists
  /\ held \in HeldSets
  /\ i = 1
  /\ best = 0

Prefers(t, s) == Beats(policy, t, s)

Candidate(t) == IsRunnable(t, held, NowMs)

\* A mutant: the scan starts from the first task even if it cannot run.
MutantIterate ==
  /\ i <= Len(tasks)
  /\ best' = IF best = 0 \/ (Candidate(tasks[i]) /\ Prefers(tasks[i], tasks[best]))
             THEN i ELSE best
  /\ i' = i + 1
  /\ UNCHANGED <<policy, tasks, held>>

Iterate ==
  /\ i <= Len(tasks)
  /\ best' = IF Candidate(tasks[i]) /\ (best = 0 \/ Prefers(tasks[i], tasks[best]))
             THEN i ELSE best
  /\ i' = i + 1
  /\ UNCHANGED <<policy, tasks, held>>

Return == i > Len(tasks) /\ UNCHANGED scanVars

ScanNext == Iterate \/ Return

ScanSpec == ScanInit /\ [][ScanNext]_scanVars

Returned == i > Len(tasks)

-------------------------------------------------------------------------------

\* What the loop has established after i - 1 iterations: best is the winner of
\* the tasks seen so far, or none of them can run.
PrefixWinner ==
  LET seen == RunnableIn(tasks, i - 1, held, NowMs)
  IN  IF best = 0 THEN seen = {} ELSE Wins(policy, tasks, seen, best)

\* selectNext returns the winner of the whole list, and -1 only when no task
\* can run (SchedulingPolicy.h, all three selectNext loops): the single pass
\* never drops the task the policy's order puts first.
ReturnsWinner ==
  Returned =>
    IF best = 0 THEN \A k \in DOMAIN tasks : ~IsRunnable(tasks[k], held, NowMs)
                ELSE best \in Selected(policy, tasks, held, NowMs)
===============================================================================
