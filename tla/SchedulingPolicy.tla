--------------------------- MODULE SchedulingPolicy ---------------------------
(***************************************************************************)
(* The three scheduling policies of the orchestrator, as operators on      *)
(* TaskDescriptor records.  `Beats` is the comparison a policy makes       *)
(* between the task it looks at and the best task it has seen so far;      *)
(* `Selected` is the index such a comparison must end up with, stated      *)
(* without the loop.  SchedulingScan models the loop itself.               *)
(***************************************************************************)
EXTENDS Integers

\* The names --scheduling-policy accepts (anything else is "priority").
PolicyNames == {"priority", "fifo", "deadline"}

\* What every policy skips: not pending, still backing off, or locked out.
IsRunnable(d, held, nowMs) ==
  /\ d.isPending
  /\ d.nextRunAt <= nowMs
  /\ d.resourceLocks \cap held = {}

\* PriorityPolicy: priority, then the earlier backoff, then the queue order.
PriorityBeats(t, s) ==
  \/ t.priority > s.priority
  \/ /\ t.priority = s.priority
     /\ \/ t.nextRunAt < s.nextRunAt
        \/ t.nextRunAt = s.nextRunAt /\ t.enqueueOrder < s.enqueueOrder

\* FifoPolicy: the queue order alone.
FifoBeats(t, s) == t.enqueueOrder < s.enqueueOrder

\* DeadlinePolicy: earliest deadline first; 0 is "no deadline" and never wins.
DeadlineBeats(t, s) ==
  /\ t.deadline > 0
  /\ s.deadline <= 0 \/ t.deadline < s.deadline

Beats(policy, t, s) ==
  CASE policy = "fifo"     -> FifoBeats(t, s)
    [] policy = "deadline" -> DeadlineBeats(t, s)
    [] OTHER               -> PriorityBeats(t, s)

RunnableIn(tasks, upTo, held, nowMs) ==
  {i \in DOMAIN tasks : i <= upTo /\ IsRunnable(tasks[i], held, nowMs)}

\* i is the winner among `candidates`: it beats every candidate in front of
\* it in the list, and no candidate behind it beats it.
Wins(policy, tasks, candidates, i) ==
  /\ i \in candidates
  /\ \A j \in candidates \ {i} :
       IF j < i THEN Beats(policy, tasks[i], tasks[j])
                ELSE ~Beats(policy, tasks[j], tasks[i])

\* The indices selectNext may return for the whole list (at most one).
Selected(policy, tasks, held, nowMs) ==
  LET candidates == {i \in DOMAIN tasks : IsRunnable(tasks[i], held, nowMs)}
  IN  {i \in candidates : Wins(policy, tasks, candidates, i)}
===============================================================================
