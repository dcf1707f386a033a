------------------------------ MODULE CellWorker ------------------------------
(***************************************************************************)
(* CellWorker of the runtime: a queue of steps and one thread that takes   *)
(* them off, executes each and calls its callback, started, stopped and    *)
(* restarted by a controlling thread while other threads submit.  A step   *)
(* is the number of its submission.                                        *)
(***************************************************************************)
EXTENDS Integers, Sequences

CONSTANTS MaxSteps,     \* bound: how many steps are submitted
          MaxCellStarts \* bound: how often the worker is started

ASSUME CellBoundsAssumption == MaxSteps \in Nat /\ MaxCellStarts \in Nat

VARIABLES worker,     \* where the worker thread is
          cellOn,     \* running_
          control,    \* what the controlling thread is doing
          queue,      \* taskQueue_
          submitted,  \* how many steps were submitted
          current,    \* the step that is executed, 0 if none
          answered,   \* the steps whose callback was called, in order (history)
          taken,      \* steps taken off the queue since stop was called (history)
          cellStarts  \* how often a thread was started

cellVars ==
  <<worker, cellOn, control, queue, submitted, current, answered, taken, cellStarts>>

CellInit ==
  /\ worker = "none"
  /\ cellOn = FALSE
  /\ control = "free"
  /\ queue = << >>
  /\ submitted = 0
  /\ current = 0
  /\ answered = << >>
  /\ taken = 0
  /\ cellStarts = 0

\* submitStep, which takes a step whether or not the worker runs.
SubmitStep ==
  /\ submitted < MaxSteps
  /\ submitted' = submitted + 1
  /\ queue' = Append(queue, submitted + 1)
  /\ UNCHANGED <<worker, cellOn, control, current, answered, taken, cellStarts>>

\* A new thread that runs workerLoop.
Launch ==
  /\ cellStarts < MaxCellStarts
  /\ cellStarts' = cellStarts + 1
  /\ cellOn' = TRUE
  /\ worker' = "loop"
  /\ UNCHANGED <<queue, submitted, current, answered, taken>>

\* start; with a thread that can be joined it returns false.
StartCell ==
  /\ control = "free" /\ worker = "none"
  /\ Launch
  /\ UNCHANGED control

\* stop, or the stop of restart, up to the join: running_ is cleared and the
\* waiting thread notified.
StopCell ==
  /\ control = "free" /\ worker # "none"
  /\ cellOn' = FALSE
  /\ \/ control' = "stopping"
     \/ control' = "restarting" /\ cellStarts < MaxCellStarts
  /\ taken' = 0
  /\ UNCHANGED <<worker, queue, submitted, current, answered, cellStarts>>

\* The join returns, and so does stop.
CellStopped ==
  /\ control = "stopping" /\ worker = "ended"
  /\ control' = "free"
  /\ worker' = "none"
  /\ UNCHANGED <<cellOn, queue, submitted, current, answered, taken, cellStarts>>

\* The join of restart returns, and start follows.
CellRestarted ==
  /\ control = "restarting" /\ worker = "ended"
  /\ control' = "free"
  /\ Launch

\* The condition of the loop.
LoopTest ==
  /\ worker = "loop"
  /\ worker' = IF cellOn THEN "take" ELSE "ended"
  /\ UNCHANGED <<cellOn, control, queue, submitted, current, answered, taken, cellStarts>>

\* Under queueMutex_, with or without a wait before it, the front is taken: the
\* code does not look at running_ again.
Take ==
  /\ worker = "take" /\ queue # << >>
  /\ current' = Head(queue)
  /\ queue' = Tail(queue)
  /\ worker' = "execute"
  /\ taken' = taken + 1
  /\ UNCHANGED <<cellOn, control, submitted, answered, cellStarts>>

\* A mutant: the thread goes on waiting until there is something to take.
MutantWaitEnds ==
  /\ worker = "take" /\ queue = << >>
  /\ UNCHANGED cellVars

\* The wait ends, by its timeout of 1 s or by stop, with nothing to take.
WaitEnds ==
  /\ worker = "take" /\ queue = << >>
  /\ worker' = "loop"
  /\ UNCHANGED <<cellOn, control, queue, submitted, current, answered, taken, cellStarts>>

\* executeStep returns and the callback is called.
Answer ==
  /\ worker = "execute"
  /\ answered' = Append(answered, current)
  /\ current' = 0
  /\ worker' = "loop"
  /\ UNCHANGED <<cellOn, control, queue, submitted, taken, cellStarts>>

WorkerThread == LoopTest \/ Take \/ WaitEnds \/ Answer

CellControl == StartCell \/ StopCell \/ CellStopped \/ CellRestarted

CellNext == SubmitStep \/ CellControl \/ WorkerThread

CellSpec == CellInit /\ [][CellNext]_cellVars

-------------------------------------------------------------------------------

\* Types, and no more steps are answered than were submitted.
CellTypeOK ==
  /\ worker \in {"none", "loop", "take", "execute", "ended"}
  /\ cellOn \in BOOLEAN
  /\ control \in {"free", "stopping", "restarting"}
  /\ submitted \in 0..MaxSteps
  /\ queue \in Seq(1..MaxSteps)
  /\ answered \in Seq(1..MaxSteps) /\ Len(answered) <= submitted
  /\ current \in 0..MaxSteps
  /\ taken \in Nat
  /\ cellStarts \in 0..MaxCellStarts

InHand == IF current = 0 THEN << >> ELSE <<current>>

\* Across any stops and restarts no step is lost, answered twice or overtaken:
\* the answered, executed and queued steps are the submitted ones in order
\* (CellWorker.cpp:77-82, 102-121).
StepsInOrder ==
  answered \o InHand \o queue = [n \in 1..submitted |-> n]

\* When stop has returned no step is being executed (CellWorker.cpp:49-62), and
\* after it was called at most one more was begun, although steps are waiting:
\* the one the thread takes without looking at running_ again (:94-107).
StopIsPrompt ==
  /\ worker = "none" => current = 0
  /\ ~cellOn => taken <= 1

\* Once the worker stays on, every submitted step is answered, also the steps that
\* were queued when an earlier stop came (CellWorker.cpp:87-128).
StepsAnswered ==
  <>[]cellOn => \A n \in 1..MaxSteps : (submitted >= n) ~> (Len(answered) >= n)

\* stop and restart return: the thread they wait for leaves its loop.
StopReturns == control # "free" ~> control = "free"

\* What a cell promises at any moment, and what it promises in the end.
CellSound == CellTypeOK /\ StepsInOrder /\ StopIsPrompt
CellLive == StepsAnswered /\ StopReturns
===============================================================================
