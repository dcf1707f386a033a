----------------------------- MODULE ControlFile -----------------------------
(***************************************************************************)
(* How Studio steers what runs: every cell has a process, an orchestrator  *)
(* with one worker, and all workers read one control file, in which Studio *)
(* writes an order.  A worker reads the file at the break before a step    *)
(* and deletes it in a second step; while it is paused it reads again and  *)
(* again.  Studio's write truncates the file first.  A cell that is        *)
(* stopped has its orchestrator killed; its worker, a process of its own,  *)
(* goes on until it reads "abort" or ends.  How many steps its workflow    *)
(* takes is left open: nothing but an order is sure to end it.             *)
(*                                                                         *)
(* Studio has one thread: a click is handled, and the end of a process     *)
(* noticed, between two others.  A run is the number of its start; the     *)
(* worker has the number of its run.  Changing the number of cells while   *)
(* cells run is left out, and so are the texts a cell shows.               *)
(***************************************************************************)
EXTENDS Integers

CONSTANTS Cells,
          NoCell,     \* no cell
          MaxRuns,    \* bound: how many runs are started
          MaxClicks,  \* bound: how many orders are given
          MaxFails    \* bound: how often a worker cannot delete the file

ASSUME ControlBoundsAssumption == {MaxRuns, MaxClicks, MaxFails} \subseteq Nat

Runs == 1..MaxRuns
Orders == {"pause", "resume", "skip", "abort"}
Quiet == [order |-> "none", onDisk |-> FALSE, kill |-> NoCell]

VARIABLES file,      \* the control file: an order, or "absent", or "empty"
          writing,   \* Studio's unfinished write: the order, whether the file
                     \* it opened is still in the directory, whom to kill then
          running, runOf,  \* of each cell; runOf is its process, 0 for none
          runs,      \* how many runs were started
          process,   \* of each run: "none", "alive", "exited", "gone"
          worker,    \* of each run: where its worker is
          heard,     \* the order it has read
          stayed,    \* how often it could not delete the file
          given,     \* history: how often each order was given
          obeyed     \* history: how often each worker obeyed each order

cellVars == <<running, runOf, runs, process>>
workerVars == <<worker, heard, stayed, obeyed>>
controlVars == <<file, writing, cellVars, workerVars, given>>

ControlInit ==
  /\ file \in {"absent", "abort"} /\ writing = Quiet
  /\ running = [c \in Cells |-> FALSE]
  /\ runOf = [c \in Cells |-> 0] /\ runs = 0
  /\ process = [r \in Runs |-> "none"]
  /\ worker = [r \in Runs |-> "none"] /\ heard = [r \in Runs |-> "none"]
  /\ stayed = [r \in Runs |-> 0]
  /\ given = [o \in Orders |-> IF o = file THEN 1 ELSE 0]
  /\ obeyed = [r \in Runs |-> [o \in Orders |-> 0]]

-------------------------------------------------------------------------------
(***************************************************************************)
(* Studio.                                                                 *)
(***************************************************************************)

GivenSoFar(g) == g["pause"] + g["resume"] + g["skip"] + g["abort"]

\* writeControlFile begins; what the click does besides follows.
Writes(order, cell) ==
  /\ writing = Quiet /\ GivenSoFar(given) < MaxClicks
  /\ file' = "empty"
  /\ writing' = [order |-> order, onDisk |-> TRUE, kill |-> cell]
  /\ given' = [given EXCEPT ![order] = @ + 1]

\* pauseExecution, resumeExecution, skipStep; pauseCell and resumeCell, of which one may
\* think that the order is for that cell.
Order(order) ==
  /\ Writes(order, NoCell)
  /\ UNCHANGED <<cellVars, workerVars>>

\* runCell: a process the cell still has is deleted, a new one is started or not.
RunCell(c) ==
  /\ writing = Quiet /\ ~running[c] /\ runs < MaxRuns
  /\ runs' = runs + 1
  /\ runOf' = [runOf EXCEPT ![c] = runs']
  /\ \E starts \in BOOLEAN :
       /\ process' = [r \in Runs |-> IF r = runs' /\ starts THEN "alive"
                                     ELSE IF r = runOf[c] \/ r = runs' THEN "gone" ELSE process[r]]
       /\ running' = [running EXCEPT ![c] = starts]
  /\ UNCHANGED <<file, writing, given, workerVars>>

\* stopCell, of a cell that runs or still has a process: it counts as stopped, and
\* "abort" is written,
StopCell(c) ==
  /\ running[c] \/ runOf[c] # 0
  /\ running' = [running EXCEPT ![c] = FALSE]
  /\ Writes("abort", c)
  /\ UNCHANGED <<runOf, runs, process, workerVars>>

\* and its orchestrator is killed; the end of it is noticed while Studio waits.
Killed(c) ==
  /\ runOf' = [runOf EXCEPT ![c] = 0]
  /\ process' = [r \in Runs |-> IF r = runOf[c] THEN "gone" ELSE process[r]]

\* The write ends; if the file was deleted since it was opened, it is lost.
WriteEnds ==
  /\ writing # Quiet
  /\ file' = IF writing.onDisk THEN writing.order ELSE file
  /\ writing' = Quiet
  /\ IF writing.kill = NoCell THEN UNCHANGED <<runOf, process>> ELSE Killed(writing.kill)
  /\ UNCHANGED <<running, runs, given, workerVars>>

\* The process of a cell has finished.
ProcessFinished(c) ==
  /\ writing = Quiet /\ runOf[c] # 0 /\ process[runOf[c]] = "exited"
  /\ process' = [process EXCEPT ![runOf[c]] = "gone"]
  /\ running' = [running EXCEPT ![c] = FALSE]
  /\ UNCHANGED <<file, writing, given, runOf, runs, workerVars>>

-------------------------------------------------------------------------------
(***************************************************************************)
(* The processes of a run.                                                 *)
(***************************************************************************)

\* The orchestrator starts its worker, and exits when that is over.
OrchestratorActs(r) ==
  /\ process[r] = "alive"
  /\ \/ worker[r] = "none" /\ worker' = [worker EXCEPT ![r] = "break"] /\ UNCHANGED process
     \/ worker[r] = "over" /\ process' = [process EXCEPT ![r] = "exited"] /\ UNCHANGED worker
  /\ UNCHANGED <<file, writing, given, running, runOf, runs, heard, stayed, obeyed>>

\* onBreakOffered: nothing to obey, so the step is executed.
GoOn(r) ==
  /\ worker[r] = "break" /\ file \in {"absent", "empty", "resume"}
  /\ worker' = [worker EXCEPT ![r] = "step"]
  /\ UNCHANGED <<file, writing, given, cellVars, heard, stayed, obeyed>>

\* The step ends, and another one follows, or it was the last.
StepEnds(r) ==
  /\ worker[r] = "step"
  /\ \E next \in {"break", "over"} : worker' = [worker EXCEPT ![r] = next]
  /\ UNCHANGED <<file, writing, given, cellVars, heard, stayed, obeyed>>

\* A mutant: a pause ends with "resume" or "skip" only.
MutantHear(r) ==
  /\ \/ worker[r] = "break" /\ file \in {"pause", "skip", "abort"}
     \/ worker[r] = "paused" /\ file \in {"resume", "skip"}
  /\ heard' = [heard EXCEPT ![r] = file]
  /\ worker' = [worker EXCEPT ![r] = "clearing"]
  /\ UNCHANGED <<file, writing, given, cellVars, stayed, obeyed>>

\* An order is read: "resume" counts in a pause only.
Hear(r) ==
  /\ \/ worker[r] = "break" /\ file \in {"pause", "skip", "abort"}
     \/ worker[r] = "paused" /\ file \in {"resume", "skip", "abort"}
  /\ heard' = [heard EXCEPT ![r] = file]
  /\ worker' = [worker EXCEPT ![r] = "clearing"]
  /\ UNCHANGED <<file, writing, given, cellVars, stayed, obeyed>>

\* Where an order takes the worker.
Obeying(order) ==
  CASE order = "pause" -> "paused" [] order = "abort" -> "over" [] OTHER -> "step"

\* A mutant: the file stays.
MutantClearControlFile(r) == UNCHANGED <<file, writing, stayed>>

\* clearControlFile, whatever the file holds by now.  That it may fail is not looked at.
ClearControlFile(r) ==
  \/ file' = "absent" /\ writing' = [writing EXCEPT !.onDisk = FALSE] /\ UNCHANGED stayed
  \/ stayed[r] < MaxFails /\ stayed' = [stayed EXCEPT ![r] = @ + 1] /\ UNCHANGED <<file, writing>>

Obey(r) ==
  /\ worker[r] = "clearing"
  /\ ClearControlFile(r)
  /\ worker' = [worker EXCEPT ![r] = Obeying(heard[r])]
  /\ obeyed' = [obeyed EXCEPT ![r][heard[r]] = @ + 1]
  /\ heard' = [heard EXCEPT ![r] = "none"]
  /\ UNCHANGED <<given, cellVars>>

WorkerActs(r) == GoOn(r) \/ StepEnds(r) \/ Hear(r) \/ Obey(r)

ControlNext ==
  \/ \E o \in Orders \ {"abort"} : Order(o)
  \/ \E c \in Cells :
       RunCell(c) \/ StopCell(c) \/ ProcessFinished(c)
  \/ WriteEnds
  \/ \E r \in Runs : OrchestratorActs(r) \/ WorkerActs(r)

ControlSpec == ControlInit /\ [][ControlNext]_controlVars

-------------------------------------------------------------------------------

\* Types; a worker that is over, or has not begun, has nothing to obey.
ControlTypeOK ==
  /\ file \in Orders \cup {"absent", "empty"}
  /\ running \in [Cells -> BOOLEAN] /\ runOf \in [Cells -> 0..runs] /\ runs \in 0..MaxRuns
  /\ process \in [Runs -> {"none", "alive", "exited", "gone"}]
  /\ worker \in [Runs -> {"none", "break", "step", "clearing", "paused", "over"}]
  /\ stayed \in [Runs -> 0..MaxFails]
  /\ \A r \in Runs : (worker[r] = "clearing") <=> (heard[r] \in Orders)

\* No worker obeys more orders of a kind than were given, but one for each time it could
\* not delete the file: it deletes what it obeys before it looks again
\* (RuntimeWorker/src/main.cpp:161-208), so a single "skip" never skips two steps of a
\* workflow, however the clicks fall.
OrdersOnce == \A r \in Runs, o \in Orders : obeyed[r][o] <= given[o] + stayed[r]

\* A cell that says it runs has a process that is alive or whose end is not noticed
\* yet, and every orchestrator that is alive is the process of exactly one cell, so
\* that Studio can stop it (StudioBackend.cpp:526-661).
CellsTruthful ==
  /\ \A c \in Cells : running[c] => runOf[c] # 0 /\ process[runOf[c]] \in {"alive", "exited"}
  /\ \A r \in Runs : process[r] = "alive" => \E c \in Cells : runOf[c] = r
  /\ \A c, d \in Cells : c # d /\ runOf[c] # 0 => runOf[c] # runOf[d]

\* Orders and cells are what the operator is told.
ControlSound == ControlTypeOK /\ OrdersOnce /\ CellsTruthful

\* No other worker looks into the file.
Alone(r) == \A q \in Runs \ {r} : worker[q] \in {"none", "over"}

\* An order reaches the one worker there is, though others have taken and deleted orders
\* before, a write may have been lost and the file may refuse to go: "abort" ends it,
\* however long its workflow is and whether it is paused, and "resume" and "skip" end its
\* pause (RuntimeWorker/src/main.cpp:160-208), unless another order is given, or another
\* worker begins, before that.
OrdersReach ==
  \A r \in Runs :
    LET still == writing = Quiet /\ Alone(r)
    IN /\ (still /\ file = "abort" /\ worker[r] \in {"break", "step", "paused"})
             ~> (worker[r] = "over" \/ ~still)
       /\ (still /\ file \in {"resume", "skip"} /\ worker[r] = "paused")
             ~> (worker[r] # "paused" \/ ~still)
===============================================================================
