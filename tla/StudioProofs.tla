----------------------------- MODULE StudioProofs -----------------------------
(***************************************************************************)
(* What Studio knows of its workers, for any number of cells, runs, tasks  *)
(* and orchestrations: every order given through the control file is       *)
(* obeyed once at most and a cell is what its process is; a step is shown  *)
(* in one row and every workflow is counted once.  And what it makes of    *)
(* workflows, for all ids, tables and texts: a table is read as it is      *)
(* written, and an edited workflow has its entry and survives saving.      *)
(***************************************************************************)
EXTENDS ControlFile, TaskList, WorkflowEditor, ListProofs

-------------------------------------------------------------------------------
(***************************************************************************)
(* ControlFile.  An order is on its way to a worker when it is in the      *)
(* file, is being written to a file that is still there, or was read by    *)
(* the worker.  However many of these it is, the worker will obey it once, *)
(* since it then deletes the file and with it whatever else was written;   *)
(* each time it cannot, it may obey once more.                             *)
(***************************************************************************)
OnItsWay(r, o) == heard[r] = o \/ file = o \/ (writing.onDisk /\ writing.order = o)

Places == {"none", "break", "step", "clearing", "paused", "over"}

ControlTyped ==
  /\ file \in Orders \cup {"absent", "empty"}
  /\ writing \in [order : Orders \cup {"none"}, onDisk : BOOLEAN, kill : Cells \cup {NoCell}]
  /\ running \in [Cells -> BOOLEAN] /\ runOf \in [Cells -> Nat] /\ runs \in Nat /\ runs <= MaxRuns
  /\ \A c \in Cells : runOf[c] <= runs
  /\ process \in [Runs -> {"none", "alive", "exited", "gone"}]
  /\ worker \in [Runs -> Places]
  /\ heard \in [Runs -> Orders \cup {"none"}]
  /\ stayed \in [Runs -> Nat] /\ \A r \in Runs : stayed[r] <= MaxFails
  /\ given \in [Orders -> Nat] /\ obeyed \in [Runs -> [Orders -> Nat]]

HeardInv ==
  /\ \A r \in Runs : (worker[r] = "clearing") <=> (heard[r] \in Orders)
  /\ writing.onDisk => writing.order \in Orders

ObeyedInv ==
  \A r \in Runs, o \in Orders :
    /\ obeyed[r][o] <= given[o] + stayed[r]
    /\ OnItsWay(r, o) => obeyed[r][o] + 1 <= given[o] + stayed[r]

KillInv == writing.kill # NoCell => ~running[writing.kill]

ControlInv == ControlTyped /\ HeardInv /\ ObeyedInv /\ KillInv /\ CellsTruthful

\* What the workers and the file have of one another.
OrdersPart == UNCHANGED <<file, writing, given, worker, heard, stayed, obeyed>>
CellsPart == UNCHANGED <<running, runOf, runs, process>>

LEMMA OrdersStay ==
  ASSUME ControlInv, OrdersPart
  PROVE  HeardInv' /\ ObeyedInv'
BY DEF ControlInv, HeardInv, ObeyedInv, OnItsWay, OrdersPart

LEMMA CellsStay ==
  ASSUME ControlInv, CellsPart, writing'.kill = NoCell \/ writing'.kill = writing.kill
  PROVE  CellsTruthful' /\ KillInv'
BY DEF ControlInv, KillInv, CellsTruthful, CellsPart

LEMMA ControlInitially == ControlInit => ControlInv
<1> SUFFICES ASSUME ControlInit PROVE ControlInv
  OBVIOUS
<1>1. Quiet \in [order : Orders \cup {"none"}, onDisk : BOOLEAN, kill : Cells \cup {NoCell}]
      /\ Quiet.onDisk = FALSE /\ Quiet.kill = NoCell
  BY DEF Quiet
<1>2. file \in Orders \cup {"absent", "empty"} /\ writing = Quiet /\ running \in [Cells -> BOOLEAN]
  BY Zenon DEF ControlInit, Orders
<1>3. /\ given \in [Orders -> Nat] /\ obeyed \in [Runs -> [Orders -> Nat]]
      /\ \A o \in Orders : file = o => given[o] = 1
      /\ \A r \in Runs, o \in Orders : obeyed[r][o] = 0 /\ heard[r] = "none" /\ stayed[r] = 0
  BY DEF ControlInit
<1>4. ControlTyped
  <2>1. writing \in [order : Orders \cup {"none"}, onDisk : BOOLEAN, kill : Cells \cup {NoCell}]
    BY <1>1, <1>2
  <2> QED
    BY <1>2, <1>3, <2>1, ControlBoundsAssumption DEF ControlInit, ControlTyped, Places
<1>5. HeardInv
  BY <1>1 DEF ControlInit, HeardInv, Orders
<1>6. ObeyedInv
  BY <1>1, <1>2, <1>3 DEF ObeyedInv, OnItsWay, Orders
<1>7. KillInv /\ CellsTruthful
  BY <1>1 DEF ControlInit, KillInv, CellsTruthful
<1> QED
  BY <1>4, <1>5, <1>6, <1>7 DEF ControlInv

\* A click that writes: what was in the file is gone, and there is one more order.
LEMMA WritesKeep ==
  ASSUME ControlInv, NEW order \in Orders, NEW cell \in Cells \cup {NoCell}, Writes(order, cell),
         UNCHANGED workerVars
  PROVE  /\ HeardInv' /\ ObeyedInv'
         /\ file' \in Orders \cup {"absent", "empty"} /\ given' \in [Orders -> Nat]
         /\ writing' \in [order : Orders \cup {"none"}, onDisk : BOOLEAN, kill : Cells \cup {NoCell}]
         /\ writing'.kill = cell
         /\ worker' = worker /\ heard' = heard /\ stayed' = stayed /\ obeyed' = obeyed
<1>1. /\ file' = "empty" /\ writing' = [order |-> order, onDisk |-> TRUE, kill |-> cell]
      /\ given' = [given EXCEPT ![order] = given[order] + 1]
  BY DEF Writes
<1>2. worker' = worker /\ heard' = heard /\ stayed' = stayed /\ obeyed' = obeyed
  BY DEF workerVars
<1>3. /\ given' \in [Orders -> Nat] /\ given'[order] = given[order] + 1
      /\ \A o \in Orders \ {order} : given'[o] = given[o]
  BY <1>1 DEF ControlInv, ControlTyped
<1>4. ASSUME NEW r \in Runs, NEW o \in Orders
      PROVE  /\ obeyed[r][o] <= given'[o] + stayed[r]
             /\ OnItsWay(r, o)' => obeyed[r][o] + 1 <= given'[o] + stayed[r]
  <2>1. obeyed[r][o] \in Nat /\ given[o] \in Nat /\ stayed[r] \in Nat /\ obeyed[r][o] <= given[o] + stayed[r]
    BY DEF ControlInv, ControlTyped, ObeyedInv
  <2>2. CASE o = order
    BY <2>1, <2>2, <1>3
  <2>3. CASE o # order
    <3>1. OnItsWay(r, o)' => heard[r] = o
      BY <2>3, <1>1, <1>2 DEF OnItsWay, Orders
    <3>2. heard[r] = o => obeyed[r][o] + 1 <= given[o] + stayed[r]
      BY DEF ControlInv, ObeyedInv, OnItsWay
    <3> QED
      BY <2>1, <2>3, <3>1, <3>2, <1>3
  <2> QED
    BY <2>2, <2>3
<1>5. ObeyedInv'
  BY <1>2, <1>4 DEF ObeyedInv
<1>6. HeardInv'
  BY <1>1, <1>2 DEF ControlInv, HeardInv
<1>7. writing' \in [order : Orders \cup {"none"}, onDisk : BOOLEAN, kill : Cells \cup {NoCell}]
      /\ writing'.kill = cell
  BY <1>1
<1> QED
  BY <1>1, <1>2, <1>3, <1>5, <1>6, <1>7

LEMMA OrderKeeps == ASSUME ControlInv, NEW o \in Orders, Order(o) PROVE ControlInv'
<1>1. Writes(o, NoCell) /\ UNCHANGED workerVars /\ CellsPart
  BY DEF Order, cellVars, CellsPart
<1>2. CellsTruthful' /\ KillInv'
  BY <1>1, WritesKeep, CellsStay
<1>3. ControlTyped'
  BY <1>1, WritesKeep DEF ControlInv, ControlTyped, CellsPart
<1> QED
  BY <1>1, <1>2, <1>3, WritesKeep DEF ControlInv

LEMMA StopCellKeeps == ASSUME ControlInv, NEW c \in Cells, StopCell(c) PROVE ControlInv'
<1>1. /\ running' = [running EXCEPT ![c] = FALSE] /\ Writes("abort", c) /\ UNCHANGED workerVars
      /\ runOf' = runOf /\ runs' = runs /\ process' = process
  BY DEF StopCell
<1>2. /\ running' \in [Cells -> BOOLEAN] /\ ~running'[c]
      /\ \A d \in Cells : running'[d] => running[d]
  BY <1>1, Zenon DEF ControlInv, ControlTyped
<1>3. "abort" \in Orders /\ c \in Cells \cup {NoCell}
  BY DEF Orders
<1>4. /\ HeardInv' /\ ObeyedInv'
      /\ file' \in Orders \cup {"absent", "empty"} /\ given' \in [Orders -> Nat]
      /\ writing' \in [order : Orders \cup {"none"}, onDisk : BOOLEAN, kill : Cells \cup {NoCell}]
      /\ writing'.kill = c
      /\ worker' = worker /\ heard' = heard /\ stayed' = stayed /\ obeyed' = obeyed
  BY <1>1, <1>3, WritesKeep
<1>5. ControlTyped'
  BY <1>1, <1>2, <1>4 DEF ControlInv, ControlTyped
<1>6. CellsTruthful'
  BY <1>1, <1>2 DEF ControlInv, CellsTruthful
<1>7. KillInv'
  BY <1>2, <1>4 DEF KillInv
<1> QED
  BY <1>4, <1>5, <1>6, <1>7 DEF ControlInv

LEMMA RunCellKeeps == ASSUME ControlInv, NEW c \in Cells, RunCell(c) PROVE ControlInv'
<1>1. PICK starts \in BOOLEAN :
        /\ writing = Quiet /\ runs < MaxRuns /\ runs' = runs + 1
        /\ runOf' = [runOf EXCEPT ![c] = runs + 1]
        /\ process' = [r \in Runs |-> IF r = runs + 1 /\ starts THEN "alive"
                                      ELSE IF r = runOf[c] \/ r = runs + 1 THEN "gone" ELSE process[r]]
        /\ running' = [running EXCEPT ![c] = starts]
  BY DEF RunCell
<1>2. OrdersPart
  BY DEF RunCell, workerVars, OrdersPart
<1>3. runs \in Nat /\ MaxRuns \in Nat /\ runs + 1 \in Runs /\ runs + 1 <= MaxRuns /\ runs + 1 # 0
  BY <1>1, ControlBoundsAssumption DEF ControlInv, ControlTyped, Runs
<1>4. /\ runOf' \in [Cells -> Nat] /\ runOf'[c] = runs + 1 /\ \A d \in Cells \ {c} : runOf'[d] = runOf[d]
      /\ \A d \in Cells : runOf[d] \in Nat /\ runOf[d] <= runs /\ runOf[d] # runs + 1
  BY <1>1, <1>3 DEF ControlInv, ControlTyped
<1>5. /\ running' \in [Cells -> BOOLEAN] /\ running'[c] = starts
      /\ \A d \in Cells \ {c} : running'[d] = running[d]
  BY <1>1, Zenon DEF ControlInv, ControlTyped
<1>6. /\ process' \in [Runs -> {"none", "alive", "exited", "gone"}]
      /\ starts => process'[runs + 1] = "alive"
      /\ ~starts => process'[runs + 1] = "gone"
      /\ \A r \in Runs : r # runs + 1 /\ r = runOf[c] => process'[r] = "gone"
      /\ \A r \in Runs : r # runs + 1 /\ r # runOf[c] => process'[r] = process[r]
  BY <1>1, <1>3 DEF ControlInv, ControlTyped
<1>7. ControlTyped'
  <2>1. \A d \in Cells : runOf'[d] <= runs + 1
    BY <1>3, <1>4
  <2> QED
    BY <1>1, <1>2, <1>3, <1>4, <1>5, <1>6, <2>1 DEF ControlInv, ControlTyped, OrdersPart
<1>8. CellsTruthful'
  <2>1. ASSUME NEW d \in Cells, running'[d]
        PROVE  runOf'[d] # 0 /\ process'[runOf'[d]] \in {"alive", "exited"}
    <3>1. CASE d = c
      BY <2>1, <3>1, <1>3, <1>4, <1>5, <1>6
    <3>2. CASE d # c
      <4>1. runOf[d] # 0 /\ process[runOf[d]] \in {"alive", "exited"} /\ runOf[d] # runOf[c] /\ runOf[d] # runs + 1
        BY <2>1, <3>2, <1>4, <1>5 DEF ControlInv, CellsTruthful
      <4>2. runOf[d] \in Runs
        BY <4>1, <1>3, <1>4 DEF Runs
      <4> QED
        BY <3>2, <4>1, <4>2, <1>4, <1>6
    <3> QED
      BY <3>1, <3>2
  <2>2. ASSUME NEW r \in Runs, process'[r] = "alive" PROVE \E d \in Cells : runOf'[d] = r
    <3>1. CASE r = runs + 1
      BY <3>1, <1>4
    <3>2. CASE r # runs + 1
      <4>1. process[r] = "alive" /\ r # runOf[c]
        BY <2>2, <3>2, <1>6
      <4>2. PICK d \in Cells : runOf[d] = r
        BY <4>1 DEF ControlInv, CellsTruthful
      <4> QED
        BY <4>1, <4>2, <1>4
    <3> QED
      BY <3>1, <3>2
  <2>3. \A d, e \in Cells : d # e /\ runOf'[d] # 0 => runOf'[d] # runOf'[e]
    BY <1>4 DEF ControlInv, CellsTruthful
  <2> QED
    BY <2>1, <2>2, <2>3 DEF CellsTruthful
<1>9. KillInv'
  BY <1>1, <1>2 DEF KillInv, OrdersPart, Quiet
<1> QED
  BY <1>2, <1>7, <1>8, <1>9, OrdersStay DEF ControlInv

LEMMA WriteEndsKeeps == ASSUME ControlInv, WriteEnds PROVE ControlInv'
<1>1. /\ file' = (IF writing.onDisk THEN writing.order ELSE file) /\ writing' = Quiet /\ writing # Quiet
      /\ running' = running /\ runs' = runs /\ given' = given
      /\ worker' = worker /\ heard' = heard /\ stayed' = stayed /\ obeyed' = obeyed
  BY DEF WriteEnds, workerVars
<1>2. Quiet \in [order : Orders \cup {"none"}, onDisk : BOOLEAN, kill : Cells \cup {NoCell}]
      /\ Quiet.onDisk = FALSE /\ Quiet.kill = NoCell
  BY DEF Quiet
<1>3. file' \in Orders \cup {"absent", "empty"}
  BY <1>1 DEF ControlInv, ControlTyped, HeardInv
<1>4. HeardInv'
  BY <1>1, <1>2 DEF ControlInv, HeardInv
<1>5. ObeyedInv'
  <2>1. \A r \in Runs, o \in Orders : OnItsWay(r, o)' => OnItsWay(r, o)
    BY <1>1, <1>2 DEF OnItsWay
  <2> QED
    BY <1>1, <2>1 DEF ControlInv, ObeyedInv
<1>6. KillInv'
  BY <1>1, <1>2 DEF KillInv
<1>7. CASE writing.kill = NoCell
  <2>1. CellsPart
    BY <1>1, <1>7 DEF WriteEnds, CellsPart
  <2>2. ControlTyped'
    BY <1>1, <1>2, <1>3, <2>1 DEF ControlInv, ControlTyped, CellsPart
  <2> QED
    BY <1>1, <1>2, <1>4, <1>5, <2>1, <2>2, CellsStay DEF ControlInv
<1>8. CASE writing.kill # NoCell
  <2> DEFINE c == writing.kill
  <2>1. c \in Cells /\ ~running[c]
    BY <1>8 DEF ControlInv, ControlTyped, KillInv
  <2>2. /\ runOf' = [runOf EXCEPT ![c] = 0]
        /\ process' = [r \in Runs |-> IF r = runOf[c] THEN "gone" ELSE process[r]]
    BY <1>8 DEF WriteEnds, Killed
  <2> HIDE DEF c
  <2>3. /\ runOf' \in [Cells -> Nat] /\ runOf'[c] = 0 /\ \A d \in Cells \ {c} : runOf'[d] = runOf[d]
        /\ \A d \in Cells : runOf[d] \in Nat /\ runOf[d] <= runs /\ runs \in Nat /\ runs <= MaxRuns
    BY <2>1, <2>2 DEF ControlInv, ControlTyped
  <2>4. /\ process' \in [Runs -> {"none", "alive", "exited", "gone"}]
        /\ \A r \in Runs : r = runOf[c] => process'[r] = "gone"
        /\ \A r \in Runs : r # runOf[c] => process'[r] = process[r]
    BY <2>2 DEF ControlInv, ControlTyped
  <2>5. ControlTyped'
    <3>1. \A d \in Cells : runOf'[d] <= runs
      BY <2>3
    <3> QED
      BY <1>1, <1>2, <1>3, <2>3, <2>4, <3>1 DEF ControlInv, ControlTyped
  <2>6. CellsTruthful'
    <3>1. ASSUME NEW d \in Cells, running[d]
          PROVE  runOf'[d] # 0 /\ process'[runOf'[d]] \in {"alive", "exited"}
      <4>1. d # c /\ runOf[d] # 0 /\ process[runOf[d]] \in {"alive", "exited"} /\ runOf[d] # runOf[c]
        BY <3>1, <2>1 DEF ControlInv, CellsTruthful
      <4>2. runOf[d] \in Runs
        BY <4>1, <2>3, ControlBoundsAssumption DEF Runs
      <4> QED
        BY <4>1, <4>2, <2>3, <2>4
    <3>2. ASSUME NEW r \in Runs, process'[r] = "alive" PROVE \E d \in Cells : runOf'[d] = r
      <4>1. process[r] = "alive" /\ r # runOf[c]
        BY <3>2, <2>4
      <4>2. PICK d \in Cells : runOf[d] = r
        BY <4>1 DEF ControlInv, CellsTruthful
      <4> QED
        BY <4>1, <4>2, <2>3
    <3>3. \A d, e \in Cells : d # e /\ runOf'[d] # 0 => runOf'[d] # runOf'[e]
      BY <2>3 DEF ControlInv, CellsTruthful
    <3> QED
      BY <1>1, <3>1, <3>2, <3>3 DEF CellsTruthful
  <2> QED
    BY <1>4, <1>5, <1>6, <2>5, <2>6 DEF ControlInv
<1> QED
  BY <1>7, <1>8

LEMMA ProcessFinishedKeeps == ASSUME ControlInv, NEW c \in Cells, ProcessFinished(c) PROVE ControlInv'
<1>1. /\ writing = Quiet /\ runOf[c] # 0 /\ process[runOf[c]] = "exited"
      /\ process' = [process EXCEPT ![runOf[c]] = "gone"] /\ running' = [running EXCEPT ![c] = FALSE]
      /\ runOf' = runOf /\ runs' = runs
  BY DEF ProcessFinished
<1>2. OrdersPart
  BY DEF ProcessFinished, workerVars, OrdersPart
<1>3. /\ running' \in [Cells -> BOOLEAN] /\ ~running'[c] /\ \A d \in Cells : running'[d] => running[d]
  BY <1>1, Zenon DEF ControlInv, ControlTyped
<1>4. /\ process' \in [Runs -> {"none", "alive", "exited", "gone"}]
      /\ \A r \in Runs : r # runOf[c] => process'[r] = process[r]
      /\ \A r \in Runs : process'[r] = "alive" => process[r] = "alive"
  BY <1>1 DEF ControlInv, ControlTyped
<1>5. ControlTyped'
  BY <1>1, <1>2, <1>3, <1>4 DEF ControlInv, ControlTyped, OrdersPart
<1>6. CellsTruthful'
  <2>1. ASSUME NEW d \in Cells, running'[d]
        PROVE  runOf[d] # 0 /\ process'[runOf[d]] \in {"alive", "exited"}
    <3>1. d # c /\ running[d]
      BY <2>1, <1>3
    <3>2. runOf[d] # 0 /\ process[runOf[d]] \in {"alive", "exited"} /\ runOf[d] # runOf[c]
      BY <3>1 DEF ControlInv, CellsTruthful
    <3>3. runOf[d] \in Runs
      BY <3>2, ControlBoundsAssumption DEF ControlInv, ControlTyped, Runs
    <3> QED
      BY <3>2, <3>3, <1>4
  <2> QED
    BY <1>1, <1>4, <2>1 DEF ControlInv, CellsTruthful
<1>7. KillInv'
  BY <1>1, <1>2 DEF KillInv, OrdersPart, Quiet
<1> QED
  BY <1>2, <1>5, <1>6, <1>7, OrdersStay DEF ControlInv

LEMMA OrchestratorKeeps == ASSUME ControlInv, NEW r \in Runs, OrchestratorActs(r) PROVE ControlInv'
<1>1. /\ process[r] = "alive"
      /\ file' = file /\ writing' = writing /\ given' = given /\ running' = running /\ runOf' = runOf
      /\ runs' = runs /\ heard' = heard /\ stayed' = stayed /\ obeyed' = obeyed
  BY DEF OrchestratorActs
<1>2. /\ worker' \in [Runs -> Places]
      /\ \A s \in Runs : (worker'[s] = "clearing") <=> (worker[s] = "clearing")
  BY DEF OrchestratorActs, ControlInv, ControlTyped, Places
<1>3. /\ process' \in [Runs -> {"none", "alive", "exited", "gone"}]
      /\ \A s \in Runs : process'[s] = "alive" => process[s] = "alive"
      /\ \A s \in Runs : process[s] \in {"alive", "exited"} => process'[s] \in {"alive", "exited"}
  BY DEF OrchestratorActs, ControlInv, ControlTyped
<1>4. ControlTyped'
  BY <1>1, <1>2, <1>3 DEF ControlInv, ControlTyped
<1>5. HeardInv' /\ ObeyedInv' /\ KillInv'
  BY <1>1, <1>2 DEF ControlInv, HeardInv, ObeyedInv, KillInv, OnItsWay
<1>6. CellsTruthful'
  <2>1. \A d \in Cells : runOf[d] # 0 => runOf[d] \in Runs
    BY ControlBoundsAssumption DEF ControlInv, ControlTyped, Runs
  <2> QED
    BY <1>1, <1>3, <2>1 DEF ControlInv, CellsTruthful
<1> QED
  BY <1>4, <1>5, <1>6 DEF ControlInv

LEMMA GoOnKeeps ==
  ASSUME ControlInv, NEW r \in Runs, GoOn(r) \/ StepEnds(r)
  PROVE  ControlInv'
<1>1. /\ worker[r] \in {"break", "step"} /\ file' = file /\ writing' = writing /\ given' = given
      /\ heard' = heard /\ stayed' = stayed /\ obeyed' = obeyed /\ CellsPart
  BY DEF GoOn, StepEnds, cellVars, CellsPart
<1>2. PICK next \in {"step", "break", "over"} : worker' = [worker EXCEPT ![r] = next]
  BY DEF GoOn, StepEnds
<1>3. /\ worker' \in [Runs -> Places]
      /\ \A s \in Runs : (worker'[s] = "clearing") <=> (worker[s] = "clearing")
  BY <1>1, <1>2 DEF ControlInv, ControlTyped, Places
<1>4. ControlTyped'
  BY <1>1, <1>3 DEF ControlInv, ControlTyped, CellsPart
<1>5. HeardInv' /\ ObeyedInv'
  BY <1>1, <1>3 DEF ControlInv, HeardInv, ObeyedInv, OnItsWay
<1> QED
  BY <1>1, <1>4, <1>5, CellsStay DEF ControlInv

LEMMA HearKeeps == ASSUME ControlInv, NEW r \in Runs, Hear(r) PROVE ControlInv'
<1>1. /\ worker[r] \in {"break", "paused"} /\ file \in Orders
      /\ heard' = [heard EXCEPT ![r] = file] /\ worker' = [worker EXCEPT ![r] = "clearing"]
      /\ file' = file /\ writing' = writing /\ given' = given /\ stayed' = stayed /\ obeyed' = obeyed
      /\ CellsPart
  BY DEF Hear, cellVars, CellsPart, Orders
<1>2. /\ heard' \in [Runs -> Orders \cup {"none"}] /\ heard'[r] = file
      /\ \A s \in Runs \ {r} : heard'[s] = heard[s] /\ worker'[s] = worker[s]
      /\ worker' \in [Runs -> Places] /\ worker'[r] = "clearing"
  BY <1>1 DEF ControlInv, ControlTyped, Places
<1>3. ControlTyped'
  BY <1>1, <1>2 DEF ControlInv, ControlTyped, CellsPart
<1>4. HeardInv'
  BY <1>1, <1>2 DEF ControlInv, HeardInv
<1>5. ObeyedInv'
  <2>1. \A s \in Runs, o \in Orders : OnItsWay(s, o)' => OnItsWay(s, o)
    BY <1>1, <1>2 DEF OnItsWay
  <2> QED
    BY <1>1, <2>1 DEF ControlInv, ObeyedInv
<1> QED
  BY <1>1, <1>3, <1>4, <1>5, CellsStay DEF ControlInv

\* The file is deleted, so no order is on its way but those that others have read; or it
\* could not be, and there is one more that this worker may obey.
LEMMA ObeyKeeps == ASSUME ControlInv, NEW r \in Runs, Obey(r) PROVE ControlInv'
<1> DEFINE o == heard[r]
           counts == [obeyed[r] EXCEPT ![o] = obeyed[r][o] + 1]
<1>1. /\ worker[r] = "clearing" /\ ClearControlFile(r)
      /\ worker' = [worker EXCEPT ![r] = Obeying(heard[r])]
      /\ heard' = [heard EXCEPT ![r] = "none"] /\ given' = given /\ CellsPart
  BY DEF Obey, cellVars, CellsPart
<1>2. obeyed' = [obeyed EXCEPT ![r] = counts]
  BY DEF Obey
<1>3. o \in Orders
  BY <1>1 DEF ControlInv, HeardInv
<1>4. Obeying(heard[r]) \in {"step", "paused", "over"}
  BY <1>3 DEF Obeying, Orders
<1>5. /\ worker' \in [Runs -> Places] /\ worker'[r] # "clearing"
      /\ \A s \in Runs \ {r} : worker'[s] = worker[s] /\ heard'[s] = heard[s]
      /\ heard' \in [Runs -> Orders \cup {"none"}] /\ heard'[r] = "none"
  BY <1>1, <1>4 DEF ControlInv, ControlTyped, Places
<1>6. /\ counts \in [Orders -> Nat] /\ counts[o] = obeyed[r][o] + 1
      /\ \A p \in Orders \ {o} : counts[p] = obeyed[r][p]
  BY <1>3 DEF ControlInv, ControlTyped
<1> HIDE DEF counts
<1>7. /\ obeyed' \in [Runs -> [Orders -> Nat]] /\ obeyed'[r] = counts
      /\ \A s \in Runs \ {r} : obeyed'[s] = obeyed[s]
  BY <1>2, <1>6 DEF ControlInv, ControlTyped
<1>8. /\ writing' \in [order : Orders \cup {"none"}, onDisk : BOOLEAN, kill : Cells \cup {NoCell}]
      /\ writing'.onDisk => writing.onDisk
      /\ writing'.kill = writing.kill /\ writing'.order = writing.order
  BY <1>1 DEF ControlInv, ControlTyped, ClearControlFile
<1>9. /\ file' \in Orders \cup {"absent", "empty"}
      /\ stayed' \in [Runs -> Nat] /\ \A s \in Runs : stayed'[s] <= MaxFails
      /\ \A s \in Runs \ {r} : stayed'[s] = stayed[s]
      /\ \/ file' = "absent" /\ ~writing'.onDisk /\ stayed' = stayed
         \/ file' = file /\ stayed'[r] = stayed[r] + 1
  <2>1. /\ file \in Orders \cup {"absent", "empty"} /\ stayed \in [Runs -> Nat] /\ MaxFails \in Nat
        /\ \A s \in Runs : stayed[s] <= MaxFails
    BY ControlBoundsAssumption DEF ControlInv, ControlTyped
  <2>2. CASE file' = "absent" /\ writing' = [writing EXCEPT !.onDisk = FALSE] /\ UNCHANGED stayed
    <3>1. ~writing'.onDisk
      BY <2>2 DEF ControlInv, ControlTyped
    <3> QED
      BY <2>1, <2>2, <3>1
  <2>3. CASE /\ stayed[r] < MaxFails /\ stayed' = [stayed EXCEPT ![r] = stayed[r] + 1]
             /\ UNCHANGED <<file, writing>>
    BY <2>1, <2>3
  <2> QED
    BY <1>1, <2>2, <2>3 DEF ClearControlFile
<1>10. ControlTyped'
  BY <1>1, <1>5, <1>7, <1>8, <1>9 DEF ControlInv, ControlTyped, CellsPart
<1>11. HeardInv'
  BY <1>5, <1>8 DEF ControlInv, HeardInv, Orders
<1>12. ObeyedInv'
  <2>1. ASSUME NEW s \in Runs, NEW p \in Orders
        PROVE  /\ obeyed'[s][p] <= given[p] + stayed'[s]
               /\ OnItsWay(s, p)' => obeyed'[s][p] + 1 <= given[p] + stayed'[s]
    <3>1. /\ obeyed[s][p] \in Nat /\ given[p] \in Nat /\ stayed[s] \in Nat
          /\ obeyed[s][p] <= given[p] + stayed[s]
          /\ OnItsWay(s, p) => obeyed[s][p] + 1 <= given[p] + stayed[s]
      BY DEF ControlInv, ControlTyped, ObeyedInv
    <3>2. OnItsWay(s, p)' => OnItsWay(s, p)
      BY <1>5, <1>8, <1>9 DEF OnItsWay, Orders
    <3>3. CASE s # r
      BY <3>1, <3>2, <3>3, <1>7, <1>9
    <3>4. CASE s = r /\ p # o
      BY <3>1, <3>2, <3>4, <1>6, <1>7, <1>9
    <3>5. CASE s = r /\ p = o
      <4>1. obeyed[r][p] + 1 <= given[p] + stayed[r]
        BY <3>1, <3>5 DEF OnItsWay
      <4>2. obeyed'[r][p] = obeyed[r][p] + 1
        BY <1>3, <1>6, <1>7, <3>5
      <4>3. stayed'[r] = stayed[r] \/ stayed'[r] = stayed[r] + 1
        BY <1>9
      <4>4. OnItsWay(r, p)' => stayed'[r] = stayed[r] + 1
        BY <1>5, <1>9 DEF OnItsWay, Orders
      <4> QED
        BY <1>1, <3>1, <3>5, <4>1, <4>2, <4>3, <4>4
    <3> QED
      BY <3>3, <3>4, <3>5
  <2> QED
    BY <1>1, <2>1 DEF ObeyedInv
<1> QED
  BY <1>1, <1>8, <1>10, <1>11, <1>12, CellsStay DEF ControlInv

LEMMA ControlStutters == ASSUME ControlInv, UNCHANGED controlVars PROVE ControlInv'
<1>1. OrdersPart /\ CellsPart
  BY DEF controlVars, cellVars, workerVars, OrdersPart, CellsPart
<1>2. ControlTyped'
  BY <1>1 DEF ControlInv, ControlTyped, OrdersPart, CellsPart
<1>3. CellsTruthful' /\ KillInv'
  BY <1>1, CellsStay DEF OrdersPart
<1> QED
  BY <1>1, <1>2, <1>3, OrdersStay DEF ControlInv

LEMMA ControlStep == ASSUME ControlInv, [ControlNext]_controlVars PROVE ControlInv'
<1>1. CASE \E o \in Orders \ {"abort"} : Order(o)
  BY <1>1, OrderKeeps
<1>2. CASE \E c \in Cells : RunCell(c) \/ StopCell(c) \/ ProcessFinished(c)
  BY <1>2, RunCellKeeps, StopCellKeeps, ProcessFinishedKeeps
<1>3. CASE WriteEnds
  BY <1>3, WriteEndsKeeps
<1>4. CASE \E r \in Runs : OrchestratorActs(r) \/ WorkerActs(r)
  BY <1>4, OrchestratorKeeps, GoOnKeeps, HearKeeps, ObeyKeeps DEF WorkerActs
<1>5. CASE UNCHANGED controlVars
  BY <1>5, ControlStutters
<1> QED
  BY <1>1, <1>2, <1>3, <1>4, <1>5 DEF ControlNext

LEMMA ControlIsSound == ControlInv => ControlSound
<1> SUFFICES ASSUME ControlInv PROVE ControlSound
  OBVIOUS
<1>1. ControlTypeOK
  <2>1. runOf \in [Cells -> 0..runs] /\ runs \in 0..MaxRuns /\ stayed \in [Runs -> 0..MaxFails]
    BY ControlBoundsAssumption DEF ControlInv, ControlTyped
  <2> QED
    BY <2>1 DEF ControlTypeOK, ControlInv, ControlTyped, HeardInv, Places
<1>2. OrdersOnce
  BY DEF OrdersOnce, ControlInv, ObeyedInv
<1> QED
  BY <1>1, <1>2 DEF ControlSound, ControlInv

\* However the operator clicks, runs and stops cells, whatever starts or fails to, and
\* however the workers' reading and deleting falls between: no worker obeys more orders
\* than were given, but one for each time it could not delete the file, and the cells say what runs (StudioBackend.cpp:526-661,
\* RuntimeWorker/src/main.cpp:161-208).
THEOREM ControlIsTruthful == ControlSpec => []ControlSound
<1>1. ControlInv /\ [ControlNext]_controlVars => ControlInv'
  BY ControlStep
<1> QED
  BY ControlInitially, ControlIsSound, <1>1, PTL DEF ControlSpec

-------------------------------------------------------------------------------
(***************************************************************************)
(* TaskList.  The rows of steps are numbered by their place, from          *)
(* StepIdBase on, and those of tasks below it: no row takes the place of   *)
(* another, so that a step has one row.  A workflow is counted when it     *)
(* begins and once more when it ends, whatever it ends as.                 *)
(***************************************************************************)

\* The tasks of an orchestration have numbers below those of step rows: there are fewer
\* than a thousand of them (StudioBackend.cpp:1289).
TaskIdsAreLow == ShownTasks \subseteq 1..StepIdBase - 1

Statuses == {"running", "succeeded", "failed", "skipped", "retry_scheduled"}
Abouts == AllSteps \cup {TaskOf(w) : w \in ShownWorkflows}
ListRow == [id : Nat, about : Abouts, status : Statuses, result : Results]

RowsInPlace(list) ==
  /\ list \in Seq(ListRow)
  /\ \A i \in 1..Len(list) : IF list[i].about \in AllSteps THEN list[i].id = StepIdBase + i - 1
                                                           ELSE list[i].id \in ShownTasks
  /\ \A i, j \in 1..Len(list) : list[i].id = list[j].id => i = j
  /\ \A i, j \in 1..Len(list) : list[i].about \in AllSteps /\ list[i].about = list[j].about => i = j

LEMMA AboutsDiffer == \A w \in ShownWorkflows : TaskOf(w) \notin AllSteps /\ TaskOf(w) \in Abouts
<1> SUFFICES ASSUME NEW w \in ShownWorkflows PROVE TaskOf(w) \notin AllSteps
  BY DEF Abouts
<1>1. TaskOf(w).step = NoStep
  BY DEF TaskOf
<1>2. \A s \in AllSteps : s.step \in ShownSteps \cup {Unnamed}
  BY DEF AllSteps, StepsOf, AnalysisOf
<1> QED
  BY <1>1, <1>2, NoStepAssumption DEF NoStep, Unnamed

LEMMA RowOfFinds ==
  ASSUME NEW S, NEW list \in Seq(S), NEW about
  PROVE  \/ RowOf(list, about) = 0 /\ \A i \in 1..Len(list) : list[i].about # about
         \/ RowOf(list, about) \in 1..Len(list) /\ list[RowOf(list, about)].about = about
<1> DEFINE T == {i \in 1..Len(list) : list[i].about = about}
<1>1. RowOf(list, about) = IF T # {} THEN Min(T) ELSE 0
  BY DEF RowOf, SelectInSeq
<1>2. CASE T # {}
  <2>0. T \subseteq Nat
    OBVIOUS
  <2> HIDE DEF T
  <2>1. \E x \in T : \A y \in T : x <= y
    BY <1>2, <2>0, LeastOf, Zenon
  <2>2. Min(T) \in T
    BY <2>1 DEF Min
  <2> QED
    BY <1>1, <1>2, <2>2 DEF T
<1>3. CASE T = {}
  BY <1>1, <1>3
<1> QED
  BY <1>2, <1>3

LEMMA UpdatedRows ==
  ASSUME NEW S, NEW list \in Seq(S), NEW row
  PROVE  \/ UpdateTask(list, row) = Append(list, row) /\ \A i \in 1..Len(list) : list[i].id # row.id
         \/ \E i \in 1..Len(list) : list[i].id = row.id /\ UpdateTask(list, row) = [list EXCEPT ![i] = row]
<1> DEFINE T == {i \in 1..Len(list) : list[i].id = row.id}
           at == IF T # {} THEN Min(T) ELSE 0
<1>1. UpdateTask(list, row) = IF at = 0 THEN Append(list, row) ELSE [list EXCEPT ![at] = row]
  BY DEF UpdateTask, SelectInSeq
<1>2. CASE T # {}
  <2>0. T \subseteq Nat
    OBVIOUS
  <2> HIDE DEF T
  <2>1. \E x \in T : \A y \in T : x <= y
    BY <1>2, <2>0, LeastOf, Zenon
  <2>2. Min(T) \in T
    BY <2>1 DEF Min
  <2>3. at \in T /\ at # 0
    BY <1>2, <2>2 DEF T
  <2> QED
    BY <1>1, <2>3 DEF T
<1>3. CASE T = {}
  BY <1>1, <1>3
<1> QED
  BY <1>2, <1>3

\* A row is put in its place: no other row changes.
LEMMA RowReplaced ==
  ASSUME NEW list, RowsInPlace(list), NEW i \in 1..Len(list), NEW row \in ListRow,
         row.id = list[i].id, row.about = list[i].about
  PROVE  LET new == [list EXCEPT ![i] = row] IN
           /\ RowsInPlace(new) /\ Len(new) = Len(list) /\ new[i] = row
           /\ \A j \in 1..Len(list) : j # i => new[j] = list[j]
           /\ \A j \in 1..Len(list) : new[j].id = list[j].id /\ new[j].about = list[j].about
<1> DEFINE new == [list EXCEPT ![i] = row]
<1>1. list \in Seq(ListRow)
  BY DEF RowsInPlace
<1>2. new \in Seq(ListRow) /\ Len(new) = Len(list) /\ new[i] = row
      /\ \A j \in 1..Len(list) : j # i => new[j] = list[j]
  BY <1>1
<1> HIDE DEF new
<1>3. \A j \in 1..Len(list) : new[j].id = list[j].id /\ new[j].about = list[j].about
  BY <1>2
<1>4. RowsInPlace(new)
  BY <1>2, <1>3 DEF RowsInPlace
<1> QED
  BY <1>2, <1>3, <1>4 DEF new

LEMMA RowAppended ==
  ASSUME NEW list, RowsInPlace(list), NEW row \in ListRow,
         IF row.about \in AllSteps THEN row.id = StepIdBase + Len(list) ELSE row.id \in ShownTasks,
         \A i \in 1..Len(list) : list[i].id # row.id,
         row.about \in AllSteps => \A i \in 1..Len(list) : list[i].about # row.about
  PROVE  LET new == Append(list, row) IN
           /\ RowsInPlace(new) /\ Len(new) = Len(list) + 1 /\ new[Len(list) + 1] = row
           /\ \A j \in 1..Len(list) : new[j] = list[j]
<1> DEFINE new == Append(list, row)
           n == Len(list)
<1>1. list \in Seq(ListRow) /\ n \in Nat
  BY DEF RowsInPlace
<1>2. new \in Seq(ListRow) /\ Len(new) = n + 1 /\ new[n + 1] = row /\ \A j \in 1..n : new[j] = list[j]
  BY <1>1, AppendProperties
<1> HIDE DEF new, n
<1>3. \A i \in 1..n + 1 : i \in 1..n \/ i = n + 1
  BY <1>1
<1>4. \A i \in 1..n + 1 : IF new[i].about \in AllSteps THEN new[i].id = StepIdBase + i - 1
                                                       ELSE new[i].id \in ShownTasks
  <2> TAKE i \in 1..n + 1
  <2>1. CASE i \in 1..n
    BY <2>1, <1>2 DEF RowsInPlace, n
  <2>2. CASE i = n + 1
    BY <2>2, <1>1, <1>2, ShownTasksAssumption DEF n
  <2> QED
    BY <2>1, <2>2, <1>3
<1>5. \A i, j \in 1..n + 1 : new[i].id = new[j].id => i = j
  BY <1>2, <1>3 DEF RowsInPlace, n
<1>6. \A i, j \in 1..n + 1 : new[i].about \in AllSteps /\ new[i].about = new[j].about => i = j
  BY <1>2, <1>3 DEF RowsInPlace, n
<1>7. RowsInPlace(new)
  BY <1>2, <1>4, <1>5, <1>6 DEF RowsInPlace
<1> QED
  BY <1>2, <1>7 DEF new, n

\* A report about a task: its row is the one with its id, and rows of steps stay.
LEMMA TaskReported ==
  ASSUME TaskIdsAreLow, RowsInPlace(rows), NEW t \in ShownTasks, NEW status \in Statuses,
         rows' = UpdateTask(rows, TaskRow(t, status))
  PROVE  /\ RowsInPlace(rows') /\ Len(rows) \in Nat /\ Len(rows') \in Nat /\ Len(rows) <= Len(rows')
         /\ \E i \in 1..Len(rows') : rows'[i].id = t
         /\ \A i \in 1..Len(rows) : rows'[i].id = rows[i].id
         /\ \A i \in 1..Len(rows) : rows[i].about \in AllSteps => rows'[i] = rows[i]
         /\ \A i \in 1..Len(rows') : rows'[i].about \in AllSteps => i \in 1..Len(rows) /\ rows'[i] = rows[i]
<1> DEFINE row == TaskRow(t, status)
<1>1. WorkflowFor[t] \in ShownWorkflows /\ t \in Nat /\ t < StepIdBase /\ StepIdBase \in Nat
  BY ShownTasksAssumption DEF ShownWorkflows, TaskIdsAreLow
<1>2. row \in ListRow /\ row.id = t /\ row.about \notin AllSteps
  BY <1>1, AboutsDiffer DEF TaskRow, ListRow, Results
<1> HIDE DEF row
<1>3. rows \in Seq(ListRow) /\ Len(rows) \in Nat
  BY DEF RowsInPlace
<1>4. rows' = UpdateTask(rows, row)
  BY DEF row
<1>5. CASE rows' = Append(rows, row) /\ \A i \in 1..Len(rows) : rows[i].id # t
  <2>1. /\ RowsInPlace(rows') /\ Len(rows') = Len(rows) + 1 /\ rows'[Len(rows) + 1] = row
        /\ \A j \in 1..Len(rows) : rows'[j] = rows[j]
    BY <1>2, <1>5, RowAppended
  <2> QED
    BY <2>1, <1>2, <1>3
<1>6. ASSUME NEW i \in 1..Len(rows), rows[i].id = t, rows' = [rows EXCEPT ![i] = row]
      PROVE  /\ RowsInPlace(rows') /\ Len(rows) \in Nat /\ Len(rows') \in Nat /\ Len(rows) <= Len(rows')
             /\ \E j \in 1..Len(rows') : rows'[j].id = t
             /\ \A j \in 1..Len(rows) : rows'[j].id = rows[j].id
             /\ \A j \in 1..Len(rows) : rows[j].about \in AllSteps => rows'[j] = rows[j]
             /\ \A j \in 1..Len(rows') : rows'[j].about \in AllSteps => j \in 1..Len(rows) /\ rows'[j] = rows[j]
  <2>1. rows[i].about \notin AllSteps
    BY <1>1, <1>3, <1>6 DEF RowsInPlace
  <2>2. /\ rows' \in Seq(ListRow) /\ Len(rows') = Len(rows) /\ rows'[i] = row
        /\ \A j \in 1..Len(rows) : j # i => rows'[j] = rows[j]
    BY <1>2, <1>3, <1>6
  <2>3. \A j \in 1..Len(rows) : rows'[j].id = rows[j].id
    BY <2>2, <1>2, <1>6
  <2>4. \A j \in 1..Len(rows) : rows[j].about \in AllSteps => rows'[j] = rows[j]
    BY <2>1, <2>2
  <2>5. \A j \in 1..Len(rows) : rows'[j].about \in AllSteps => rows'[j] = rows[j]
    BY <1>2, <2>2
  <2>6. \A j \in 1..Len(rows') : IF rows'[j].about \in AllSteps THEN rows'[j].id = StepIdBase + j - 1
                                                                ELSE rows'[j].id \in ShownTasks
    <3> TAKE j \in 1..Len(rows')
    <3>1. CASE j = i
      BY <3>1, <2>2, <1>2
    <3>2. CASE j # i
      BY <3>2, <2>2 DEF RowsInPlace
    <3> QED
      BY <3>1, <3>2
  <2>7. \A j, k \in 1..Len(rows') : rows'[j].id = rows'[k].id => j = k
    BY <2>2, <2>3 DEF RowsInPlace
  <2>8. \A j, k \in 1..Len(rows') : rows'[j].about \in AllSteps /\ rows'[j].about = rows'[k].about => j = k
    BY <2>2, <2>5 DEF RowsInPlace
  <2>9. RowsInPlace(rows')
    BY <2>2, <2>6, <2>7, <2>8 DEF RowsInPlace
  <2> QED
    BY <2>2, <2>3, <2>4, <2>5, <2>9, <1>3, <1>6
<1>7. \/ rows' = Append(rows, row) /\ \A i \in 1..Len(rows) : rows[i].id # t
      \/ \E i \in 1..Len(rows) : rows[i].id = t /\ rows' = [rows EXCEPT ![i] = row]
  BY <1>2, <1>3, <1>4, UpdatedRows
<1> QED
  BY <1>5, <1>6, <1>7

\* The row of a step: found, or made with a number of its own.
LEMMA StepRowMade ==
  ASSUME TaskIdsAreLow, RowsInPlace(rows), NEW s \in AllSteps, NEW status \in Statuses
  PROVE  LET list == WithStepRow(s, status)
             i == StepRowIndex(s, list)
         IN /\ RowsInPlace(list) /\ i \in 1..Len(list) /\ list[i].about = s
            /\ Len(rows) \in Nat /\ Len(list) \in Nat /\ Len(rows) <= Len(list)
            /\ \A j \in 1..Len(rows) : list[j] = rows[j]
            /\ \A j \in 1..Len(list) : j > Len(rows) => j = i
            /\ i > Len(rows) => /\ list[i].status = status /\ list[i].result = NoResult
                               /\ \A j \in 1..Len(rows) : rows[j].about # s
<1> DEFINE list == WithStepRow(s, status)
           i == StepRowIndex(s, list)
           row == [id |-> NewStepId, about |-> s, status |-> status, result |-> NoResult]
           n == Len(rows)
<1>1. rows \in Seq(ListRow) /\ n \in Nat /\ StepIdBase \in Nat
  BY ShownTasksAssumption DEF RowsInPlace
<1>2. CASE RowOf(rows, s) # 0
  <2>1. list = rows /\ i = RowOf(rows, s)
    BY <1>2 DEF WithStepRow, StepRowIndex
  <2>2. RowOf(rows, s) \in 1..n /\ rows[RowOf(rows, s)].about = s
    BY <1>1, <1>2, RowOfFinds
  <2> HIDE DEF list, i
  <2> QED
    BY <1>1, <2>1, <2>2 DEF list, i
<1>3. CASE RowOf(rows, s) = 0
  <2>1. \A j \in 1..n : rows[j].about # s
    BY <1>1, <1>3, RowOfFinds
  <2>2. row \in ListRow /\ row.about = s /\ row.id = StepIdBase + n /\ row.status = status /\ row.result = NoResult
    BY <1>1 DEF ListRow, Abouts, NewStepId, Results
  <2>3. list = UpdateTask(rows, row)
    BY <1>3 DEF WithStepRow
  <2>4. i = Len(list)
    BY <1>3 DEF StepRowIndex
  <2> HIDE DEF row, i, list
  <2>5. \A j \in 1..n : rows[j].id # row.id
    <3> TAKE j \in 1..n
    <3>1. CASE rows[j].about \in AllSteps
      BY <3>1, <1>1, <2>2 DEF RowsInPlace
    <3>2. CASE rows[j].about \notin AllSteps
      <4>1. rows[j].id \in ShownTasks
        BY <3>2 DEF RowsInPlace
      <4> QED
        BY <4>1, <1>1, <2>2 DEF TaskIdsAreLow
    <3> QED
      BY <3>1, <3>2
  <2>6. list = Append(rows, row)
    BY <1>1, <2>3, <2>5, UpdatedRows
  <2>7. /\ RowsInPlace(list) /\ Len(list) = n + 1 /\ list[n + 1] = row
        /\ \A j \in 1..n : list[j] = rows[j]
    BY <2>1, <2>2, <2>5, <2>6, RowAppended
  <2>8. i = n + 1 /\ list[i].about = s /\ list[i].status = status /\ list[i].result = NoResult
    BY <1>1, <2>2, <2>4, <2>7
  <2>9. \A j \in 1..Len(list) : j > n => j = i
    BY <1>1, <2>7, <2>8
  <2>10. i \in 1..Len(list) /\ Len(list) \in Nat /\ n <= Len(list)
    BY <1>1, <2>7, <2>8
  <2> QED
    BY <1>1, <2>1, <2>7, <2>8, <2>9, <2>10 DEF list, i
<1> QED
  BY <1>2, <1>3

\* The rows after a report about the step at i of list.
LEMMA StepRowWritten ==
  ASSUME NEW list, RowsInPlace(list), NEW i \in 1..Len(list), NEW row \in ListRow,
         row.id = list[i].id, row.about = list[i].about
  PROVE  UpdateTask(list, row) = [list EXCEPT ![i] = row]
<1>1. list \in Seq(ListRow)
  BY DEF RowsInPlace
<1>2. \A j \in 1..Len(list) : list[j].id = row.id => j = i
  BY DEF RowsInPlace
<1> QED
  BY <1>1, <1>2, UpdatedRows

\* What a report about a step does to the rows.
StepReported(s) ==
  /\ RowsInPlace(rows') /\ Len(rows) \in Nat /\ Len(rows') \in Nat /\ Len(rows) <= Len(rows')
  /\ \E i \in 1..Len(rows') : rows'[i].about = s
  /\ \A j \in 1..Len(rows) : rows'[j].id = rows[j].id
  /\ \A j \in 1..Len(rows) : rows[j].about # s => rows'[j] = rows[j]
  /\ \A j \in 1..Len(rows') : rows'[j].about # s => j \in 1..Len(rows) /\ rows'[j] = rows[j]

Reported(row, status, result) == [row EXCEPT !.status = status, !.result = result]

\* Afterwards the row of a step says this.
StepSays(s, status, result) ==
  \E i \in 1..Len(rows') : rows'[i].about = s /\ rows'[i].status = status /\ rows'[i].result = result

\* The row of a step gets a status and a result, and nothing else does.
LEMMA StepRowReported ==
  ASSUME TaskIdsAreLow, RowsInPlace(rows), NEW s \in AllSteps, NEW first \in Statuses,
         NEW status \in Statuses, NEW result \in Results,
         NEW list, list = WithStepRow(s, first), NEW old, old = list[StepRowIndex(s, list)],
         rows' = UpdateTask(list, Reported(old, status, result))
  PROVE  StepReported(s) /\ StepSays(s, status, result)
<1> DEFINE i == StepRowIndex(s, list)
           row == [list[i] EXCEPT !.status = status, !.result = result]
           new == [list EXCEPT ![i] = row]
<1>1. /\ RowsInPlace(list) /\ i \in 1..Len(list) /\ list[i].about = s
      /\ Len(rows) \in Nat /\ Len(list) \in Nat /\ Len(rows) <= Len(list)
      /\ \A j \in 1..Len(rows) : list[j] = rows[j]
      /\ \A j \in 1..Len(list) : j > Len(rows) => j = i
  BY StepRowMade
<1>2. rows' = UpdateTask(list, row)
  BY DEF Reported
<1> HIDE DEF i
<1>3. list[i] \in ListRow
  BY <1>1 DEF RowsInPlace
<1>4. /\ row \in ListRow /\ row.id = list[i].id /\ row.about = list[i].about
      /\ row.status = status /\ row.result = result
  BY <1>3 DEF ListRow
<1> HIDE DEF row
<1>5. rows' = new
  BY <1>1, <1>2, <1>4, StepRowWritten
<1>6. /\ RowsInPlace(new) /\ Len(new) = Len(list) /\ new[i] = row
      /\ \A j \in 1..Len(list) : j # i => new[j] = list[j]
      /\ \A j \in 1..Len(list) : new[j].id = list[j].id /\ new[j].about = list[j].about
  BY <1>1, <1>4, RowReplaced
<1> HIDE DEF new
<1>7. \A j \in 1..Len(rows) : j \in 1..Len(list)
  BY <1>1
<1>8. \A j \in 1..Len(rows) : rows[j].about # s => rows'[j] = rows[j]
  BY <1>1, <1>5, <1>6, <1>7
<1>9. \A j \in 1..Len(rows) : rows'[j].id = rows[j].id
  BY <1>1, <1>5, <1>6, <1>7
<1>10. i \in 1..Len(rows') /\ rows'[i].about = s /\ rows'[i].status = status /\ rows'[i].result = result
  BY <1>1, <1>4, <1>5, <1>6
<1>11. ASSUME NEW j \in 1..Len(rows'), rows'[j].about # s
       PROVE  j \in 1..Len(rows) /\ rows'[j] = rows[j]
  <2>1. j # i /\ j \in 1..Len(list)
    BY <1>5, <1>6, <1>10, <1>11
  <2> QED
    BY <2>1, <1>1, <1>5, <1>6
<1> QED
  BY <1>1, <1>5, <1>6, <1>8, <1>9, <1>10, <1>11 DEF StepReported, StepSays

(***************************************************************************)
(* The counters.                                                           *)
(***************************************************************************)
EndedAs(end) == {w \in ShownWorkflows : outcome[w] = end}

LEMMA WorkflowsAreFinite ==
  ASSUME TaskIdsAreLow
  PROVE  \A T \in SUBSET ShownWorkflows : IsFiniteSet(T) /\ Cardinality(T) \in Nat
<1> DEFINE f == [t \in ShownTasks |-> WorkflowFor[t]]
<1>1. IsFiniteSet(1..StepIdBase - 1)
  BY FS_Interval, ShownTasksAssumption
<1>2. IsFiniteSet(ShownTasks)
  BY <1>1, FS_Subset DEF TaskIdsAreLow
<1>3. f \in Surjection(ShownTasks, ShownWorkflows)
  BY DEF Surjection, ShownWorkflows
<1> HIDE DEF f
<1>4. IsFiniteSet(ShownWorkflows)
  BY <1>2, <1>3, FS_Surjection
<1> QED
  BY <1>4, FS_Subset, FS_CardinalityType

ListTypes ==
  /\ begun \subseteq ShownWorkflows
  /\ outcome \in [ShownWorkflows -> {"none", "finished", "failed"}]
  /\ task \in [ShownTasks -> {"out", "waiting", "running"}]
  /\ judged \in [AllSteps -> Results]
  /\ shown \in [AllSteps -> {"none", "running", "succeeded", "failed"}]
  /\ countStarted \in Nat /\ countFinished \in Nat /\ countFailed \in Nat
  /\ before \in [started : Nat, finished : Nat, failed : Nat]

RowsShown ==
  /\ RowsInPlace(rows)
  /\ \A s \in AllSteps : shown[s] # "none" =>
       \E i \in 1..Len(rows) : rows[i].about = s /\ rows[i].status = shown[s] /\ rows[i].result = judged[s]
  /\ \A s \in AllSteps : shown[s] = "none" => judged[s] = NoResult
  /\ \A i \in 1..Len(rows) : rows[i].about \in AllSteps => shown[rows[i].about] # "none"
  /\ \A t \in ShownTasks : task[t] = "running" => \E i \in 1..Len(rows) : rows[i].id = t

\* Only what has begun runs or has ended, and it was counted then.
RunCounted ==
  /\ \A t \in ShownTasks : task[t] = "running" => WorkflowFor[t] \in begun
  /\ \A w \in ShownWorkflows : outcome[w] # "none" => w \in begun
  /\ countStarted = before.started + Cardinality(begun)
  /\ countFinished = before.finished + Cardinality(EndedAs("finished"))
  /\ countFailed = before.failed + Cardinality(EndedAs("failed"))
  /\ before.finished + before.failed <= before.started

ListInv == ListTypes /\ RowsShown /\ RunCounted

\* No workflow has ended twice, or without having begun.
LEMMA EndsAreFew ==
  ASSUME TaskIdsAreLow, ListInv
  PROVE  countFinished + countFailed <= countStarted
<1> DEFINE A == EndedAs("finished")
           B == EndedAs("failed")
<1>1. A \subseteq begun /\ B \subseteq begun /\ A \cap B = {} /\ begun \subseteq ShownWorkflows
  BY DEF ListInv, ListTypes, RunCounted, EndedAs
<1>2. /\ IsFiniteSet(A) /\ IsFiniteSet(B) /\ IsFiniteSet(begun)
      /\ Cardinality(A) \in Nat /\ Cardinality(B) \in Nat /\ Cardinality(begun) \in Nat
  BY WorkflowsAreFinite DEF ListInv, ListTypes, EndedAs
<1>3. /\ countStarted = before.started + Cardinality(begun)
      /\ countFinished = before.finished + Cardinality(A)
      /\ countFailed = before.failed + Cardinality(B)
      /\ before.finished + before.failed <= before.started
      /\ before.started \in Nat /\ before.finished \in Nat /\ before.failed \in Nat
  BY DEF ListInv, ListTypes, RunCounted
<1> HIDE DEF A, B
<1>4. Cardinality(A \cup B) = Cardinality(A) + Cardinality(B) - Cardinality(A \cap B)
  BY <1>2, FS_Union
<1>5. Cardinality(A \cap B) = 0
  BY <1>1, FS_EmptySet
<1>6. Cardinality(A \cup B) <= Cardinality(begun)
  BY <1>1, <1>2, FS_Subset
<1> QED
  BY <1>2, <1>3, <1>4, <1>5, <1>6

\* What the list and the counters show of the run follows.
LEMMA ListIsSound ==
  ASSUME TaskIdsAreLow, ListInv
  PROVE  ListTruthful
<1>1. rows \in Seq(ListRow) /\ DOMAIN rows = 1..Len(rows)
  BY DEF ListInv, RowsShown, RowsInPlace
<1>2. TaskListTypeOK
  <2>1. \A i, j \in DOMAIN rows : i # j => rows[i].id # rows[j].id
    BY <1>1 DEF ListInv, RowsShown, RowsInPlace
  <2>2. \A i \in DOMAIN rows :
          /\ rows[i].status \in {"running", "succeeded", "failed", "skipped", "retry_scheduled"}
          /\ rows[i].result \in Results
    <3>1. \A i \in DOMAIN rows : rows[i] \in ListRow
      BY <1>1
    <3> QED
      BY <3>1 DEF ListRow, Statuses
  <2> QED
    BY <2>1, <2>2 DEF TaskListTypeOK, ListInv, ListTypes
<1>3. StepsShown
  <2>1. ASSUME NEW s \in AllSteps, shown[s] # "none"
        PROVE  \E i \in DOMAIN rows :
                 /\ rows[i].about = s
                 /\ rows[i].status = shown[s] /\ rows[i].result = judged[s]
                 /\ \A j \in DOMAIN rows : rows[j].about = s => j = i
    <3>1. PICK i \in 1..Len(rows) :
            rows[i].about = s /\ rows[i].status = shown[s] /\ rows[i].result = judged[s]
      BY <2>1 DEF ListInv, RowsShown
    <3>2. \A j \in 1..Len(rows) : rows[j].about = s => j = i
      BY <3>1, <1>1 DEF ListInv, RowsShown, RowsInPlace
    <3> QED
      BY <1>1, <3>1, <3>2
  <2>2. \A t \in ShownTasks : task[t] = "running" => \E i \in DOMAIN rows : rows[i].id = t
    BY <1>1 DEF ListInv, RowsShown
  <2> QED
    BY <2>1, <2>2 DEF StepsShown
<1>4. CountersTruthful
  BY EndsAreFew DEF CountersTruthful, ListInv, RunCounted, EndedAs
<1> QED
  BY <1>2, <1>3, <1>4 DEF ListTruthful

LEMMA ListStarts ==
  ASSUME TaskIdsAreLow, TaskListInit
  PROVE  ListInv
<1>1. ListTypes
  BY DEF TaskListInit, ListTypes, Results
<1>2. RowsShown
  BY DEF TaskListInit, RowsShown, RowsInPlace
<1>3. EndedAs("finished") = {} /\ EndedAs("failed") = {}
  BY DEF TaskListInit, EndedAs
<1>4. Cardinality({}) = 0
  BY FS_EmptySet
<1>5. RunCounted
  <2>1. /\ \A t \in ShownTasks : task[t] # "running"
        /\ \A w \in ShownWorkflows : outcome[w] = "none"
        /\ begun = {} /\ countStarted = 0 /\ countFinished = 0 /\ countFailed = 0
        /\ before.started = 0 /\ before.finished = 0 /\ before.failed = 0
    BY DEF TaskListInit
  <2> QED
    BY <1>3, <1>4, <2>1 DEF RunCounted
<1> QED
  BY <1>1, <1>2, <1>5 DEF ListInv

-------------------------------------------------------------------------------
(* Steps of the run. *)

LEMMA StartKeeps ==
  ASSUME TaskIdsAreLow, ListInv, NEW workflows, Start(workflows)
  PROVE  ListInv'
<1>1. /\ rows' = <<>> /\ begun' = {} /\ outcome' = [w \in ShownWorkflows |-> "none"]
      /\ \A t \in ShownTasks : task'[t] # "running"
      /\ task' \in [ShownTasks -> {"out", "waiting", "running"}]
      /\ judged' = [s \in AllSteps |-> NoResult] /\ shown' = [s \in AllSteps |-> "none"]
      /\ before' = [started |-> countStarted, finished |-> countFinished, failed |-> countFailed]
      /\ countStarted' = countStarted /\ countFinished' = countFinished /\ countFailed' = countFailed
  BY DEF Start
<1>2. countStarted \in Nat /\ countFinished \in Nat /\ countFailed \in Nat
  BY DEF ListInv, ListTypes
<1>3. ListTypes'
  BY <1>1, <1>2 DEF ListTypes, Results
<1>4. RowsShown'
  BY <1>1 DEF RowsShown, RowsInPlace
<1>5. EndedAs("finished")' = {} /\ EndedAs("failed")' = {} /\ Cardinality({}) = 0
  BY <1>1, FS_EmptySet DEF EndedAs
<1>6. RunCounted'
  <2>1. /\ \A w \in ShownWorkflows : outcome'[w] = "none"
        /\ before'.started = countStarted /\ before'.finished = countFinished /\ before'.failed = countFailed
    BY <1>1
  <2>2. countFinished + countFailed <= countStarted
    BY EndsAreFew
  <2>3. Cardinality(begun') = 0 /\ Cardinality(EndedAs("finished")') = 0 /\ Cardinality(EndedAs("failed")') = 0
    BY <1>1, <1>5
  <2>4. /\ countStarted' = before'.started + Cardinality(begun')
        /\ countFinished' = before'.finished + Cardinality(EndedAs("finished")')
        /\ countFailed' = before'.failed + Cardinality(EndedAs("failed")')
    BY <1>1, <1>2, <2>1, <2>3
  <2>5. before'.finished + before'.failed <= before'.started
    BY <2>1, <2>2
  <2> QED
    BY <1>1, <2>1, <2>4, <2>5 DEF RunCounted
<1> QED
  BY <1>3, <1>4, <1>6 DEF ListInv

\* A report about a task leaves what the rows say of steps and of other tasks.
LEMMA TaskShown ==
  ASSUME TaskIdsAreLow, ListInv, NEW t \in ShownTasks, NEW status \in Statuses,
         rows' = UpdateTask(rows, TaskRow(t, status)), judged' = judged, shown' = shown,
         \A u \in ShownTasks : u # t /\ task'[u] = "running" => task[u] = "running"
  PROVE  RowsShown'
<1>1. /\ RowsInPlace(rows') /\ Len(rows) \in Nat /\ Len(rows') \in Nat /\ Len(rows) <= Len(rows')
      /\ \E i \in 1..Len(rows') : rows'[i].id = t
      /\ \A i \in 1..Len(rows) : rows'[i].id = rows[i].id
      /\ \A i \in 1..Len(rows) : rows[i].about \in AllSteps => rows'[i] = rows[i]
      /\ \A i \in 1..Len(rows') : rows'[i].about \in AllSteps => i \in 1..Len(rows) /\ rows'[i] = rows[i]
  BY TaskReported DEF ListInv, RowsShown
<1>2. \A i \in 1..Len(rows) : i \in 1..Len(rows')
  BY <1>1
<1>3. ASSUME NEW s \in AllSteps, shown'[s] # "none"
      PROVE  \E i \in 1..Len(rows') :
               rows'[i].about = s /\ rows'[i].status = shown'[s] /\ rows'[i].result = judged'[s]
  <2>1. PICK i \in 1..Len(rows) :
          rows[i].about = s /\ rows[i].status = shown[s] /\ rows[i].result = judged[s]
    BY <1>3 DEF ListInv, RowsShown
  <2> QED
    BY <1>1, <1>2, <2>1
<1>4. ASSUME NEW u \in ShownTasks, task'[u] = "running"
      PROVE  \E i \in 1..Len(rows') : rows'[i].id = u
  <2>1. CASE u = t
    BY <1>1, <2>1
  <2>2. CASE u # t
    <3>1. PICK i \in 1..Len(rows) : rows[i].id = u
      BY <1>4, <2>2 DEF ListInv, RowsShown
    <3> QED
      BY <1>1, <1>2, <3>1
  <2> QED
    BY <2>1, <2>2
<1>5. /\ \A s \in AllSteps : shown'[s] = "none" => judged'[s] = NoResult
      /\ \A i \in 1..Len(rows') : rows'[i].about \in AllSteps => shown'[rows'[i].about] # "none"
  BY <1>1 DEF ListInv, RowsShown
<1> QED
  BY <1>1, <1>3, <1>4, <1>5 DEF RowsShown

\* A report about a step leaves what the rows say of the others.
LEMMA StepShown ==
  ASSUME ListInv, NEW s \in AllSteps, StepReported(s), task' = task, shown'[s] # "none",
         \A r \in AllSteps : r # s => judged'[r] = judged[r] /\ shown'[r] = shown[r],
         \E i \in 1..Len(rows') :
           rows'[i].about = s /\ rows'[i].status = shown'[s] /\ rows'[i].result = judged'[s]
  PROVE  RowsShown'
<1>1. /\ RowsInPlace(rows') /\ Len(rows) \in Nat /\ Len(rows') \in Nat /\ Len(rows) <= Len(rows')
      /\ \A i \in 1..Len(rows) : rows'[i].id = rows[i].id
      /\ \A i \in 1..Len(rows) : rows[i].about # s => rows'[i] = rows[i]
      /\ \A i \in 1..Len(rows') : rows'[i].about # s => i \in 1..Len(rows) /\ rows'[i] = rows[i]
  BY DEF StepReported
<1>2. \A i \in 1..Len(rows) : i \in 1..Len(rows')
  BY <1>1
<1>3. ASSUME NEW r \in AllSteps, shown'[r] # "none"
      PROVE  \E i \in 1..Len(rows') :
               rows'[i].about = r /\ rows'[i].status = shown'[r] /\ rows'[i].result = judged'[r]
  <2>1. CASE r = s
    BY <2>1
  <2>2. CASE r # s
    <3>1. PICK i \in 1..Len(rows) :
            rows[i].about = r /\ rows[i].status = shown[r] /\ rows[i].result = judged[r]
      BY <1>3, <2>2 DEF ListInv, RowsShown
    <3> QED
      BY <1>1, <1>2, <2>2, <3>1
  <2> QED
    BY <2>1, <2>2
<1>4. ASSUME NEW u \in ShownTasks, task'[u] = "running"
      PROVE  \E i \in 1..Len(rows') : rows'[i].id = u
  <2>1. PICK i \in 1..Len(rows) : rows[i].id = u
    BY <1>4 DEF ListInv, RowsShown
  <2> QED
    BY <1>1, <1>2, <2>1
<1>5. \A r \in AllSteps : shown'[r] = "none" => judged'[r] = NoResult
  BY DEF ListInv, RowsShown
<1>6. ASSUME NEW i \in 1..Len(rows'), rows'[i].about \in AllSteps
      PROVE  shown'[rows'[i].about] # "none"
  BY <1>1, <1>6 DEF ListInv, RowsShown
<1> QED
  BY <1>1, <1>3, <1>4, <1>5, <1>6 DEF RowsShown

\* What the row that is written for a step still says is what it had to say before.
LEMMA ResultKept ==
  ASSUME TaskIdsAreLow, ListInv, NEW s \in AllSteps, NEW status \in Statuses
  PROVE  LET list == WithStepRow(s, status)
             row == list[StepRowIndex(s, list)]
         IN /\ row \in ListRow /\ row.result = judged[s]
            /\ row.status = IF shown[s] = "none" THEN status ELSE shown[s]
<1> DEFINE list == WithStepRow(s, status)
           i == StepRowIndex(s, list)
<1>1. /\ i \in 1..Len(list) /\ list[i].about = s /\ Len(rows) \in Nat /\ Len(list) \in Nat
      /\ \A j \in 1..Len(rows) : list[j] = rows[j]
      /\ i > Len(rows) => /\ list[i].status = status /\ list[i].result = NoResult
                               /\ \A j \in 1..Len(rows) : rows[j].about # s
  BY StepRowMade DEF ListInv, RowsShown
<1>2. shown[s] # "none" =>
        \E j \in 1..Len(rows) : rows[j].about = s /\ rows[j].status = shown[s] /\ rows[j].result = judged[s]
  BY DEF ListInv, RowsShown
<1>3. list[i] \in ListRow
  BY StepRowMade DEF ListInv, RowsShown, RowsInPlace
<1> HIDE DEF list, i
<1>4. CASE i > Len(rows)
  <2>1. shown[s] = "none" /\ judged[s] = NoResult
    BY <1>1, <1>2, <1>4 DEF ListInv, RowsShown
  <2> QED
    BY <1>1, <1>4, <1>3, <2>1 DEF list, i
<1>5. CASE i <= Len(rows)
  <2>1. i \in 1..Len(rows) /\ list[i] = rows[i] /\ rows[i].about = s
    BY <1>1, <1>5
  <2>2. shown[s] # "none"
    BY <2>1 DEF ListInv, RowsShown
  <2>3. PICK j \in 1..Len(rows) : rows[j].about = s /\ rows[j].status = shown[s] /\ rows[j].result = judged[s]
    BY <1>2, <2>2
  <2>4. i = j
    BY <2>1, <2>3 DEF ListInv, RowsShown, RowsInPlace
  <2> QED
    BY <1>3, <2>1, <2>2, <2>3, <2>4 DEF list, i
<1> QED
  BY <1>1, <1>4, <1>5 DEF list, i

LEMMA TaskStartedKeeps ==
  ASSUME TaskIdsAreLow, ListInv, NEW t \in ShownTasks, TaskStarted(t)
  PROVE  ListInv'
<1> DEFINE w == WorkflowFor[t]
<1>1. /\ task' = [task EXCEPT ![t] = "running"] /\ judged' = judged /\ shown' = shown /\ outcome' = outcome /\ before' = before
      /\ rows' = UpdateTask(rows, TaskRow(t, "running"))
      /\ begun' = begun \cup {w} /\ countStarted' = IF w \in begun THEN countStarted ELSE countStarted + 1
      /\ countFinished' = countFinished /\ countFailed' = countFailed
  BY DEF TaskStarted
<1>2. w \in ShownWorkflows /\ task \in [ShownTasks -> {"out", "waiting", "running"}] /\ countStarted \in Nat
  BY DEF ListInv, ListTypes, ShownWorkflows
<1>4. ListTypes'
  <2>1. countStarted' \in Nat /\ begun' \subseteq ShownWorkflows
    BY <1>1, <1>2 DEF ListInv, ListTypes
  <2>2. task' \in [ShownTasks -> {"out", "waiting", "running"}]
    BY <1>1, <1>2
  <2> QED
    BY <1>1, <2>1, <2>2 DEF ListInv, ListTypes
<1>5. \A u \in ShownTasks : u # t => task'[u] = task[u]
  BY <1>1, <1>2
<1>3. RowsShown'
  BY <1>1, <1>5, TaskShown DEF Statuses
<1>6. RunCounted'
  <2>1. IsFiniteSet(begun) /\ Cardinality(begun) \in Nat
    BY WorkflowsAreFinite DEF ListInv, ListTypes
  <2>2. Cardinality(begun \cup {w}) = IF w \in begun THEN Cardinality(begun) ELSE Cardinality(begun) + 1
    BY <2>1, FS_AddElement
  <2>3. EndedAs("finished")' = EndedAs("finished") /\ EndedAs("failed")' = EndedAs("failed")
    BY <1>1 DEF EndedAs
  <2>4. \A u \in ShownTasks : task'[u] = "running" => WorkflowFor[u] \in begun'
    BY <1>1, <1>5 DEF ListInv, RunCounted
  <2>5. \A x \in ShownWorkflows : outcome'[x] # "none" => x \in begun'
    BY <1>1 DEF ListInv, RunCounted
  <2>6. countStarted' = before.started + Cardinality(begun')
    <3>1. before.started \in Nat /\ countStarted = before.started + Cardinality(begun)
      BY DEF ListInv, ListTypes, RunCounted
    <3> QED
      BY <3>1, <1>1, <2>1, <2>2
  <2> QED
    BY <1>1, <2>3, <2>4, <2>5, <2>6 DEF ListInv, RunCounted
<1> QED
  BY <1>4, <1>3, <1>6 DEF ListInv

\* A report that touches no counter leaves them as they were.
LEMMA CountsStay ==
  ASSUME ListInv, UNCHANGED <<begun, outcome, before, countStarted, countFinished, countFailed>>,
         \A t \in ShownTasks : task'[t] = "running" => task[t] = "running"
  PROVE  RunCounted'
<1>1. /\ begun' = begun /\ outcome' = outcome /\ before' = before
      /\ countStarted' = countStarted /\ countFinished' = countFinished /\ countFailed' = countFailed
  OBVIOUS
<1>2. EndedAs("finished")' = EndedAs("finished") /\ EndedAs("failed")' = EndedAs("failed")
  BY <1>1 DEF EndedAs
<1> QED
  BY <1>1, <1>2 DEF ListInv, RunCounted

LEMMA LaterIsResult ==
  ASSUME NEW a \in Results, NEW b \in Results
  PROVE  Later(a, b) \in Results /\ StatusOf(a) \in {"succeeded", "failed"} \cap Statuses
BY DEF Later, StatusOf, Statuses

\* The histories and the row of a step say the same after a report about it.
LEMMA StepKeeps ==
  ASSUME ListInv, NEW s \in AllSteps, StepReported(s),
         NEW status \in {"running", "succeeded", "failed"}, NEW result \in Results,
         shown' = [shown EXCEPT ![s] = status], judged' = [judged EXCEPT ![s] = result],
         StepSays(s, status, result),
         UNCHANGED <<outcome, begun, countStarted, countFinished, countFailed, task, before>>
  PROVE  ListInv'
<1>1. judged \in [AllSteps -> Results] /\ shown \in [AllSteps -> {"none", "running", "succeeded", "failed"}]
  BY DEF ListInv, ListTypes
<1>2. /\ judged' \in [AllSteps -> Results] /\ shown' \in [AllSteps -> {"none", "running", "succeeded", "failed"}]
      /\ judged'[s] = result /\ shown'[s] = status
      /\ \A r \in AllSteps : r # s => judged'[r] = judged[r] /\ shown'[r] = shown[r]
  BY <1>1
<1>3. RowsShown'
  BY <1>2, StepShown DEF StepSays
<1>4. ListTypes'
  BY <1>2 DEF ListInv, ListTypes
<1>5. RunCounted'
  BY CountsStay
<1> QED
  BY <1>3, <1>4, <1>5 DEF ListInv

LEMMA ActivityFinishedKeeps ==
  ASSUME TaskIdsAreLow, ListInv, NEW t \in ShownTasks, NEW s \in StepsOf(WorkflowFor[t]),
         ActivityFinished(t, s)
  PROVE  ListInv'
<1>1. s \in AllSteps
  BY DEF AllSteps, ShownWorkflows
<1>2. PICK told \in Results, found \in Results :
        /\ rows' = StepFinished(s, told, found)
        /\ shown' = [shown EXCEPT ![s] = StatusOf(Later(told, judged[s]))]
        /\ judged' = [judged EXCEPT ![s] = Later(found, Later(told, judged[s]))]
  BY DEF ActivityFinished, ResultsIn, Results
<1> DEFINE list == WithStepRow(s, StatusOf(told))
           row == list[StepRowIndex(s, list)]
           result == Later(told, judged[s])
<1>3. RowsInPlace(rows) /\ judged[s] \in Results
  BY <1>1 DEF ListInv, RowsShown, ListTypes
<1>4. StatusOf(told) \in Statuses
  BY <1>3, LaterIsResult
<1>5. row.result = judged[s]
  BY <1>1, <1>4, ResultKept
<1>6. rows' = UpdateTask(list, Reported(row, StatusOf(result), Later(found, result)))
  BY <1>2, <1>5 DEF StepFinished, Reported
<1>7. result \in Results /\ Later(found, result) \in Results
  BY <1>3, LaterIsResult
<1>8. StatusOf(result) \in {"succeeded", "failed"} \cap Statuses
  BY <1>7, LaterIsResult
<1>11. list = WithStepRow(s, StatusOf(told)) /\ row = list[StepRowIndex(s, list)]
  OBVIOUS
<1> HIDE DEF result, list, row
<1>9. StepReported(s) /\ StepSays(s, StatusOf(result), Later(found, result))
  BY <1>1, <1>3, <1>4, <1>6, <1>7, <1>8, <1>11, StepRowReported
<1>10. UNCHANGED <<outcome, begun, countStarted, countFinished, countFailed, task, before>>
  BY DEF ActivityFinished
<1> QED
  BY <1>1, <1>2, <1>7, <1>8, <1>9, <1>10, StepKeeps DEF result

LEMMA AnalyzerFinishedKeeps ==
  ASSUME TaskIdsAreLow, ListInv, NEW t \in ShownTasks, AnalyzerFinished(t)
  PROVE  ListInv'
<1> DEFINE s == AnalysisOf(WorkflowFor[t])
           status == IF shown[s] = "none" THEN "running" ELSE shown[s]
<1>1. s \in AllSteps
  BY DEF AllSteps, ShownWorkflows
<1>2. PICK found \in Results :
        rows' = StepAnalyzed(s, found) /\ judged' = [judged EXCEPT ![s] = Later(found, judged[s])]
  BY DEF AnalyzerFinished, ResultsIn, Results
<1>3. /\ shown' = [shown EXCEPT ![s] = status]
      /\ UNCHANGED <<outcome, begun, countStarted, countFinished, countFailed, task, before>>
  BY DEF AnalyzerFinished
<1> HIDE DEF s
<1> DEFINE list == WithStepRow(s, "running")
           row == list[StepRowIndex(s, list)]
           result == Later(found, judged[s])
<1>4. RowsInPlace(rows) /\ result \in Results /\ "running" \in Statuses
  BY <1>1, LaterIsResult DEF ListInv, RowsShown, ListTypes, Statuses
<1>5. status \in {"running", "succeeded", "failed"} /\ status \in Statuses
  BY <1>1 DEF ListInv, ListTypes, Statuses
<1>6. row \in ListRow /\ row.result = judged[s] /\ row.status = status
  BY <1>1, <1>4, ResultKept
<1>7. rows' = UpdateTask(list, [row EXCEPT !.result = result])
  BY <1>2, <1>6 DEF StepAnalyzed
<1>8. [row EXCEPT !.result = result] = Reported(row, status, result)
  <2> HIDE DEF row, result, status
  <2> QED
    BY <1>6 DEF ListRow, Reported
<1>9. rows' = UpdateTask(list, Reported(row, status, result))
  BY <1>7, <1>8
<1>12. list = WithStepRow(s, "running") /\ row = list[StepRowIndex(s, list)]
  OBVIOUS
<1> HIDE DEF result, status, list, row
<1>10. StepReported(s) /\ StepSays(s, status, result)
  BY <1>1, <1>4, <1>5, <1>9, <1>12, StepRowReported
<1>11. judged' = [judged EXCEPT ![s] = result]
  BY <1>2 DEF result
<1> QED
  BY <1>1, <1>3, <1>4, <1>5, <1>10, <1>11, StepKeeps

\* The end of a workflow is counted once; a failure that a retry made good is taken back.
LEMMA EndCounted ==
  ASSUME TaskIdsAreLow, ListInv, NEW w \in ShownWorkflows, w \in begun,
         \/ CountFinished(w) /\ outcome' = [outcome EXCEPT ![w] = "finished"]
         \/ CountFailed(w) /\ outcome' = [outcome EXCEPT ![w] = IF @ = "none" THEN "failed" ELSE @]
  PROVE  /\ outcome' \in [ShownWorkflows -> {"none", "finished", "failed"}]
         /\ countFinished' \in Nat /\ countFailed' \in Nat
         /\ \A x \in ShownWorkflows : outcome'[x] # "none" => x \in begun
         /\ countFinished' = before.finished + Cardinality(EndedAs("finished")')
         /\ countFailed' = before.failed + Cardinality(EndedAs("failed")')
<1> DEFINE A == EndedAs("finished")
           B == EndedAs("failed")
<1>1. /\ outcome \in [ShownWorkflows -> {"none", "finished", "failed"}]
      /\ countFinished \in Nat /\ countFailed \in Nat /\ before.finished \in Nat /\ before.failed \in Nat
      /\ countFinished = before.finished + Cardinality(A) /\ countFailed = before.failed + Cardinality(B)
      /\ \A x \in ShownWorkflows : outcome[x] # "none" => x \in begun
  BY DEF ListInv, ListTypes, RunCounted
<1>2. /\ IsFiniteSet(A) /\ Cardinality(A) \in Nat /\ IsFiniteSet(B) /\ Cardinality(B) \in Nat
  BY WorkflowsAreFinite DEF EndedAs
<1>3. /\ Cardinality(A \cup {w}) = IF w \in A THEN Cardinality(A) ELSE Cardinality(A) + 1
      /\ Cardinality(B \cup {w}) = IF w \in B THEN Cardinality(B) ELSE Cardinality(B) + 1
      /\ Cardinality(B \ {w}) = IF w \in B THEN Cardinality(B) - 1 ELSE Cardinality(B)
  BY <1>2, FS_AddElement, FS_RemoveElement
<1>4. (w \in A <=> outcome[w] = "finished") /\ (w \in B <=> outcome[w] = "failed")
  BY DEF EndedAs
<1>5. w \in B => Cardinality(B) > 0
  BY <1>2, FS_EmptySet
<1>6. CASE CountFinished(w) /\ outcome' = [outcome EXCEPT ![w] = "finished"]
  <2>1. /\ outcome' \in [ShownWorkflows -> {"none", "finished", "failed"}]
        /\ outcome'[w] = "finished" /\ \A x \in ShownWorkflows : x # w => outcome'[x] = outcome[x]
    BY <1>1, <1>6
  <2>2. EndedAs("finished")' = A \cup {w} /\ EndedAs("failed")' = B \ {w}
    BY <2>1 DEF EndedAs
  <2>3. /\ countFinished' = countFinished + (IF w \in A THEN 0 ELSE 1)
        /\ countFailed' = IF w \in B /\ countFailed > 0 THEN countFailed - 1 ELSE countFailed
    BY <1>4, <1>6 DEF CountFinished
  <2>4. \A x \in ShownWorkflows : outcome'[x] # "none" => x \in begun
    BY <1>1, <2>1
  <2> HIDE DEF A, B
  <2>5. countFinished' \in Nat /\ countFinished' = before.finished + Cardinality(A \cup {w})
    BY <1>1, <1>2, <1>3, <2>3
  <2>6. countFailed' \in Nat /\ countFailed' = before.failed + Cardinality(B \ {w})
    BY <1>1, <1>2, <1>3, <1>5, <2>3
  <2> QED
    BY <2>1, <2>2, <2>4, <2>5, <2>6
<1>7. CASE CountFailed(w) /\ outcome' = [outcome EXCEPT ![w] = IF @ = "none" THEN "failed" ELSE @]
  <2>1. /\ outcome' \in [ShownWorkflows -> {"none", "finished", "failed"}]
        /\ outcome'[w] = (IF outcome[w] = "none" THEN "failed" ELSE outcome[w])
        /\ \A x \in ShownWorkflows : x # w => outcome'[x] = outcome[x]
    BY <1>1, <1>7
  <2>2. EndedAs("finished")' = A
    BY <2>1 DEF EndedAs
  <2>3. EndedAs("failed")' = IF outcome[w] = "none" THEN B \cup {w} ELSE B
    BY <2>1 DEF EndedAs
  <2>4. /\ countFinished' = countFinished
        /\ countFailed' = countFailed + (IF outcome[w] = "none" THEN 1 ELSE 0)
    BY <1>7 DEF CountFailed
  <2>5. \A x \in ShownWorkflows : outcome'[x] # "none" => x \in begun
    BY <1>1, <2>1
  <2> HIDE DEF A, B
  <2>6. countFailed' \in Nat /\ countFailed' = before.failed + Cardinality(EndedAs("failed")')
    <3>1. CASE outcome[w] = "none"
      <4>1. Cardinality(EndedAs("failed")') = Cardinality(B) + 1 /\ countFailed' = countFailed + 1
        BY <3>1, <1>3, <1>4, <2>3, <2>4
      <4> QED
        BY <4>1, <1>1, <1>2
    <3>2. CASE outcome[w] # "none"
      <4>1. EndedAs("failed")' = B /\ countFailed' = countFailed
        BY <3>2, <1>1, <2>3, <2>4
      <4> QED
        BY <4>1, <1>1
    <3> QED
      BY <3>1, <3>2
  <2> QED
    BY <1>1, <2>1, <2>2, <2>4, <2>5, <2>6
<1> QED
  BY <1>6, <1>7

LEMMA TaskFinishedKeeps ==
  ASSUME TaskIdsAreLow, ListInv, NEW t \in ShownTasks, TaskFinished(t)
  PROVE  ListInv'
<1> DEFINE w == WorkflowFor[t]
<1>1. task[t] = "running" /\ w \in ShownWorkflows /\ w \in begun
  BY DEF TaskFinished, ListInv, RunCounted, ShownWorkflows
<1>2. task \in [ShownTasks -> {"out", "waiting", "running"}]
  BY DEF ListInv, ListTypes
<1>3. /\ rows' = UpdateTask(rows, TaskRow(t, "succeeded"))
      /\ UNCHANGED <<begun, countStarted, judged, shown, before>>
  BY DEF TaskFinished
<1>4. \E next \in {"waiting", "out"} : task' = [task EXCEPT ![t] = next]
  BY DEF TaskFinished
<1>5. /\ task' \in [ShownTasks -> {"out", "waiting", "running"}]
      /\ \A u \in ShownTasks : task'[u] = "running" => u # t /\ task[u] = "running"
  BY <1>2, <1>4
<1>6. \/ CountFinished(w) /\ outcome' = [outcome EXCEPT ![w] = "finished"]
      \/ CountFailed(w) /\ outcome' = [outcome EXCEPT ![w] = IF @ = "none" THEN "failed" ELSE @]
  BY DEF TaskFinished
<1>7. /\ outcome' \in [ShownWorkflows -> {"none", "finished", "failed"}]
      /\ countFinished' \in Nat /\ countFailed' \in Nat
      /\ \A x \in ShownWorkflows : outcome'[x] # "none" => x \in begun
      /\ countFinished' = before.finished + Cardinality(EndedAs("finished")')
      /\ countFailed' = before.failed + Cardinality(EndedAs("failed")')
  <2> HIDE DEF w
  <2> QED
    BY <1>1, <1>6, EndCounted
<1>8. ListTypes'
  BY <1>3, <1>5, <1>7 DEF ListInv, ListTypes
<1>9. RowsShown'
  BY <1>3, <1>5, TaskShown DEF Statuses
<1>10. RunCounted'
  BY <1>3, <1>5, <1>7 DEF ListInv, RunCounted
<1> QED
  BY <1>8, <1>9, <1>10 DEF ListInv

LEMMA TaskFailedKeeps ==
  ASSUME TaskIdsAreLow, ListInv, NEW t \in ShownTasks, TaskFailed(t)
  PROVE  ListInv'
<1> DEFINE again == tries[t] + 1 < MaxAttempts
<1>1. /\ task[t] = "waiting" /\ task' = [task EXCEPT ![t] = IF again THEN @ ELSE "out"]
      /\ rows' = UpdateTask(rows, TaskRow(t, IF again THEN "retry_scheduled" ELSE "failed"))
      /\ UNCHANGED <<outcome, begun, countStarted, countFinished, countFailed, judged, shown, before>>
  BY DEF TaskFailed
<1> HIDE DEF again
<1>2. task \in [ShownTasks -> {"out", "waiting", "running"}]
  BY DEF ListInv, ListTypes
<1>3. /\ task' \in [ShownTasks -> {"out", "waiting", "running"}]
      /\ \A u \in ShownTasks : task'[u] = "running" => u # t /\ task[u] = "running"
  BY <1>1, <1>2
<1>4. ListTypes'
  BY <1>1, <1>3 DEF ListInv, ListTypes
<1>5. RowsShown'
  BY <1>1, <1>3, TaskShown DEF Statuses
<1>6. RunCounted'
  BY <1>1, <1>3, CountsStay
<1> QED
  BY <1>4, <1>5, <1>6 DEF ListInv

LEMMA TaskSkippedKeeps ==
  ASSUME TaskIdsAreLow, ListInv, NEW t \in ShownTasks, TaskSkipped(t)
  PROVE  ListInv'
<1>1. /\ task' = [task EXCEPT ![t] = "out"] /\ rows' = UpdateTask(rows, TaskRow(t, "skipped"))
      /\ UNCHANGED <<outcome, begun, countStarted, countFinished, countFailed, judged, shown, before>>
  BY DEF TaskSkipped
<1>2. task \in [ShownTasks -> {"out", "waiting", "running"}]
  BY DEF ListInv, ListTypes
<1>3. /\ task' \in [ShownTasks -> {"out", "waiting", "running"}]
      /\ \A u \in ShownTasks : task'[u] = "running" => u # t /\ task[u] = "running"
  BY <1>1, <1>2
<1>4. ListTypes'
  BY <1>1, <1>3 DEF ListInv, ListTypes
<1>5. RowsShown'
  BY <1>1, <1>3, TaskShown DEF Statuses
<1>6. RunCounted'
  BY <1>1, <1>3, CountsStay
<1> QED
  BY <1>4, <1>5, <1>6 DEF ListInv

\* While the tasks of an orchestration are fewer than the ids kept for them, the list shows
\* every step that was reported once, with the last result reported of it and the status of
\* the last one up to its last end, and the counters say how the run went
\* (StudioBackend.cpp:1274-1447, 1476-1527).
THEOREM ListIsTruthful == TaskIdsAreLow => (TaskListSpec => []ListTruthful)
<1> SUFFICES ASSUME TaskIdsAreLow PROVE TaskListSpec => []ListTruthful
  OBVIOUS
<1>1. TaskListInit => ListInv
  BY ListStarts
<1>2. ListInv /\ [TaskListNext]_taskListVars => ListInv'
  <2> SUFFICES ASSUME ListInv, [TaskListNext]_taskListVars PROVE ListInv'
    OBVIOUS
  <2>1. CASE RunSelected
    BY <2>1, StartKeeps DEF RunSelected
  <2>2. CASE RetryFailed
    BY <2>2, StartKeeps DEF RetryFailed
  <2>3. ASSUME NEW t \in ShownTasks,
               \/ TaskStarted(t) \/ TaskFinished(t) \/ TaskFailed(t) \/ TaskSkipped(t)
        PROVE  ListInv'
    BY <2>3, TaskStartedKeeps, TaskFinishedKeeps, TaskFailedKeeps, TaskSkippedKeeps
  <2>4. ASSUME NEW t \in ShownTasks, AnalyzerFinished(t) \/ \E s \in StepsOf(WorkflowFor[t]) : ActivityFinished(t, s)
        PROVE  ListInv'
    BY <2>4, ActivityFinishedKeeps, AnalyzerFinishedKeeps
  <2>5. CASE UNCHANGED taskListVars
    <3>1. UNCHANGED <<rows, outcome, begun, countStarted, countFinished, countFailed, task, judged, shown, before>>
      BY <2>5 DEF taskListVars, shownVars, reportVars
    <3>2. RowsShown'
      BY <3>1 DEF ListInv, RowsShown
    <3>3. ListTypes'
      BY <3>1 DEF ListInv, ListTypes
    <3>4. RunCounted'
      BY <3>1, CountsStay
    <3> QED
      BY <3>2, <3>3, <3>4 DEF ListInv
  <2> QED
    BY <2>1, <2>2, <2>3, <2>4, <2>5 DEF TaskListNext
<1>3. ListInv => ListTruthful
  BY ListIsSound
<1> QED
  BY <1>1, <1>2, <1>3, PTL DEF TaskListSpec

-------------------------------------------------------------------------------
(***************************************************************************)
(* WorkflowSheet.  What is read out of a table, whichever it is.           *)
(***************************************************************************)
IsTable(lines) == lines \in Seq(ToSet(lines))

EveryStep(lines) == [i \in DOMAIN lines |-> StepOf(lines, i)]

ReadSteps(lines) == Picked(EveryStep(lines), {i \in DOMAIN lines : IsStep(lines[i])})

LEMMA TableFacts ==
  ASSUME NEW lines, IsTable(lines)
  PROVE  /\ Len(lines) \in Nat /\ DOMAIN lines = 1..Len(lines)
         /\ EveryStep(lines) \in Seq({StepOf(lines, i) : i \in 1..Len(lines)})
         /\ Len(EveryStep(lines)) = Len(lines)
         /\ \A i \in 1..Len(lines) : EveryStep(lines)[i] = StepOf(lines, i)
<1> DEFINE V == ToSet(lines)
<1>1. lines \in Seq(V)
  BY DEF IsTable
<1> HIDE DEF V
<1>2. Len(lines) \in Nat /\ DOMAIN lines = 1..Len(lines)
  BY <1>1
<1> DEFINE all == [i \in 1..Len(lines) |-> StepOf(lines, i)]
           W == {StepOf(lines, i) : i \in 1..Len(lines)}
<1>3. EveryStep(lines) = all
  BY <1>2 DEF EveryStep
<1>4. \A i \in 1..Len(lines) : StepOf(lines, i) \in W
  OBVIOUS
<1> HIDE DEF W
<1>5. all \in Seq(W) /\ Len(all) = Len(lines) /\ \A i \in 1..Len(lines) : all[i] = StepOf(lines, i)
  BY <1>2, <1>4
<1> QED
  BY <1>2, <1>3, <1>5 DEF W

LEMMA StepsRead ==
  ASSUME NEW lines, IsTable(lines)
  PROVE  /\ Parsed(lines) = IF ReadSteps(lines) = <<>> THEN Blank
                           ELSE [entry |-> ReadSteps(lines)[1].id, steps |-> ReadSteps(lines)]
         /\ DOMAIN ReadSteps(lines) = 1..Len(ReadSteps(lines)) /\ Len(ReadSteps(lines)) \in Nat
         /\ ToSet(ReadSteps(lines)) = {StepOf(lines, i) : i \in {i \in 1..Len(lines) : IsStep(lines[i])}}
<1> DEFINE V == {StepOf(lines, i) : i \in 1..Len(lines)}
           all == EveryStep(lines)
           S == {i \in DOMAIN lines : IsStep(lines[i])}
<1>1. all \in Seq(V) /\ Len(all) = Len(lines) /\ Len(lines) \in Nat /\ DOMAIN lines = 1..Len(lines)
      /\ \A i \in 1..Len(lines) : all[i] = StepOf(lines, i)
  BY TableFacts
<1>2. S = {i \in 1..Len(lines) : IsStep(lines[i])}
  BY <1>1
<1> HIDE DEF V, all, S
<1>3. Picked(all, S) \in Seq(V)
  BY <1>1, PickedFacts
<1>4. ToSet(Picked(all, S)) = {all[k] : k \in S \cap (1..Len(all))}
  BY <1>1, PickedElements
<1>5. {all[k] : k \in S \cap (1..Len(all))} = {StepOf(lines, i) : i \in {i \in 1..Len(lines) : IsStep(lines[i])}}
  BY <1>1, <1>2
<1>6. ReadSteps(lines) = Picked(all, S)
  BY DEF ReadSteps, all, S
<1>7. Parsed(lines) = IF ReadSteps(lines) = <<>> THEN Blank
                     ELSE [entry |-> ReadSteps(lines)[1].id, steps |-> ReadSteps(lines)]
  BY DEF Parsed, ReadSteps, EveryStep
<1>8. DOMAIN ReadSteps(lines) = 1..Len(ReadSteps(lines)) /\ Len(ReadSteps(lines)) \in Nat
  BY <1>3, <1>6
<1> QED
  BY <1>4, <1>5, <1>6, <1>7, <1>8

\* If every row is a step, there is one step for each row.
LEMMA EveryRowRead ==
  ASSUME NEW lines, IsTable(lines), \A i \in 1..Len(lines) : IsStep(lines[i])
  PROVE  /\ Len(ReadSteps(lines)) = Len(lines) /\ DOMAIN ReadSteps(lines) = 1..Len(lines)
         /\ \A i \in 1..Len(lines) : ReadSteps(lines)[i] = StepOf(lines, i)
<1> DEFINE V == {StepOf(lines, i) : i \in 1..Len(lines)}
           all == EveryStep(lines)
           S == {i \in DOMAIN lines : IsStep(lines[i])}
<1>1. all \in Seq(V) /\ Len(all) = Len(lines) /\ Len(lines) \in Nat /\ DOMAIN lines = 1..Len(lines)
      /\ \A i \in 1..Len(lines) : all[i] = StepOf(lines, i)
  BY TableFacts
<1>2. 1..Len(all) \subseteq S
  BY <1>1
<1>3. ReadSteps(lines) = Picked(all, S)
  BY DEF ReadSteps
<1> HIDE DEF V, all, S
<1>4. Picked(all, S) = all
  BY <1>1, <1>2, PickedAll
<1> QED
  BY <1>1, <1>3, <1>4

LEMMA WrittenIsTable ==
  ASSUME NEW steps, IsTable(steps)
  PROVE  /\ IsTable(Written(steps)) /\ Len(Written(steps)) = Len(steps)
         /\ \A i \in 1..Len(steps) : /\ Written(steps)[i] = WrittenRow(steps[i])
                                     /\ IsStep(Written(steps)[i])
<1>1. Len(steps) \in Nat /\ DOMAIN steps = 1..Len(steps)
  BY TableFacts
<1> DEFINE lines == [i \in 1..Len(steps) |-> WrittenRow(steps[i])]
           V == ToSet(lines)
<1>2. Written(steps) = lines
  BY <1>1 DEF Written
<1>3. \A i \in 1..Len(steps) : lines[i] \in V
  BY DEF ToSet
<1> HIDE DEF V
<1>4. lines \in Seq(V) /\ Len(lines) = Len(steps) /\ \A i \in 1..Len(steps) : lines[i] = WrittenRow(steps[i])
  BY <1>1, <1>3
<1> HIDE DEF lines
<1>5. \A i \in 1..Len(steps) : IsStep(lines[i])
  <2> SUFFICES ASSUME NEW i \in 1..Len(steps) PROVE IsStep(lines[i])
    OBVIOUS
  <2>1. lines[i].type = "written" /\ lines[i].action = "execute"
    <3>1. lines[i] = WrittenRow(steps[i])
      BY <1>4
    <3>2. WrittenRow(steps[i]).type = "written" /\ WrittenRow(steps[i]).action = "execute"
      BY DEF WrittenRow
    <3> QED
      BY <3>1, <3>2
  <2>2. "written" # "execute"
    OBVIOUS
  <2> QED
    BY <2>1, <2>2 DEF IsStep
<1> QED
  BY <1>2, <1>4, <1>5 DEF IsTable, V

-------------------------------------------------------------------------------
\* The parts of the property that are about tables.

SheetInv ==
  /\ text \in Seq(Characters) /\ Len(text) <= MaxText
  /\ IsTable(table)
  /\ table = <<>> \/ table \in Tables \cup {Written(definition) : definition \in Definitions}
  /\ origin # Blank => origin \in Definitions /\ table = Written(origin)
  /\ read = Blank \/ read = Parsed(table)

LEMMA ReadIsSteps ==
  ASSUME SheetInv, read # Blank
  PROVE  /\ read = [entry |-> ReadSteps(table)[1].id, steps |-> ReadSteps(table)]
         /\ read.steps = ReadSteps(table) /\ read.entry = ReadSteps(table)[1].id
         /\ ReadSteps(table) # <<>>
<1>1. IsTable(table) /\ read = Parsed(table)
  BY DEF SheetInv
<1>2. ReadSteps(table) # <<>>
  BY <1>1, StepsRead
<1>3. read = [entry |-> ReadSteps(table)[1].id, steps |-> ReadSteps(table)]
  BY <1>1, <1>2, StepsRead
<1> QED
  BY <1>2, <1>3

LEMMA SheetIsTyped == ASSUME SheetInv PROVE SheetTypeOK
<1>1. text \in BoundedSeq(Characters, MaxText)
  <2>1. text \in [1..Len(text) -> Characters] /\ Len(text) \in 0..MaxText
    BY SheetAssumption DEF SheetInv
  <2> QED
    BY <2>1 DEF BoundedSeq, SeqOf
<1>2. read # Blank => read.steps # <<>> /\ read.entry = read.steps[1].id
  BY ReadIsSteps
<1> QED
  BY <1>1, <1>2 DEF SheetTypeOK

LEMMA RowsAreInOrder == ASSUME SheetInv PROVE RowsInOrder
<1> DEFINE steps == ReadSteps(table)
           N == Len(table)
<1> SUFFICES ASSUME read # Blank, Numbered(table), NumbersDiffer(table)
             PROVE  /\ Len(read.steps) = N
                    /\ \A i \in DOMAIN read.steps :
                         {j \in DOMAIN read.steps : read.steps[j].id = read.steps[i].next}
                           = IF i < N THEN {i + 1} ELSE {}
                    /\ read.steps[N].next = Blank
  BY DEF RowsInOrder
<1>1. IsTable(table) /\ read.steps = steps /\ steps # <<>>
  BY ReadIsSteps DEF SheetInv
<1>2. N \in Nat /\ DOMAIN table = 1..N
  BY <1>1, TableFacts
<1>3. \A i \in 1..N : IsStep(table[i]) /\ table[i].number # Blank
  BY <1>2 DEF Numbered
<1>4. Len(steps) = N /\ DOMAIN steps = 1..N /\ \A i \in 1..N : steps[i] = StepOf(table, i)
  BY <1>1, <1>3, EveryRowRead
<1> HIDE DEF steps
<1>5. \A i \in 1..N : steps[i].id = StepId(table, i) /\ steps[i].next = NextStep(table, i)
  BY <1>4 DEF StepOf
<1>6. \A i \in 1..N : StepId(table, i) = [group |-> "step", number |-> table[i].number]
  BY <1>3 DEF StepId
<1>7. N # 0
  <2>1. CASE N = 0
    <3>1. IsTable(steps) \/ steps \in Seq({})
      BY <1>1, <1>4, <2>1, StepsRead DEF steps
    <3> QED
      BY <3>1, <1>1, <1>4, <2>1 DEF IsTable
  <2> QED
    BY <2>1
<1>8. ASSUME NEW i \in 1..N, i < N
      PROVE  {j \in 1..N : steps[j].id = steps[i].next} = {i + 1}
  <2>1. i + 1 \in 1..N
    BY <1>2, <1>8
  <2>2. steps[i].next = [group |-> "step", number |-> table[i + 1].number]
    BY <1>3, <1>5, <1>8, <2>1 DEF NextStep
  <2>3. ASSUME NEW j \in 1..N PROVE steps[j].id = steps[i].next <=> j = i + 1
    <3>1. steps[j].id = [group |-> "step", number |-> table[j].number]
      BY <1>5, <1>6
    <3>2. steps[j].id = steps[i].next <=> table[j].number = table[i + 1].number
      BY <3>1, <2>2
    <3>3. table[j].number = table[i + 1].number <=> j = i + 1
      BY <1>2, <2>1 DEF NumbersDiffer
    <3> QED
      BY <3>2, <3>3
  <2> QED
    BY <2>1, <2>3
<1>9. steps[N].next = Blank
  <2> HIDE DEF N
  <2>1. N \in 1..N /\ ~(N < N)
    BY <1>2, <1>7
  <2>2. steps[N].next = NextStep(table, N)
    BY <2>1, <1>5
  <2> QED
    BY <2>1, <2>2 DEF NextStep, N
<1>10. \A j \in 1..N : steps[j].id # Blank
  <2>1. table # <<>>
    BY <1>2, <1>7
  <2>2. \A i \in DOMAIN table : StepId(table, i) # Blank
    BY <2>1, BlankAssumption DEF SheetInv
  <2> QED
    BY <2>2, <1>2, <1>5
<1>11. ASSUME NEW i \in 1..N, ~(i < N)
       PROVE  {j \in 1..N : steps[j].id = steps[i].next} = {}
  <2>1. i = N
    <3> HIDE DEF N
    <3> QED
      BY <1>2, <1>11
  <2> QED
    BY <2>1, <1>9, <1>10
<1> QED
  BY <1>1, <1>4, <1>8, <1>9, <1>11

LEMMA TransitionsAreUnique == ASSUME SheetInv PROVE TransitionsUnique
<1> DEFINE steps == ReadSteps(table)
           N == Len(table)
<1> SUFFICES ASSUME read # Blank,
                    \A i, j \in DOMAIN read.steps : read.steps[i].id = read.steps[j].id => i = j,
                    NEW s \in Range(read.steps), s.next # Blank
             PROVE  \/ Cardinality({j \in DOMAIN read.steps : read.steps[j].id = s.next}) = 1
                    \/ \E i \in DOMAIN table : table[i].number = s.next.number /\ ~IsStep(table[i])
  BY DEF TransitionsUnique
<1>1. IsTable(table) /\ read.steps = steps
  BY ReadIsSteps DEF SheetInv
<1>2. N \in Nat /\ DOMAIN table = 1..N
  BY <1>1, TableFacts
<1>3. ToSet(steps) = {StepOf(table, i) : i \in {i \in 1..N : IsStep(table[i])}}
  BY <1>1, StepsRead
<1> HIDE DEF steps
<1>4. PICK p \in 1..N : s = StepOf(table, p)
  BY <1>1, <1>3 DEF Range, ToSet
<1>5. s.next = NextStep(table, p)
  BY <1>4 DEF StepOf
<1>6. p < N /\ table[p + 1].number # Blank
      /\ s.next = [group |-> "step", number |-> table[p + 1].number]
  BY <1>5 DEF NextStep
<1>7. p + 1 \in 1..N
  BY <1>2, <1>6
<1>8. CASE ~IsStep(table[p + 1])
  <2>1. s.next.number = table[p + 1].number
    BY <1>6
  <2> QED
    BY <2>1, <1>2, <1>7, <1>8
<1>9. CASE IsStep(table[p + 1])
  <2>1. StepOf(table, p + 1) \in ToSet(steps)
    BY <1>3, <1>7, <1>9
  <2>2. PICK j \in DOMAIN steps : steps[j] = StepOf(table, p + 1)
    BY <2>1 DEF ToSet
  <2>3. steps[j].id = s.next
    BY <2>2, <1>6 DEF StepOf, StepId
  <2>4. {k \in DOMAIN steps : steps[k].id = s.next} = {j}
    BY <2>2, <2>3, <1>1
  <2>5. Cardinality({j}) = 1
    BY FS_Singleton
  <2> QED
    BY <2>4, <2>5, <1>1
<1> QED
  BY <1>8, <1>9

LEMMA TablesRoundTrip == ASSUME SheetInv PROVE TableRoundTrip
<1> SUFFICES ASSUME read # Blank, origin # Blank
             PROVE  /\ Len(read.steps) = Len(origin)
                    /\ \A i \in DOMAIN origin :
                         /\ read.steps[i].plugin = origin[i].plugin
                         /\ read.steps[i].policy = origin[i].policy
                         /\ read.steps[i].id = [group |-> "step", number |-> origin[i].id.number]
  BY DEF TableRoundTrip
<1>1. /\ IsTable(table) /\ origin \in Definitions /\ table = Written(origin)
      /\ read.steps = ReadSteps(table)
  BY ReadIsSteps DEF SheetInv
<1>2. IsTable(origin)
      /\ \A i \in DOMAIN origin :
            /\ Blank \notin {origin[i].plugin, origin[i].id.number}
            /\ origin[i].policy \in {"fail_fast", "continue_on_error"}
  BY <1>1, TablesAssumption DEF IsTable
<1>3. Len(origin) \in Nat /\ DOMAIN origin = 1..Len(origin)
  BY <1>2, TableFacts
<1>4. Len(table) = Len(origin) /\ \A i \in 1..Len(origin) : table[i] = WrittenRow(origin[i]) /\ IsStep(table[i])
  BY <1>1, <1>2, WrittenIsTable
<1>5. Len(ReadSteps(table)) = Len(table) /\ \A i \in 1..Len(table) : ReadSteps(table)[i] = StepOf(table, i)
  BY <1>1, <1>4, EveryRowRead
<1>6. ASSUME NEW i \in DOMAIN origin
      PROVE  /\ StepOf(table, i).plugin = origin[i].plugin
             /\ StepOf(table, i).policy = origin[i].policy
             /\ StepOf(table, i).id = [group |-> "step", number |-> origin[i].id.number]
  <2>1. table[i] = WrittenRow(origin[i])
    BY <1>3, <1>4
  <2>2. /\ table[i].number = origin[i].id.number /\ table[i].plugin = origin[i].plugin
        /\ table[i].policy = IF origin[i].policy = "continue_on_error" THEN "continue" ELSE "stop"
    BY <2>1 DEF WrittenRow
  <2>3. PluginOf(table[i]) = origin[i].plugin
    BY <2>2, <1>2 DEF PluginOf
  <2>4. PolicyOf(table[i]) = origin[i].policy
    BY <2>2, <1>2 DEF PolicyOf
  <2>5. StepId(table, i) = [group |-> "step", number |-> origin[i].id.number]
    BY <2>2, <1>2 DEF StepId
  <2> QED
    BY <2>3, <2>4, <2>5 DEF StepOf
<1> QED
  BY <1>1, <1>3, <1>4, <1>5, <1>6

LEMMA PortsAreKept == ASSUME SheetInv PROVE PortsKept
<1> SUFFICES ASSUME read # Blank, \A i \in DOMAIN table : IsStep(table[i]),
                    NEW i \in DOMAIN table, table[i].ownPort
             PROVE  read.steps[i].connection.port \in {"own", TcpPort(table[i].device)}
  BY DEF PortsKept
<1>1. IsTable(table) /\ read.steps = ReadSteps(table)
  BY ReadIsSteps DEF SheetInv
<1>2. DOMAIN table = 1..Len(table)
  BY <1>1, TableFacts
<1>3. ReadSteps(table)[i] = StepOf(table, i)
  BY <1>1, <1>2, EveryRowRead
<1>4. StepOf(table, i).connection.port = Connection(table[i]).port
  BY DEF StepOf
<1>5. Connection(table[i]).port \in {"own", TcpPort(table[i].device)}
  BY DEF Connection
<1> QED
  BY <1>1, <1>3, <1>4, <1>5

-------------------------------------------------------------------------------
\* Counting along a text, and where its last cut is.

CountIn(S, a, n) == Cardinality({j \in a..n : j \in S})

LEMMA CountStep ==
  ASSUME NEW a \in Nat, NEW n \in Nat, a <= n + 1, NEW S
  PROVE  /\ CountIn(S, a, n) \in Nat
         /\ n + 1 \in S => CountIn(S, a, n + 1) = CountIn(S, a, n) + 1
         /\ n + 1 \notin S => CountIn(S, a, n + 1) = CountIn(S, a, n)
<1> DEFINE here == {j \in a..n : j \in S}
           next == {j \in a..n + 1 : j \in S}
<1>1. IsFiniteSet(here)
  <2>1. IsFiniteSet(a..n)
    BY FS_Interval
  <2> QED
    BY <2>1, FS_Subset
<1>2. Cardinality(here) \in Nat
  BY <1>1, FS_CardinalityType
<1>3. \A j \in a..n + 1 : j = n + 1 \/ j \in a..n
  OBVIOUS
<1>4. n + 1 \in a..n + 1 /\ n + 1 \notin a..n /\ \A j \in a..n : j \in a..n + 1
  OBVIOUS
<1>5. CASE n + 1 \in S
  <2>1. next = here \cup {n + 1}
    BY <1>3, <1>4, <1>5
  <2>2. n + 1 \notin here
    BY <1>4
  <2> HIDE DEF here, next
  <2>3. Cardinality(here \cup {n + 1}) = Cardinality(here) + 1
    BY <1>1, <2>2, FS_AddElement
  <2> QED
    BY <2>1, <2>3, <1>2, <1>5 DEF CountIn, here, next
<1>6. CASE n + 1 \notin S
  <2>1. next = here
    BY <1>3, <1>4, <1>6
  <2> QED
    BY <2>1, <1>2, <1>6 DEF CountIn
<1> QED
  BY <1>5, <1>6

LEMMA QuotesStep ==
  ASSUME NEW t, NEW n \in Nat
  PROVE  /\ Quotes(t, n) \in Nat /\ Quotes(t, 0) = 0
         /\ t[n + 1] = "quote" => Quotes(t, n + 1) = Quotes(t, n) + 1
         /\ t[n + 1] # "quote" => Quotes(t, n + 1) = Quotes(t, n)
<1> DEFINE S == {j \in Nat : t[j] = "quote"}
<1>1. {j \in 1..n : t[j] = "quote"} = {j \in 1..n : j \in S}
  OBVIOUS
<1>2. {j \in 1..n + 1 : t[j] = "quote"} = {j \in 1..n + 1 : j \in S}
  OBVIOUS
<1>3. n + 1 \in S <=> t[n + 1] = "quote"
  OBVIOUS
<1> HIDE DEF S
<1>4. Quotes(t, n) = CountIn(S, 1, n) /\ Quotes(t, n + 1) = CountIn(S, 1, n + 1)
  BY <1>1, <1>2 DEF Quotes, CountIn
<1>6. 1 \in Nat /\ 1 <= n + 1
  OBVIOUS
<1>7. /\ CountIn(S, 1, n) \in Nat
      /\ n + 1 \in S => CountIn(S, 1, n + 1) = CountIn(S, 1, n) + 1
      /\ n + 1 \notin S => CountIn(S, 1, n + 1) = CountIn(S, 1, n)
  BY <1>6, CountStep
<1>5. Quotes(t, 0) = 0
  <2>1. {j \in 1..0 : t[j] = "quote"} = {}
    OBVIOUS
  <2> QED
    BY <2>1, FS_EmptySet DEF Quotes
<1> QED
  BY <1>3, <1>4, <1>5, <1>7

LEMMA DepthStep ==
  ASSUME NEW t, NEW n \in Nat, NEW a \in 1..n + 1
  PROVE  /\ Depth(t, a, n) \in Int /\ Depth(t, n + 1, n) = 0
         /\ Bare(t, n + 1) /\ t[n + 1] = "open" => Depth(t, a, n + 1) = Depth(t, a, n) + 1
         /\ Bare(t, n + 1) /\ t[n + 1] = "close" => Depth(t, a, n + 1) = Depth(t, a, n) - 1
         /\ ~Bare(t, n + 1) \/ t[n + 1] \notin {"open", "close"} =>
              Depth(t, a, n + 1) = Depth(t, a, n)
<1> DEFINE O == {j \in Nat : Bare(t, j) /\ t[j] = "open"}
           C == {j \in Nat : Bare(t, j) /\ t[j] = "close"}
<1>1. a \in Nat /\ a <= n + 1 /\ \A j \in a..n + 1 : j \in Nat
  OBVIOUS
<1>2. {j \in a..n : Bare(t, j) /\ t[j] = "open"} = {j \in a..n : j \in O}
      /\ {j \in a..n : Bare(t, j) /\ t[j] = "close"} = {j \in a..n : j \in C}
      /\ {j \in a..n + 1 : Bare(t, j) /\ t[j] = "open"} = {j \in a..n + 1 : j \in O}
      /\ {j \in a..n + 1 : Bare(t, j) /\ t[j] = "close"} = {j \in a..n + 1 : j \in C}
  BY <1>1
<1>3. Depth(t, a, n) = CountIn(O, a, n) - CountIn(C, a, n) /\ Depth(t, a, n + 1) = CountIn(O, a, n + 1) - CountIn(C, a, n + 1)
  BY <1>2 DEF Depth, CountIn
<1>4. (n + 1 \in O <=> Bare(t, n + 1) /\ t[n + 1] = "open")
      /\ (n + 1 \in C <=> Bare(t, n + 1) /\ t[n + 1] = "close")
  OBVIOUS
<1> HIDE DEF O, C
<1>5. /\ CountIn(O, a, n) \in Nat
      /\ n + 1 \in O => CountIn(O, a, n + 1) = CountIn(O, a, n) + 1
      /\ n + 1 \notin O => CountIn(O, a, n + 1) = CountIn(O, a, n)
  BY <1>1, CountStep
<1>6. /\ CountIn(C, a, n) \in Nat
      /\ n + 1 \in C => CountIn(C, a, n + 1) = CountIn(C, a, n) + 1
      /\ n + 1 \notin C => CountIn(C, a, n + 1) = CountIn(C, a, n)
  BY <1>1, CountStep
<1>7. Depth(t, n + 1, n) = 0
  <2>1. {j \in n + 1..n : Bare(t, j) /\ t[j] = "open"} = {}
        /\ {j \in n + 1..n : Bare(t, j) /\ t[j] = "close"} = {}
    OBVIOUS
  <2> QED
    BY <2>1, FS_EmptySet DEF Depth
<1>8. Depth(t, a, n) \in Int
  BY <1>3, <1>5, <1>6
<1>9. "open" # "close"
  OBVIOUS
<1>10. CASE n + 1 \in O
  <2>1. n + 1 \notin C
    BY <1>4, <1>9, <1>10
  <2>2. Depth(t, a, n + 1) = Depth(t, a, n) + 1
    BY <2>1, <1>3, <1>5, <1>6, <1>10
  <2> QED
    BY <2>2, <1>4, <1>7, <1>8, <1>9, <1>10
<1>11. CASE n + 1 \in C
  <2>1. n + 1 \notin O
    BY <1>4, <1>9, <1>11
  <2>2. Depth(t, a, n + 1) = Depth(t, a, n) - 1
    BY <2>1, <1>3, <1>5, <1>6, <1>11
  <2> QED
    BY <2>2, <1>4, <1>7, <1>8, <1>9, <1>11
<1>12. CASE n + 1 \notin O /\ n + 1 \notin C
  <2>1. Depth(t, a, n + 1) = Depth(t, a, n)
    BY <1>3, <1>5, <1>6, <1>12
  <2> QED
    BY <2>1, <1>4, <1>7, <1>8, <1>12
<1> QED
  BY <1>10, <1>11, <1>12

\* A piece that ends before the next place begins after the last cut.
LEMMA BeginStep ==
  ASSUME NEW t, NEW n \in Nat, Len(t) \in Nat
  PROVE  /\ Begin(t, n + 1) \in 1..n + 1 /\ Begin(t, 1) = 1
         /\ n + 1 \in Cuts(t) => Begin(t, n + 2) = n + 2
         /\ n + 1 \notin Cuts(t) => Begin(t, n + 2) = Begin(t, n + 1)
<1> DEFINE Before(m) == {0} \cup {j \in Cuts(t) : j < m}
<1>1. \A j \in Cuts(t) : j \in Nat /\ j >= 1
  BY DEF Cuts
<1>2. ASSUME NEW m \in Nat
      PROVE  /\ Max(Before(m + 1)) \in Before(m + 1) /\ Max(Before(m + 1)) \in 0..m
             /\ \A k \in Before(m + 1) : k <= Max(Before(m + 1))
  <2>1. Before(m + 1) \subseteq 0..m /\ Before(m + 1) # {}
    BY <1>1
  <2> HIDE DEF Before
  <2> QED
    BY <2>1, ExtremesExist
<1>3. \A m : Begin(t, m) = 1 + Max(Before(m))
  BY DEF Begin
<1>4. Begin(t, n + 1) \in 1..n + 1
  <2> HIDE DEF Before
  <2>1. Max(Before(n + 1)) \in 0..n
    BY <1>2
  <2>2. Begin(t, n + 1) = 1 + Max(Before(n + 1))
    BY <1>3
  <2> QED
    BY <2>1, <2>2
<1>5. Begin(t, 1) = 1
  <2>1. Max(Before(0 + 1)) \in 0..0
    BY <1>2
  <2> HIDE DEF Before
  <2>2. Max(Before(1)) = 0
    BY <2>1
  <2> QED
    BY <2>2, <1>3
<1>6. CASE n + 1 \in Cuts(t)
  <2>1. n + 1 \in Before(n + 1 + 1)
    BY <1>6
  <2>2. n + 1 \in Nat
    OBVIOUS
  <2>3. Max(Before(n + 1 + 1)) \in 0..n + 1 /\ n + 1 <= Max(Before(n + 1 + 1))
    BY <2>1, <2>2, <1>2
  <2> HIDE DEF Before
  <2>4. n + 1 + 1 = n + 2
    OBVIOUS
  <2>5. Max(Before(n + 2)) = n + 1
    BY <2>3, <2>4
  <2> QED
    BY <2>5, <1>3, <1>4, <1>5, <1>6
<1>7. CASE n + 1 \notin Cuts(t)
  <2>1. \A j \in Cuts(t) : j < n + 2 <=> j < n + 1
    BY <1>1, <1>7
  <2>2. Before(n + 2) = Before(n + 1)
    BY <2>1
  <2> HIDE DEF Before
  <2> QED
    BY <2>2, <1>3, <1>4, <1>5, <1>7
<1> QED
  BY <1>6, <1>7

-------------------------------------------------------------------------------
(***************************************************************************)
(* The scan of a text: what it has at each place, in terms of the text.    *)
(***************************************************************************)
ScanStates(T) == [quote : BOOLEAN, nesting : Nat, current : Seq(T), pairs : Seq(Seq(T))]

ScanStart == [quote |-> FALSE, nesting |-> 0, current |-> <<>>, pairs |-> <<>>]

\* A character counts for brackets and commas if it is not in quotes and is none.
Counts(st, ch) == ~st.quote /\ ch # "quote"
Cutting(st, ch) == ch = "comma" /\ ~st.quote /\ st.nesting = 0

LEMMA ScanQuotes ==
  ASSUME NEW T, NEW st \in ScanStates(T), NEW ch \in T
  PROVE  /\ Scan(st, ch).quote \in BOOLEAN
         /\ ch = "quote" => Scan(st, ch).quote = ~st.quote
         /\ ch # "quote" => Scan(st, ch).quote = st.quote
<1>1. st.quote \in BOOLEAN
  BY DEF ScanStates
<1>2. Scan(st, ch).quote = IF ch = "quote" THEN ~st.quote ELSE st.quote
  BY DEF Scan
<1>3. CASE ch = "quote"
  <2>1. Scan(st, ch).quote = ~st.quote
    BY <1>2, <1>3, Zenon
  <2>2. (~st.quote) \in BOOLEAN
    BY <1>1
  <2> QED
    BY <1>3, <2>1, <2>2, Zenon
<1>4. CASE ch # "quote"
  BY <1>1, <1>2, <1>4, Zenon
<1> QED
  BY <1>3, <1>4, Zenon

LEMMA ScanNesting ==
  ASSUME NEW T, NEW st \in ScanStates(T), NEW ch \in T
  PROVE  /\ Scan(st, ch).nesting \in Nat
         /\ Counts(st, ch) /\ ch = "open" => Scan(st, ch).nesting = st.nesting + 1
         /\ Counts(st, ch) /\ ch = "close" =>
              Scan(st, ch).nesting = IF st.nesting > 0 THEN st.nesting - 1 ELSE 0
         /\ ~Counts(st, ch) \/ ch \notin {"open", "close"} => Scan(st, ch).nesting = st.nesting
<1> DEFINE m == IF ch = "open" THEN st.nesting + 1
                ELSE IF ch = "close" /\ st.nesting > 0 THEN st.nesting - 1
                ELSE st.nesting
<1>1. st.nesting \in Nat /\ st.quote \in BOOLEAN
  BY DEF ScanStates
<1>2. Scan(st, ch).nesting = IF st.quote \/ (IF ch = "quote" THEN ~st.quote ELSE st.quote)
                             THEN st.nesting ELSE m
  BY DEF Scan
<1> HIDE DEF m
<1>3. (st.quote \/ (IF ch = "quote" THEN ~st.quote ELSE st.quote)) <=> ~Counts(st, ch)
  <2>1. CASE ch = "quote"
    BY <2>1, Zenon DEF Counts
  <2>2. CASE ch # "quote"
    BY <2>2, Zenon DEF Counts
  <2> QED
    BY <2>1, <2>2, Zenon
<1>4. Counts(st, ch) => Scan(st, ch).nesting = m
  BY <1>2, <1>3, Zenon
<1>5. ~Counts(st, ch) => Scan(st, ch).nesting = st.nesting
  BY <1>2, <1>3, Zenon
<1>6. "open" # "close"
  OBVIOUS
<1>7. /\ m \in Nat
      /\ ch = "open" => m = st.nesting + 1
      /\ ch = "close" => m = IF st.nesting > 0 THEN st.nesting - 1 ELSE 0
      /\ ch \notin {"open", "close"} => m = st.nesting
  BY <1>1, <1>6 DEF m
<1>8. CASE Counts(st, ch)
  BY <1>4, <1>7, <1>8
<1>9. CASE ~Counts(st, ch)
  BY <1>1, <1>5, <1>9
<1> QED
  BY <1>8, <1>9

LEMMA ScanPairs ==
  ASSUME NEW T, NEW st \in ScanStates(T), NEW ch \in T
  PROVE  /\ Cutting(st, ch) =>
              /\ Scan(st, ch).current = <<>>
              /\ Scan(st, ch).pairs = IF st.current = <<>> THEN st.pairs
                                      ELSE Append(st.pairs, st.current)
         /\ ~Cutting(st, ch) =>
              /\ Scan(st, ch).current = Append(st.current, ch)
              /\ Scan(st, ch).pairs = st.pairs
<1> DEFINE quote == IF ch = "quote" THEN ~st.quote ELSE st.quote
           nesting == IF st.quote \/ quote THEN st.nesting
                      ELSE IF ch = "open" THEN st.nesting + 1
                      ELSE IF ch = "close" /\ st.nesting > 0 THEN st.nesting - 1
                      ELSE st.nesting
           cut == ch = "comma" /\ ~quote /\ nesting = 0
<1>1. /\ Scan(st, ch).current = IF cut THEN <<>> ELSE Append(st.current, ch)
      /\ Scan(st, ch).pairs = IF cut THEN IF st.current = <<>> THEN st.pairs
                                          ELSE Append(st.pairs, st.current)
                              ELSE st.pairs
  BY DEF Scan
<1>2. cut <=> Cutting(st, ch)
  <2>1. CASE ch # "comma"
    BY <2>1, Zenon DEF Cutting
  <2>2. CASE ch = "comma"
    <3>1. "comma" # "quote" /\ "comma" # "open" /\ "comma" # "close"
      OBVIOUS
    <3>2. quote <=> st.quote
      BY <2>2, <3>1, Zenon
    <3>3. nesting = st.nesting
      BY <2>2, <3>1, Zenon
    <3> QED
      BY <2>2, <3>2, <3>3, Zenon DEF Cutting
  <2> QED
    BY <2>1, <2>2, Zenon
<1> HIDE DEF cut
<1>3. CASE Cutting(st, ch)
  BY <1>1, <1>2, <1>3, Zenon
<1>4. CASE ~Cutting(st, ch)
  BY <1>1, <1>2, <1>4, Zenon
<1> QED
  BY <1>3, <1>4, Zenon

LEMMA ScanTyped ==
  ASSUME NEW T, NEW st \in ScanStates(T), NEW ch \in T
  PROVE  Scan(st, ch) \in ScanStates(T)
<1> DEFINE next == Scan(st, ch)
<1>1. st.current \in Seq(T) /\ st.pairs \in Seq(Seq(T))
  BY DEF ScanStates
<1>2. next.quote \in BOOLEAN
  BY ScanQuotes
<1>3. next.nesting \in Nat
  BY ScanNesting
<1>4. <<>> \in Seq(T) /\ Append(st.current, ch) \in Seq(T)
  BY <1>1
<1>5. Append(st.pairs, st.current) \in Seq(Seq(T))
  BY <1>1
<1>6. next.current \in Seq(T) /\ next.pairs \in Seq(Seq(T))
  <2>1. CASE Cutting(st, ch)
    <3>1. next.current = <<>>
          /\ next.pairs = IF st.current = <<>> THEN st.pairs ELSE Append(st.pairs, st.current)
      BY <2>1, ScanPairs
    <3> HIDE DEF next
    <3> QED
      BY <3>1, <1>1, <1>4, <1>5, Zenon
  <2>2. CASE ~Cutting(st, ch)
    <3>1. next.current = Append(st.current, ch) /\ next.pairs = st.pairs
      BY <2>2, ScanPairs
    <3> HIDE DEF next
    <3> QED
      BY <3>1, <1>1, <1>4, Zenon
  <2> QED
    BY <2>1, <2>2
<1>7. next = [quote |-> next.quote, nesting |-> next.nesting, current |-> next.current, pairs |-> next.pairs]
  BY DEF Scan
<1>8. ASSUME NEW q \in BOOLEAN, NEW m \in Nat, NEW c \in Seq(T), NEW p \in Seq(Seq(T))
      PROVE  [quote |-> q, nesting |-> m, current |-> c, pairs |-> p] \in ScanStates(T)
  BY DEF ScanStates
<1> HIDE DEF next
<1>9. [quote |-> next.quote, nesting |-> next.nesting, current |-> next.current, pairs |-> next.pairs]
        \in ScanStates(T)
  BY <1>2, <1>3, <1>6, <1>8, Zenon
<1> QED
  BY <1>7, <1>9, Zenon DEF next

\* The states of a scan.
Scans(f, t) ==
  f = [n \in 0..Len(t) |-> IF n = 0 THEN ScanStart ELSE Scan(f[n - 1], t[n])]

LEMMA ScanHasStates ==
  ASSUME NEW T, NEW t \in Seq(T)
  PROVE  \E f \in [0..Len(t) -> ScanStates(T)] : Scans(f, t)
<1> DEFINE N == Len(t)
           V == ScanStates(T)
           F == [e \in (1..N) \X V |-> Scan(e[2], t[e[1]])]
<1>0. N \in Nat /\ \A n \in 1..N : t[n] \in T
  OBVIOUS
<1>1. F \in [(1..N) \X V -> V]
  <2>1. ASSUME NEW e \in (1..N) \X V PROVE Scan(e[2], t[e[1]]) \in V
    <3>1. e[1] \in 1..N /\ e[2] \in V
      OBVIOUS
    <3>2. t[e[1]] \in T
      BY <3>1, <1>0
    <3> QED
      BY <3>1, <3>2, ScanTyped
  <2> QED
    BY <2>1
<1>2. ScanStart \in V
  BY DEF ScanStart, ScanStates
<1>3. PICK f : ValuesOf(f, V, ScanStart, N, F)
  <2> HIDE DEF N, F, V
  <2> QED
    BY <1>0, <1>1, <1>2, RecursionHasValues
<1>4. f \in [0..N -> V] /\ f[0] = ScanStart /\ \A n \in 1..N : f[n] = F[<<n, f[n - 1]>>]
  BY <1>3 DEF ValuesOf
<1>5. ASSUME NEW n \in 1..N PROVE f[n] = Scan(f[n - 1], t[n])
  <2>1. f[n - 1] \in V
    BY <1>4
  <2>2. f[n] = F[<<n, f[n - 1]>>]
    BY <1>4
  <2> HIDE DEF V
  <2> QED
    BY <2>1, <2>2
<1> HIDE DEF F, V
<1>6. ASSUME NEW n \in 0..N
      PROVE  f[n] = IF n = 0 THEN ScanStart ELSE Scan(f[n - 1], t[n])
  <2>1. CASE n = 0
    BY <1>4, <2>1
  <2>2. CASE n # 0
    <3>1. n \in 1..N
      BY <2>2
    <3> QED
      BY <3>1, <1>5, <2>2
  <2> QED
    BY <2>1, <2>2
<1>7. f = [n \in 0..N |-> f[n]]
  BY <1>4
<1>8. Scans(f, t)
  BY <1>6, <1>7, Zenon DEF Scans
<1> QED
  BY <1>4, <1>8 DEF V

\* What Segments makes of the states.
LEMMA SegmentsScan ==
  ASSUME NEW T, NEW t \in Seq(T)
  PROVE  \E f : /\ f[0] = ScanStart /\ f[0] \in ScanStates(T)
                /\ \A n \in 1..Len(t) : f[n] = Scan(f[n - 1], t[n])
                /\ Segments(t) = IF f[Len(t)].current = <<>> THEN f[Len(t)].pairs
                                 ELSE Append(f[Len(t)].pairs, f[Len(t)].current)
<1> DEFINE N == Len(t)
           f == CHOOSE g : Scans(g, t)
<1>0. N \in Nat
  OBVIOUS
<1>1. Scans(f, t)
  BY ScanHasStates
<1>2. Segments(t) = IF f[N].current = <<>> THEN f[N].pairs ELSE Append(f[N].pairs, f[N].current)
  BY DEF Segments, Scans, ScanStart
<1> HIDE DEF f
<1>3. \A n \in 0..N : f[n] = IF n = 0 THEN ScanStart ELSE Scan(f[n - 1], t[n])
  BY <1>1 DEF Scans
<1>4. \A n \in 1..N : n \in 0..N /\ n # 0
  OBVIOUS
<1>5. f[0] = ScanStart
  BY <1>0, <1>3
<1>6. ScanStart \in ScanStates(T)
  BY DEF ScanStart, ScanStates
<1> QED
  BY <1>2, <1>3, <1>4, <1>5, <1>6

-------------------------------------------------------------------------------
\* Along a text, the scan has counted its quotes and brackets, keeps what follows the
\* last cut, and has collected the pieces before it.
Closes(t) == {i \in Cuts(t) \cup {Len(t) + 1} : Begin(t, i) < i}

Scanned(t, n, st, collected) ==
  /\ st.quote <=> Quotes(t, n) % 2 = 1
  /\ \A j \in 1..n : Depth(t, j, n) <= st.nesting
  /\ st.nesting = 0 \/ \E j \in 1..n : Depth(t, j, n) = st.nesting
  /\ st.current = SubSeq(t, Begin(t, n + 1), n)
  /\ st.pairs = collected

LEMMA CountsBare ==
  ASSUME NEW T, NEW t \in Seq(T), NEW n \in Nat, n + 1 <= Len(t), NEW st \in ScanStates(T),
         st.quote <=> Quotes(t, n) % 2 = 1
  PROVE  /\ Counts(st, t[n + 1]) <=> Bare(t, n + 1)
         /\ Scan(st, t[n + 1]).quote <=> Quotes(t, n + 1) % 2 = 1
<1> DEFINE ch == t[n + 1]
           q == Quotes(t, n)
           r == Quotes(t, n + 1)
<1>1. ch \in T
  OBVIOUS
<1>2. q \in Nat /\ (ch = "quote" => r = q + 1) /\ (ch # "quote" => r = q)
  BY QuotesStep
<1>3. Bare(t, n + 1) <=> r % 2 = 0 /\ ch # "quote"
  BY DEF Bare
<1>4. /\ ch = "quote" => (Scan(st, ch).quote <=> ~st.quote)
      /\ ch # "quote" => (Scan(st, ch).quote <=> st.quote)
  <2>1. /\ ch = "quote" => Scan(st, ch).quote = ~st.quote
        /\ ch # "quote" => Scan(st, ch).quote = st.quote
    BY <1>1, ScanQuotes
  <2> QED
    BY <2>1, Zenon
<1>5. st.quote <=> q % 2 = 1
  OBVIOUS
<1> HIDE DEF ch, q, r
<1>6. q % 2 \in {0, 1} /\ ((q + 1) % 2 = 1 <=> q % 2 = 0)
  BY <1>2
<1>7. CASE ch = "quote"
  <2>1. r % 2 = 1 <=> ~ (q % 2 = 1)
    BY <1>2, <1>6, <1>7
  <2>2. Scan(st, ch).quote <=> r % 2 = 1
    BY <2>1, <1>4, <1>5, <1>7, Zenon
  <2>3. ~Counts(st, ch) /\ ~Bare(t, n + 1)
    BY <1>3, <1>7 DEF Counts
  <2> QED
    BY <2>2, <2>3, Zenon DEF ch, r
<1>8. CASE ch # "quote"
  <2>1. r = q /\ (r % 2 = 0 <=> ~ (q % 2 = 1))
    BY <1>2, <1>6, <1>8
  <2>2. Scan(st, ch).quote <=> r % 2 = 1
    BY <2>1, <1>4, <1>5, <1>8, Zenon
  <2>3. Counts(st, ch) <=> Bare(t, n + 1)
    BY <2>1, <1>3, <1>5, <1>8, Zenon DEF Counts
  <2> QED
    BY <2>2, <2>3, Zenon DEF ch, r
<1> QED
  BY <1>7, <1>8, Zenon

LEMMA CuttingIsCut ==
  ASSUME NEW T, NEW t \in Seq(T), NEW n \in Nat, n + 1 <= Len(t), NEW st \in ScanStates(T),
         st.quote <=> Quotes(t, n) % 2 = 1,
         \A j \in 1..n : Depth(t, j, n) <= st.nesting,
         st.nesting = 0 \/ \E j \in 1..n : Depth(t, j, n) = st.nesting
  PROVE  Cutting(st, t[n + 1]) <=> n + 1 \in Cuts(t)
<1> DEFINE ch == t[n + 1]
<1>0. st.nesting \in Nat /\ n + 1 \in 1..Len(t) /\ n + 1 \in 1..n + 1
  BY DEF ScanStates
<1>1. Counts(st, ch) <=> Bare(t, n + 1)
  BY CountsBare
<1>2. n + 1 \in Cuts(t) <=> ch = "comma" /\ Bare(t, n + 1) /\ \A j \in 1..n + 1 : Depth(t, j, n + 1) <= 0
  BY <1>0 DEF Cuts
<1>3. Cutting(st, ch) <=> ch = "comma" /\ Counts(st, ch) /\ st.nesting = 0
  <2>1. "comma" # "quote"
    OBVIOUS
  <2> QED
    BY <2>1, Zenon DEF Cutting, Counts
<1>4. ASSUME ch = "comma"
      PROVE  (\A j \in 1..n + 1 : Depth(t, j, n + 1) <= 0) <=> st.nesting = 0
  <2>1. ch \notin {"open", "close"}
    BY <1>4
  <2>2. \A j \in 1..n + 1 : /\ Depth(t, j, n) \in Int /\ Depth(t, n + 1, n) = 0
                            /\ Depth(t, j, n + 1) = Depth(t, j, n)
    BY <2>1, DepthStep
  <2>3. \A j \in 1..n : j \in 1..n + 1
    OBVIOUS
  <2>4. \A j \in 1..n + 1 : j = n + 1 \/ j \in 1..n
    OBVIOUS
  <2>5. CASE st.nesting = 0
    BY <2>2, <2>4, <2>5
  <2>6. CASE st.nesting # 0
    <3>1. PICK j \in 1..n : Depth(t, j, n) = st.nesting
      BY <2>6
    <3>2. Depth(t, j, n + 1) = st.nesting /\ j \in 1..n + 1
      BY <3>1, <2>2, <2>3
    <3>3. ~ (st.nesting <= 0)
      BY <1>0, <2>6
    <3> QED
      BY <3>2, <3>3, <2>6
  <2> QED
    BY <2>5, <2>6
<1> HIDE DEF ch
<1>5. n + 1 \in Cuts(t) <=> Cutting(st, ch)
  BY <1>1, <1>2, <1>3, <1>4, Zenon
<1> QED
  BY <1>5 DEF ch

LEMMA NestingScanned ==
  ASSUME NEW T, NEW t \in Seq(T), NEW n \in Nat, n + 1 <= Len(t), NEW st \in ScanStates(T),
         st.quote <=> Quotes(t, n) % 2 = 1,
         \A j \in 1..n : Depth(t, j, n) <= st.nesting,
         st.nesting = 0 \/ \E j \in 1..n : Depth(t, j, n) = st.nesting
  PROVE  LET next == Scan(st, t[n + 1]) IN
           /\ \A j \in 1..n + 1 : Depth(t, j, n + 1) <= next.nesting
           /\ next.nesting = 0 \/ \E j \in 1..n + 1 : Depth(t, j, n + 1) = next.nesting
<1> DEFINE ch == t[n + 1]
           m == Scan(st, t[n + 1]).nesting
<1>0. st.nesting \in Nat /\ ch \in T /\ n + 1 \in 1..n + 1
  BY DEF ScanStates
<1>1. Counts(st, ch) <=> Bare(t, n + 1)
  BY CountsBare
<1>2. /\ m \in Nat
      /\ Counts(st, ch) /\ ch = "open" => m = st.nesting + 1
      /\ Counts(st, ch) /\ ch = "close" => m = IF st.nesting > 0 THEN st.nesting - 1 ELSE 0
      /\ ~Counts(st, ch) \/ ch \notin {"open", "close"} => m = st.nesting
  BY <1>0, ScanNesting
<1>3. \A j \in 1..n + 1 :
         /\ Depth(t, j, n) \in Int /\ Depth(t, n + 1, n) = 0
         /\ Bare(t, n + 1) /\ ch = "open" => Depth(t, j, n + 1) = Depth(t, j, n) + 1
         /\ Bare(t, n + 1) /\ ch = "close" => Depth(t, j, n + 1) = Depth(t, j, n) - 1
         /\ ~Bare(t, n + 1) \/ ch \notin {"open", "close"} => Depth(t, j, n + 1) = Depth(t, j, n)
  BY DepthStep
<1> HIDE DEF ch, m
<1>4. \A j \in 1..n + 1 : j = n + 1 \/ j \in 1..n
  OBVIOUS
<1>5. \A j \in 1..n : j \in 1..n + 1
  OBVIOUS
<1>6. \A j \in 1..n + 1 : Depth(t, j, n) <= st.nesting
  BY <1>0, <1>3, <1>4
<1>7. CASE Bare(t, n + 1) /\ ch = "open"
  <2>1. m = st.nesting + 1 /\ \A j \in 1..n + 1 : Depth(t, j, n + 1) = Depth(t, j, n) + 1
    BY <1>1, <1>2, <1>3, <1>7
  <2>2. \A j \in 1..n + 1 : Depth(t, j, n + 1) <= m
    BY <2>1, <1>0, <1>3, <1>6
  <2>3. \E j \in 1..n + 1 : Depth(t, j, n + 1) = m
    <3>1. CASE st.nesting = 0
      BY <3>1, <2>1, <1>0, <1>3
    <3>2. CASE st.nesting # 0
      BY <3>2, <2>1, <1>0, <1>3, <1>5
    <3> QED
      BY <3>1, <3>2
  <2> QED
    BY <2>2, <2>3 DEF m
<1>8. CASE Bare(t, n + 1) /\ ch = "close"
  <2>1. m = IF st.nesting > 0 THEN st.nesting - 1 ELSE 0
    BY <1>1, <1>2, <1>8
  <2>2. \A j \in 1..n + 1 : Depth(t, j, n + 1) = Depth(t, j, n) - 1
    BY <1>3, <1>8
  <2>3. \A j \in 1..n + 1 : Depth(t, j, n + 1) <= m
    BY <2>1, <2>2, <1>0, <1>3, <1>6
  <2>4. m = 0 \/ \E j \in 1..n + 1 : Depth(t, j, n + 1) = m
    <3>1. CASE st.nesting = 0
      BY <3>1, <2>1
    <3>2. CASE st.nesting # 0
      <4>1. PICK j \in 1..n : Depth(t, j, n) = st.nesting
        BY <3>2
      <4>2. m = st.nesting - 1
        BY <3>2, <2>1, <1>0
      <4>3. j \in 1..n + 1
        BY <1>5
      <4>4. Depth(t, j, n + 1) = m
        BY <4>1, <4>2, <4>3, <2>2
      <4> QED
        BY <4>3, <4>4
    <3> QED
      BY <3>1, <3>2
  <2> QED
    BY <2>3, <2>4 DEF m
<1>9. CASE ~Bare(t, n + 1) \/ ch \notin {"open", "close"}
  <2>1. m = st.nesting /\ \A j \in 1..n + 1 : Depth(t, j, n + 1) = Depth(t, j, n)
    BY <1>1, <1>2, <1>3, <1>9
  <2>2. \A j \in 1..n + 1 : Depth(t, j, n + 1) <= m
    BY <2>1, <1>6
  <2>3. m = 0 \/ \E j \in 1..n + 1 : Depth(t, j, n + 1) = m
    BY <2>1, <1>5
  <2> QED
    BY <2>2, <2>3 DEF m
<1> QED
  BY <1>7, <1>8, <1>9

LEMMA PieceFacts ==
  ASSUME NEW T, NEW t \in Seq(T)
  PROVE  /\ Len(t) \in Nat /\ \A i \in 1..Len(t) + 1 : Begin(t, i) \in 1..i
         /\ Pieces(t) \in Seq(Seq(T)) /\ Len(Pieces(t)) = Len(t) + 1
         /\ \A i \in 1..Len(t) + 1 : Pieces(t)[i] = SubSeq(t, Begin(t, i), i - 1)
         /\ \A i \in 1..Len(t) + 1 : Pieces(t)[i] = <<>> <=> ~ (Begin(t, i) < i)
<1> DEFINE N == Len(t)
           V == Seq(T)
<1>0. N \in Nat /\ N + 1 \in Nat
  OBVIOUS
<1>1. ASSUME NEW i \in 1..N + 1 PROVE Begin(t, i) \in 1..i
  <2>1. i - 1 \in Nat
    OBVIOUS
  <2>2. PICK n \in Nat : n + 1 = i
    BY <2>1
  <2>3. Begin(t, n + 1) \in 1..n + 1
    BY <1>0, BeginStep
  <2> QED
    BY <2>2, <2>3
<1>2. ASSUME NEW i \in 1..N + 1
      PROVE  /\ SubSeq(t, Begin(t, i), i - 1) \in V
             /\ SubSeq(t, Begin(t, i), i - 1) = <<>> <=> ~ (Begin(t, i) < i)
  <2> DEFINE b == Begin(t, i)
  <2>1. b \in 1..i
    BY <1>1
  <2> HIDE DEF b
  <2>2. SubSeq(t, b, i - 1) \in V
    BY <2>1
  <2>3. Len(SubSeq(t, b, i - 1)) = IF b <= i - 1 THEN i - b ELSE 0
    BY <2>1
  <2>4. SubSeq(t, b, i - 1) = <<>> <=> Len(SubSeq(t, b, i - 1)) = 0
    BY <2>2, EmptySeq
  <2>5. SubSeq(t, b, i - 1) = <<>> <=> ~ (b < i)
    BY <2>1, <2>3, <2>4
  <2> QED
    BY <2>2, <2>5 DEF b
<1> DEFINE piece(i) == SubSeq(t, Begin(t, i), i - 1)
           M == N + 1
           all == [i \in 1..M |-> piece(i)]
<1>3. Pieces(t) = all
  BY DEF Pieces
<1>5. M \in Nat /\ \A i \in 1..M : piece(i) \in V
  BY <1>0, <1>2
<1> HIDE DEF V, piece, M
<1>6. all \in Seq(V) /\ Len(all) = M /\ \A i \in 1..M : all[i] = piece(i)
  BY <1>5
<1>4. /\ Pieces(t) \in Seq(V) /\ Len(Pieces(t)) = N + 1
      /\ \A i \in 1..N + 1 : Pieces(t)[i] = SubSeq(t, Begin(t, i), i - 1)
  BY <1>3, <1>6 DEF piece, M
<1> QED
  BY <1>0, <1>1, <1>2, <1>4 DEF V

\* One more character.
LEMMA ScannedStep ==
  ASSUME NEW T, NEW t \in Seq(T), NEW n \in Nat, n + 1 <= Len(t), NEW st \in ScanStates(T),
         NEW earlier, NEW later, Scanned(t, n, st, earlier),
         later = IF n + 1 \in Closes(t) THEN Append(earlier, Pieces(t)[n + 1]) ELSE earlier
  PROVE  Scanned(t, n + 1, Scan(st, t[n + 1]), later)
<1> DEFINE ch == t[n + 1]
           next == Scan(st, t[n + 1])
           b == Begin(t, n + 1)
<1>0. Len(t) \in Nat /\ ch \in T /\ n + 1 \in 1..Len(t) + 1 /\ n + 1 # Len(t) + 1 /\ n + 1 - 1 = n
  OBVIOUS
<1>1. /\ st.quote <=> Quotes(t, n) % 2 = 1
      /\ \A j \in 1..n : Depth(t, j, n) <= st.nesting
      /\ st.nesting = 0 \/ \E j \in 1..n : Depth(t, j, n) = st.nesting
      /\ st.current = SubSeq(t, b, n)
      /\ st.pairs = earlier
  BY DEF Scanned
<1>2. next.quote <=> Quotes(t, n + 1) % 2 = 1
  BY <1>1, CountsBare
<1>3. /\ \A j \in 1..n + 1 : Depth(t, j, n + 1) <= next.nesting
      /\ next.nesting = 0 \/ \E j \in 1..n + 1 : Depth(t, j, n + 1) = next.nesting
  BY <1>1, NestingScanned
<1>4. Cutting(st, ch) <=> n + 1 \in Cuts(t)
  BY <1>1, CuttingIsCut
<1>5. /\ b \in 1..n + 1
      /\ n + 1 \in Cuts(t) => Begin(t, n + 2) = n + 2
      /\ n + 1 \notin Cuts(t) => Begin(t, n + 2) = b
  BY <1>0, BeginStep
<1>6. n + 1 \in Closes(t) <=> n + 1 \in Cuts(t) /\ b < n + 1
  BY <1>0 DEF Closes
<1>7. Pieces(t)[n + 1] = SubSeq(t, b, n) /\ (SubSeq(t, b, n) = <<>> <=> ~ (b < n + 1))
  <2>0. PICK i \in 1..Len(t) + 1 : i = n + 1
    BY <1>0
  <2>2. /\ Pieces(t)[i] = SubSeq(t, Begin(t, i), i - 1)
        /\ Pieces(t)[i] = <<>> <=> ~ (Begin(t, i) < i)
    BY PieceFacts
  <2>1. /\ Pieces(t)[n + 1] = SubSeq(t, Begin(t, n + 1), n + 1 - 1)
        /\ Pieces(t)[n + 1] = <<>> <=> ~ (Begin(t, n + 1) < n + 1)
    BY <2>0, <2>2
  <2> QED
    BY <2>1, <1>0
<1>8. /\ Cutting(st, ch) =>
            /\ next.current = <<>>
            /\ next.pairs = IF st.current = <<>> THEN st.pairs ELSE Append(st.pairs, st.current)
      /\ ~Cutting(st, ch) =>
            /\ next.current = Append(st.current, ch)
            /\ next.pairs = st.pairs
  BY <1>0, ScanPairs
<1>9. n + 2 = n + 1 + 1
  OBVIOUS
<1> HIDE DEF next, b
<1>10. next.current = SubSeq(t, Begin(t, n + 1 + 1), n + 1) /\ next.pairs = later
  <2>1. CASE n + 1 \in Cuts(t)
    <3>1. SubSeq(t, n + 2, n + 1) = <<>>
      BY <1>0
    <3>2. next.current = SubSeq(t, Begin(t, n + 1 + 1), n + 1)
      BY <2>1, <3>1, <1>4, <1>5, <1>8, <1>9
    <3>3. next.pairs = IF SubSeq(t, b, n) = <<>> THEN earlier ELSE Append(earlier, SubSeq(t, b, n))
      BY <2>1, <1>1, <1>4, <1>8
    <3>4. next.pairs = later
      BY <2>1, <3>3, <1>6, <1>7
    <3> QED
      BY <3>2, <3>4
  <2>2. CASE n + 1 \notin Cuts(t)
    <3>1. SubSeq(t, b, n + 1) = Append(SubSeq(t, b, n), t[n + 1])
      BY <1>0, <1>5
    <3>2. next.current = SubSeq(t, Begin(t, n + 1 + 1), n + 1)
      BY <2>2, <3>1, <1>1, <1>4, <1>5, <1>8, <1>9
    <3>3. next.pairs = later
      BY <2>2, <1>1, <1>4, <1>6, <1>8
    <3> QED
      BY <3>2, <3>3
  <2> QED
    BY <2>1, <2>2
<1>11. /\ next.quote <=> Quotes(t, n + 1) % 2 = 1
       /\ \A j \in 1..n + 1 : Depth(t, j, n + 1) <= next.nesting
       /\ next.nesting = 0 \/ \E j \in 1..n + 1 : Depth(t, j, n + 1) = next.nesting
       /\ next.current = SubSeq(t, Begin(t, n + 1 + 1), n + 1)
       /\ next.pairs = later
  BY <1>2, <1>3, <1>10, Zenon
<1>12. Scanned(t, n + 1, next, later)
  BY <1>11, Zenon DEF Scanned
<1> QED
  BY <1>12 DEF next

\* A text is cut at its cuts, and empty pieces are left out.
LEMMA SegmentsArePieces ==
  ASSUME NEW T, NEW t \in Seq(T)
  PROVE  Segments(t) = Picked(Pieces(t), Closes(t))
<1> DEFINE N == Len(t)
           V == Seq(T)
           S == Closes(t)
           list == Pieces(t)
<1>0. N \in Nat /\ N + 1 \in 1..N + 1
  OBVIOUS
<1>1. PICK f : /\ f[0] = ScanStart /\ f[0] \in ScanStates(T)
               /\ \A n \in 1..N : f[n] = Scan(f[n - 1], t[n])
               /\ Segments(t) = IF f[N].current = <<>> THEN f[N].pairs
                                ELSE Append(f[N].pairs, f[N].current)
  BY SegmentsScan
<1>2. /\ list \in Seq(V) /\ Len(list) = N + 1
      /\ \A i \in 1..N + 1 : list[i] = SubSeq(t, Begin(t, i), i - 1)
      /\ \A i \in 1..N + 1 : list[i] = <<>> <=> ~ (Begin(t, i) < i)
  BY PieceFacts
<1> HIDE DEF V, S, list
<1>3. PICK h : /\ Picked(list, S) = h[Len(list)] /\ h[0] = <<>>
               /\ \A n \in 1..Len(list) : h[n] = IF n \in S THEN Append(h[n - 1], list[n]) ELSE h[n - 1]
  BY <1>2, PickedValues
<1> DEFINE Q == {n \in Nat : n <= N => f[n] \in ScanStates(T) /\ Scanned(t, n, f[n], h[n])}
<1>4. 0 \in Q
  <2>1. /\ f[0].nesting = 0 /\ f[0].current = <<>> /\ f[0].pairs = <<>> /\ ~ f[0].quote
    BY <1>1 DEF ScanStart
  <2>2. Quotes(t, 0) = 0
    BY QuotesStep
  <2>3. ~ (Quotes(t, 0) % 2 = 1)
    BY <2>2
  <2>4. SubSeq(t, Begin(t, 0 + 1), 0) = <<>>
    <3>1. Begin(t, 1) = 1
      BY <1>0, BeginStep
    <3>2. SubSeq(t, 1, 0) = <<>>
      OBVIOUS
    <3> QED
      BY <3>1, <3>2
  <2>5. \A j \in 1..0 : Depth(t, j, 0) <= f[0].nesting
    OBVIOUS
  <2>6. Scanned(t, 0, f[0], h[0])
    <3>1. f[0].quote <=> Quotes(t, 0) % 2 = 1
      BY <2>1, <2>3, Zenon
    <3> QED
      BY <2>1, <3>1, <2>4, <2>5, <1>3, Zenon DEF Scanned
  <2> QED
    BY <2>6, <1>1
<1>5. ASSUME NEW n \in Nat, n \in Q PROVE n + 1 \in Q
  <2> SUFFICES ASSUME n + 1 <= N
               PROVE  f[n + 1] \in ScanStates(T) /\ Scanned(t, n + 1, f[n + 1], h[n + 1])
    OBVIOUS
  <2>1. f[n] \in ScanStates(T) /\ Scanned(t, n, f[n], h[n])
    BY <1>5, <1>0
  <2>2. PICK m \in 1..N : m = n + 1 /\ m - 1 = n
    BY <1>0
  <2>3. f[m] = Scan(f[m - 1], t[m])
    BY <1>1
  <2>4. f[n + 1] = Scan(f[n], t[n + 1])
    BY <2>2, <2>3
  <2>5. m \in 1..Len(list)
    BY <1>0, <1>2
  <2>6. h[m] = IF m \in S THEN Append(h[m - 1], list[m]) ELSE h[m - 1]
    BY <2>5, <1>3
  <2>7. h[n + 1] = IF n + 1 \in Closes(t) THEN Append(h[n], Pieces(t)[n + 1]) ELSE h[n]
    BY <2>2, <2>6 DEF S, list
  <2>8. t[n + 1] \in T
    BY <1>0
  <2> DEFINE st == f[n]
             p == h[n]
             q == h[n + 1]
  <2> HIDE DEF st, p, q
  <2>9. st \in ScanStates(T) /\ Scanned(t, n, st, p)
        /\ q = IF n + 1 \in Closes(t) THEN Append(p, Pieces(t)[n + 1]) ELSE p
    BY <2>1, <2>7 DEF st, p, q
  <2>10. Scanned(t, n + 1, Scan(st, t[n + 1]), q)
    BY <2>9, ScannedStep
  <2>11. Scan(st, t[n + 1]) \in ScanStates(T)
    BY <2>8, <2>9, ScanTyped
  <2> QED
    BY <2>4, <2>10, <2>11 DEF st, q
<1> HIDE DEF Q
<1>6. N \in Q
  BY <1>0, <1>4, <1>5, SetInduction
<1>7. f[N] \in ScanStates(T) /\ Scanned(t, N, f[N], h[N])
  BY <1>0, <1>6 DEF Q
<1>8. f[N].current = SubSeq(t, Begin(t, N + 1), N) /\ f[N].pairs = h[N]
  BY <1>7 DEF Scanned
<1>9. list[N + 1] = f[N].current /\ (list[N + 1] = <<>> <=> ~ (Begin(t, N + 1) < N + 1))
  <2>1. list[N + 1] = SubSeq(t, Begin(t, N + 1), N + 1 - 1) /\ N + 1 - 1 = N
    BY <1>0, <1>2
  <2> QED
    BY <2>1, <1>0, <1>2, <1>8
<1>10. N + 1 \in S <=> Begin(t, N + 1) < N + 1
  BY DEF S, Closes
<1>11. PICK m \in 1..Len(list) : m = N + 1 /\ m - 1 = N
  BY <1>0, <1>2
<1>12. h[m] = IF m \in S THEN Append(h[m - 1], list[m]) ELSE h[m - 1]
  BY <1>3
<1>13. Picked(list, S) = IF N + 1 \in S THEN Append(h[N], list[N + 1]) ELSE h[N]
  BY <1>2, <1>3, <1>11, <1>12
<1>14. Segments(t) = Picked(list, S)
  BY <1>1, <1>8, <1>9, <1>10, <1>13
<1> QED
  BY <1>14 DEF list, S

LEMMA SplitsAreExact == ASSUME SheetInv PROVE SplitExact
<1>1. text \in Seq(Characters)
  BY DEF SheetInv
<1>2. Segments(text) = Picked(Pieces(text), Closes(text))
  BY <1>1, SegmentsArePieces
<1> QED
  BY <1>2 DEF SplitExact, Closes

-------------------------------------------------------------------------------
LEMMA SheetInvInit == SheetInit => SheetInv
<1> SUFFICES ASSUME SheetInit PROVE SheetInv
  OBVIOUS
<1>1. table = <<>> /\ origin = Blank /\ read = Blank /\ text = <<>>
  BY DEF SheetInit
<1>2. IsTable(table)
  BY <1>1 DEF IsTable
<1>3. text \in Seq(Characters) /\ Len(text) <= MaxText
  BY <1>1, SheetAssumption
<1> QED
  BY <1>1, <1>2, <1>3 DEF SheetInv

LEMMA SheetInvStep == SheetInv /\ [SheetNext]_sheetVars => SheetInv'
<1> SUFFICES ASSUME SheetInv, [SheetNext]_sheetVars PROVE SheetInv'
  OBVIOUS
<1>0. /\ text \in Seq(Characters) /\ Len(text) <= MaxText
      /\ IsTable(table)
      /\ table = <<>> \/ table \in Tables \cup {Written(definition) : definition \in Definitions}
      /\ origin # Blank => origin \in Definitions /\ table = Written(origin)
      /\ read = Blank \/ read = Parsed(table)
  BY DEF SheetInv
<1>1. ASSUME NEW lines \in Tables, TypeTable(lines) PROVE SheetInv'
  <2>1. IsTable(lines)
    BY TablesAssumption DEF IsTable
  <2>2. table' = lines /\ origin' = Blank /\ read' = Blank /\ text' = text
    BY <1>1 DEF TypeTable
  <2>3. IsTable(table)'
    BY <2>1, <2>2
  <2> QED
    BY <1>0, <2>2, <2>3 DEF SheetInv
<1>2. ASSUME NEW definition \in Definitions, SaveTable(definition) PROVE SheetInv'
  <2>1. IsTable(definition)
    BY TablesAssumption DEF IsTable
  <2>2. IsTable(Written(definition))
    BY <2>1, WrittenIsTable
  <2>3. table' = Written(definition) /\ origin' = definition /\ read' = Blank /\ text' = text
    BY <1>2 DEF SaveTable
  <2>4. IsTable(table)'
    BY <2>2, <2>3
  <2> QED
    BY <1>0, <2>3, <2>4 DEF SheetInv
<1>3. ASSUME ReadTable PROVE SheetInv'
  <2>1. read' = Parsed(table) /\ table' = table /\ origin' = origin /\ text' = text
    BY <1>3 DEF ReadTable
  <2>2. IsTable(table)'
    BY <1>0, <2>1
  <2> QED
    BY <1>0, <2>1, <2>2 DEF SheetInv
<1>4. ASSUME NEW ch \in Characters, TypeText(ch) PROVE SheetInv'
  <2>1. /\ Len(text) < MaxText /\ text' = Append(text, ch)
        /\ table' = table /\ origin' = origin /\ read' = read
    BY <1>4 DEF TypeText
  <2>2. text' \in Seq(Characters) /\ Len(text') <= MaxText
    BY <1>0, <2>1, SheetAssumption
  <2>3. IsTable(table)'
    BY <1>0, <2>1
  <2> QED
    BY <1>0, <2>1, <2>2, <2>3 DEF SheetInv
<1>5. CASE UNCHANGED sheetVars
  <2>1. table' = table /\ origin' = origin /\ read' = read /\ text' = text
    BY <1>5 DEF sheetVars
  <2>2. IsTable(table)'
    BY <1>0, <2>1
  <2> QED
    BY <1>0, <2>1, <2>2 DEF SheetInv
<1> QED
  BY <1>1, <1>2, <1>3, <1>4, <1>5 DEF SheetNext

\* Tables are read as they are written, and texts are cut where they should be
\* (XlsxParser): for all tables, definitions and texts.
THEOREM SheetIsSound == SheetSpec => []SheetSound
<1>1. SheetInv => SheetSound
  BY SheetIsTyped, RowsAreInOrder, TransitionsAreUnique, TablesRoundTrip, PortsAreKept,
     SplitsAreExact DEF SheetSound
<1> QED
  BY <1>1, SheetInvInit, SheetInvStep, PTL DEF SheetSpec

-------------------------------------------------------------------------------
(***************************************************************************)
(* WorkflowEditor.  The lists a workflow is loaded into.                   *)
(***************************************************************************)
NodeSet == [id : StepIds, comp : Targets]
LinkSet == [from : StepIds, to : StepIds, type : LinkTypes \cup {"compensation"}]
StepSet == [id : StepIds, comp : Targets, to : [LinkTypes -> Targets]]

NoRepeats(list) == \A i, j \in 1..Len(list) : list[i] = list[j] => i = j

LEMMA AddLinkFacts ==
  ASSUME NEW T, NEW list \in Seq(T), NEW link \in T
  PROVE  /\ AddLink(list, link) \in Seq(T)
         /\ ToSet(AddLink(list, link)) = ToSet(list) \cup {link}
         /\ NoRepeats(list) => NoRepeats(AddLink(list, link))
         /\ link \in ToSet(list) => AddLink(list, link) = list
         /\ link \notin ToSet(list) => AddLink(list, link) = Append(list, link)
<1>1. Len(list) \in Nat /\ ToSet(list) = {list[i] : i \in 1..Len(list)}
  BY ElementsAt
<1>2. Contains(list, link) <=> link \in ToSet(list)
  BY <1>1 DEF Contains
<1>3. CASE link \in ToSet(list)
  <2>1. AddLink(list, link) = list
    BY <1>2, <1>3 DEF AddLink
  <2> QED
    BY <2>1, <1>3
<1>4. CASE link \notin ToSet(list)
  <2> DEFINE more == Append(list, link)
  <2>1. AddLink(list, link) = more
    BY <1>2, <1>4 DEF AddLink
  <2>2. /\ more \in Seq(T) /\ Len(more) = Len(list) + 1 /\ more[Len(list) + 1] = link
        /\ \A i \in 1..Len(list) : more[i] = list[i]
    OBVIOUS
  <2> HIDE DEF more
  <2>3. \A i \in 1..Len(more) : i = Len(list) + 1 \/ i \in 1..Len(list)
    BY <1>1, <2>2
  <2>4. \A i \in 1..Len(list) : i \in 1..Len(more) /\ Len(list) + 1 \in 1..Len(more) /\ i # Len(list) + 1
    BY <1>1, <2>2
  <2>5. ToSet(more) = {more[i] : i \in 1..Len(more)}
    BY <2>2, ElementsAt
  <2>6. Len(list) + 1 \in 1..Len(more)
    BY <1>1, <2>2
  <2>7. ToSet(more) = ToSet(list) \cup {link}
    <3>1. \A x \in ToSet(more) : x \in ToSet(list) \cup {link}
      BY <1>1, <2>2, <2>3, <2>5
    <3>2. link \in ToSet(more)
      BY <2>2, <2>5, <2>6
    <3>3. \A x \in ToSet(list) : x \in ToSet(more)
      BY <1>1, <2>2, <2>4, <2>5
    <3> QED
      BY <3>1, <3>2, <3>3
  <2>8. NoRepeats(list) => NoRepeats(more)
    <3> SUFFICES ASSUME NoRepeats(list), NEW i \in 1..Len(more), NEW j \in 1..Len(more), more[i] = more[j]
                 PROVE  i = j
      BY DEF NoRepeats
    <3>1. \A k \in 1..Len(list) : more[k] # link
      BY <1>1, <1>4, <2>2
    <3>2. CASE i = Len(list) + 1
      BY <3>1, <3>2, <2>2, <2>3
    <3>3. CASE i \in 1..Len(list)
      <4>1. j \in 1..Len(list)
        BY <3>1, <3>3, <2>2, <2>3
      <4> QED
        BY <3>3, <4>1, <2>2 DEF NoRepeats
    <3> QED
      BY <3>2, <3>3, <2>3
  <2> QED
    BY <1>4, <2>1, <2>2, <2>7, <2>8 DEF more
<1> QED
  BY <1>3, <1>4

AddedUpTo(f, list) ==
  f = [n \in 0..Len(list) |-> IF n = 0 THEN <<>> ELSE AddLink(f[n - 1], list[n])]

LEMMA AddedHasValues ==
  ASSUME NEW T, NEW list \in Seq(T)
  PROVE  \E f : AddedUpTo(f, list)
<1> DEFINE N == Len(list)
           F == [e \in (1..N) \X Seq(T) |-> AddLink(e[2], list[e[1]])]
<1>0. N \in Nat /\ \A n \in 1..N : list[n] \in T
  OBVIOUS
<1>1. F \in [(1..N) \X Seq(T) -> Seq(T)]
  <2>1. ASSUME NEW e \in (1..N) \X Seq(T) PROVE AddLink(e[2], list[e[1]]) \in Seq(T)
    <3>1. e[1] \in 1..N /\ e[2] \in Seq(T)
      OBVIOUS
    <3>2. list[e[1]] \in T
      BY <3>1, <1>0
    <3> QED
      BY <3>1, <3>2, AddLinkFacts
  <2> QED
    BY <2>1
<1>2. <<>> \in Seq(T)
  OBVIOUS
<1>3. PICK f : ValuesOf(f, Seq(T), <<>>, N, F)
  <2> HIDE DEF N, F
  <2> QED
    BY <1>0, <1>1, <1>2, RecursionHasValues
<1>4. f \in [0..N -> Seq(T)] /\ f[0] = <<>> /\ \A n \in 1..N : f[n] = F[<<n, f[n - 1]>>]
  BY <1>3 DEF ValuesOf
<1>5. ASSUME NEW n \in 1..N PROVE f[n] = AddLink(f[n - 1], list[n])
  <2>1. f[n - 1] \in Seq(T)
    BY <1>4
  <2>2. f[n] = F[<<n, f[n - 1]>>]
    BY <1>4
  <2> QED
    BY <2>1, <2>2
<1> HIDE DEF F
<1>6. ASSUME NEW n \in 0..N
      PROVE  f[n] = IF n = 0 THEN <<>> ELSE AddLink(f[n - 1], list[n])
  <2>1. CASE n = 0
    BY <1>4, <2>1
  <2>2. CASE n # 0
    <3>1. n \in 1..N
      BY <2>2
    <3> QED
      BY <3>1, <1>5, <2>2
  <2> QED
    BY <2>1, <2>2
<1>7. f = [n \in 0..N |-> f[n]]
  BY <1>4
<1> QED
  BY <1>6, <1>7, Zenon DEF AddedUpTo

\* The connections added are those of the list, each once.
LEMMA AddedFacts ==
  ASSUME NEW T, NEW list \in Seq(T)
  PROVE  Added(list) \in Seq(T) /\ ToSet(Added(list)) = ToSet(list) /\ NoRepeats(Added(list))
<1> DEFINE N == Len(list)
           h == CHOOSE f : AddedUpTo(f, list)
           Upto(n) == {list[i] : i \in 1..n}
           Q == {n \in Nat : n <= N => /\ h[n] \in Seq(T) /\ ToSet(h[n]) = Upto(n) /\ NoRepeats(h[n])}
<1>0. N \in Nat /\ ToSet(list) = Upto(N) /\ \A n \in 1..N : list[n] \in T
  BY ElementsAt
<1>1. AddedUpTo(h, list)
  BY AddedHasValues
<1>2. Added(list) = h[N]
  BY DEF Added, AddedUpTo
<1> HIDE DEF h
<1>3. \A n \in 0..N : h[n] = IF n = 0 THEN <<>> ELSE AddLink(h[n - 1], list[n])
  BY <1>1 DEF AddedUpTo
<1>4. 0 \in Q
  <2>1. h[0] = <<>>
    BY <1>0, <1>3
  <2>2. <<>> \in Seq(T) /\ ToSet(<<>>) = {} /\ NoRepeats(<<>>)
    BY DEF ToSet, NoRepeats
  <2>3. Upto(0) = {}
    OBVIOUS
  <2> QED
    BY <2>1, <2>2, <2>3
<1>5. ASSUME NEW n \in Nat, n \in Q PROVE n + 1 \in Q
  <2> SUFFICES ASSUME n + 1 <= N
               PROVE  /\ h[n + 1] \in Seq(T) /\ ToSet(h[n + 1]) = Upto(n + 1) /\ NoRepeats(h[n + 1])
    OBVIOUS
  <2>1. h[n] \in Seq(T) /\ ToSet(h[n]) = Upto(n) /\ NoRepeats(h[n])
    BY <1>0, <1>5
  <2>2. PICK m \in 0..N : m = n + 1 /\ m - 1 = n /\ m # 0
    BY <1>0
  <2>3. h[m] = AddLink(h[m - 1], list[m])
    BY <1>3, <2>2
  <2>4. h[n + 1] = AddLink(h[n], list[n + 1]) /\ list[n + 1] \in T
    BY <1>0, <2>2, <2>3
  <2>5. Upto(n + 1) = Upto(n) \cup {list[n + 1]}
    <3>1. \A i \in 1..n + 1 : i = n + 1 \/ i \in 1..n
      OBVIOUS
    <3>2. \A i \in 1..n : i \in 1..n + 1
      OBVIOUS
    <3>3. n + 1 \in 1..n + 1
      OBVIOUS
    <3> QED
      BY <3>1, <3>2, <3>3
  <2> DEFINE p == h[n]
             x == list[n + 1]
  <2> HIDE DEF p, x
  <2>6. /\ AddLink(p, x) \in Seq(T) /\ ToSet(AddLink(p, x)) = ToSet(p) \cup {x}
        /\ NoRepeats(AddLink(p, x))
    BY <2>1, <2>4, AddLinkFacts DEF p, x
  <2> QED
    BY <2>1, <2>4, <2>5, <2>6 DEF p, x
<1> HIDE DEF Q
<1>6. N \in Q
  BY <1>0, <1>4, <1>5, SetInduction
<1>7. h[N] \in Seq(T) /\ ToSet(h[N]) = Upto(N) /\ NoRepeats(h[N])
  BY <1>0, <1>6 DEF Q
<1> QED
  BY <1>0, <1>2, <1>7

\* The connections of a step: one to each of its targets.
TargetOf(step, type) == IF type = "compensation" THEN step.comp ELSE step.to[type]
LinksOf(step) == {l \in LinkSet : l.from = step.id /\ l.to = TargetOf(step, l.type)}

LEMMA StepLinksFacts ==
  ASSUME NEW step \in StepSet
  PROVE  StepLinks(step) \in Seq(LinkSet) /\ ToSet(StepLinks(step)) = LinksOf(step)
<1> DEFINE all == <<[from |-> step.id, to |-> step.to["success"], type |-> "success"],
                    [from |-> step.id, to |-> step.to["failure"], type |-> "failure"],
                    [from |-> step.id, to |-> step.to["skipped"], type |-> "skipped"],
                    [from |-> step.id, to |-> step.comp, type |-> "compensation"]>>
           kept == {i \in 1..4 : all[i].to # NoId}
           Wide == [from : StepIds, to : Targets, type : LinkTypes \cup {"compensation"}]
           Line(type) == [from |-> step.id, to |-> TargetOf(step, type), type |-> type]
<1>0. /\ step.id \in StepIds /\ step.comp \in Targets /\ step.to \in [LinkTypes -> Targets]
      /\ {"success", "failure", "skipped"} = LinkTypes
  BY DEF StepSet, LinkTypes
<1>1. /\ step.to["success"] \in Targets /\ step.to["failure"] \in Targets /\ step.to["skipped"] \in Targets
      /\ "success" \in LinkTypes /\ "failure" \in LinkTypes /\ "skipped" \in LinkTypes
  BY <1>0
<1>2. all \in Seq(Wide) /\ Len(all) = 4
  BY <1>0, <1>1
<1>3. /\ all[1] = Line("success") /\ all[2] = Line("failure") /\ all[3] = Line("skipped")
      /\ all[4] = Line("compensation")
  BY DEF TargetOf
<1>4. StepLinks(step) = Picked(all, kept)
  BY DEF StepLinks
<1>5. \A type \in LinkTypes \cup {"compensation"} : \E i \in 1..4 : all[i] = Line(type)
  <2>1. \A type \in LinkTypes \cup {"compensation"} :
          type = "success" \/ type = "failure" \/ type = "skipped" \/ type = "compensation"
    BY DEF LinkTypes
  <2>2. 1 \in 1..4 /\ 2 \in 1..4 /\ 3 \in 1..4 /\ 4 \in 1..4
    OBVIOUS
  <2> HIDE DEF all, Line
  <2> QED
    BY <1>3, <2>1, <2>2, Zenon
<1>6. \A i \in 1..4 : \E type \in LinkTypes \cup {"compensation"} : all[i] = Line(type)
  <2>1. \A i \in 1..4 : i = 1 \/ i = 2 \/ i = 3 \/ i = 4
    OBVIOUS
  <2>2. "compensation" \in LinkTypes \cup {"compensation"}
    OBVIOUS
  <2>3. \A type \in LinkTypes : type \in LinkTypes \cup {"compensation"}
    OBVIOUS
  <2> HIDE DEF all, Line
  <2> QED
    BY <1>1, <1>3, <2>1, <2>2, <2>3, Zenon
<1>7. \A i \in kept : i \in 1..Len(all)
  BY <1>2
<1>8. \A i \in 1..4 : i \in kept <=> all[i].to # NoId
  OBVIOUS
<1>9. \A type \in LinkTypes \cup {"compensation"} :
         /\ Line(type).from = step.id /\ Line(type).to = TargetOf(step, type) /\ Line(type).type = type
         /\ Line(type).to # NoId <=> Line(type).to \in StepIds
         /\ Line(type).to \in StepIds => Line(type) \in LinkSet
  <2>1. \A type \in LinkTypes \cup {"compensation"} : TargetOf(step, type) \in Targets
    BY <1>0 DEF TargetOf
  <2> QED
    BY <2>1, <1>0, EditorAssumption DEF Targets, LinkSet
<1>10. kept \subseteq 1..4
  OBVIOUS
<1> HIDE DEF all, kept, Wide, Line
<1>11. Picked(all, kept) \in Seq(Wide)
  BY <1>2, PickedFacts
<1>12. ToSet(Picked(all, kept)) = {all[k] : k \in kept \cap (1..Len(all))}
  BY <1>2, PickedElements
<1>13. {all[k] : k \in kept \cap (1..Len(all))} = LinksOf(step)
  <2>1. ASSUME NEW k \in kept PROVE all[k] \in LinksOf(step)
    <3>1. PICK type \in LinkTypes \cup {"compensation"} : all[k] = Line(type)
      BY <1>6, <1>10
    <3>2. all[k].to # NoId
      BY <1>8, <1>10
    <3> QED
      BY <3>1, <3>2, <1>9 DEF LinksOf
  <2>2. ASSUME NEW l \in LinksOf(step) PROVE \E k \in kept : all[k] = l
    <3>1. /\ l \in LinkSet /\ l.from = step.id /\ l.to = TargetOf(step, l.type)
          /\ l.to \in StepIds /\ l.type \in LinkTypes \cup {"compensation"}
      BY DEF LinksOf, LinkSet
    <3>2. l = Line(l.type)
      BY <3>1 DEF LinkSet, Line
    <3>3. PICK k \in 1..4 : all[k] = Line(l.type)
      BY <3>1, <1>5
    <3>4. all[k].to # NoId
      BY <3>1, <3>2, <3>3, EditorAssumption
    <3> QED
      BY <3>2, <3>3, <3>4, <1>8
  <2> QED
    BY <2>1, <2>2, <1>7
<1>14. \A x \in LinksOf(step) : x \in LinkSet
  BY DEF LinksOf
<1>15. Picked(all, kept) \in Seq(LinkSet)
  <2> DEFINE p == Picked(all, kept)
  <2>1. p \in Seq(Wide) /\ ToSet(p) = LinksOf(step)
    BY <1>11, <1>12, <1>13
  <2> HIDE DEF p
  <2>2. ToSet(p) = {p[i] : i \in 1..Len(p)}
    BY <2>1, ElementsAt
  <2>3. \A i \in 1..Len(p) : p[i] \in LinkSet
    BY <2>1, <2>2, <1>14
  <2>4. p \in Seq(LinkSet)
    BY <2>1, <2>3
  <2> QED
    BY <2>4 DEF p
<1> QED
  BY <1>4, <1>12, <1>13, <1>15

\* What can be loaded: steps of the right kinds, and an entry among them, if any.
Loadable(w) ==
  /\ w.steps \in Seq(StepSet) /\ Len(w.steps) <= MaxNodes
  /\ w.entry \in Targets
  /\ w.steps # <<>> /\ w.entry # NoId => \E i \in 1..Len(w.steps) : w.steps[i].id = w.entry

LEMMA LoadedNodesFacts ==
  ASSUME NEW w, Loadable(w)
  PROVE  /\ LoadedNodes(w) \in Seq(NodeSet) /\ Len(LoadedNodes(w)) = Len(w.steps)
         /\ \A i \in 1..Len(w.steps) : LoadedNodes(w)[i] = [id |-> w.steps[i].id, comp |-> w.steps[i].comp]
         /\ \A i \in 1..Len(w.steps) : LoadedNodes(w)[i].id = w.steps[i].id
         /\ LoadedNodes(w) = <<>> <=> w.steps = <<>>
<1> DEFINE N == Len(w.steps)
           node(i) == [id |-> w.steps[i].id, comp |-> w.steps[i].comp]
           all == [i \in 1..N |-> node(i)]
<1>1. w.steps \in Seq(StepSet)
  BY DEF Loadable
<1>2. N \in Nat /\ DOMAIN w.steps = 1..N /\ \A i \in 1..N : w.steps[i] \in StepSet
  BY <1>1
<1>3. \A i \in 1..N : node(i) \in NodeSet
  BY <1>2 DEF StepSet, NodeSet
<1>4. LoadedNodes(w) = all
  BY <1>2 DEF LoadedNodes
<1>5. w.steps = <<>> <=> N = 0
  BY <1>1, EmptySeq
<1> HIDE DEF node
<1>6. all \in Seq(NodeSet) /\ Len(all) = N /\ \A i \in 1..N : all[i] = node(i)
  BY <1>2, <1>3
<1>7. all = <<>> <=> N = 0
  BY <1>6, EmptySeq
<1> HIDE DEF all
<1>8. \A i \in 1..N : node(i).id = w.steps[i].id
  BY DEF node
<1>9. \A i \in 1..N : LoadedNodes(w)[i] = node(i)
  BY <1>4, <1>6
<1>10. \A i \in 1..N : LoadedNodes(w)[i].id = w.steps[i].id
  BY <1>8, <1>9
<1>11. \A i \in 1..N : LoadedNodes(w)[i] = [id |-> w.steps[i].id, comp |-> w.steps[i].comp]
  BY <1>9 DEF node
<1>12. LoadedNodes(w) \in Seq(NodeSet) /\ Len(LoadedNodes(w)) = N /\ (LoadedNodes(w) = <<>> <=> w.steps = <<>>)
  BY <1>4, <1>5, <1>6, <1>7
<1> QED
  BY <1>10, <1>11, <1>12

LEMMA LoadedLinksFacts ==
  ASSUME NEW w, Loadable(w)
  PROVE  /\ LoadedLinks(w) \in Seq(LinkSet) /\ NoRepeats(LoadedLinks(w))
         /\ \A x : x \in ToSet(LoadedLinks(w)) <=> \E i \in 1..Len(w.steps) : x \in LinksOf(w.steps[i])
<1> DEFINE N == Len(w.steps)
           per(i) == StepLinks(w.steps[i])
           lists == [i \in 1..N |-> per(i)]
           V == Seq(LinkSet)
<1>1. w.steps \in Seq(StepSet)
  BY DEF Loadable
<1>2. N \in Nat /\ DOMAIN w.steps = 1..N /\ \A i \in 1..N : w.steps[i] \in StepSet
  BY <1>1
<1>3. \A i \in 1..N : per(i) \in V /\ ToSet(per(i)) = LinksOf(w.steps[i])
  BY <1>2, StepLinksFacts
<1>4. LoadedLinks(w) = Added(FlattenSeq(lists))
  BY <1>2 DEF LoadedLinks
<1> HIDE DEF V, per
<1>5. lists \in Seq(V) /\ Len(lists) = N /\ \A i \in 1..N : lists[i] = per(i)
  BY <1>2, <1>3
<1> HIDE DEF lists
<1>6. /\ FlattenSeq(lists) \in Seq(LinkSet)
      /\ \A x : x \in ToSet(FlattenSeq(lists)) <=> \E i \in 1..Len(lists) : x \in ToSet(lists[i])
  BY <1>5, FlattenFacts DEF V
<1> DEFINE flat == FlattenSeq(lists)
<1> HIDE DEF flat
<1>7. Added(flat) \in Seq(LinkSet) /\ ToSet(Added(flat)) = ToSet(flat) /\ NoRepeats(Added(flat))
  BY <1>6, AddedFacts DEF flat
<1>8. \A x : x \in ToSet(flat) <=> \E i \in 1..N : x \in LinksOf(w.steps[i])
  BY <1>3, <1>5, <1>6 DEF flat
<1> QED
  BY <1>4, <1>7, <1>8 DEF flat

\* The entry of a workflow that is loaded is one of its nodes.
LEMMA LoadedEntryFacts ==
  ASSUME NEW w, Loadable(w)
  PROVE  /\ LoadedEntry(w) \in Targets
         /\ w.steps # <<>> => LoadedEntry(w) \in IdsOf(LoadedNodes(w))
         /\ w.entry # NoId => LoadedEntry(w) = w.entry
<1> DEFINE list == LoadedNodes(w)
           connections == LoadedLinks(w)
           N == Len(list)
<1>1. /\ list \in Seq(NodeSet) /\ Len(list) = Len(w.steps) /\ (list = <<>> <=> w.steps = <<>>)
      /\ \A i \in 1..Len(w.steps) : list[i].id = w.steps[i].id
  BY LoadedNodesFacts
<1>2. /\ w.entry \in Targets
      /\ w.steps # <<>> /\ w.entry # NoId => \E i \in 1..Len(w.steps) : w.steps[i].id = w.entry
  BY DEF Loadable
<1>3. LoadedEntry(w) = IF w.entry # NoId THEN w.entry ELSE DetectedEntry(list, connections)
  BY DEF LoadedEntry
<1> HIDE DEF list, connections
<1>4. N \in Nat /\ DOMAIN list = 1..N /\ (list # <<>> => N >= 1) /\ \A i \in 1..N : list[i].id \in StepIds
  <2>1. N \in Nat /\ DOMAIN list = 1..N /\ \A i \in 1..N : list[i] \in NodeSet
    BY <1>1
  <2>2. list # <<>> => N # 0
    BY <1>1, EmptySeq
  <2>3. \A x \in NodeSet : x.id \in StepIds
    BY DEF NodeSet
  <2> QED
    BY <2>1, <2>2, <2>3
<1>5. \A i \in 1..N : list[i].id \in IdsOf(list)
  BY <1>4 DEF IdsOf
<1>6. ASSUME list # <<>> PROVE DetectedEntry(list, connections) \in IdsOf(list)
  <2> DEFINE free == {i \in DOMAIN list : \A j \in DOMAIN connections : connections[j].to # list[i].id}
             k == IF free = {} THEN 1 ELSE Min(free)
  <2>1. DetectedEntry(list, connections) = list[k].id
    BY <1>6 DEF DetectedEntry
  <2>2. free \subseteq 1..N /\ free \subseteq 0..N
    BY <1>4
  <2> HIDE DEF free
  <2>3. k \in 1..N
    <3>1. CASE free = {}
      BY <3>1, <1>4, <1>6
    <3>2. CASE free # {}
      <4>1. Min(free) \in free
        BY <2>2, <3>2, <1>4, ExtremesExist
      <4> QED
        BY <4>1, <2>2, <3>2
    <3> QED
      BY <3>1, <3>2
  <2> HIDE DEF k
  <2> QED
    BY <2>1, <2>3, <1>5
<1>7. list = <<>> => DetectedEntry(list, connections) = NoId
  BY DEF DetectedEntry
<1>8. \A x \in IdsOf(list) : x \in StepIds
  BY <1>4 DEF IdsOf
<1>9. \A x \in StepIds : x \in Targets
  BY DEF Targets
<1>10. NoId \in Targets
  BY DEF Targets
<1>11. CASE w.entry # NoId
  <2>1. LoadedEntry(w) = w.entry
    BY <1>3, <1>11
  <2>2. ASSUME w.steps # <<>> PROVE w.entry \in IdsOf(list)
    <3>1. PICK i \in 1..Len(w.steps) : w.steps[i].id = w.entry
      BY <1>2, <1>11, <2>2
    <3>2. list[i].id = w.entry /\ i \in 1..N
      BY <3>1, <1>1
    <3> QED
      BY <3>2, <1>5
  <2> QED
    BY <2>1, <2>2, <1>2 DEF list
<1>12. CASE w.entry = NoId
  <2>1. LoadedEntry(w) = DetectedEntry(list, connections)
    BY <1>3, <1>12
  <2>2. CASE list = <<>>
    BY <2>1, <2>2, <1>1, <1>7, <1>10, <1>12
  <2>3. CASE list # <<>>
    BY <2>1, <2>3, <1>6, <1>8, <1>9, <1>12 DEF list
  <2> QED
    BY <2>2, <2>3
<1> QED
  BY <1>11, <1>12

-------------------------------------------------------------------------------
(***************************************************************************)
(* The workflow that is edited.                                            *)
(***************************************************************************)
Once(list, id) == Cardinality({i \in DOMAIN list : list[i].id = id}) = 1

SingleTargets(list, connections) ==
  \A i, j \in 1..Len(connections) :
    Once(list, connections[i].from) /\ connections[i].from = connections[j].from
      /\ connections[i].type = connections[j].type => i = j

Connects(list, connections) ==
  /\ connections \in Seq(LinkSet)
  /\ \A i \in 1..Len(connections) : connections[i].from \in IdsOf(list)
  /\ SingleTargets(list, connections)

WellFormed(list, connections, start, chosen) ==
  /\ list \in Seq(NodeSet) /\ Len(list) <= MaxNodes
  /\ start \in Targets /\ chosen \in Targets
  /\ list # <<>> => start \in IdsOf(list)
  /\ Connects(list, connections)

EditorInv == WellFormed(nodes, links, entry, selected)

LEMMA OnceFacts ==
  ASSUME NEW list \in Seq(NodeSet), NEW id
  PROVE  /\ Once(list, id) <=> \E k \in 1..Len(list) : \A i \in 1..Len(list) : list[i].id = id <=> i = k
         /\ id \in IdsOf(list) <=> \E k \in 1..Len(list) : list[k].id = id
<1> DEFINE N == Len(list)
           S == {i \in DOMAIN list : list[i].id = id}
<1>1. N \in Nat /\ DOMAIN list = 1..N
  OBVIOUS
<1>2. IsFiniteSet(1..N) /\ S \subseteq 1..N
  BY <1>1, FS_Interval
<1>3. IsFiniteSet(S)
  BY <1>2, FS_Subset
<1>4. \A i \in 1..N : i \in S <=> list[i].id = id
  BY <1>1
<1>5. Once(list, id) <=> Cardinality(S) = 1
  BY DEF Once
<1> HIDE DEF S
<1>6. Cardinality(S) = 1 <=> \E k : S = {k}
  BY <1>3, FS_Singleton
<1>7. ASSUME NEW k, S = {k} PROVE k \in 1..N /\ \A i \in 1..N : list[i].id = id <=> i = k
  BY <1>2, <1>4, <1>7
<1>8. ASSUME NEW k \in 1..N, \A i \in 1..N : list[i].id = id <=> i = k PROVE S = {k}
  BY <1>2, <1>4, <1>8
<1>9. id \in IdsOf(list) <=> \E k \in 1..N : list[k].id = id
  BY <1>1 DEF IdsOf
<1> QED
  BY <1>5, <1>6, <1>7, <1>8, <1>9

\* Whatever is loaded is well formed.
LEMMA LoadedIsWellFormed ==
  ASSUME NEW w, Loadable(w)
  PROVE  WellFormed(LoadedNodes(w), LoadedLinks(w), LoadedEntry(w), LoadedEntry(w))
<1> DEFINE list == LoadedNodes(w)
           connections == LoadedLinks(w)
<1>1. /\ list \in Seq(NodeSet) /\ Len(list) = Len(w.steps) /\ (list = <<>> <=> w.steps = <<>>)
      /\ \A i \in 1..Len(w.steps) : list[i].id = w.steps[i].id
  BY LoadedNodesFacts
<1>2. /\ connections \in Seq(LinkSet) /\ NoRepeats(connections)
      /\ \A x : x \in ToSet(connections) <=> \E i \in 1..Len(w.steps) : x \in LinksOf(w.steps[i])
  BY LoadedLinksFacts
<1>3. LoadedEntry(w) \in Targets /\ (w.steps # <<>> => LoadedEntry(w) \in IdsOf(list))
  BY LoadedEntryFacts
<1>4. Len(w.steps) <= MaxNodes
  BY DEF Loadable
<1> HIDE DEF list, connections
<1>5. \A i \in 1..Len(connections) : \E k \in 1..Len(w.steps) : connections[i] \in LinksOf(w.steps[k])
  BY <1>2, ElementsAt
<1>6. \A i \in 1..Len(w.steps) : list[i].id = w.steps[i].id
  BY <1>1
<1>7. ASSUME NEW i \in 1..Len(connections) PROVE connections[i].from \in IdsOf(list)
  <2>1. PICK k \in 1..Len(w.steps) : connections[i] \in LinksOf(w.steps[k])
    BY <1>5
  <2>2. connections[i].from = list[k].id /\ k \in 1..Len(list)
    BY <2>1, <1>1, <1>6 DEF LinksOf
  <2> QED
    BY <2>2, <1>1, OnceFacts
<1>8. SingleTargets(list, connections)
  <2> SUFFICES ASSUME NEW i \in 1..Len(connections), NEW j \in 1..Len(connections),
                      Once(list, connections[i].from), connections[i].from = connections[j].from,
                      connections[i].type = connections[j].type
               PROVE  i = j
    BY DEF SingleTargets
  <2>1. PICK k \in 1..Len(w.steps) : connections[i] \in LinksOf(w.steps[k])
    BY <1>5
  <2>2. PICK m \in 1..Len(w.steps) : connections[j] \in LinksOf(w.steps[m])
    BY <1>5
  <2> DEFINE x == connections[i].from
  <2> HIDE DEF x
  <2>8. Once(list, x)
    BY DEF x
  <2>9. \E o \in 1..Len(list) : \A l \in 1..Len(list) : list[l].id = x <=> l = o
    BY <2>8, <1>1, OnceFacts
  <2>3. PICK o \in 1..Len(list) : \A l \in 1..Len(list) : list[l].id = connections[i].from <=> l = o
    BY <2>9 DEF x
  <2>4. list[k].id = connections[i].from /\ list[m].id = connections[i].from
    BY <2>1, <2>2, <1>6 DEF LinksOf
  <2>5. k = o /\ m = o
    BY <2>3, <2>4, <1>1
  <2>6. /\ connections[i] \in LinkSet /\ connections[j] \in LinkSet
        /\ connections[i].to = TargetOf(w.steps[k], connections[i].type)
        /\ connections[j].to = TargetOf(w.steps[k], connections[j].type)
    BY <2>1, <2>2, <2>5 DEF LinksOf
  <2>7. connections[i] = connections[j]
    BY <2>6 DEF LinkSet
  <2> QED
    BY <2>7, <1>2 DEF NoRepeats
<1> QED
  BY <1>1, <1>2, <1>3, <1>4, <1>7, <1>8 DEF WellFormed, Connects, list, connections

\* Connections are left out, or nodes lose one of an id nothing is connected from: what is
\* left connects as before.
LEMMA LeftOverConnects ==
  ASSUME NEW list \in Seq(NodeSet), NEW connections, Connects(list, connections), NEW S, NEW fewer \in Seq(NodeSet),
         \A k \in S \cap (1..Len(connections)) :
           /\ connections[k].from \in IdsOf(fewer)
           /\ Once(fewer, connections[k].from) => Once(list, connections[k].from)
  PROVE  Connects(fewer, Picked(connections, S))
<1> DEFINE p == Picked(connections, S)
           N == Len(connections)
<1>1. connections \in Seq(LinkSet) /\ N \in Nat /\ SingleTargets(list, connections)
  BY DEF Connects
<1>2. p \in Seq(LinkSet) /\ PickedOf(p, connections, S, N)
  BY <1>1, PickedFacts
<1> HIDE DEF p
<1>3. PICK pos \in [1..Len(p) -> S \cap (1..N)] :
        /\ \A i \in 1..Len(p) : p[i] = connections[pos[i]]
        /\ \A i, j \in 1..Len(p) : i < j => pos[i] < pos[j]
        /\ \A k \in S \cap (1..N) : \E i \in 1..Len(p) : pos[i] = k
  BY <1>2 DEF PickedOf
<1>4. \A i \in 1..Len(p) : pos[i] \in S \cap (1..N) /\ pos[i] \in 1..N /\ pos[i] \in Int
  BY <1>3, <1>1
<1>5. \A i \in 1..Len(p) : p[i].from \in IdsOf(fewer)
  BY <1>3, <1>4
<1>6. ASSUME NEW i \in 1..Len(p), NEW j \in 1..Len(p), pos[i] = pos[j] PROVE i = j
  <2>1. i \in Int /\ j \in Int /\ (i < j \/ j < i \/ i = j)
    BY <1>2
  <2>2. pos[i] \in Int /\ pos[j] \in Int
    BY <1>4
  <2> QED
    BY <2>1, <2>2, <1>3, <1>6
<1>7. SingleTargets(fewer, p)
  <2> SUFFICES ASSUME NEW i \in 1..Len(p), NEW j \in 1..Len(p), Once(fewer, p[i].from),
                      p[i].from = p[j].from, p[i].type = p[j].type
               PROVE  i = j
    BY DEF SingleTargets
  <2> DEFINE a == pos[i]
             b == pos[j]
  <2>1. p[i] = connections[a] /\ p[j] = connections[b] /\ a \in S \cap (1..N) /\ a \in 1..N /\ b \in 1..N
    BY <1>3, <1>4
  <2>2. a = b => i = j
    BY <1>6
  <2> HIDE DEF a, b
  <2>3. Once(list, connections[a].from)
    BY <2>1
  <2>4. connections[a].from = connections[b].from /\ connections[a].type = connections[b].type
    BY <2>1
  <2>5. a = b
    BY <2>1, <2>3, <2>4, <1>1 DEF SingleTargets
  <2> QED
    BY <2>2, <2>5
<1> QED
  BY <1>2, <1>5, <1>7 DEF Connects, p

\* What RemoveById leaves.
LEMMA NodeRemoved ==
  ASSUME NEW list \in Seq(NodeSet), NEW id
  PROVE  /\ RemoveById(list, id) \in Seq(NodeSet) /\ Len(RemoveById(list, id)) <= Len(list)
         /\ \A x : x # id =>
              /\ x \in IdsOf(list) <=> x \in IdsOf(RemoveById(list, id))
              /\ Once(RemoveById(list, id), x) => Once(list, x)
         /\ list = <<>> => RemoveById(list, id) = <<>>
<1> DEFINE N == Len(list)
           of == {i \in DOMAIN list : list[i].id = id}
<1>1. N \in Nat /\ DOMAIN list = 1..N /\ of \subseteq 1..N /\ of \subseteq 0..N
      /\ \A i \in 1..N : i \in of <=> list[i].id = id
  OBVIOUS
<1>2. CASE of = {}
  <2>1. RemoveById(list, id) = list
    BY <1>2 DEF RemoveById
  <2> QED
    BY <2>1, <1>1
<1>3. CASE of # {}
  <2> DEFINE m == Min(of)
             S == DOMAIN list \ {m}
             p == Picked(list, S)
  <2>1. RemoveById(list, id) = p
    BY <1>3 DEF RemoveById
  <2>2. S = (1..N) \ {m}
    BY <1>1
  <2> HIDE DEF of
  <2>3. m \in of
    BY <1>1, <1>3, ExtremesExist
  <2> HIDE DEF m, S
  <2>4. m \in 1..N /\ list[m].id = id
    BY <1>1, <2>3
  <2>5. p \in Seq(NodeSet) /\ PickedOf(p, list, S, N)
    BY PickedFacts
  <2> HIDE DEF p
  <2>6. PICK pos \in [1..Len(p) -> S \cap (1..N)] :
          /\ \A i \in 1..Len(p) : p[i] = list[pos[i]]
          /\ \A i, j \in 1..Len(p) : i < j => pos[i] < pos[j]
          /\ \A k \in S \cap (1..N) : \E i \in 1..Len(p) : pos[i] = k
    BY <2>5 DEF PickedOf
  <2>7. \A i \in 1..Len(p) : pos[i] \in 1..N /\ pos[i] # m
    BY <2>2, <2>6
  <2>8. \A k \in 1..N : k # m => \E i \in 1..Len(p) : pos[i] = k
    BY <2>2, <2>6
  <2>9. Len(p) \in Nat /\ Len(p) <= N
    <3>1. Len(Picked(list, S)) <= Len(list)
      BY PickedLength
    <3> QED
      BY <3>1, <2>5, <1>1 DEF p
  <2>10. ASSUME NEW x, x # id PROVE x \in IdsOf(list) <=> x \in IdsOf(p)
    <3>1. ASSUME NEW k \in 1..N, list[k].id = x PROVE \E i \in 1..Len(p) : p[i].id = x
      <4>1. k # m
        BY <2>4, <2>10, <3>1
      <4> QED
        BY <4>1, <2>6, <2>8, <3>1
    <3>2. ASSUME NEW i \in 1..Len(p), p[i].id = x PROVE \E k \in 1..N : list[k].id = x
      BY <3>2, <2>6, <2>7
    <3> QED
      BY <3>1, <3>2, <2>5, OnceFacts
  <2>11. ASSUME NEW x, x # id, Once(p, x) PROVE Once(list, x)
    <3>1. PICK o \in 1..Len(p) : \A i \in 1..Len(p) : p[i].id = x <=> i = o
      BY <2>5, <2>11, OnceFacts
    <3>2. pos[o] \in 1..N /\ list[pos[o]].id = x
      BY <3>1, <2>6, <2>7
    <3>3. ASSUME NEW k \in 1..N, list[k].id = x PROVE k = pos[o]
      <4>1. k # m
        BY <2>4, <2>11, <3>3
      <4>2. PICK i \in 1..Len(p) : pos[i] = k
        BY <4>1, <2>8
      <4>3. p[i].id = x
        BY <4>2, <2>6, <3>3
      <4> QED
        BY <3>1, <4>2, <4>3
    <3>4. \A k \in 1..N : list[k].id = x <=> k = pos[o]
      BY <3>2, <3>3
    <3> QED
      BY <3>2, <3>4, OnceFacts
  <2>12. list # <<>>
    BY <2>4
  <2> QED
    BY <2>1, <2>5, <2>9, <2>10, <2>11, <2>12
<1> QED
  BY <1>2, <1>3

\* A connection takes the place of the last one of its type that leaves the same step.
LEMMA LastRemoved ==
  ASSUME NEW list \in Seq(NodeSet), NEW connections, Connects(list, connections), NEW from, NEW type
  PROVE  /\ Connects(list, RemoveByType(connections, from, type))
         /\ Once(list, from) =>
              \A i \in 1..Len(RemoveByType(connections, from, type)) :
                ~ (RemoveByType(connections, from, type)[i].from = from
                   /\ RemoveByType(connections, from, type)[i].type = type)
<1> DEFINE N == Len(connections)
           of == {i \in DOMAIN connections : connections[i].from = from /\ connections[i].type = type}
           rest == RemoveByType(connections, from, type)
<1>1. /\ connections \in Seq(LinkSet) /\ N \in Nat /\ DOMAIN connections = 1..N
      /\ \A i \in 1..N : connections[i].from \in IdsOf(list)
      /\ SingleTargets(list, connections)
  BY DEF Connects
<1>2. /\ of \subseteq 1..N /\ of \subseteq 0..N
      /\ \A i \in 1..N : i \in of <=> connections[i].from = from /\ connections[i].type = type
  BY <1>1
<1>3. CASE of = {}
  <2>1. rest = connections
    BY <1>3 DEF RemoveByType
  <2>2. \A i \in 1..N : ~ (connections[i].from = from /\ connections[i].type = type)
    BY <1>2, <1>3
  <2> QED
    BY <2>1, <2>2
<1>4. CASE of # {}
  <2> DEFINE m == Max(of)
             S == DOMAIN connections \ {m}
             p == Picked(connections, S)
  <2>1. rest = p
    BY <1>4 DEF RemoveByType
  <2>2. S = (1..N) \ {m}
    BY <1>1
  <2> HIDE DEF of
  <2>3. m \in of
    BY <1>1, <1>2, <1>4, ExtremesExist
  <2> HIDE DEF m, S
  <2>4. m \in 1..N /\ connections[m].from = from /\ connections[m].type = type
    BY <1>2, <2>3
  <2>5. \A k \in S \cap (1..Len(connections)) :
          /\ connections[k].from \in IdsOf(list)
          /\ Once(list, connections[k].from) => Once(list, connections[k].from)
    BY <1>1
  <2>6. Connects(list, Picked(connections, S))
    BY <2>5, LeftOverConnects
  <2>7. ToSet(Picked(connections, S)) = {connections[k] : k \in S \cap (1..N)}
        /\ Picked(connections, S) \in Seq(LinkSet)
    BY <1>1, PickedElements, PickedFacts
  <2>8. ASSUME Once(list, from), NEW i \in 1..Len(p), p[i].from = from, p[i].type = type PROVE FALSE
    <3>1. p[i] \in ToSet(p)
      <4>1. ToSet(p) = {p[j] : j \in 1..Len(p)}
        BY <2>7, ElementsAt
      <4> QED
        BY <4>1
    <3>2. PICK k \in 1..N : k \in S /\ p[i] = connections[k]
      BY <3>1, <2>7
    <3>3. k # m
      BY <3>2, <2>2
    <3>4. connections[k].from = from /\ connections[k].type = type
      BY <3>2, <2>8
    <3>5. Once(list, connections[k].from)
      BY <3>4, <2>8
    <3>6. connections[k].from = connections[m].from /\ connections[k].type = connections[m].type
      BY <3>4, <2>4
    <3>7. k = m
      BY <3>5, <3>6, <2>4, <1>1 DEF SingleTargets
    <3> QED
      BY <3>3, <3>7
  <2> HIDE DEF rest
  <2> QED
    BY <2>1, <2>6, <2>8 DEF rest
<1> QED
  BY <1>3, <1>4

LEMMA LinkAdded ==
  ASSUME NEW list \in Seq(NodeSet), NEW connections, Connects(list, connections), NEW link \in LinkSet,
         link.from \in IdsOf(list),
         Once(list, link.from) =>
           \A i \in 1..Len(connections) :
             ~ (connections[i].from = link.from /\ connections[i].type = link.type)
  PROVE  Connects(list, AddLink(connections, link))
<1> DEFINE N == Len(connections)
<1>1. /\ connections \in Seq(LinkSet) /\ N \in Nat
      /\ \A i \in 1..N : connections[i].from \in IdsOf(list)
      /\ SingleTargets(list, connections)
  BY DEF Connects
<1>2. CASE link \in ToSet(connections)
  <2>1. AddLink(connections, link) = connections
    BY <1>1, <1>2, AddLinkFacts
  <2> QED
    BY <2>1
<1>3. CASE link \notin ToSet(connections)
  <2> DEFINE more == Append(connections, link)
  <2>1. AddLink(connections, link) = more
    BY <1>1, <1>3, AddLinkFacts
  <2>2. /\ more \in Seq(LinkSet) /\ Len(more) = N + 1 /\ more[N + 1] = link
        /\ \A i \in 1..N : more[i] = connections[i]
    BY <1>1
  <2> HIDE DEF more
  <2>3. \A i \in 1..Len(more) : i = N + 1 \/ i \in 1..N
    BY <1>1, <2>2
  <2>4. \A i \in 1..Len(more) : more[i].from \in IdsOf(list)
    BY <1>1, <2>2, <2>3
  <2>5. SingleTargets(list, more)
    <3> SUFFICES ASSUME NEW i \in 1..Len(more), NEW j \in 1..Len(more), Once(list, more[i].from),
                        more[i].from = more[j].from, more[i].type = more[j].type
                 PROVE  i = j
      BY DEF SingleTargets
    <3>1. CASE i \in 1..N /\ j \in 1..N
      BY <3>1, <1>1, <2>2 DEF SingleTargets
    <3>2. CASE i = N + 1 /\ j \in 1..N
      BY <3>2, <2>2
    <3>3. CASE i \in 1..N /\ j = N + 1
      BY <3>3, <2>2
    <3> QED
      BY <3>1, <3>2, <3>3, <2>3
  <2>6. Connects(list, more)
    BY <2>2, <2>4, <2>5 DEF Connects
  <2> QED
    BY <2>1, <2>6
<1> QED
  BY <1>2, <1>3

-------------------------------------------------------------------------------
LEMMA EditorParts ==
  ASSUME EditorInv
  PROVE  /\ nodes \in Seq(NodeSet) /\ Len(nodes) <= MaxNodes /\ Len(nodes) \in Nat
         /\ DOMAIN nodes = 1..Len(nodes)
         /\ \A i \in 1..Len(nodes) : nodes[i] \in NodeSet /\ nodes[i].id \in StepIds /\ nodes[i].comp \in Targets
         /\ entry \in Targets /\ selected \in Targets
         /\ nodes # <<>> => entry \in IdsOf(nodes)
         /\ links \in Seq(LinkSet) /\ Len(links) \in Nat /\ DOMAIN links = 1..Len(links)
         /\ \A i \in 1..Len(links) : /\ links[i] \in LinkSet /\ links[i].from \in IdsOf(nodes)
                                     /\ links[i].to \in StepIds
         /\ SingleTargets(nodes, links) /\ Connects(nodes, links)
<1>1. /\ nodes \in Seq(NodeSet) /\ Len(nodes) <= MaxNodes
      /\ entry \in Targets /\ selected \in Targets
      /\ nodes # <<>> => entry \in IdsOf(nodes)
      /\ Connects(nodes, links)
  BY DEF EditorInv, WellFormed
<1>2. /\ links \in Seq(LinkSet) /\ \A i \in 1..Len(links) : links[i].from \in IdsOf(nodes)
      /\ SingleTargets(nodes, links)
  BY <1>1 DEF Connects
<1>3. \A x \in NodeSet : x.id \in StepIds /\ x.comp \in Targets
  BY DEF NodeSet
<1>4. \A x \in LinkSet : x.to \in StepIds
  BY DEF LinkSet
<1>5. Len(nodes) \in Nat /\ DOMAIN nodes = 1..Len(nodes) /\ \A i \in 1..Len(nodes) : nodes[i] \in NodeSet
  BY <1>1
<1>6. Len(links) \in Nat /\ DOMAIN links = 1..Len(links) /\ \A i \in 1..Len(links) : links[i] \in LinkSet
  BY <1>2
<1> QED
  BY <1>1, <1>2, <1>3, <1>4, <1>5, <1>6

LEMMA InvMade ==
  ASSUME WellFormed(nodes', links', entry', selected')
  PROVE  EditorInv'
BY DEF EditorInv

LEMMA AddNodeKeeps ==
  ASSUME EditorInv, NEW id \in StepIds, AddNode(id)
  PROVE  EditorInv'
<1> DEFINE node == [id |-> id, comp |-> NoId]
           more == Append(nodes, node)
           N == Len(nodes)
<1>0. /\ nodes \in Seq(NodeSet) /\ N \in Nat
      /\ entry \in Targets /\ selected \in Targets
      /\ nodes # <<>> => entry \in IdsOf(nodes)
      /\ Connects(nodes, links)
  BY EditorParts
<1>1. N < MaxNodes /\ nodes' = more /\ entry' = EntryAfterAdding(id) /\ links' = links /\ selected' = selected
  BY DEF AddNode
<1>2. node \in NodeSet /\ node.id = id
  BY DEF NodeSet, Targets
<1> HIDE DEF node
<1>3. /\ more \in Seq(NodeSet) /\ Len(more) = N + 1 /\ more[N + 1] = node
      /\ \A i \in 1..N : more[i] = nodes[i]
  BY <1>0, <1>2
<1> HIDE DEF more
<1>4. \A i \in 1..Len(more) : i = N + 1 \/ i \in 1..N
  BY <1>0, <1>3
<1>5. N + 1 \in 1..Len(more) /\ \A i \in 1..N : i \in 1..Len(more) /\ i # N + 1
  BY <1>0, <1>3
<1>6. ASSUME NEW x, x \in IdsOf(nodes) \/ x = id PROVE x \in IdsOf(more)
  <2>1. CASE x = id
    BY <2>1, <1>2, <1>3, <1>5, OnceFacts
  <2>2. CASE x \in IdsOf(nodes)
    <3>1. PICK k \in 1..N : nodes[k].id = x
      BY <2>2, <1>0, OnceFacts
    <3>2. more[k].id = x /\ k \in 1..Len(more)
      BY <3>1, <1>3, <1>5
    <3> QED
      BY <3>2, <1>3, OnceFacts
  <2> QED
    BY <1>6, <2>1, <2>2
<1>7. ASSUME NEW x \in IdsOf(nodes), Once(more, x) PROVE Once(nodes, x)
  <2>1. PICK k \in 1..N : nodes[k].id = x
    BY <1>0, OnceFacts
  <2>2. PICK o \in 1..Len(more) : \A i \in 1..Len(more) : more[i].id = x <=> i = o
    <3>1. more \in Seq(NodeSet) /\ Once(more, x)
      BY <1>3, <1>7
    <3>2. \E o \in 1..Len(more) : \A i \in 1..Len(more) : more[i].id = x <=> i = o
      BY <3>1, OnceFacts
    <3> QED
      BY <3>2
  <2>3. k = o
    BY <2>1, <2>2, <1>3, <1>5
  <2>4. \A i \in 1..N : nodes[i].id = x <=> i = o
    BY <2>2, <1>3, <1>5
  <2>5. o \in 1..N
    BY <2>3
  <2> QED
    BY <2>4, <2>5, <1>0, OnceFacts
<1>8. Connects(more, links)
  <2>1. /\ links \in Seq(LinkSet) /\ \A i \in 1..Len(links) : links[i].from \in IdsOf(nodes)
        /\ SingleTargets(nodes, links)
    BY <1>0 DEF Connects
  <2>2. \A i \in 1..Len(links) : links[i].from \in IdsOf(more)
    BY <2>1, <1>6
  <2>3. SingleTargets(more, links)
    BY <2>1, <1>7 DEF SingleTargets
  <2> QED
    BY <2>1, <2>2, <2>3 DEF Connects
<1>9. entry' \in Targets /\ entry' \in IdsOf(more)
  <2>1. CASE nodes = <<>>
    <3>1. entry' = id
      BY <1>1, <2>1 DEF EntryAfterAdding
    <3> QED
      BY <3>1, <1>6 DEF Targets
  <2>2. CASE nodes # <<>>
    <3>1. entry' = entry
      BY <1>1, <2>2 DEF EntryAfterAdding
    <3> QED
      BY <3>1, <2>2, <1>0, <1>6
  <2> QED
    BY <2>1, <2>2
<1>10. Len(more) <= MaxNodes
  BY <1>0, <1>1, <1>3, EditorAssumption
<1>11. WellFormed(more, links, entry', selected)
  BY <1>0, <1>3, <1>8, <1>9, <1>10 DEF WellFormed
<1> QED
  BY <1>1, <1>11, InvMade

LEMMA RemoveNodeKeeps ==
  ASSUME EditorInv, NEW id \in StepIds, RemoveNode(id)
  PROVE  EditorInv'
<1> DEFINE fewer == RemoveById(nodes, id)
           S == {i \in DOMAIN links : id \notin {links[i].from, links[i].to}}
<1>0. /\ nodes \in Seq(NodeSet) /\ Len(nodes) \in Nat /\ Len(nodes) <= MaxNodes
      /\ entry \in Targets /\ selected \in Targets
      /\ nodes # <<>> => entry \in IdsOf(nodes)
      /\ Connects(nodes, links)
      /\ \A i \in 1..Len(links) : links[i].from \in IdsOf(nodes)
  BY EditorParts
<1>1. /\ nodes' = fewer /\ links' = Without(links, id)
      /\ entry' = IF entry = id /\ nodes' # <<>> THEN nodes'[1].id ELSE entry
      /\ selected' = IF selected = id THEN NoId ELSE selected
  BY DEF RemoveNode
<1>2. Without(links, id) = Picked(links, S)
  BY DEF Without
<1>3. /\ fewer \in Seq(NodeSet) /\ Len(fewer) <= Len(nodes)
      /\ \A x : x # id =>
           /\ x \in IdsOf(nodes) <=> x \in IdsOf(fewer)
           /\ Once(fewer, x) => Once(nodes, x)
      /\ nodes = <<>> => fewer = <<>>
  BY <1>0, NodeRemoved
<1>4. \A k \in S \cap (1..Len(links)) : links[k].from # id
  OBVIOUS
<1> HIDE DEF fewer, S
<1>5. \A k \in S \cap (1..Len(links)) :
        /\ links[k].from \in IdsOf(fewer)
        /\ Once(fewer, links[k].from) => Once(nodes, links[k].from)
  BY <1>0, <1>3, <1>4
<1>6. Connects(fewer, Picked(links, S))
  BY <1>0, <1>3, <1>5, LeftOverConnects
<1>7. Len(fewer) \in Nat /\ \A i \in 1..Len(fewer) : fewer[i] \in NodeSet
  BY <1>3
<1>8. entry' \in Targets /\ (fewer # <<>> => entry' \in IdsOf(fewer))
  <2>1. CASE entry = id /\ fewer # <<>>
    <3>1. entry' = fewer[1].id
      BY <1>1, <2>1
    <3>2. Len(fewer) # 0
      BY <1>3, <2>1, EmptySeq
    <3>3. 1 \in 1..Len(fewer)
      BY <3>2, <1>7
    <3>4. fewer[1].id \in IdsOf(fewer)
      BY <3>3, <1>3, OnceFacts
    <3>5. fewer[1].id \in Targets
      BY <3>3, <1>7 DEF NodeSet, Targets
    <3> QED
      BY <3>1, <3>4, <3>5
  <2>2. CASE ~ (entry = id /\ fewer # <<>>)
    <3>1. entry' = entry
      BY <1>1, <2>2
    <3>2. ASSUME fewer # <<>> PROVE entry \in IdsOf(fewer)
      <4>1. entry # id /\ nodes # <<>>
        BY <2>2, <3>2, <1>3
      <4>2. entry \in IdsOf(nodes)
        BY <4>1, <1>0
      <4> QED
        BY <4>1, <4>2, <1>3
    <3> QED
      BY <3>1, <3>2, <1>0
  <2> QED
    BY <2>1, <2>2
<1>9. selected' \in Targets
  BY <1>0, <1>1 DEF Targets
<1>10. Len(fewer) <= MaxNodes
  BY <1>0, <1>3, <1>7, EditorAssumption
<1>11. WellFormed(fewer, Picked(links, S), entry', selected')
  BY <1>3, <1>6, <1>8, <1>9, <1>10 DEF WellFormed
<1> QED
  BY <1>1, <1>2, <1>11, InvMade

LEMMA SetTransitionKeeps ==
  ASSUME EditorInv, NEW to \in StepIds \cup {NoId}, NEW type \in LinkTypes, SetTransition(to, type)
  PROVE  EditorInv'
<1> DEFINE rest == RemoveByType(links, selected, type)
           link == [from |-> selected, to |-> to, type |-> type]
<1>0. /\ nodes \in Seq(NodeSet) /\ Len(nodes) <= MaxNodes
      /\ entry \in Targets /\ selected \in Targets
      /\ nodes # <<>> => entry \in IdsOf(nodes)
      /\ Connects(nodes, links)
  BY EditorParts
<1>1. /\ selected \in IdsOf(nodes)
      /\ links' = IF to = NoId THEN rest ELSE AddLink(rest, link)
      /\ nodes' = nodes /\ entry' = entry /\ selected' = selected
  BY DEF SetTransition
<1>2. /\ Connects(nodes, rest)
      /\ Once(nodes, selected) =>
           \A i \in 1..Len(rest) : ~ (rest[i].from = selected /\ rest[i].type = type)
  BY <1>0, LastRemoved
<1>3. selected \in StepIds
  <2>1. \E k \in 1..Len(nodes) : nodes[k].id = selected
    BY <1>0, <1>1, OnceFacts
  <2> QED
    BY <2>1, EditorParts
<1>4. to # NoId => link \in LinkSet
  BY <1>3 DEF LinkSet
<1>5. link.from = selected /\ link.type = type
  OBVIOUS
<1> HIDE DEF rest, link
<1>6. Connects(nodes, links')
  <2>1. CASE to = NoId
    BY <1>1, <1>2, <2>1
  <2>2. CASE to # NoId
    <3>1. link \in LinkSet /\ link.from \in IdsOf(nodes)
      BY <1>1, <1>4, <1>5, <2>2
    <3>2. Once(nodes, link.from) =>
            \A i \in 1..Len(rest) : ~ (rest[i].from = link.from /\ rest[i].type = link.type)
      BY <1>2, <1>5
    <3>3. Connects(nodes, AddLink(rest, link))
      BY <1>0, <1>2, <3>1, <3>2, LinkAdded
    <3> QED
      BY <1>1, <2>2, <3>3
  <2> QED
    BY <2>1, <2>2
<1>7. WellFormed(nodes, links', entry, selected)
  BY <1>0, <1>6 DEF WellFormed
<1> QED
  BY <1>1, <1>7, InvMade

\* The compensation step of a node: every id stays where it was.
LEMMA SetCompensationKeeps ==
  ASSUME EditorInv, NEW to \in Typed, SetCompensation(to)
  PROVE  EditorInv'
<1> DEFINE of == {i \in DOMAIN nodes : nodes[i].id = selected}
           k == Min(of)
           new == [nodes EXCEPT ![k].comp = to]
<1>0. /\ nodes \in Seq(NodeSet) /\ Len(nodes) <= MaxNodes /\ Len(nodes) \in Nat
      /\ DOMAIN nodes = 1..Len(nodes)
      /\ \A i \in 1..Len(nodes) : nodes[i] \in NodeSet
      /\ entry \in Targets /\ selected \in Targets
      /\ nodes # <<>> => entry \in IdsOf(nodes)
      /\ Connects(nodes, links)
  BY EditorParts
<1>1. of # {} /\ nodes' = new /\ links' = links /\ entry' = entry /\ selected' = selected
  BY DEF SetCompensation
<1>2. to \in Targets
  BY EditorAssumption DEF Targets
<1>3. k \in 1..Len(nodes)
  <2>1. k \in of
    BY <1>0, <1>1, ExtremesExist
  <2> QED
    BY <2>1, <1>0
<1> HIDE DEF k, of
<1>4. [nodes[k] EXCEPT !.comp = to] \in NodeSet /\ [nodes[k] EXCEPT !.comp = to].id = nodes[k].id
  BY <1>0, <1>2, <1>3 DEF NodeSet
<1>5. /\ new \in Seq(NodeSet) /\ Len(new) = Len(nodes) /\ DOMAIN new = DOMAIN nodes
      /\ \A i \in DOMAIN nodes : new[i].id = nodes[i].id
  BY <1>0, <1>3, <1>4
<1>6. new # <<>> => nodes # <<>>
  BY <1>0, <1>5
<1> HIDE DEF new
<1>7. IdsOf(new) = IdsOf(nodes) /\ \A id : Once(new, id) = Once(nodes, id)
  <2>1. IdsOf(new) = IdsOf(nodes)
    BY <1>5 DEF IdsOf
  <2>2. ASSUME NEW id PROVE Once(new, id) = Once(nodes, id)
    <3>1. {i \in DOMAIN new : new[i].id = id} = {i \in DOMAIN nodes : nodes[i].id = id}
      BY <1>5
    <3> QED
      BY <3>1 DEF Once
  <2> QED
    BY <2>1, <2>2
<1>8. Connects(new, links)
  BY <1>0, <1>7 DEF Connects, SingleTargets
<1>9. WellFormed(new, links, entry, selected)
  BY <1>0, <1>5, <1>6, <1>7, <1>8 DEF WellFormed
<1> QED
  BY <1>1, <1>9, InvMade

LEMMA RemoveTransitionKeeps ==
  ASSUME EditorInv, NEW from, NEW type, RemoveTransition(from, type)
  PROVE  EditorInv'
<1> DEFINE S == {i \in DOMAIN links : links[i].from # from}
<1>0. /\ nodes \in Seq(NodeSet) /\ Len(nodes) <= MaxNodes
      /\ entry \in Targets /\ selected \in Targets
      /\ nodes # <<>> => entry \in IdsOf(nodes)
      /\ Connects(nodes, links)
      /\ \A i \in 1..Len(links) : links[i].from \in IdsOf(nodes)
  BY EditorParts
<1>1. /\ links' = Picked(links, S) \/ links' = links
      /\ nodes' = nodes /\ entry' = entry /\ selected' = selected
  BY DEF RemoveTransition
<1> HIDE DEF S
<1>2. \A k \in S \cap (1..Len(links)) :
        /\ links[k].from \in IdsOf(nodes)
        /\ Once(nodes, links[k].from) => Once(nodes, links[k].from)
  BY <1>0
<1>3. Connects(nodes, Picked(links, S))
  BY <1>0, <1>2, LeftOverConnects
<1>4. Connects(nodes, links')
  BY <1>0, <1>1, <1>3
<1>5. WellFormed(nodes, links', entry, selected)
  BY <1>0, <1>4 DEF WellFormed
<1> QED
  BY <1>1, <1>5, InvMade

LEMMA LoadKeeps ==
  ASSUME NEW w, Loadable(w), Load(w)
  PROVE  EditorInv'
<1>1. /\ nodes' = LoadedNodes(w) /\ links' = LoadedLinks(w)
      /\ entry' = LoadedEntry(w) /\ selected' = LoadedEntry(w)
  BY DEF Load
<1>2. WellFormed(LoadedNodes(w), LoadedLinks(w), LoadedEntry(w), LoadedEntry(w))
  BY LoadedIsWellFormed
<1> QED
  BY <1>1, <1>2, InvMade

LEMMA FilesAreLoadable ==
  ASSUME NEW w \in Files
  PROVE  Loadable(w)
<1>1. /\ w.steps \in Seq(StepSet)
      /\ Len(w.steps) <= MaxNodes /\ w.entry \in Targets
      /\ w.entry # NoId => \E i \in DOMAIN w.steps : w.steps[i].id = w.entry
  BY EditorAssumption DEF StepSet
<1>2. DOMAIN w.steps = 1..Len(w.steps)
  BY <1>1
<1> QED
  BY <1>1, <1>2 DEF Loadable

\* The target that is saved is that of a connection, if there is one.
LEMMA TargetFacts ==
  ASSUME EditorInv, NEW id, NEW type
  PROVE  /\ Target(id, type) \in Targets
         /\ Target(id, type) # NoId =>
              \E k \in 1..Len(links) :
                links[k].from = id /\ links[k].type = type /\ links[k].to = Target(id, type)
         /\ \A i \in 1..Len(links) :
              Once(nodes, id) /\ links[i].from = id /\ links[i].type = type =>
                Target(id, type) = links[i].to
<1> DEFINE N == Len(links)
           of == {i \in DOMAIN links : links[i].from = id /\ links[i].type = type}
<1>0. N \in Nat /\ DOMAIN links = 1..N /\ SingleTargets(nodes, links)
      /\ \A i \in 1..N : links[i].to \in StepIds
  BY EditorParts
<1>1. /\ of \subseteq 1..N /\ of \subseteq 0..N
      /\ \A i \in 1..N : i \in of <=> links[i].from = id /\ links[i].type = type
  BY <1>0
<1>2. Target(id, type) = IF of = {} THEN NoId ELSE links[Max(of)].to
  BY DEF Target
<1> HIDE DEF of
<1>3. CASE of = {}
  <2>1. Target(id, type) = NoId /\ NoId \in Targets
    BY <1>2, <1>3 DEF Targets
  <2>2. \A i \in 1..N : ~ (links[i].from = id /\ links[i].type = type)
    BY <1>1, <1>3
  <2> QED
    BY <2>1, <2>2
<1>4. CASE of # {}
  <2> DEFINE m == Max(of)
  <2>1. m \in of /\ Target(id, type) = links[m].to
    BY <1>0, <1>1, <1>2, <1>4, ExtremesExist
  <2> HIDE DEF m
  <2>2. m \in 1..N /\ links[m].from = id /\ links[m].type = type /\ links[m].to \in Targets
    BY <2>1, <1>0, <1>1 DEF Targets
  <2>3. ASSUME NEW i \in 1..N, Once(nodes, id), links[i].from = id, links[i].type = type
        PROVE  i = m
    <3>1. Once(nodes, links[i].from) /\ links[i].from = links[m].from /\ links[i].type = links[m].type
      BY <2>2, <2>3
    <3> QED
      BY <3>1, <2>2, <1>0 DEF SingleTargets
  <2> QED
    BY <2>1, <2>2, <2>3
<1> QED
  BY <1>3, <1>4

LEMMA SavedFacts ==
  ASSUME EditorInv
  PROVE  /\ Loadable(Saved) /\ Len(Saved.steps) = Len(nodes) /\ Saved.entry = entry
         /\ \A i \in 1..Len(nodes) :
              /\ Saved.steps[i] \in StepSet
              /\ Saved.steps[i].id = nodes[i].id /\ Saved.steps[i].comp = nodes[i].comp
              /\ \A type \in LinkTypes : Saved.steps[i].to[type] = Target(nodes[i].id, type)
<1> DEFINE N == Len(nodes)
           step(i) == [id |-> nodes[i].id, comp |-> nodes[i].comp,
                       to |-> [type \in LinkTypes |-> Target(nodes[i].id, type)]]
           all == [i \in 1..N |-> step(i)]
<1>0. /\ N \in Nat /\ DOMAIN nodes = 1..N /\ N <= MaxNodes /\ nodes \in Seq(NodeSet)
      /\ \A i \in 1..N : nodes[i].id \in StepIds /\ nodes[i].comp \in Targets
      /\ entry \in Targets /\ (nodes # <<>> => entry \in IdsOf(nodes))
  BY EditorParts
<1>1. Saved.steps = all /\ Saved.entry = entry
  BY <1>0 DEF Saved
<1>2. ASSUME NEW i \in 1..N
      PROVE  /\ step(i) \in StepSet /\ step(i).id = nodes[i].id /\ step(i).comp = nodes[i].comp
             /\ \A type \in LinkTypes : step(i).to[type] = Target(nodes[i].id, type)
  <2>1. [type \in LinkTypes |-> Target(nodes[i].id, type)] \in [LinkTypes -> Targets]
    BY TargetFacts
  <2> QED
    BY <2>1, <1>0 DEF StepSet
<1> HIDE DEF step
<1>3. all \in Seq(StepSet) /\ Len(all) = N /\ \A i \in 1..N : all[i] = step(i)
  BY <1>0, <1>2
<1>4. all = <<>> <=> N = 0
  BY <1>3, EmptySeq
<1>5. nodes = <<>> <=> N = 0
  BY <1>0, EmptySeq
<1> HIDE DEF all
<1>6. ASSUME all # <<>> PROVE \E i \in 1..N : all[i].id = entry
  <2>1. entry \in IdsOf(nodes)
    BY <1>0, <1>4, <1>5, <1>6
  <2>2. PICK k \in 1..N : nodes[k].id = entry
    BY <2>1, <1>0, OnceFacts
  <2> QED
    BY <2>2, <1>2, <1>3
<1>7. Loadable(Saved)
  BY <1>0, <1>1, <1>3, <1>6 DEF Loadable
<1> QED
  BY <1>1, <1>2, <1>3, <1>7

\* The rows and the workflow a table makes of the nodes.
RowSteps == [i \in DOMAIN nodes |-> [id |-> [group |-> "step", number |-> nodes[i].id],
                                     plugin |-> "carried", policy |-> "fail_fast"]]
SuccessorOf(step) == IF step.next = Blank THEN NoId ELSE step.next.number
TableWorkflow ==
  LET lines == Written(RowSteps)
      steps == Parsed(lines).steps
  IN [entry |-> Parsed(lines).entry.number,
      steps |-> [i \in DOMAIN steps |->
        [id |-> steps[i].id.number, comp |-> NoId,
         to |-> [success |-> SuccessorOf(steps[i]), failure |-> NoId, skipped |-> NoId]]]]

LEMMA TableIsLoadable ==
  ASSUME EditorInv, nodes # <<>>
  PROVE  Loadable(TableWorkflow)
<1> DEFINE N == Len(nodes)
           lines == Written(RowSteps)
           steps == ReadSteps(lines)
           line(i) == [id |-> [group |-> "step", number |-> nodes[i].id],
                       plugin |-> "carried", policy |-> "fail_fast"]
<1>0. /\ N \in Nat /\ DOMAIN nodes = 1..N /\ N <= MaxNodes /\ nodes \in Seq(NodeSet)
      /\ \A i \in 1..N : nodes[i].id \in StepIds
  BY EditorParts
<1>1. N >= 1
  <2>1. N # 0
    BY <1>0, EmptySeq
  <2> QED
    BY <1>0, <2>1
<1>2. IsTable(RowSteps) /\ Len(RowSteps) = N
      /\ \A i \in 1..N : RowSteps[i].id.number = nodes[i].id
  <2> DEFINE all == [i \in 1..N |-> line(i)]
             V == ToSet(all)
  <2>1. RowSteps = all
    BY <1>0 DEF RowSteps
  <2>2. \A i \in 1..N : line(i).id.number = nodes[i].id
    OBVIOUS
  <2> HIDE DEF line
  <2>3. \A i \in 1..N : all[i] \in V
    BY DEF ToSet
  <2> HIDE DEF V
  <2>4. all \in Seq(V) /\ Len(all) = N /\ \A i \in 1..N : all[i] = line(i)
    BY <1>0, <2>3
  <2> HIDE DEF all
  <2>5. \A i \in 1..N : RowSteps[i].id.number = nodes[i].id
    BY <2>1, <2>2, <2>4
  <2> QED
    BY <2>1, <2>4, <2>5 DEF IsTable, V
<1> HIDE DEF line
<1>3. /\ IsTable(lines) /\ Len(lines) = N
      /\ \A i \in 1..N : lines[i] = WrittenRow(RowSteps[i]) /\ IsStep(lines[i])
  BY <1>2, WrittenIsTable
<1>4. \A i \in 1..N : lines[i].number = nodes[i].id
  <2> SUFFICES ASSUME NEW i \in 1..N PROVE lines[i].number = nodes[i].id
    OBVIOUS
  <2>1. lines[i] = WrittenRow(RowSteps[i])
    BY <1>3
  <2>2. WrittenRow(RowSteps[i]).number = RowSteps[i].id.number
    BY DEF WrittenRow
  <2> QED
    BY <1>2, <2>1, <2>2
<1> HIDE DEF lines
<1>5. Len(steps) = N /\ DOMAIN steps = 1..N /\ \A i \in 1..N : steps[i] = StepOf(lines, i)
  BY <1>3, EveryRowRead
<1>6. Parsed(lines) = IF steps = <<>> THEN Blank ELSE [entry |-> steps[1].id, steps |-> steps]
  BY <1>3, StepsRead
<1>7. steps # <<>>
  <2>1. 1 \in DOMAIN steps
    BY <1>0, <1>1, <1>5
  <2> HIDE DEF steps
  <2> QED
    BY <2>1
<1>8. Parsed(lines).steps = steps /\ Parsed(lines).entry = steps[1].id
  BY <1>6, <1>7
<1>9. ASSUME NEW i \in 1..N
      PROVE  steps[i].id.number = nodes[i].id /\ SuccessorOf(steps[i]) \in Targets
  <2>1. lines[i].number # Blank
    BY <1>0, <1>4, EditorAssumption
  <2>2. StepOf(lines, i).id = StepId(lines, i) /\ StepOf(lines, i).next = NextStep(lines, i)
    BY DEF StepOf
  <2>3. StepId(lines, i).number = nodes[i].id
    BY <2>1, <1>4 DEF StepId
  <2>4. NextStep(lines, i) = Blank \/ NextStep(lines, i).number \in StepIds
    <3>1. CASE i < Len(lines) /\ lines[i + 1].number # Blank
      <4>1. i + 1 \in 1..N
        BY <1>0, <1>3, <3>1
      <4>2. lines[i + 1].number \in StepIds
        BY <4>1, <1>0, <1>4
      <4>3. NextStep(lines, i) = [group |-> "step", number |-> lines[i + 1].number]
        BY <3>1 DEF NextStep
      <4> QED
        BY <4>2, <4>3
    <3>2. CASE ~ (i < Len(lines) /\ lines[i + 1].number # Blank)
      BY <3>2 DEF NextStep
    <3> QED
      BY <3>1, <3>2
  <2>5. steps[i].id = StepId(lines, i) /\ steps[i].next = NextStep(lines, i)
    BY <1>5, <2>2
  <2>6. SuccessorOf(steps[i]) \in Targets
    <3>1. SuccessorOf(steps[i]) = IF NextStep(lines, i) = Blank THEN NoId ELSE NextStep(lines, i).number
      BY <2>5 DEF SuccessorOf
    <3>2. NoId \in Targets /\ \A x \in StepIds : x \in Targets
      BY DEF Targets
    <3> QED
      BY <2>4, <3>1, <3>2
  <2> QED
    BY <2>3, <2>5, <2>6
<1> DEFINE row(i) == [id |-> steps[i].id.number, comp |-> NoId,
                      to |-> [success |-> SuccessorOf(steps[i]), failure |-> NoId, skipped |-> NoId]]
           all == [i \in 1..N |-> row(i)]
<1> HIDE DEF steps
<1>10. TableWorkflow = [entry |-> steps[1].id.number, steps |-> all]
  BY <1>5, <1>8 DEF TableWorkflow, lines
<1>11. ASSUME NEW i \in 1..N PROVE row(i) \in StepSet /\ row(i).id = nodes[i].id
  <2>1. [success |-> SuccessorOf(steps[i]), failure |-> NoId, skipped |-> NoId] \in [LinkTypes -> Targets]
    <3>1. NoId \in Targets /\ SuccessorOf(steps[i]) \in Targets
      BY <1>9 DEF Targets
    <3> DEFINE s == SuccessorOf(steps[i])
    <3> HIDE DEF s
    <3>2. [success |-> s, failure |-> NoId, skipped |-> NoId] \in [LinkTypes -> Targets]
      BY <3>1 DEF LinkTypes, s
    <3> QED
      BY <3>2 DEF s
  <2>2. steps[i].id.number = nodes[i].id /\ nodes[i].id \in StepIds /\ NoId \in Targets
    BY <1>0, <1>9 DEF Targets
  <2> QED
    BY <2>1, <2>2 DEF StepSet
<1> HIDE DEF row
<1>12. all \in Seq(StepSet) /\ Len(all) = N /\ \A i \in 1..N : all[i] = row(i)
  BY <1>0, <1>11
<1>13. steps[1].id.number = nodes[1].id /\ 1 \in 1..N /\ nodes[1].id \in StepIds
  BY <1>0, <1>1, <1>9
<1>14. all[1].id = nodes[1].id
  BY <1>11, <1>12, <1>13
<1>15. nodes[1].id \in Targets
  BY <1>13 DEF Targets
<1> HIDE DEF all
<1>16. TableWorkflow.steps = all /\ TableWorkflow.entry = nodes[1].id
  BY <1>10, <1>13
<1> QED
  BY <1>0, <1>12, <1>13, <1>14, <1>15, <1>16 DEF Loadable

LEMMA ReloadTableKeeps ==
  ASSUME EditorInv, ReloadTable
  PROVE  EditorInv'
<1>1. nodes # <<>> /\ Load(TableWorkflow)
  BY DEF ReloadTable, TableWorkflow, RowSteps, SuccessorOf
<1>2. Loadable(TableWorkflow)
  BY <1>1, TableIsLoadable
<1> QED
  BY <1>1, <1>2, LoadKeeps

LEMMA NothingIsWellFormed == WellFormed(<<>>, <<>>, NoId, NoId)
<1>1. <<>> \in Seq(NodeSet) /\ <<>> \in Seq(LinkSet) /\ Len(<<>>) = 0
  OBVIOUS
<1>2. 0 <= MaxNodes
  BY EditorAssumption
<1>3. 1..Len(<<>>) = {}
  BY <1>1
<1>4. SingleTargets(<<>>, <<>>)
  BY <1>3 DEF SingleTargets
<1>5. Connects(<<>>, <<>>)
  BY <1>1, <1>3, <1>4 DEF Connects
<1> QED
  BY <1>1, <1>2, <1>5 DEF WellFormed, Targets

LEMMA EditorInvInit == EditorInit => EditorInv
BY NothingIsWellFormed DEF EditorInit, EditorInv

LEMMA EditorInvStep == EditorInv /\ [EditorNext]_editorVars => EditorInv'
<1> SUFFICES ASSUME EditorInv, [EditorNext]_editorVars PROVE EditorInv'
  OBVIOUS
<1>1. ASSUME NEW id \in StepIds, AddNode(id) PROVE EditorInv'
  BY <1>1, AddNodeKeeps
<1>2. ASSUME NEW id \in StepIds, RemoveNode(id) PROVE EditorInv'
  BY <1>2, RemoveNodeKeeps
<1>3. ASSUME NEW id \in IdsOf(nodes) \cup {NoId}, SelectNode(id) PROVE EditorInv'
  <2>1. selected' = id /\ nodes' = nodes /\ links' = links /\ entry' = entry
    BY <1>3 DEF SelectNode
  <2>2. id \in Targets
    <3>1. ASSUME id \in IdsOf(nodes) PROVE id \in StepIds
      <4>1. nodes \in Seq(NodeSet) /\ \A k \in 1..Len(nodes) : nodes[k].id \in StepIds
        BY EditorParts
      <4>2. PICK k \in 1..Len(nodes) : nodes[k].id = id
        BY <3>1, <4>1, OnceFacts
      <4> QED
        BY <4>1, <4>2
    <3> QED
      BY <3>1 DEF Targets
  <2>3. WellFormed(nodes, links, entry, id)
    BY <2>2 DEF EditorInv, WellFormed
  <2> QED
    BY <2>1, <2>3, InvMade
<1>4. ASSUME NEW to \in StepIds \cup {NoId}, NEW type \in LinkTypes, SetTransition(to, type)
      PROVE  EditorInv'
  BY <1>4, SetTransitionKeeps
<1>5. ASSUME NEW from \in IdsOf(nodes), NEW type \in LinkTypes, RemoveTransition(from, type)
      PROVE  EditorInv'
  BY <1>5, RemoveTransitionKeeps
<1>6. ASSUME NEW workflow \in Files, Load(workflow) PROVE EditorInv'
  BY <1>6, FilesAreLoadable, LoadKeeps
<1>7. ASSUME Reload PROVE EditorInv'
  <2>1. Loadable(Saved) /\ Load(Saved)
    BY <1>7, SavedFacts DEF Reload
  <2> QED
    BY <2>1, LoadKeeps
<1>8. ASSUME ReloadTable PROVE EditorInv'
  BY <1>8, ReloadTableKeeps
<1>9. ASSUME NewWorkflow PROVE EditorInv'
  <2>1. nodes' = <<>> /\ links' = <<>> /\ entry' = NoId /\ selected' = NoId
    BY <1>9 DEF NewWorkflow
  <2> QED
    BY <2>1, NothingIsWellFormed, InvMade
<1>10. CASE UNCHANGED editorVars
  <2>1. nodes' = nodes /\ links' = links /\ entry' = entry /\ selected' = selected
    BY <1>10 DEF editorVars
  <2> QED
    BY <2>1 DEF EditorInv
<1>11. ASSUME NEW to \in Typed, SetCompensation(to) PROVE EditorInv'
  BY <1>11, SetCompensationKeeps
<1> QED
  BY <1>1, <1>2, <1>3, <1>4, <1>5, <1>6, <1>7, <1>8, <1>9, <1>10, <1>11 DEF EditorNext

-------------------------------------------------------------------------------
LEMMA EditorIsTyped == ASSUME EditorInv PROVE EditorTypeOK
<1>1. /\ Len(nodes) <= MaxNodes /\ entry \in Targets /\ selected \in Targets
      /\ DOMAIN nodes = 1..Len(nodes) /\ DOMAIN links = 1..Len(links)
      /\ \A i \in 1..Len(nodes) : nodes[i] \in NodeSet
      /\ \A i \in 1..Len(links) : links[i] \in LinkSet
  BY EditorParts
<1>2. \A i \in DOMAIN nodes : nodes[i] \in [id : StepIds, comp : StepIds \cup {NoId}]
  BY <1>1 DEF NodeSet, Targets
<1>3. \A i \in DOMAIN links :
        links[i] \in [from : StepIds, to : StepIds, type : LinkTypes \cup {"compensation"}]
  BY <1>1 DEF LinkSet
<1> QED
  BY <1>1, <1>2, <1>3 DEF EditorTypeOK, Targets

LEMMA EditorResolves == ASSUME EditorInv PROVE NamesResolve /\ OneTarget
<1>1. /\ nodes # <<>> => entry \in IdsOf(nodes)
      /\ DOMAIN links = 1..Len(links) /\ SingleTargets(nodes, links)
      /\ \A i \in 1..Len(links) : links[i].from \in IdsOf(nodes)
  BY EditorParts
<1>2. \A id : UsedOnce(id) <=> Once(nodes, id)
  BY DEF UsedOnce, Once
<1>3. OneTarget
  BY <1>1, <1>2 DEF OneTarget, SingleTargets
<1> QED
  BY <1>1, <1>3 DEF NamesResolve

\* What is saved and loaded again has the connections of the steps whose ids differ.
LEMMA SavingKeepsLinks ==
  ASSUME EditorInv, NEW id, Once(nodes, id), NEW x, x.from = id, x.type \in LinkTypes
  PROVE  x \in ToSet(LoadedLinks(Saved)) <=> x \in ToSet(links)
<1> DEFINE N == Len(nodes)
<1>0. /\ nodes \in Seq(NodeSet) /\ links \in Seq(LinkSet)
      /\ \A i \in 1..Len(links) : links[i] \in LinkSet /\ links[i].from \in IdsOf(nodes) /\ links[i].to \in StepIds
  BY EditorParts
<1>1. /\ Loadable(Saved) /\ Len(Saved.steps) = N
      /\ \A i \in 1..N : /\ Saved.steps[i].id = nodes[i].id
                         /\ \A type \in LinkTypes : Saved.steps[i].to[type] = Target(nodes[i].id, type)
  BY SavedFacts
<1>2. \A y : y \in ToSet(LoadedLinks(Saved)) <=> \E i \in 1..N : y \in LinksOf(Saved.steps[i])
  BY <1>1, LoadedLinksFacts
<1>3. ToSet(links) = {links[i] : i \in 1..Len(links)}
  BY <1>0, ElementsAt
<1>4. "compensation" \notin LinkTypes
  BY DEF LinkTypes
<1>5. ASSUME x \in ToSet(LoadedLinks(Saved)) PROVE x \in ToSet(links)
  <2>1. PICK i \in 1..N : x \in LinksOf(Saved.steps[i])
    BY <1>2, <1>5
  <2>2. x \in LinkSet /\ x.from = Saved.steps[i].id /\ x.to = TargetOf(Saved.steps[i], x.type)
    BY <2>1 DEF LinksOf
  <2>3. nodes[i].id = id
    BY <2>2, <1>1
  <2>4. TargetOf(Saved.steps[i], x.type) = Saved.steps[i].to[x.type]
    BY <1>4 DEF TargetOf
  <2>5. x.to = Target(id, x.type)
    BY <2>2, <2>3, <2>4, <1>1
  <2>6. x.to # NoId
    BY <2>2, EditorAssumption DEF LinkSet
  <2>7. PICK k \in 1..Len(links) :
          links[k].from = id /\ links[k].type = x.type /\ links[k].to = Target(id, x.type)
    BY <2>5, <2>6, TargetFacts
  <2>8. links[k] \in LinkSet /\ links[k].from = x.from /\ links[k].to = x.to /\ links[k].type = x.type
    BY <2>5, <2>7, <1>0
  <2>9. links[k] = x
    BY <2>2, <2>8 DEF LinkSet
  <2> QED
    BY <2>9, <1>3
<1>6. ASSUME x \in ToSet(links) PROVE x \in ToSet(LoadedLinks(Saved))
  <2>1. PICK k \in 1..Len(links) : links[k] = x
    BY <1>3, <1>6
  <2>2. x \in LinkSet /\ x.from \in IdsOf(nodes)
    BY <2>1, <1>0
  <2>3. PICK i \in 1..N : nodes[i].id = id
    BY <2>2, <1>0, OnceFacts
  <2>4. Target(id, x.type) = x.to
    BY <2>1, TargetFacts
  <2>5. Saved.steps[i].id = id /\ Saved.steps[i].to[x.type] = x.to
    BY <2>3, <2>4, <1>1
  <2>6. TargetOf(Saved.steps[i], x.type) = x.to
    BY <2>5, <1>4 DEF TargetOf
  <2>7. x \in LinksOf(Saved.steps[i])
    BY <2>2, <2>5, <2>6 DEF LinksOf
  <2> QED
    BY <2>7, <1>2
<1> QED
  BY <1>5, <1>6

LEMMA EditorRoundTrips == ASSUME EditorInv PROVE RoundTrip
<1> DEFINE between(list) ==
             {list[i] : i \in {j \in DOMAIN list : list[j].type \in LinkTypes /\ UsedOnce(list[j].from)}}
           again == LoadedLinks(Saved)
           N == Len(nodes)
<1>0. /\ nodes \in Seq(NodeSet) /\ links \in Seq(LinkSet) /\ N \in Nat
      /\ \A i \in 1..N : nodes[i] \in NodeSet
      /\ entry \in Targets /\ (nodes # <<>> => entry \in IdsOf(nodes))
      /\ \A i \in 1..N : nodes[i].id \in StepIds
  BY EditorParts
<1>1. /\ Loadable(Saved) /\ Len(Saved.steps) = N /\ Saved.entry = entry
      /\ \A i \in 1..N : Saved.steps[i].id = nodes[i].id /\ Saved.steps[i].comp = nodes[i].comp
  BY SavedFacts
<1>2. LoadedNodes(Saved) = nodes
  <2> DEFINE back == LoadedNodes(Saved)
  <2>1. /\ back \in Seq(NodeSet) /\ Len(back) = N
        /\ \A i \in 1..N : back[i] = [id |-> Saved.steps[i].id, comp |-> Saved.steps[i].comp]
    BY <1>1, LoadedNodesFacts
  <2> HIDE DEF back
  <2>2. \A i \in 1..N : back[i] = nodes[i]
    <3> SUFFICES ASSUME NEW i \in 1..N PROVE back[i] = nodes[i]
      OBVIOUS
    <3>1. back[i] = [id |-> nodes[i].id, comp |-> nodes[i].comp]
      BY <1>1, <2>1
    <3>2. nodes[i] = [id |-> nodes[i].id, comp |-> nodes[i].comp]
      BY <1>0 DEF NodeSet
    <3> QED
      BY <3>1, <3>2
  <2>3. back = nodes
    BY <1>0, <2>1, <2>2
  <2> QED
    BY <2>3 DEF back
<1>3. nodes # <<>> => LoadedEntry(Saved) = entry
  <2> SUFFICES ASSUME nodes # <<>> PROVE LoadedEntry(Saved) = entry
    OBVIOUS
  <2>1. entry \in StepIds
    BY <1>0, OnceFacts
  <2>2. entry # NoId
    BY <2>1, EditorAssumption
  <2> QED
    BY <2>2, <1>1, LoadedEntryFacts
<1>4. again \in Seq(LinkSet)
  BY <1>1, LoadedLinksFacts
<1>5. \A id : UsedOnce(id) <=> Once(nodes, id)
  BY DEF UsedOnce, Once
<1> HIDE DEF again
<1>6. ASSUME NEW list \in Seq(LinkSet)
      PROVE  between(list) = {x \in ToSet(list) : x.type \in LinkTypes /\ Once(nodes, x.from)}
  <2>1. ToSet(list) = {list[i] : i \in 1..Len(list)} /\ DOMAIN list = 1..Len(list)
    BY ElementsAt
  <2> QED
    BY <2>1, <1>5
<1>7. \A x : x.type \in LinkTypes /\ Once(nodes, x.from) => (x \in ToSet(again) <=> x \in ToSet(links))
  BY SavingKeepsLinks DEF again
<1> DEFINE A == between(again)
           B == between(links)
<1>8. A = {x \in ToSet(again) : x.type \in LinkTypes /\ Once(nodes, x.from)}
  BY <1>4, <1>6
<1>9. B = {x \in ToSet(links) : x.type \in LinkTypes /\ Once(nodes, x.from)}
  BY <1>0, <1>6
<1> HIDE DEF A, B
<1>10. A = B
  BY <1>7, <1>8, <1>9
<1> QED
  BY <1>2, <1>3, <1>10 DEF RoundTrip, A, B, again

\* However it is edited, and from wherever it was loaded, a workflow has an entry among
\* its nodes, one target for each type of connection, and is itself after it was saved and
\* loaded again (WorkflowEditorModel): for all ids, files and sizes.
THEOREM EditorIsSound == EditorSpec => []EditorSound
<1>1. EditorInv => EditorSound
  BY EditorIsTyped, EditorResolves, EditorRoundTrips DEF EditorSound
<1> QED
  BY <1>1, EditorInvInit, EditorInvStep, PTL DEF EditorSpec
===============================================================================
