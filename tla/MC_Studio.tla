------------------------------- MODULE MC_Studio -------------------------------
(***************************************************************************)
(* The parts of Studio on small instances: the cells and their control     *)
(* file, the list of tasks, the workflow editor, and workflows as tables.  *)
(* They share nothing, so every behaviour is about one of them, the        *)
(* subject; the other parts stay as they began.                            *)
(***************************************************************************)
EXTENDS ControlFile, TaskList, WorkflowEditor

VARIABLE subject

vars == <<subject, controlVars, taskListVars, editorVars, sheetVars>>

CONSTANTS w1, w2, s1

\* Two tasks with a workflow each.
WorkflowsOfTasks == <<w1, w2>>

\* A workflow written by hand, without an entry: two steps, the second first, with one
\* step that compensates for the other.
HandWritten == {[entry |-> NoId,
  steps |-> <<[id |-> 2, comp |-> NoId, to |-> [success |-> NoId, failure |-> NoId, skipped |-> NoId]],
              [id |-> 1, comp |-> 2, to |-> [success |-> 2, failure |-> 2, skipped |-> NoId]]>>]}

Devices ==
  [visa |-> [address |-> "ip", sub |-> Blank, connection |-> "visa"],
   lan |-> [address |-> "ip", sub |-> "sub", connection |-> "tcp"],
   host |-> [address |-> "ip", sub |-> Blank, connection |-> "tcp"],
   line |-> [address |-> "com", sub |-> Blank, connection |-> Blank],
   bare |-> [address |-> Blank, sub |-> Blank, connection |-> "serial"],
   fake |-> [address |-> "virtual", sub |-> "sub", connection |-> Blank]]
\* Rows typed by hand.  Numbers may be missing, taken or out of order, and rows may have
\* neither a type nor an action; rows of one table differ in what connects them, and
\* tables of one row show that.
OrderRows ==
  {[number |-> n, type |-> k.type, action |-> k.action, plugin |-> Blank, policy |-> "retry",
    device |-> Blank, ownPort |-> FALSE] :
     n \in {Blank, 1, 2, 3},
     k \in {[type |-> Blank, action |-> Blank], [type |-> "bus", action |-> Blank],
            [type |-> Blank, action |-> "wait"]}}
DeviceRows ==
  [number : {1}, type : {"bus"}, action : {"read"}, plugin : {Blank, "meter"},
   policy : {Blank, "stop", "continue", "retry"}, device : DOMAIN Devices \cup {Blank, "unknown"},
   ownPort : BOOLEAN]
HandTables == UNION {[1..n -> OrderRows] : n \in 1..3} \cup {<<row>> : row \in DeviceRows}

PluginOfType == [type \in {Blank, "bus", "written"} |-> IF type = "bus" THEN "modbus" ELSE Blank]

\* What the editor saves: up to two steps, whose ids may share their last section.
SavedDefinitions ==
  UNION {[1..n -> [id : [group : {"step", "other"}, number : {1, 2}], plugin : {"modbus", "meter"},
                   policy : {"fail_fast", "continue_on_error"}]] : n \in 1..2}

Init ==
  /\ subject \in {"control", "list", "editor", "sheet"}
  /\ ControlInit /\ TaskListInit /\ EditorInit /\ SheetInit
  /\ subject # "control" => file = "absent"

Next ==
  \/ subject = "control" /\ ControlNext /\ UNCHANGED <<subject, taskListVars, editorVars, sheetVars>>
  \/ subject = "list" /\ TaskListNext /\ UNCHANGED <<subject, controlVars, editorVars, sheetVars>>
  \/ subject = "editor" /\ EditorNext /\ UNCHANGED <<subject, controlVars, taskListVars, sheetVars>>
  \/ subject = "sheet" /\ SheetNext /\ UNCHANGED <<subject, controlVars, taskListVars, editorVars>>

\* The processes run, a step of a worker comes to an end, and a write that has begun ends.
\* Nobody has to click.  What belongs to another subject never changes, so each condition
\* is about the variables of its own.
Fairness ==
  /\ WF_controlVars(subject = "control" /\ WriteEnds)
  /\ \A r \in Runs :
       /\ WF_controlVars(subject = "control" /\ OrchestratorActs(r))
       /\ WF_controlVars(subject = "control" /\ WorkerActs(r))

Spec == Init /\ [][Next]_vars /\ Fairness
===============================================================================
