---------------------------- MODULE WorkflowSheet ----------------------------
(***************************************************************************)
(* A workflow as a spreadsheet (XlsxParser): the rows of the step table    *)
(* and the device table make a definition when it is read, and a           *)
(* definition saved by the editor makes rows.  A row may be typed by hand: *)
(* without a number, with a number that is taken, with neither a device    *)
(* type nor an action.                                                     *)
(*                                                                         *)
(* An id is its last section and "step" or what else stands before it.     *)
(* Of a row's parameters only those are kept that name the connection; a   *)
(* value is named after the cell it comes from.  The text of a             *)
(* configuration cell is a sequence of kinds of characters, with quotes of *)
(* one form and brackets of one form; spaces are left out.                 *)
(***************************************************************************)
EXTENDS ListLoops, SequencesExt, FiniteSetsExt

CONSTANTS Tables,      \* step tables typed by hand
          Definitions, \* definitions saved by the editor
          DeviceTable, \* the device table: a function from names
          Inferred,    \* inferPluginId, by device type (the empty one too)
          Blank,       \* an empty cell
          Characters,  \* kinds of characters
          MaxText      \* bound: the length of a configuration text

ASSUME SheetAssumption == MaxText \in Nat /\ Blank \notin DOMAIN DeviceTable

\* A saved step has a plugin, an id that is not empty, and one of two policies.
ASSUME TablesAssumption ==
  /\ \A rows \in Tables : rows \in Seq(ToSet(rows))
  /\ \A definition \in Definitions :
       /\ definition \in Seq(ToSet(definition))
       /\ \A i \in DOMAIN definition :
            /\ Blank \notin {definition[i].plugin, definition[i].id.number}
            /\ definition[i].policy \in {"fail_fast", "continue_on_error"}

VARIABLES table,    \* the rows of the file, <<>> if there is none
          origin,   \* history: the definition it was written from, or Blank
          read,     \* what the last reading returned, Blank if it failed
          text      \* the text of a configuration cell

sheetVars == <<table, origin, read, text>>

SheetInit == table = <<>> /\ origin = Blank /\ read = Blank /\ text = <<>>

-------------------------------------------------------------------------------
(***************************************************************************)
(* Rows to steps.                                                          *)
(***************************************************************************)

\* A row with neither is passed over.
IsStep(row) == row.type # Blank \/ row.action # Blank

\* A step without a number is numbered by its row.
StepId(rows, i) ==
  [group |-> "step", number |-> IF rows[i].number = Blank THEN i ELSE rows[i].number]

PluginOf(row) == IF row.plugin # Blank THEN row.plugin ELSE Inferred[row.type]

\* parseFailurePolicyText: retries come with "retry" only, and then it fails fast.
RetriesOf(row) == IF row.policy = "retry" THEN 1 ELSE 0
PolicyOf(row) == IF row.policy = "continue" THEN "continue_on_error" ELSE "fail_fast"

\* A mutant: the number of the step itself plus one.
MutantNextStep(rows, i) ==
  IF i < Len(rows) THEN [group |-> "step", number |-> i + 1] ELSE Blank

\* The number of the next row, whether that is a step or not.
NextStep(rows, i) ==
  IF i < Len(rows) /\ rows[i + 1].number # Blank
  THEN [group |-> "step", number |-> rows[i + 1].number] ELSE Blank

\* The address a device goes by.
PortCell(name) ==
  LET d == DeviceTable[name] IN
    IF d.address # Blank THEN d.address ELSE IF d.sub # Blank THEN d.sub ELSE name

\* The kind of connection, by its column or else by the address.
ConnectType(name) ==
  LET d == DeviceTable[name] IN
    IF d.connection \in {"visa", "tcp", "serial"} THEN d.connection
    ELSE IF PortCell(name) = "com" THEN "serial"
    ELSE IF PortCell(name) = "ip" THEN "tcp" ELSE Blank

TcpPort(name) ==
  IF name \in DOMAIN DeviceTable /\ DeviceTable[name].connection = "tcp" THEN DeviceTable[name].sub ELSE Blank

\* What the device table adds to the parameters of a step.  A port of the step's own
\* stays, but for Modbus over a TCP port of the device.
Connection(row) ==
  LET name == row.device
      known == name \in DOMAIN DeviceTable
      own == IF row.ownPort THEN "own" ELSE Blank
  IN [type |-> IF known THEN ConnectType(name) ELSE Blank,
      port |-> IF ~known THEN own
               ELSE IF PluginOf(row) = "modbus" /\ TcpPort(name) # Blank THEN TcpPort(name)
               ELSE IF row.ownPort THEN own ELSE PortCell(name),
      virtual |-> known /\ DeviceTable[name].address = "virtual"]

StepOf(rows, i) ==
  [id |-> StepId(rows, i), plugin |-> PluginOf(rows[i]),
   retries |-> RetriesOf(rows[i]), policy |-> PolicyOf(rows[i]),
   next |-> NextStep(rows, i), connection |-> Connection(rows[i])]

\* parseWorkflowDefinitionXlsx: the steps in the order of their rows, the first of them
\* the entry; without any it fails.
Parsed(rows) ==
  LET steps == Picked([i \in DOMAIN rows |-> StepOf(rows, i)], {i \in DOMAIN rows : IsStep(rows[i])})
  IN IF steps = <<>> THEN Blank ELSE [entry |-> steps[1].id, steps |-> steps]

-------------------------------------------------------------------------------
(***************************************************************************)
(* Steps to rows.                                                          *)
(***************************************************************************)

\* writeWorkflowDefinitionXlsx: of an id the last section, of a policy whether it goes on;
\* transitions go to a remark.
WrittenRow(step) ==
  [number |-> step.id.number, type |-> "written", action |-> "execute", plugin |-> step.plugin,
   policy |-> IF step.policy = "continue_on_error" THEN "continue" ELSE "stop",
   device |-> step.plugin, ownPort |-> FALSE]

Written(steps) == [i \in DOMAIN steps |-> WrittenRow(steps[i])]

\* No id is an empty cell.
ASSUME BlankAssumption ==
  \A rows \in Tables \cup {Written(definition) : definition \in Definitions} :
    \A i \in DOMAIN rows : StepId(rows, i) # Blank

-------------------------------------------------------------------------------
(***************************************************************************)
(* parseConfigPairs: splitting at the commas outside quotes and brackets.  *)
(***************************************************************************)

Scan(state, ch) ==
  LET quote == IF ch = "quote" THEN ~state.quote ELSE state.quote
      nesting == IF state.quote \/ quote THEN state.nesting
                 ELSE IF ch = "open" THEN state.nesting + 1
                 ELSE IF ch = "close" /\ state.nesting > 0 THEN state.nesting - 1
                 ELSE state.nesting
  IN IF ch = "comma" /\ ~quote /\ nesting = 0
     THEN [quote |-> quote, nesting |-> nesting, current |-> <<>>,
           pairs |-> IF state.current = <<>> THEN state.pairs ELSE Append(state.pairs, state.current)]
     ELSE [quote |-> quote, nesting |-> nesting, current |-> Append(state.current, ch),
           pairs |-> state.pairs]

Segments(t) ==
  LET state[n \in 0..Len(t)] ==
        IF n = 0 THEN [quote |-> FALSE, nesting |-> 0, current |-> <<>>, pairs |-> <<>>]
        ELSE Scan(state[n - 1], t[n])
      end == state[Len(t)]
  IN IF end.current = <<>> THEN end.pairs ELSE Append(end.pairs, end.current)

\* A segment is a pair if something stands before its first "=".
ConfigPairs(t) == SelectSeq(Segments(t), LAMBDA s : SelectInSeq(s, LAMBDA ch : ch = "equals") > 1)

-------------------------------------------------------------------------------
(***************************************************************************)
(* Operations.                                                             *)
(***************************************************************************)

TypeTable(rows) ==
  /\ table' = rows /\ origin' = Blank /\ read' = Blank
  /\ UNCHANGED text

\* saveCurrentWorkflow
SaveTable(definition) ==
  /\ table' = Written(definition) /\ origin' = definition /\ read' = Blank
  /\ UNCHANGED text

\* loadFromFile, or a worker reads its workflow.
ReadTable ==
  /\ table # <<>>
  /\ read' = Parsed(table)
  /\ UNCHANGED <<table, origin, text>>

TypeText(ch) ==
  /\ table = <<>> /\ Len(text) < MaxText
  /\ text' = Append(text, ch)
  /\ UNCHANGED <<table, origin, read>>

\* Every file is one of its own.
SheetNext ==
  \/ /\ table = <<>> /\ text = <<>>
     /\ \/ \E rows \in Tables : TypeTable(rows)
        \/ \E definition \in Definitions : SaveTable(definition)
  \/ ReadTable
  \/ \E ch \in Characters : TypeText(ch)

SheetSpec == SheetInit /\ [][SheetNext]_sheetVars

-------------------------------------------------------------------------------

\* Types.
SheetTypeOK ==
  /\ text \in BoundedSeq(Characters, MaxText)
  /\ read # Blank => read.steps # <<>> /\ read.entry = read.steps[1].id

Numbered(rows) == \A i \in DOMAIN rows : rows[i].number # Blank /\ IsStep(rows[i])
NumbersDiffer(rows) == \A i, j \in DOMAIN rows : rows[i].number = rows[j].number => i = j

\* "Sequential by default" (XlsxParser.cpp:452): if every row is a numbered step and no
\* number is used twice, the run that begins at the entry and follows the transitions
\* takes every step of the table, in its order, and ends.
RowsInOrder ==
  read # Blank /\ Numbered(table) /\ NumbersDiffer(table) =>
    /\ Len(read.steps) = Len(table)
    /\ \A i \in DOMAIN read.steps :
         LET named == {j \in DOMAIN read.steps : read.steps[j].id = read.steps[i].next} IN
           named = IF i < Len(table) THEN {i + 1} ELSE {}
    /\ read.steps[Len(table)].next = Blank

\* A transition names a step of the table or, after the row of one that is passed over,
\* nothing: never two steps, unless a number is used twice.
TransitionsUnique ==
  read # Blank /\ (\A i, j \in DOMAIN read.steps : read.steps[i].id = read.steps[j].id => i = j) =>
    \A s \in Range(read.steps) : s.next # Blank =>
      \/ Cardinality({j \in DOMAIN read.steps : read.steps[j].id = s.next}) = 1
      \/ \E i \in DOMAIN table : table[i].number = s.next.number /\ ~IsStep(table[i])

\* What is saved and read again has the same steps with the same plugins and failure
\* policies, in the same order; only the last section of an id is kept.
TableRoundTrip ==
  read # Blank /\ origin # Blank =>
    /\ Len(read.steps) = Len(origin)
    /\ \A i \in DOMAIN origin :
         /\ read.steps[i].plugin = origin[i].plugin /\ read.steps[i].policy = origin[i].policy
         /\ read.steps[i].id = [group |-> "step", number |-> origin[i].id.number]

\* "Do not overwrite the port of the step" (XlsxParser.cpp:417-419): a step that has a
\* port of its own connects to it or, with Modbus, to the TCP port of its device, and
\* never takes the address for a port.
PortsKept ==
  read # Blank /\ origin = Blank /\ (\A i \in DOMAIN table : IsStep(table[i])) =>
    \A i \in DOMAIN table : table[i].ownPort =>
      read.steps[i].connection.port \in {"own", TcpPort(table[i].device)}

\* How many quotes there are up to a place of a text, whether the place is outside of
\* quotes, and by how much the brackets opened outrun those closed from one to another.
Quotes(t, i) == Cardinality({j \in 1..i : t[j] = "quote"})
Bare(t, i) == Quotes(t, i) % 2 = 0 /\ t[i] # "quote"
Depth(t, from, to) ==
  Cardinality({j \in from..to : Bare(t, j) /\ t[j] = "open"})
    - Cardinality({j \in from..to : Bare(t, j) /\ t[j] = "close"})
Cuts(t) == {i \in 1..Len(t) : t[i] = "comma" /\ Bare(t, i) /\ \A j \in 1..i : Depth(t, j, i) <= 0}

\* Where the piece begins that ends before a place.
Begin(t, i) == 1 + Max({0} \cup {j \in Cuts(t) : j < i})

Pieces(t) == [i \in 1..Len(t) + 1 |-> SubSeq(t, Begin(t, i), i - 1)]

\* A text is cut at the commas before which quotes are closed and brackets balanced, and
\* nowhere else (XlsxParser.cpp:70-87): a JSON value inside a cell stays whole.
SplitExact ==
  LET ends == Cuts(text) \cup {Len(text) + 1}
  IN  Segments(text) = Picked(Pieces(text), {i \in ends : Begin(text, i) < i})

\* Tables are read as they are written.
SheetSound ==
  SheetTypeOK /\ RowsInOrder /\ TransitionsUnique /\ TableRoundTrip /\ PortsKept /\ SplitExact
===============================================================================
