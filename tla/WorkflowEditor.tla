---------------------------- MODULE WorkflowEditor ----------------------------
(***************************************************************************)
(* The workflow editor of Studio: a list of nodes and a list of            *)
(* connections, edited apart from each other, the entry step, the          *)
(* selection, and the form in which a workflow is saved and loaded.        *)
(*                                                                         *)
(* A node is its id and its compensation step: position, plugin and policy *)
(* are carried along unread.  An id is typed, or counted ("step." and the  *)
(* number of nodes plus one), so it may be taken already.  A file loaded   *)
(* was saved by the editor, or is one of Files, in which ids differ and    *)
(* the entry, where there is one, is a step.                               *)
(***************************************************************************)
EXTENDS WorkflowSheet

CONSTANTS StepIds,   \* ids of steps
          NoId,      \* the empty id
          Files,     \* workflows written by hand
          Typed,     \* ids typed as a step that compensates for another
          MaxNodes, MaxLinks  \* bounds: the size of a workflow

LinkTypes == {"success", "failure", "skipped"}

Targets == StepIds \cup {NoId}

ASSUME EditorAssumption ==
  /\ Typed \subseteq StepIds \cup {NoId}
  /\ NoId \notin StepIds /\ Blank \notin StepIds /\ {MaxNodes, MaxLinks} \subseteq Nat
  /\ \A workflow \in Files :
       /\ workflow.steps \in Seq([id : StepIds, comp : Targets, to : [LinkTypes -> Targets]])
       /\ Len(workflow.steps) <= MaxNodes /\ workflow.entry \in Targets
       /\ workflow.entry # NoId =>
            \E i \in DOMAIN workflow.steps : workflow.steps[i].id = workflow.entry

VARIABLES nodes,    \* nodeModel_
          links,    \* connModel_
          entry,    \* entryStepId_
          selected  \* selectedStepId_

editorVars == <<nodes, links, entry, selected>>

EditorInit == nodes = <<>> /\ links = <<>> /\ entry = NoId /\ selected = NoId

IdsOf(list) == {list[i].id : i \in DOMAIN list}

-------------------------------------------------------------------------------
(***************************************************************************)
(* The lists.                                                              *)
(***************************************************************************)

\* addConnection
AddLink(list, link) == IF Contains(list, link) THEN list ELSE Append(list, link)

\* removeConnectionsByType: the last of them.
RemoveByType(list, from, type) ==
  LET of == {i \in DOMAIN list : list[i].from = from /\ list[i].type = type} IN
    IF of = {} THEN list ELSE Picked(list, DOMAIN list \ {Max(of)})

\* EditorNodeListModel::removeNode: the first of that id.
RemoveById(list, id) ==
  LET of == {i \in DOMAIN list : list[i].id = id} IN
    IF of = {} THEN list ELSE Picked(list, DOMAIN list \ {Min(of)})

\* removeConnectionsFrom, removeConnectionsTo
Without(list, id) == Picked(list, {i \in DOMAIN list : id \notin {list[i].from, list[i].to}})

-------------------------------------------------------------------------------
(***************************************************************************)
(* Saving and loading.                                                     *)
(***************************************************************************)

\* The target saved for a step: the last connection wins.
Target(id, type) ==
  LET of == {i \in DOMAIN links : links[i].from = id /\ links[i].type = type} IN
    IF of = {} THEN NoId ELSE links[Max(of)].to

\* toJson
Saved ==
  [entry |-> entry,
   steps |-> [i \in DOMAIN nodes |->
                [id |-> nodes[i].id, comp |-> nodes[i].comp,
                 to |-> [type \in LinkTypes |-> Target(nodes[i].id, type)]]]]

\* The connections loadFromJson makes of a step, in this order.
StepLinks(step) ==
  LET all == <<[from |-> step.id, to |-> step.to["success"], type |-> "success"],
               [from |-> step.id, to |-> step.to["failure"], type |-> "failure"],
               [from |-> step.id, to |-> step.to["skipped"], type |-> "skipped"],
               [from |-> step.id, to |-> step.comp, type |-> "compensation"]>>
  IN Picked(all, {i \in 1..4 : all[i].to # NoId})

\* One connection after the other is added.
Added(list) ==
  LET upTo[n \in 0..Len(list)] == IF n = 0 THEN <<>> ELSE AddLink(upTo[n - 1], list[n])
  IN  upTo[Len(list)]

LoadedNodes(workflow) == [i \in DOMAIN workflow.steps |->
  [id |-> workflow.steps[i].id, comp |-> workflow.steps[i].comp]]
LoadedLinks(workflow) ==
  Added(FlattenSeq([i \in DOMAIN workflow.steps |-> StepLinks(workflow.steps[i])]))

\* autoDetectEntryStep: the first node nothing leads to, or else the first.
DetectedEntry(list, connections) ==
  LET free == {i \in DOMAIN list : \A j \in DOMAIN connections : connections[j].to # list[i].id}
  IN IF list = <<>> THEN NoId ELSE list[IF free = {} THEN 1 ELSE Min(free)].id

LoadedEntry(workflow) ==
  IF workflow.entry # NoId THEN workflow.entry
  ELSE DetectedEntry(LoadedNodes(workflow), LoadedLinks(workflow))

-------------------------------------------------------------------------------
(***************************************************************************)
(* Operations.                                                             *)
(***************************************************************************)

\* A mutant: an entry that was chosen once stays.
MutantEntryAfterAdding(id) == IF entry = NoId THEN id ELSE entry

EntryAfterAdding(id) == IF nodes = <<>> THEN id ELSE entry

AddNode(id) ==
  /\ Len(nodes) < MaxNodes
  /\ nodes' = Append(nodes, [id |-> id, comp |-> NoId])
  /\ entry' = EntryAfterAdding(id)
  /\ UNCHANGED <<links, selected>>

RemoveNode(id) ==
  /\ nodes' = RemoveById(nodes, id)
  /\ links' = Without(links, id)
  /\ entry' = IF entry = id /\ nodes' # <<>> THEN nodes'[1].id ELSE entry
  /\ selected' = IF selected = id THEN NoId ELSE selected

\* selectNode, deselectNode
SelectNode(id) == selected' = id /\ UNCHANGED <<nodes, links, entry>>

\* setSelSuccessTarget and its like: the target is typed, the field shows while a node
\* is selected.
SetTransition(to, type) ==
  LET rest == RemoveByType(links, selected, type) IN
    /\ selected \in IdsOf(nodes)
    /\ links' = IF to = NoId THEN rest ELSE AddLink(rest, [from |-> selected, to |-> to, type |-> type])
    /\ Len(links') <= MaxLinks
    /\ UNCHANGED <<nodes, entry, selected>>

\* setSelCompensationStep: typed too, and kept in the first node of the selected id.
SetCompensation(to) ==
  LET of == {i \in DOMAIN nodes : nodes[i].id = selected} IN
    /\ of # {}
    /\ nodes' = [nodes EXCEPT ![Min(of)].comp = to]
    /\ UNCHANGED <<links, entry, selected>>

\* removeTransition: if there is such a connection, all of the step go.
RemoveTransition(from, type) ==
  /\ links' = IF \E i \in DOMAIN links : links[i].from = from /\ links[i].type = type
              THEN Picked(links, {i \in DOMAIN links : links[i].from # from}) ELSE links
  /\ UNCHANGED <<nodes, entry, selected>>

\* loadFromJson, and loadFromFile of a spreadsheet that names its entry.
Load(workflow) ==
  /\ nodes' = LoadedNodes(workflow) /\ links' = LoadedLinks(workflow)
  /\ entry' = LoadedEntry(workflow) /\ selected' = LoadedEntry(workflow)

\* A workflow of this editor is loaded.  It may have been saved long before: where that
\* leads is where loading it at once would have led.
Reload == Load(Saved)

\* It is saved as a table and that is loaded: the steps follow each other, in the order
\* of the nodes.  Without nodes nothing can be loaded.
ReloadTable ==
  LET rows == Written([i \in DOMAIN nodes |-> [id |-> [group |-> "step", number |-> nodes[i].id],
                                               plugin |-> "carried", policy |-> "fail_fast"]])
      steps == Parsed(rows).steps
      target(step) == IF step.next = Blank THEN NoId ELSE step.next.number
  IN /\ nodes # <<>> /\ Len(nodes) <= MaxLinks + 1
     /\ Load([entry |-> Parsed(rows).entry.number,
              steps |-> [i \in DOMAIN steps |->
                [id |-> steps[i].id.number, comp |-> NoId,
                 to |-> [success |-> target(steps[i]), failure |-> NoId, skipped |-> NoId]]]])

NewWorkflow ==
  /\ nodes' = <<>> /\ links' = <<>> /\ entry' = NoId /\ selected' = NoId

EditorNext ==
  \/ \E id \in StepIds : AddNode(id) \/ RemoveNode(id)
  \/ \E id \in IdsOf(nodes) \cup {NoId} : SelectNode(id)
  \/ \E to \in StepIds \cup {NoId}, type \in LinkTypes : SetTransition(to, type)
  \/ \E to \in Typed : SetCompensation(to)
  \/ \E from \in IdsOf(nodes), type \in LinkTypes : RemoveTransition(from, type)
  \/ \E workflow \in Files : Load(workflow)
  \/ Reload \/ ReloadTable \/ NewWorkflow

EditorSpec == EditorInit /\ [][EditorNext]_editorVars

-------------------------------------------------------------------------------

\* Types.
EditorTypeOK ==
  /\ \A i \in DOMAIN nodes : nodes[i] \in [id : StepIds, comp : StepIds \cup {NoId}]
  /\ \A i \in DOMAIN links : links[i] \in [from : StepIds, to : StepIds, type : LinkTypes \cup {"compensation"}]
  /\ Len(nodes) <= MaxNodes
  /\ {entry, selected} \subseteq StepIds \cup {NoId}

\* Whatever was added, removed, loaded and cleared before, a workflow with nodes has an
\* entry that is one of them, and what a connection leaves is a node
\* (WorkflowEditorModel.cpp:281-321): the engine does not refuse it for its entry
\* (WorkflowEngine.cpp:394).  It refuses one in which two nodes have one id (379-384),
\* which the editor lets be typed.
NamesResolve ==
  /\ nodes # <<>> => entry \in IdsOf(nodes)
  /\ \A i \in DOMAIN links : links[i].from \in IdsOf(nodes)

UsedOnce(id) == Cardinality({i \in DOMAIN nodes : nodes[i].id = id}) = 1

\* "Each type has only one connection" (WorkflowEditorModel.cpp:235) of a step whose id
\* no other has: else changing a target would leave the old one, and which of them is
\* saved would depend on the order of the list.  A table gives every row a success
\* connection, so an id used twice may have two.
OneTarget ==
  \A i, j \in DOMAIN links :
    UsedOnce(links[i].from) /\ links[i].from = links[j].from /\ links[i].type = links[j].type => i = j

\* Saving and loading gives back the workflow: the nodes, the entry, and every connection
\* of a step whose id no other has, but those of compensation, which a loaded workflow
\* has and an edited one lacks.
RoundTrip ==
  LET between(list) ==
        {list[i] : i \in {j \in DOMAIN list : list[j].type \in LinkTypes /\ UsedOnce(list[j].from)}}
  IN /\ LoadedNodes(Saved) = nodes
     /\ nodes # <<>> => LoadedEntry(Saved) = entry
     /\ between(LoadedLinks(Saved)) = between(links)

\* The edited workflow has its entry, and can be saved and loaded again.
EditorSound == EditorTypeOK /\ NamesResolve /\ OneTarget /\ RoundTrip
===============================================================================
