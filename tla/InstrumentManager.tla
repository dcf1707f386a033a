-------------------------- MODULE InstrumentManager --------------------------
(***************************************************************************)
(* The list of instruments (InstrumentManager): from a configuration it    *)
(* makes a driver and a backend for each entry and connects them, and it   *)
(* disconnects them again.  A driver opens its backend, asks the           *)
(* instrument who it is, and reports success whether or not that answers   *)
(* (PowerSupplyDriver::open, MultimeterDriver::open).  A serial port can   *)
(* be open once only.                                                      *)
(*                                                                         *)
(* An object keeps its port as long as it has not been closed.  One that   *)
(* is taken out of the map is not deleted, so it keeps its port if it was  *)
(* not closed before.                                                      *)
(***************************************************************************)
EXTENDS Integers, Sequences, SequencesExt, FiniteSets

CONSTANTS InstrumentLists,  \* configurations: sequences of entries
          Ports,            \* serial ports
          MaxConnects       \* bound: how often is connected

ASSUME InstrumentAssumption ==
  MaxConnects \in Nat /\ \A list \in InstrumentLists : list \in Seq(ToSet(list))

VARIABLES entries,    \* entries_
          instances,  \* instances_: a set of names, each with the object it leads to
          openPorts,  \* the ports that are open, each with the object that opened it
          unplugged,  \* ports no instrument is plugged in at
          made,       \* how many objects were made
          connects,   \* history: how often connectAll was called
          connected   \* history: what connectAll returned last

instrumentVars == <<entries, instances, openPorts, unplugged, made, connects, connected>>

InstrumentsInit ==
  /\ entries = <<>> /\ instances = {} /\ openPorts = {} /\ unplugged = {}
  /\ made = 0 /\ connects = 0 /\ connected = FALSE

-------------------------------------------------------------------------------

\* The objects the map leads to.
Objects(map) == {i.object : i \in map}

\* SerialBackend::open, as the drivers call it: a Python backend is given no script, and
\* refuses (PythonProcessBackend.cpp:24-27).
Opens(m, entry) ==
  /\ entry.backend = "serial"
  /\ entry.port \notin unplugged
  /\ \A p \in m.ports : p.port # entry.port

\* One entry of connectAll, which ends at the first that fails.
ConnectEntry(m, entry) ==
  IF ~m.ok THEN m
  ELSE IF entry.backend = "other" \/ entry.driver = "other" \/ ~Opens(m, entry)
  THEN [m EXCEPT !.ok = FALSE]
  ELSE [ok |-> TRUE, made |-> m.made + 1,
        ports |-> m.ports \cup {[port |-> entry.port, object |-> m.made + 1]},
        map |-> {i \in m.map : i.name # entry.name} \cup {[name |-> entry.name, object |-> m.made + 1]}]

\* connectAll, with the map and the ports it begins with.
Connected(list, map, ports) ==
  LET m[n \in 0..Len(list)] ==
        IF n = 0 THEN [ok |-> TRUE, made |-> made, map |-> map, ports |-> ports]
        ELSE ConnectEntry(m[n - 1], list[n])
  IN m[Len(list)]

\* disconnectAll: every driver closes its backend.
PortsAfterDisconnect == {p \in openPorts : p.object \notin Objects(instances)}

Connect(list, map, ports) ==
  LET end == Connected(list, map, ports) IN
    /\ connects < MaxConnects
    /\ instances' = end.map /\ openPorts' = end.ports /\ made' = end.made
    /\ connected' = end.ok /\ connects' = connects + 1

\* loadFromJson, loadFromConfig: clear, then connectAll.
LoadInstruments(list) ==
  /\ entries' = list
  /\ Connect(list, {}, PortsAfterDisconnect)
  /\ UNCHANGED unplugged

\* connectAll alone.
ConnectAll ==
  /\ Connect(entries, instances, openPorts)
  /\ UNCHANGED <<entries, unplugged>>

\* clear also forgets the entries.
Disconnect(list) ==
  /\ openPorts' = PortsAfterDisconnect /\ instances' = {}
  /\ entries' = list
  /\ UNCHANGED <<unplugged, made, connects, connected>>

\* An instrument is plugged in, or pulled while its port is closed.
Plug(port) ==
  /\ \A p \in openPorts : p.port # port
  /\ unplugged' = IF port \in unplugged THEN unplugged \ {port} ELSE unplugged \cup {port}
  /\ UNCHANGED <<entries, instances, openPorts, made, connects, connected>>

InstrumentsNext ==
  \/ \E list \in InstrumentLists : LoadInstruments(list)
  \/ ConnectAll
  \/ Disconnect(entries) \/ Disconnect(<<>>)
  \/ \E port \in Ports : Plug(port)

InstrumentsSpec == InstrumentsInit /\ [][InstrumentsNext]_instrumentVars

-------------------------------------------------------------------------------

\* No name leads to two objects, and no port is open twice.
InstrumentTypeOK ==
  /\ \A i, j \in instances : i.name = j.name => i = j
  /\ \A p, q \in openPorts : p.port = q.port => p = q
  /\ {i.name : i \in instances} \subseteq {entries[k].name : k \in DOMAIN entries}

\* What get and findByType return is connected: whatever failed on the way, an object of
\* the map has its port open (InstrumentManager.cpp:81-86).
ListedAreConnected == Objects(instances) \subseteq {p.object : p \in openPorts}

\* If connectAll succeeded, every entry has an instrument as long as nobody disconnects.
AllOrReported ==
  connected /\ instances # {} => {i.name : i \in instances} = {entries[k].name : k \in DOMAIN entries}

NamesDiffer ==
  \A list \in InstrumentLists : \A i, j \in DOMAIN list : list[i].name = list[j].name => i = j

\* Every open port belongs to an instrument of the map, so that disconnectAll closes it:
\* an object that is replaced in the map would keep its port for ever, since nothing
\* leads to it (InstrumentManager.cpp:86, 109-114).  As long as the names of a list
\* differ, connectAll never replaces one: called again, it fails at the first entry that
\* is connected, whose port is not free.
NoneForgotten == {p.object : p \in openPorts} = Objects(instances) \/ ~NamesDiffer

InstrumentsSound == InstrumentTypeOK /\ ListedAreConnected /\ AllOrReported /\ NoneForgotten
===============================================================================
