--------------------------- MODULE HardwareManager ---------------------------
(***************************************************************************)
(* HardwareManager and what it drives: drivers are loaded from plugin      *)
(* files, a bus is opened on the first driver of its type, protocols are   *)
(* bound to the driver of an open bus, devices are connected.  A driver    *)
(* has one link to the hardware, which the other side may drop.            *)
(*                                                                         *)
(* A second bus of the same type shares the driver of the first.  Drivers  *)
(* in Replacing (SocketCAN) then open another socket and forget the one    *)
(* they had; the others keep their link.                                   *)
(***************************************************************************)
EXTENDS Integers, Sequences, SequencesExt

CONSTANTS Directory,   \* the drivers of the plugin files, in file order
          TypeOf,      \* the bus type of each driver, or "device"
          Replacing,   \* drivers whose open does not look whether they are open
          BusType,     \* the type each bus is configured with
          Accepts,     \* the bus types each protocol can be bound to
          None,        \* no driver, no bus
          MaxLoads     \* bound: how often drivers are loaded

ASSUME HardwareBoundsAssumption == MaxLoads \in Nat

Drivers == ToSet(Directory)
Buses == DOMAIN BusType
Protocols == DOMAIN Accepts
Devices == {d \in Drivers : TypeOf[d] = "device"}

ASSUME HardwareNamesAssumption == Directory \in Seq(Drivers) /\ None \notin Drivers

VARIABLES allDrivers,   \* allDrivers_: as loaded, twice if loaded twice
          initialized,  \* drivers that are initialized
          link,         \* the bus each driver is linked for, None if it is closed
          buses,        \* the driver of each bus, None if the bus is not there
          bound,        \* the protocols listed with each bus
          boundTo,      \* the driver each protocol has
          devices,      \* devices_
          connected,    \* devices whose driver is connected
          loads, shutdowns  \* how often drivers were loaded, each was shut down

hwVars == <<allDrivers, initialized, link, buses, bound, boundTo, devices, connected, loads,
            shutdowns>>

HwInit ==
  /\ allDrivers = <<>> /\ initialized = {} /\ loads = 0
  /\ link = [d \in Drivers |-> None]
  /\ buses = [b \in Buses |-> None] /\ bound = [b \in Buses |-> {}]
  /\ boundTo = [p \in Protocols |-> None]
  /\ devices = {} /\ connected = {}
  /\ shutdowns = [d \in Drivers |-> 0]

\* The drivers of the files, in file order; those that do not initialize are left out.
Kept(fails) ==
  LET kept[n \in 0..Len(Directory)] ==
        IF n = 0 THEN << >>
        ELSE IF Directory[n] \in fails THEN kept[n - 1]
        ELSE Append(kept[n - 1], Directory[n])
  IN  kept[Len(Directory)]

\* The plugin of a file that is loaded already is the same object.
LoadDrivers ==
  /\ loads < MaxLoads
  /\ loads' = loads + 1
  /\ \E fails \in SUBSET (Drivers \ initialized) :
       /\ allDrivers' = allDrivers \o Kept(fails)
       /\ initialized' = Drivers \ fails
  /\ UNCHANGED <<link, buses, bound, boundTo, devices, connected, shutdowns>>

\* findBusDriverForType: the first driver of the type.
DriverFor(type) ==
  LET fit == {i \in DOMAIN allDrivers : TypeOf[allDrivers[i]] = type} IN
    IF fit = {} THEN None ELSE allDrivers[CHOOSE i \in fit : \A j \in fit : i <= j]

OpenBus(b) ==
  LET d == DriverFor(BusType[b]) IN
    /\ buses[b] = None /\ d # None
    /\ buses' = [buses EXCEPT ![b] = d]
    /\ link' = [link EXCEPT ![d] = IF @ = None \/ d \in Replacing THEN b ELSE @]
    /\ UNCHANGED <<allDrivers, initialized, bound, boundTo, devices, connected, loads, shutdowns>>

\* The bus or its peer drops the link.
LinkDropped(d) ==
  /\ link[d] # None /\ link' = [link EXCEPT ![d] = None]
  /\ UNCHANGED <<allDrivers, initialized, buses, bound, boundTo, devices, connected, loads, shutdowns>>

BindProtocol(b, p) ==
  /\ buses[b] # None /\ link[buses[b]] # None /\ BusType[b] \in Accepts[p]
  /\ boundTo' = [boundTo EXCEPT ![p] = buses[b]]
  /\ bound' = [bound EXCEPT ![b] = @ \cup {p}]
  /\ UNCHANGED <<allDrivers, initialized, link, buses, devices, connected, loads, shutdowns>>

\* unbindProtocols of some buses: what is listed loses its driver, even if it was
\* bound to another bus meanwhile.
Unbound(bs) ==
  [p \in Protocols |-> IF \E b \in bs : p \in bound[b] THEN None ELSE boundTo[p]]

UnbindProtocols(b) ==
  /\ buses[b] # None
  /\ boundTo' = Unbound({b})
  /\ bound' = [bound EXCEPT ![b] = {}]
  /\ UNCHANGED <<allDrivers, initialized, link, buses, devices, connected, loads, shutdowns>>

\* A mutant: only the last bus of a driver closes it, counted before the close.
MutantClosedLinks(bs) ==
  [d \in Drivers |-> IF \E b \in bs : {c \in Buses : buses[c] = d} = {b} THEN None ELSE link[d]]

ClosedLinks(bs) == [d \in Drivers |-> IF \E b \in bs : buses[b] = d THEN None ELSE link[d]]

\* closeBus of some buses.
Closing(bs) ==
  /\ boundTo' = Unbound(bs)
  /\ bound' = [b \in Buses |-> IF b \in bs THEN {} ELSE bound[b]]
  /\ link' = ClosedLinks(bs)
  /\ buses' = [b \in Buses |-> IF b \in bs THEN None ELSE buses[b]]

CloseBus(b) ==
  /\ buses[b] # None
  /\ Closing({b})
  /\ UNCHANGED <<allDrivers, initialized, devices, connected, loads, shutdowns>>

CloseAllBuses ==
  /\ Closing(Buses)
  /\ UNCHANGED <<allDrivers, initialized, devices, connected, loads, shutdowns>>

ConnectDevice(d) ==
  /\ d \notin devices /\ d \in ToSet(allDrivers)
  /\ devices' = devices \cup {d} /\ connected' = connected \cup {d}
  /\ UNCHANGED <<allDrivers, initialized, link, buses, bound, boundTo, loads, shutdowns>>

DisconnectDevice(d) ==
  /\ d \in devices
  /\ devices' = devices \ {d} /\ connected' = connected \ {d}
  /\ UNCHANGED <<allDrivers, initialized, link, buses, bound, boundTo, loads, shutdowns>>

\* How often unloadAll shuts each driver down: with its device, else once if it is
\* initialized still.
ShutDowns == [d \in Drivers |->
  IF d \in devices \/ (d \in initialized /\ d \in ToSet(allDrivers)) THEN 1 ELSE 0]

UnloadAll ==
  /\ Closing(Buses)
  /\ shutdowns' = [d \in Drivers |-> shutdowns[d] + ShutDowns[d]]
  /\ initialized' = {d \in initialized : ShutDowns[d] = 0}
  /\ connected' = connected \ devices
  /\ devices' = {} /\ allDrivers' = <<>>
  /\ UNCHANGED loads

HwNext ==
  \/ LoadDrivers \/ CloseAllBuses \/ UnloadAll
  \/ \E b \in Buses : OpenBus(b) \/ CloseBus(b) \/ UnbindProtocols(b)
  \/ \E b \in Buses, p \in Protocols : BindProtocol(b, p)
  \/ \E d \in Drivers : LinkDropped(d)
  \/ \E d \in Devices : ConnectDevice(d) \/ DisconnectDevice(d)

HwSpec == HwInit /\ [][HwNext]_hwVars

-------------------------------------------------------------------------------

\* Types; a driver is shut down once for every time it was initialized.
HwTypeOK ==
  /\ ToSet(allDrivers) \subseteq Drivers /\ initialized \subseteq Drivers
  /\ link \in [Drivers -> Buses \cup {None}] /\ buses \in [Buses -> Drivers \cup {None}]
  /\ bound \in [Buses -> SUBSET Protocols] /\ boundTo \in [Protocols -> Drivers \cup {None}]
  /\ devices \subseteq Devices /\ connected = devices
  /\ \A d \in Drivers :
       shutdowns[d] \in 0..loads /\ shutdowns[d] + (IF d \in initialized THEN 1 ELSE 0) <= loads

\* What is in use is alive: the driver of a bus, of a device and of a protocol is
\* loaded and initialized, also after unloadAll and a new load
\* (HardwareManager.cpp:90-107).
UsersHaveDrivers ==
  LET used == ({buses[b] : b \in Buses} \cup {boundTo[p] : p \in Protocols}) \ {None} IN
    used \cup devices \subseteq initialized \cap ToSet(allDrivers)

\* A protocol that has a driver is listed with a bus that is open on it, so that
\* the close of that bus takes it away (:156-164, 208-216).
BoundAreListed ==
  \A p \in Protocols :
    boundTo[p] # None => \E b \in Buses : buses[b] = boundTo[p] /\ p \in bound[b]

\* A driver has no link that no bus can close any more (:156-164).
LinksHaveBuses == \A d \in Drivers : link[d] # None => \E b \in Buses : buses[b] = d

\* Buses, drivers, devices and protocols fit together, whatever was opened, bound,
\* closed and unloaded before.
HardwareSound == HwTypeOK /\ UsersHaveDrivers /\ BoundAreListed /\ LinksHaveBuses
===============================================================================
