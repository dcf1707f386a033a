------------------------------- MODULE MC_Bench -------------------------------
(***************************************************************************)
(* Model checking of what talks to the instruments and vehicles of a       *)
(* bench: the connections of ScpiStep, the sessions of DoipMaster, the     *)
(* hardware layer, a UDS client on a CAN bus, the virtual bus and the      *)
(* connections of ModbusMaster.  They share no state, so an instance       *)
(* chooses one of them, `subject`, and takes its steps only.               *)
(***************************************************************************)
EXTENDS ScpiPool, DoipMaster, HardwareManager, UdsClient, VirtualBus, ModbusMaster, TLC

CONSTANTS Subjects,               \* what is checked
          t1, t2, t3, w1, w2,     \* threads and workflows
          ka, kb, kc, ra, rb, rc, \* connection keys and resource ids
          d1, d2, d3, b1, b2, b3, p1, p2, \* drivers, buses and protocols
          network, serial         \* Modbus connections

VARIABLE subject      \* what this behaviour is about

vars == <<subject, scpiVars, doipVars, hwVars, udsVars, vbVars, mbVars>>

Init ==
  /\ subject \in Subjects
  /\ ScpiInit
  /\ DoipInit
  /\ HwInit
  /\ UdsInit /\ (subject # "uds" => loopback)
  /\ VbInit /\ (subject # "virtual" => delayed)
  /\ MbInit

InScpi == UNCHANGED <<subject, doipVars, hwVars, udsVars, vbVars, mbVars>>
InDoip == UNCHANGED <<subject, scpiVars, hwVars, udsVars, vbVars, mbVars>>
InHardware == UNCHANGED <<subject, scpiVars, doipVars, udsVars, vbVars, mbVars>>
InUds == UNCHANGED <<subject, scpiVars, doipVars, hwVars, vbVars, mbVars>>
InVirtual == UNCHANGED <<subject, scpiVars, doipVars, hwVars, udsVars, mbVars>>
InModbus == UNCHANGED <<subject, scpiVars, doipVars, hwVars, udsVars, vbVars>>

Next ==
  \/ subject = "scpi" /\ ScpiNext /\ InScpi
  \/ subject = "doip" /\ DoipNext /\ InDoip
  \/ subject = "hardware" /\ HwNext /\ InHardware
  \/ subject = "uds" /\ UdsNext /\ InUds
  \/ subject = "virtual" /\ VbNext /\ InVirtual
  \/ subject = "modbus" /\ MbNext /\ InModbus

\* Threads that run are scheduled, and waits with a timeout end.  What belongs to another
\* subject never changes, so each condition is about the variables of its own.
InExchange == UNCHANGED <<sessionVars, keeperVars, doipStepVars, ioMutex, late>>

Fairness ==
  /\ \A t \in StepThreads : WF_scpiVars(subject = "scpi" /\ stepAt[t] # "idle" /\ ExecuteStep(t))
  /\ WF_doipVars(subject = "doip" /\ StepThread)
  /\ WF_doipVars(subject = "doip" /\ Keeper)
  /\ \A t \in Threads :
       /\ WF_doipVars(subject = "doip" /\ Exchanging(t) /\ InExchange)
       /\ WF_doipVars(subject = "doip" /\ Expire(t) /\ InExchange)

Spec == Init /\ [][Next]_vars /\ Fairness

-------------------------------------------------------------------------------

StepThreadSet == {t1, t2, t3}
Workflow == [t \in StepThreadSet |-> IF t = t3 THEN w2 ELSE w1]

\* A thread for each workflow, on a TCP connection and a serial line.
ModbusThreadSet == {t1, t3}
Transport == [k \in {network, serial} |-> IF k = network THEN "tcp" ELSE "rtu"]

\* One connection has an id of its own, one has two ids, and shares one with a third.
NamedIds ==
  {[key |-> ka, rid |-> ra], [key |-> kb, rid |-> rb], [key |-> kb, rid |-> rc],
   [key |-> kc, rid |-> rb]}

\* A SocketCAN driver, a TCP driver and a device; two CAN buses and one on TCP.
DriverFiles == <<d1, d2, d3>>
DriverTypes == [d \in {d1, d2, d3} |-> CASE d = d1 -> "can" [] d = d2 -> "tcp" [] d = d3 -> "device"]
BusTypes == [b \in {b1, b2, b3} |-> IF b = b3 THEN "tcp" ELSE "can"]
AcceptedTypes == [p \in {p1, p2} |-> IF p = p1 THEN {"can", "tcp"} ELSE {"can"}]
SocketCan == {d1}

\* Whatever the others do, a step returns: one that waits for a lease or a mutex
\* (ScpiStepPlugin.cpp:180-202), and one whose close joins the keep-alive thread
\* (DoipMasterPlugin.cpp:404-409).
StepsComeBack == StepsReturn /\ StepsEnd
===============================================================================
