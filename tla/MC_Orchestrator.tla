---------------------------- MODULE MC_Orchestrator ----------------------------
(* Three workflows on two cells.  The first two compete for one lock and the   *)
(* third is free to run beside either.                                         *)
EXTENDS Orchestrator

CONSTANTS PSU, DMM

MCLockNames == {PSU, DMM}
MCPriority == [t \in Tasks |-> IF t = 2 THEN 1 ELSE 0]
MCLocks == [t \in Tasks |-> CASE t = 1 -> {PSU}
                              [] t = 2 -> {PSU, DMM}
                              [] OTHER -> {}]
MCOneRetry == [t \in Tasks |-> IF t = 3 THEN 0 ELSE 1]

\* Two independent workflows, of which only the second may be tried again.
MCNoLocks == [t \in Tasks |-> {}]
MCRetrySecond == [t \in Tasks |-> IF t = 2 THEN 1 ELSE 0]
===============================================================================
