----------------------------- MODULE Wd1793Open -----------------------------
(***************************************************************************)
(* The controller in an arbitrary environment: in every cycle the host may *)
(* perform any access, the firmware may have left anything in the status   *)
(* port and in the buffer.  What holds here needs no good behaviour of     *)
(* either.                                                                 *)
(***************************************************************************)
EXTENDS Wd1793

CONSTANTS
  OpenAccesses,  \* host accesses considered
  OpenStatuses   \* contents of the status port considered

ASSUME OpenAssumption ==
  /\ OpenAccesses \subseteq Access
  /\ \A a \in OpenAccesses : a.op = "wr" /\ a.port = "COMMAND" => a.data \in 0 .. 15
  /\ OpenStatuses \subseteq SUBSET StatusFlags

openVars == <<busVars, fdcVars>>

OpenInit ==
  /\ FdcInit
  /\ buffer = [i \in 0 .. SECTOR_SIZE - 1 |-> 0]
  /\ bus = NoAccess
  /\ wdport_cpu_status = {}

(* The environment's move is part of the cycle.                            *)
OpenNext ==
  /\ FdcCycle
  /\ bus' \in OpenAccesses
  /\ wdport_cpu_status' \in OpenStatuses

OpenSpec == OpenInit /\ [][OpenNext]_openVars

(* Every register of the controller holds a value of its width, and the    *)
(* counters never leave the range their use assumes (wd1793.v:119-191).    *)
OpenTypeOK == BusTypeOK /\ FdcTypeOK
=============================================================================
