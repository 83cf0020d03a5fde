---------------------------- MODULE Wd1793Proofs ----------------------------
(***************************************************************************)
(* The controller in an arbitrary environment: its invariant (module       *)
(* Wd1793Lemmas) needs no good behaviour of the host or the firmware.      *)
(***************************************************************************)
EXTENDS Wd1793Open, Wd1793Lemmas

(* The controller's invariant holds from reset on (wd1793.v:193-621).      *)
LEMMA OpenAlways == OpenSpec => []FdcInv
<1>1. OpenInit => FdcInv
  <2>1. OpenInit => WiresTypeOK
    BY DEF OpenInit, WiresTypeOK, NoAccess, Access, Ports, Byte
  <2> QED BY <2>1, FdcInitial DEF OpenInit
<1>2. FdcInv /\ [OpenNext]_openVars => FdcInv'
  <2> SUFFICES ASSUME FdcInv, [OpenNext]_openVars PROVE FdcInv'
    OBVIOUS
  <2>1. CASE OpenNext
    <3>1. WiresTypeOK'
      BY <2>1, OpenAssumption DEF OpenNext, WiresTypeOK
    <3> QED BY <2>1, <3>1, FdcStep DEF OpenNext
  <2>2. CASE UNCHANGED openVars
    BY <2>2 DEF openVars, busVars, fdcVars, FdcInv, BusTypeOK,
       FdcTypeOK, TransferInStep, JobInStep, JobLength, BusyWhileWorking
  <2> QED BY <2>1, <2>2
<1> QED BY <1>1, <1>2, PTL DEF OpenSpec

(* In every environment the registers and counters of the controller stay  *)
(* in their ranges, for every sector size and every timing parameter       *)
(* (wd1793.v:119-191).                                                     *)
THEOREM OpenTyped == OpenSpec => []OpenTypeOK
<1>1. FdcInv => OpenTypeOK
  BY DEF FdcInv, OpenTypeOK
<1> QED BY <1>1, OpenAlways, PTL

(* In every environment the byte counter of a transfer never underflows    *)
(* and stays in step with the buffer address (wd1793.v:166,409-516).       *)
THEOREM OpenSafe == OpenSpec => []TransferInStep
<1>1. FdcInv => TransferInStep
  BY DEF FdcInv
<1> QED BY <1>1, OpenAlways, PTL

(* In every environment the busy bit covers every state in which a command *)
(* works, but for the flush of a written sector (wd1793.v:313-418,571).    *)
THEOREM OpenBusy == OpenSpec => []BusyWhileWorking
<1>1. FdcInv => BusyWhileWorking
  BY DEF FdcInv
<1> QED BY <1>1, OpenAlways, PTL
=============================================================================
