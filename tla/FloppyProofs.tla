---------------------------- MODULE FloppyProofs ----------------------------
(***************************************************************************)
(* The floppy subsystem's proof, in three layers, for every geometry,      *)
(* every timing parameter and every host that honours the status register. *)
(* First, every register and variable keeps its range, and such a host     *)
(* never interrupts nor kills the controller, however the three actors     *)
(* interleave.                                                             *)
(* Second, controller and firmware never get out of step: from the moment  *)
(* the firmware fetches a request until it reports, the controller waits   *)
(* for that request with the registers of its job, and the firmware        *)
(* fetches the next one only after the controller has taken the answer.    *)
(* Third, where the bytes of the sector in transfer are: with the two in   *)
(* step, a read delivers the sector the host asked for, byte by byte, and  *)
(* a write stores what the host gave.                                      *)
(***************************************************************************)
EXTENDS FloppyInv

-----------------------------------------------------------------------------
(* The host on the bus.                                                    *)

(* A status the firmware writes is made of flags.                          *)
LEMMA SlaveTypes ==
  ASSUME BaseInv, Firmware
  PROVE  /\ SlaveTypeOK' /\ wdport_cpu_status' \in SUBSET StatusFlags
         /\ buffer' \in [0 .. SECTOR_SIZE - 1 -> Byte]
<1> USE BusAssumption, SlaveAssumption DEF SlaveTypeOK, GoTo, PCs
<1>a. /\ SlaveTypeOK /\ buff_addr \in 0 .. SECTOR_SIZE - 1 /\ buffer \in [0 .. SECTOR_SIZE - 1 -> Byte]
      /\ wdport_cpu_status \in SUBSET StatusFlags /\ disk_track \in Byte /\ wdstat_sector \in Byte
      /\ oCPU_REQUEST \in [op : RequestOps, unit : 0 .. 3]
  BY DEF BaseInv, FdcInv, BusTypeOK
<1>b. /\ {} \in SUBSET StatusFlags /\ {"BUSY"} \in SUBSET StatusFlags
      /\ {"DRVNOTRDY"} \in SUBSET StatusFlags /\ {"COMPLETE"} \in SUBSET StatusFlags
  BY DEF StatusFlags
<1>c. Length \in 1 .. SECTOR_SIZE
  BY DEF Length
<1> HIDE DEF SlaveTypeOK
<1>1. CASE (Thrall \/ Mount) /\ UNCHANGED buffer
BY <1>a, <1>b, <1>1 DEF SlaveTypeOK, Thrall, Mount, Status
<1>2. CASE (StartLoop \/ StartGarbage) /\ UNCHANGED buffer
BY <1>a, <1>b, <1>2 DEF SlaveTypeOK, StartLoop, StartGarbage, Status
<1>3. CASE (Poll) /\ UNCHANGED buffer
BY <1>a, <1>b, <1>3 DEF SlaveTypeOK, Poll, Results
<1>4. CASE (Fetch) /\ UNCHANGED buffer
BY <1>a, <1>b, <1>4 DEF SlaveTypeOK, Fetch
<1>5. CASE (DispatchTransfer) /\ UNCHANGED buffer
BY <1>a, <1>b, <1>5 DEF SlaveTypeOK, DispatchTransfer, Status, DriveBit, Results
<1>6. CASE (DispatchAck \/ DispatchNop \/ Nop \/ DispatchFail \/ DispatchIdle) /\ UNCHANGED buffer
BY <1>a, <1>b, <1>6 DEF SlaveTypeOK, DispatchAck, DispatchNop, Nop, DispatchFail, DispatchIdle,
     Status
<1>7. CASE (SeekTrack) /\ UNCHANGED buffer
  <2>1. cmd.unit % 2 \in {0, 1}
    BY <1>a DEF SlaveTypeOK
  <2>2. cur' \in Position
    BY <1>a, <1>7, <2>1 DEF SlaveTypeOK, SeekTrack, SideBit, Position
  <2> QED BY <1>a, <1>7, <2>2 DEF SlaveTypeOK, SeekTrack
<1>8. CASE (SeekSector) /\ UNCHANGED buffer
BY <1>a, <1>b, <1>8 DEF SlaveTypeOK, SeekSector, Position
<1>9. CASE (TransferDone \/ TransferFails) /\ UNCHANGED buffer
BY <1>a, <1>b, <1>9 DEF SlaveTypeOK, TransferDone, TransferFails, Transferring, Results
<1>10. CASE (Exit) /\ UNCHANGED buffer
BY <1>a, <1>b, <1>10 DEF SlaveTypeOK, Exit, Status
<1>11. CASE Report /\ UNCHANGED buffer
  <2>1. wdport_cpu_status' \in SUBSET StatusFlags
    BY <1>11 DEF Report, Status, StatusFlags
  <2> QED BY <1>a, <1>11, <2>1 DEF SlaveTypeOK, Report
<1>12. CASE FillBlock
  <2>1. /\ block \in 0 .. SECTOR_SIZE - 1 /\ RamAddress \in 0 .. SECTOR_SIZE - 1
        /\ block' = block + 1 /\ UNCHANGED <<wdport_cpu_status, cmd, t1, result, cur, image, card>>
        /\ pc' = "xfer" /\ cpuwait' = 1
    BY <1>a, <1>c, <1>12 DEF SlaveTypeOK, FillBlock, Transferring, RamAddress
  <2>2. cur \in Positions => image[cur][block] \in Byte
    BY <1>a, <2>1 DEF SlaveTypeOK, Sector
  <2>3. buffer' \in [0 .. SECTOR_SIZE - 1 -> Byte]
    BY <1>a, <1>12, <2>1, <2>2 DEF FillBlock
  <2> QED BY <1>a, <2>1, <2>3 DEF SlaveTypeOK
<1>13. CASE FillAddress
  <2>1. /\ block \in 0 .. SECTOR_SIZE - 1
        /\ block' = block + 1 /\ UNCHANGED <<wdport_cpu_status, cmd, t1, result, cur, image, card>>
        /\ pc' = "xfer" /\ cpuwait' = 1
    BY <1>a, <1>c, <1>13 DEF SlaveTypeOK, FillAddress, Transferring
  <2>2. AddressField(block) \in Byte
    BY <1>a, <2>1 DEF SlaveTypeOK, AddressField, Position, Byte
  <2>3. buffer' \in [0 .. SECTOR_SIZE - 1 -> Byte]
    BY <1>a, <1>13, <2>1, <2>2 DEF FillAddress
  <2> QED BY <1>a, <2>1, <2>3 DEF SlaveTypeOK
<1>14. CASE StoreBlock /\ UNCHANGED buffer
  <2>1. /\ block \in 0 .. SECTOR_SIZE - 1 /\ RamAddress \in 0 .. SECTOR_SIZE - 1
        /\ block' = block + 1 /\ UNCHANGED <<wdport_cpu_status, cmd, t1, result, cur, card>>
        /\ pc' = "xfer" /\ cpuwait' = 1
    BY <1>a, <1>c, <1>14 DEF SlaveTypeOK, StoreBlock, Transferring, RamAddress
  <2>2. buffer[RamAddress] \in Byte
    BY <1>a, <2>1
  <2>3. image' \in [Positions -> Sector]
    BY <1>a, <1>14, <2>1, <2>2 DEF SlaveTypeOK, StoreBlock, Sector
  <2> QED BY <1>a, <1>14, <2>1, <2>3 DEF SlaveTypeOK
<1> QED
  BY <1>1, <1>2, <1>3, <1>4, <1>5, <1>6, <1>7, <1>8, <1>9, <1>10, <1>11, <1>12, <1>13, <1>14 DEF
     Firmware, SlaveStep

(* The invariant of the controller and the types survive each actor.       *)
LEMMA FirmwareBase ==
  ASSUME BaseInv, Firmware
  PROVE  BaseInv'
<1>1. HostTypeOK'
  BY DEF BaseInv, Firmware, hostVars, HostTypeOK
<1>2. SlaveTypeOK' /\ wdport_cpu_status' \in SUBSET StatusFlags
      /\ buffer' \in [0 .. SECTOR_SIZE - 1 -> Byte]
  BY SlaveTypes
<1>3. /\ UNCHANGED <<fdcVars, oCPU_REQUEST, disk_track, wdstat_sector, buff_addr, buff_rd,
                    buff_wr, bus>>
  BY DEF Firmware
<1>4. FdcInv'
  BY <1>2, <1>3 DEF BaseInv, FdcInv, BusTypeOK, FdcTypeOK, fdcVars, TransferInStep, JobInStep,
     JobLength, BusyWhileWorking
<1> QED BY <1>1, <1>2, <1>4 DEF BaseInv

LEMMA NoteType ==
  ASSUME HostTypeOK, NEW v \in Byte
  PROVE  Note(v) \in Seq(Byte)
BY DEF HostTypeOK, Note

LEMMA HostBase ==
  ASSUME BaseInv, HostStep
  PROVE  BaseInv'
<1>a. HostTypeOK /\ bus \in Access /\ FORCE_INT \in Byte
  BY DEF BaseInv, FdcInv, BusTypeOK, FORCE_INT, Byte
<1>b. /\ HostCommands \subseteq Byte /\ HostTracks \subseteq Byte /\ HostSectors \subseteq Byte
      /\ HostUnits \subseteq Byte /\ HostBytes \subseteq Byte
      /\ HOST_GAP \in Nat /\ RD_CYCLES \in Nat
  BY FloppyAssumption DEF Byte
<1>5. HostTypeOK' /\ bus' \in Access
  <2>1. CASE HostStatus
    BY <1>a, <1>b, <2>1 DEF HostStatus, HostTypeOK
  <2>2. CASE HostGetByte
    BY <1>a, <1>b, <2>2 DEF HostGetByte, HostTypeOK, Access, Ports, Byte
  <2>3. CASE HostCommand \/ HostAbort \/ HostSetTrack \/ HostSetSector \/ HostSetUnit \/ HostSetData
    BY <1>a, <1>b, <2>3 DEF HostCommand, HostAbort, HostSetTrack, HostSetSector, HostSetUnit,
       HostSetData, Write, HostTypeOK, Access, Ports
  <2>4. CASE HostPutByte
    <3>1. PICK b \in HostBytes : LET v == (b + Len(exch)) % 256 IN
            /\ MayMove /\ job.op = "WRITE" /\ Write("DATA", v)
            /\ exch' = Note(v) /\ UNCHANGED <<named, missed>>
      BY <2>4 DEF HostPutByte
    <3>2. (b + Len(exch)) % 256 \in Byte
      <4>1. \A n \in Nat : n % 256 \in 0 .. 255
        OBVIOUS
      <4>2. Len(exch) \in Nat /\ b \in 0 .. 255
        BY <1>a, <1>b DEF HostTypeOK, Byte
      <4>3. b + Len(exch) \in Nat
        BY <4>2
      <4> QED BY <4>1, <4>3 DEF Byte
    <3> QED BY <1>a, <3>1, <3>2, NoteType DEF Write, HostTypeOK, Access, Ports
  <2> QED BY <2>1, <2>2, <2>3, <2>4 DEF HostStep
<1>6. UNCHANGED <<fdcVars, slaveVars, oCPU_REQUEST, wdport_cpu_status, disk_track,
                 wdstat_sector, buffer, buff_addr, buff_rd, buff_wr>>
  BY DEF HostStep
<1>7. FdcInv'
  BY <1>5, <1>6 DEF BaseInv, FdcInv, BusTypeOK, FdcTypeOK, fdcVars, TransferInStep, JobInStep,
     JobLength, BusyWhileWorking
<1>8. SlaveTypeOK'
  BY <1>6 DEF BaseInv, SlaveTypeOK, slaveVars
<1> QED BY <1>5, <1>7, <1>8 DEF BaseInv

LEMMA CycleBase ==
  ASSUME BaseInv, Cycle
  PROVE  BaseInv'
<1>a. HostTypeOK /\ bus \in Access /\ NoAccess \in Access /\ wdstat_datareg \in Byte
  BY DEF BaseInv, FdcInv, BusTypeOK, FdcTypeOK, NoAccess, Access, Ports, Byte
<1>1. HostTypeOK' /\ bus' \in Access
  <2>1. exch' \in Seq(Byte)
    BY <1>a, NoteType DEF Cycle, HostTick, HostTypeOK
  <2>2. hcount' \in Nat /\ seen' \in {"idle", "drq", "busy"} /\ bus' \in Access
    BY <1>a, FloppyAssumption DEF Cycle, HostTick, HostTypeOK
  <2>3. missed' \in BOOLEAN
    BY <1>a DEF Cycle, HostTick, HostTypeOK
  <2>4. named' \subseteq Byte
    <3>1. wdstat_sector \in Byte /\ bus.data \in Byte
      BY <1>a DEF BaseInv, FdcInv, BusTypeOK, Access
    <3> QED BY <1>a, <3>1 DEF Cycle, HostTick, HostTypeOK
  <2> QED BY <2>1, <2>2, <2>3, <2>4 DEF HostTypeOK
<1>2. SlaveTypeOK'
  BY SlaveAssumption DEF BaseInv, Cycle, CpuTick, SlaveTypeOK
<1>3. WiresTypeOK'
  BY <1>1 DEF BaseInv, FdcInv, BusTypeOK, Cycle, WiresTypeOK
<1>4. FdcInv'
  BY <1>3, FdcStep DEF BaseInv, Cycle
<1> QED BY <1>1, <1>2, <1>4 DEF BaseInv

LEMMA UserBase ==
  ASSUME BaseInv, User
  PROVE  BaseInv'
<1>1. SlaveTypeOK' /\ UNCHANGED <<busVars, fdcVars, hostVars>>
  BY DEF BaseInv, User, MoveCard, SlaveTypeOK
<1> QED
  BY <1>1 DEF BaseInv, FdcInv, BusTypeOK, FdcTypeOK, fdcVars, busVars, hostVars, HostTypeOK,
     TransferInStep, JobInStep, JobLength, BusyWhileWorking

(* The host neither interrupts nor overruns: the register section leaves   *)
(* the state machine alone.                                                *)
LEMMA QuietRegisters ==
  ASSUME HostInv
  PROVE  /\ ~Interrupts /\ ~Overruns
         /\ host_state = state /\ host_err = s_err /\ host_mode = cmd_mode
BY FloppyAssumption DEF HostInv, IdleIsStable, Interrupts, Overruns, Commands, host_state, host_err,
   host_mode

(* No arm raises busy by itself in a state in which the busy bit may be    *)
(* clear, and none enters ABORT or DEAD.                                   *)
LEMMA QuietArms ==
  ASSUME BaseInv, HostInv, ClockedArm
  PROVE  /\ ~s_busy /\ ~wdstat_pending => ~s_busy'
         /\ ~wdstat_pending /\ ~Commands => ~wdstat_pending'
         /\ NoAbort'
<1> USE QuietRegisters DEF HostInv, NoAbort
<1>a. BusyWhileWorking
  BY DEF BaseInv, FdcInv
<1>1. CASE ReadyIdle
BY <1>1, <1>a DEF ReadyIdle, KeepCommand, KeepTransfer, KeepFlags, BusyWhileWorking, host_pending
<1>2. CASE DoRestore \/ DoSeek \/ DoStep
BY <1>2 DEF DoRestore, DoSeek, DoStep, Execute, GetBusy, SetDrqBusy, KeepTransfer
<1>3. CASE DoRead \/ DoReadAddr
BY <1>3 DEF DoRead, DoReadAddr, Execute, SetDrqBusy
<1>4. CASE DoWrite
BY <1>4 DEF DoWrite, Execute, SetDrqBusy
<1>5. CASE DoTrackOp
BY <1>5, <1>a DEF DoTrackOp, Execute, SetDrqBusy, KeepTransfer, BusyWhileWorking, host_pending
<1>6. CASE Read1
BY <1>6, <1>a DEF Read1, KeepCommand, KeepFlags, BusyWhileWorking, host_pending
<1>7. CASE Read2
BY <1>7, <1>a DEF Read2, SetDrqBusy, KeepCommand, BusyWhileWorking, host_pending
<1>8. CASE Read3Wait
BY <1>8, <1>a DEF Read3Wait, KeepCommand, KeepFlags, BusyWhileWorking, host_pending
<1>9. CASE Read3
BY <1>9, <1>a DEF Read3, SetDrqBusy, KeepCommand, BusyWhileWorking, host_pending
<1>10. CASE ReadSectWait
BY <1>10, <1>a DEF ReadSectWait, KeepCommand, KeepTransfer, KeepFlags, BusyWhileWorking,
     host_pending
<1>11. CASE ReadSect
BY <1>11, <1>a DEF ReadSect, SetDrqBusy, KeepCommand, BusyWhileWorking, host_pending
<1>12. CASE WriteSectWait
BY <1>12, <1>a DEF WriteSectWait, KeepCommand, KeepTransfer, KeepFlags, BusyWhileWorking,
     host_pending
<1>13. CASE WriteSect
BY <1>13, <1>a DEF WriteSect, SetDrqBusy, KeepCommand, KeepTransfer, BusyWhileWorking,
     host_pending
<1>14. CASE Write1
BY <1>14, <1>a DEF Write1, KeepCommand, KeepTransfer, KeepFlags, BusyWhileWorking, host_pending
<1>15. CASE Write2
BY <1>15, <1>a DEF Write2, SetDrqBusy, KeepCommand, BusyWhileWorking, host_pending
<1>16. CASE WaitCpuRead
BY <1>16, <1>a DEF WaitCpuRead, KeepCommand, BusyWhileWorking, host_pending
<1>17. CASE WaitCpuWrite
  <2>1. ~s_busy => ~s_busy'
    BY <1>17 DEF WaitCpuWrite, SetDrqBusy
  <2>2. state' \in {"ENDCOMMAND", state} /\ wdstat_pending' = host_pending
    BY <1>17 DEF WaitCpuWrite, KeepCommand
  <2> QED BY <2>1, <2>2 DEF host_pending
<1>18. CASE WaitCpu
BY <1>18, <1>a DEF WaitCpu, KeepCommand, KeepTransfer, KeepFlags, BusyWhileWorking, host_pending
<1>19. CASE Abort
BY <1>19, <1>a DEF Abort, KeepFlags, BusyWhileWorking, host_pending
<1>20. CASE EndCommand
BY <1>20, <1>a DEF EndCommand, KeepCommand, KeepTransfer, KeepFlags, BusyWhileWorking,
     host_pending
<1>21. CASE EndCommand2
BY <1>21, <1>a DEF EndCommand2, SetDrqBusy, KeepCommand, KeepTransfer, BusyWhileWorking,
     host_pending
<1> QED BY <1>1, <1>2, <1>3, <1>4, <1>5, <1>6, <1>7, <1>8, <1>9, <1>10, <1>11, <1>12, <1>13,
     <1>14, <1>15, <1>16, <1>17, <1>18, <1>19, <1>20, <1>21 DEF ClockedArm

(* Each actor keeps the host's discipline (wd1793.v:242-290).              *)
LEMMA CycleHost ==
  ASSUME BaseInv, HostInv, Cycle
  PROVE  HostInv'
<1>1. HostTypeOK /\ bus \in Access
  BY DEF BaseInv, FdcInv, BusTypeOK
<1>2. EveryCycle /\ ClockedArm
  BY DEF HostInv, NoAbort, Cycle, FdcCycle, Dead
<1>3. Strobes'
  BY <1>1, FloppyAssumption DEF HostInv, Strobes, Cycle, HostTick, HostTypeOK, NoAccess
<1>4. bus'.op # "wr"
  BY <1>1 DEF HostInv, Strobes, Cycle, HostTick, HostTypeOK, NoAccess, Access
<1>5. seen' = "idle" => seen = "idle" /\ bus.op # "wr"
  BY <1>1 DEF HostInv, Strobes, Cycle, HostTick, HostTypeOK
<1>6. seen = "idle" /\ bus.op # "wr" => ~s_busy /\ ~wdstat_pending /\ ~Commands
  BY DEF HostInv, IdleIsStable, Commands, Writes
<1>7. IdleIsStable'
  BY <1>2, <1>4, <1>5, <1>6, QuietArms DEF IdleIsStable, Writes
<1> QED BY <1>2, <1>3, <1>7, QuietArms DEF HostInv

LEMMA HostHost ==
  ASSUME Polite, BaseInv, HostInv, HostStep
  PROVE  HostInv'
<1>1. UNCHANGED <<state, s_busy, wdstat_pending>>
  BY DEF HostStep, fdcVars
<1>2. HostTypeOK /\ bus \in Access
  BY DEF BaseInv, FdcInv, BusTypeOK
<1> USE DEF HostInv, Strobes, IdleIsStable, NoAbort, Writes, HostFree, NoAccess
<1>3. CASE HostStatus
  BY <1>1, <1>3 DEF HostStatus, BusyBit
<1>4. CASE HostCommand
  BY <1>1, <1>4 DEF HostCommand, MayCommand, MaySet, Polite, Write
<1>5. CASE HostAbort
  BY <1>5 DEF HostAbort, Polite
<1>6. CASE HostSetTrack \/ HostSetSector \/ HostSetUnit \/ HostSetData \/ HostPutByte
  BY <1>1, <1>6 DEF HostSetTrack, HostSetSector, HostSetUnit, HostSetData, HostPutByte, Write
<1>7. CASE HostGetByte
  BY <1>1, <1>7 DEF HostGetByte, MayMove
<1> QED BY <1>3, <1>4, <1>5, <1>6, <1>7 DEF HostStep

LEMMA OthersHost ==
  ASSUME HostInv, Firmware \/ User \/ UNCHANGED vars
  PROVE  HostInv'
<1>1. UNCHANGED <<bus, hcount, seen, s_busy, wdstat_pending, state>>
  BY DEF Firmware, User, vars, hostVars, fdcVars, busVars
<1> QED BY <1>1 DEF HostInv, Strobes, IdleIsStable, NoAbort, Writes

-----------------------------------------------------------------------------
(* Reset establishes both.                                                 *)
LEMMA HostInitial == Init => BaseInv /\ HostInv
<1> SUFFICES ASSUME Init PROVE BaseInv /\ HostInv
  OBVIOUS
<1>1. WiresTypeOK
  BY DEF Init, SlaveInit, WiresTypeOK, NoAccess, Access, Ports, Byte
<1>2. FdcInv
  BY <1>1, FdcInitial DEF Init
<1>3. SlaveTypeOK
  <2>1. cmd \in [op : RequestOps, unit : 0 .. 3] /\ cur \in Position
    BY DEF Init, SlaveInit, Signal, RequestOps, Position, Byte
  <2>2. image \in [Positions -> Sector]
    BY FloppyAssumption DEF Init, SlaveInit
  <2> QED
    BY <2>1, <2>2, BusAssumption, SlaveAssumption DEF Init, SlaveInit, SlaveTypeOK, PCs, Results
<1>4. HostTypeOK
  <2>1. <<>> \in Seq(Byte)
    OBVIOUS
  <2>2. missed \in BOOLEAN
    BY DEF Init
  <2> QED BY <2>1, <2>2 DEF Init, HostTypeOK
<1>5. HostInv
  BY DEF Init, FdcInit, HostInv, Strobes, IdleIsStable, NoAbort, NoAccess, Writes
<1> QED BY <1>2, <1>3, <1>4, <1>5 DEF BaseInv

LEMMA HostLayerStep ==
  ASSUME Polite, BaseInv, HostInv, [Next]_vars
  PROVE  BaseInv' /\ HostInv'
<1>1. BaseInv'
  <2>1. CASE UNCHANGED vars
    BY <2>1 DEF vars, BaseInv, FdcInv, BusTypeOK, FdcTypeOK, fdcVars, busVars, hostVars,
       slaveVars, HostTypeOK, SlaveTypeOK, TransferInStep, JobInStep, JobLength, BusyWhileWorking
  <2> QED BY <2>1, CycleBase, HostBase, FirmwareBase, UserBase DEF Next
<1>2. HostInv'
  BY CycleHost, HostHost, OthersHost DEF Next
<1> QED BY <1>1, <1>2

LEMMA HostAlways ==
  ASSUME Polite
  PROVE  Spec => [](BaseInv /\ HostInv)
<1>1. BaseInv /\ HostInv /\ [Next]_vars => (BaseInv /\ HostInv)'
  BY HostLayerStep
<1> QED BY <1>1, HostInitial, PTL DEF Spec

(* A host that honours the busy bit never drives the controller into its   *)
(* dead state, for every timing, every command set and every behaviour of  *)
(* firmware and user (wd1793.v:117,242-290).                               *)
THEOREM NeverDies ==
  ASSUME Polite
  PROVE  Spec => []NeverDead
<1>1. HostInv => NeverDead
  BY DEF HostInv, NoAbort, NeverDead
<1> QED BY <1>1, HostAlways, PTL

-----------------------------------------------------------------------------
(* The updating head commands: when the head moves, the TRACK register     *)
(* moves with it, whichever direction the bus made the controller take.    *)
LEMMA HeadMoves ==
  ASSUME wdstat_track = disk_track, wdstat_command \in {RESTORE, 3, 5, 7},
         ~Overruns, ~Writes("TRACK"), FdcCycle
  PROVE  wdstat_track' = disk_track'
<1>1. host_track = wdstat_track
  BY DEF host_track
<1>2. CASE DoRestore
  BY <1>2 DEF DoRestore
<1>3. CASE DoStep
  <2>1. wdstat_command \in {3, 5, 7}
    BY <1>3 DEF DoStep, Execute, STEPS, RESTORE
  <2>2. 2^0 = 1
    OBVIOUS
  <2>3. Bit(wdstat_command, 0) = 1
    BY <2>1, <2>2 DEF Bit
  <2> QED BY <1>3, <2>3 DEF DoStep
<1>4. CASE DoSeek
  BY <1>4 DEF DoSeek, Execute, SEEK, RESTORE
<1>5. CASE ~DoRestore /\ ~DoStep /\ ~DoSeek
  <2> DEFINE Stays == wdstat_track' = host_track /\ disk_track' = disk_track
  <2>1. ReadyIdle \/ DoRead \/ DoReadAddr \/ DoWrite \/ DoTrackOp => Stays
    BY DEF ReadyIdle, DoRead, DoReadAddr, DoWrite, DoTrackOp, KeepRegs, KeepHead
  <2>2. Read1 \/ Read2 \/ Read3Wait \/ Read3 \/ ReadSectWait \/ ReadSect => Stays
    BY DEF Read1, Read2, Read3Wait, Read3, ReadSectWait, ReadSect, KeepRegs, KeepHead
  <2>3. WriteSectWait \/ WriteSect \/ Write1 \/ Write2 => Stays
    BY DEF WriteSectWait, WriteSect, Write1, Write2, KeepRegs, KeepHead
  <2>4. WaitCpuRead \/ WaitCpuWrite \/ WaitCpu => Stays
    BY DEF WaitCpuRead, WaitCpuWrite, WaitCpu, KeepRegs, KeepHead
  <2>5. Abort \/ EndCommand \/ EndCommand2 => Stays
    BY DEF Abort, EndCommand, EndCommand2, KeepRegs, KeepHead
  <2>6. Dead => Stays
    BY <1>1 DEF Dead
  <2>7. Stays
    BY <1>5, <2>1, <2>2, <2>3, <2>4, <2>5, <2>6 DEF FdcCycle, ClockedArm
  <2> QED BY <1>1, <2>7
<1> QED BY <1>2, <1>3, <1>4, <1>5

(* RESTORE and the STEP commands with the update flag keep TRACK on the    *)
(* head's track, for every host and every firmware (wd1793.v:307-359).     *)
THEOREM TrackFollows == Spec => TrackRegisterFollowsHead
<1> DEFINE Follows == /\ wdstat_track = disk_track
                      /\ wdstat_command \in {RESTORE, 3, 5, 7} /\ ~Overruns /\ ~Writes("TRACK")
                      => wdstat_track' = disk_track'
<1>1. [Next]_vars => [Follows]_vars
  <2>1. CASE Cycle
    BY <2>1, HeadMoves DEF Cycle
  <2>2. CASE Firmware \/ HostStep \/ User
    <3>1. UNCHANGED <<wdstat_track, disk_track>>
      BY <2>2 DEF Firmware, HostStep, User, fdcVars, busVars
    <3> QED BY <3>1
  <2> QED BY <2>1, <2>2 DEF Next
<1>2. Spec => [][Follows]_vars
  BY <1>1, PTL DEF Spec
<1> QED BY <1>2 DEF TrackRegisterFollowsHead

-----------------------------------------------------------------------------
(* The handshake.                                                          *)

(* A live controller executes one of its arms, and a write strobe ends.    *)
LEMMA CycleArm ==
  ASSUME BaseInv, HostInv, Cycle
  PROVE  /\ EveryCycle /\ ClockedArm
         /\ bus'.op # "wr" /\ (bus'.op = "rd" => bus = bus')
<1>1. EveryCycle /\ ClockedArm
  BY DEF HostInv, NoAbort, Cycle, FdcCycle, Dead
<1>2. HostTypeOK /\ bus \in Access
  BY DEF BaseInv, FdcInv, BusTypeOK
<1>3. bus'.op # "wr" /\ (bus'.op = "rd" => bus = bus')
  BY <1>2 DEF HostInv, Strobes, Cycle, HostTick, HostTypeOK, NoAccess, Access
<1> QED BY <1>1, <1>3

LEMMA ProtocolParts ==
  ASSUME ProtocolInv
  PROVE  /\ BaseInv /\ HostInv /\ AccessInv /\ FdcInv /\ SlaveTypeOK /\ HostTypeOK
         /\ BufferLines /\ RequestFits /\ RegistersKept /\ StatusFits
         /\ ServesRequest /\ AnswerTaken /\ SeekFits
         /\ bus \in Access /\ job \in JobType /\ state \in States
         /\ oCPU_REQUEST \in RequestType
         /\ cmd \in [op : RequestOps, unit : 0 .. 3]
         /\ wdport_cpu_status \in SUBSET StatusFlags /\ cpuwait \in 0 .. POLL_CYCLES
         /\ data_rdlength \in 0 .. SECTOR_SIZE
         /\ wdstat_side \in {0, 1} /\ wdstat_drive \in {0, 1}
         /\ TransferInStep /\ JobInStep /\ Strobes /\ NoAbort /\ IdleIsStable
BY DEF ProtocolInv, HandshakeInv, BaseInv, HostInv, FdcInv, FdcTypeOK, BusTypeOK, JobType,
   RequestType, SlaveTypeOK

(* A job starts with a command in READY and keeps its position after that. *)
LEMMA ArmJob ==
  ASSUME ProtocolInv, Cycle
  PROVE  \/ job' = NoJob /\ state = "READY" /\ wdstat_pending
         \/ /\ job' \in {Job("READ"), Job("WRITE"), Job("READADDR")}
            /\ state = "READY" /\ wdstat_pending /\ UNCHANGED disk_track
         \/ /\ UNCHANGED <<job, disk_track>>
            /\ state = "READY" => ~wdstat_pending /\ state' = "READY"
<1> USE QuietRegisters
<1>a. HostInv /\ EveryCycle /\ ClockedArm
  BY ProtocolParts, CycleArm
<1> USE <1>a
<1>1. CASE ReadyIdle
BY <1>1 DEF ReadyIdle, KeepRegs, KeepCommand, KeepHead, KeepTransfer, KeepFlags
<1>2. CASE DoRestore \/ DoSeek \/ DoStep
BY <1>2 DEF DoRestore, DoSeek, DoStep, Execute, GetBusy, SetDrqBusy, KeepTransfer
<1>3. CASE DoRead \/ DoReadAddr
BY <1>3 DEF DoRead, DoReadAddr, Execute, SetDrqBusy, KeepHead
<1>4. CASE DoWrite
BY <1>4 DEF DoWrite, Execute, SetDrqBusy, KeepHead
<1>5. CASE DoTrackOp
BY <1>5 DEF DoTrackOp, Execute, SetDrqBusy, KeepHead, KeepTransfer
<1>6. CASE Read1
BY <1>6 DEF Read1, KeepRegs, KeepCommand, KeepHead, KeepFlags
<1>7. CASE Read2
BY <1>7 DEF Read2, SetDrqBusy, KeepRegs, KeepCommand, KeepHead
<1>8. CASE Read3Wait
BY <1>8 DEF Read3Wait, KeepRegs, KeepCommand, KeepHead, KeepFlags
<1>9. CASE Read3
BY <1>9 DEF Read3, SetDrqBusy, KeepCommand, KeepHead
<1>10. CASE ReadSectWait
BY <1>10 DEF ReadSectWait, KeepRegs, KeepCommand, KeepHead, KeepTransfer, KeepFlags
<1>11. CASE ReadSect
BY <1>11 DEF ReadSect, SetDrqBusy, KeepRegs, KeepCommand, KeepHead
<1>12. CASE WriteSectWait
BY <1>12 DEF WriteSectWait, KeepRegs, KeepCommand, KeepHead, KeepTransfer, KeepFlags
<1>13. CASE WriteSect
BY <1>13 DEF WriteSect, SetDrqBusy, KeepRegs, KeepCommand, KeepHead, KeepTransfer
<1>14. CASE Write1
BY <1>14 DEF Write1, KeepRegs, KeepCommand, KeepHead, KeepTransfer, KeepFlags
<1>15. CASE Write2
BY <1>15 DEF Write2, SetDrqBusy, KeepRegs, KeepCommand, KeepHead
<1>16. CASE WaitCpuRead
BY <1>16 DEF WaitCpuRead, KeepRegs, KeepCommand, KeepHead
<1>17. CASE WaitCpuWrite
BY <1>17 DEF WaitCpuWrite, SetDrqBusy, KeepRegs, KeepCommand, KeepHead, KeepTransfer
<1>18. CASE WaitCpu
BY <1>18 DEF WaitCpu, KeepRegs, KeepCommand, KeepHead, KeepTransfer, KeepFlags
<1>19. CASE Abort
BY <1>19 DEF Abort, KeepRegs, KeepHead, KeepFlags
<1>20. CASE EndCommand
BY <1>20 DEF EndCommand, KeepRegs, KeepCommand, KeepHead, KeepTransfer, KeepFlags
<1>21. CASE EndCommand2
BY <1>21 DEF EndCommand2, SetDrqBusy, KeepRegs, KeepCommand, KeepHead, KeepTransfer
<1> QED BY <1>a, <1>1, <1>2, <1>3, <1>4, <1>5, <1>6, <1>7, <1>8, <1>9, <1>10, <1>11, <1>12, <1>13,
     <1>14, <1>15, <1>16, <1>17, <1>18, <1>19, <1>20, <1>21 DEF ClockedArm

(* The host's accesses meet the states they are meant for, and the busy    *)
(* bit goes down early for a flush only.                                   *)
LEMMA AccessArm ==
  ASSUME ProtocolInv, Cycle
  PROVE  /\ wdstat_pending' => Commands \/ (wdstat_pending /\ ~Accepts)
         /\ state \in FlushStates => state' \in FlushStates \cup {"READY"}
         /\ ~s_busy' => \/ state' \in {"READY", "WAIT_CPUWRITE"}
                        \/ ~s_busy /\ state \in FlushStates
         /\ s_drq' <=> state' \in {"READSECT", "WRITESECT"}
         /\ state = "WRITESECT" /\ ~Writes("DATA") => state' = "WRITESECT"
<1>f. AccessInv
  BY ProtocolParts
<1> USE QuietRegisters, <1>f DEF AccessInv, Accepts, Idling, Flushing, FlushStates, EndStates,
      Commands, Writes, host_pending
<1>a. HostInv /\ EveryCycle /\ ClockedArm
  BY ProtocolParts, CycleArm
<1> USE <1>a
<1>1. CASE ReadyIdle
BY <1>1 DEF ReadyIdle, KeepRegs, KeepCommand, KeepHead, KeepTransfer, KeepFlags
<1>2. CASE DoRestore \/ DoSeek \/ DoStep
BY <1>2 DEF DoRestore, DoSeek, DoStep, Execute, GetBusy, SetDrqBusy, KeepTransfer
<1>3. CASE DoRead \/ DoReadAddr
BY <1>3 DEF DoRead, DoReadAddr, Execute, SetDrqBusy, KeepHead
<1>4. CASE DoWrite
BY <1>4 DEF DoWrite, Execute, SetDrqBusy, KeepHead
<1>5. CASE DoTrackOp
BY <1>5 DEF DoTrackOp, Execute, SetDrqBusy, KeepHead, KeepTransfer
<1>6. CASE Read1
BY <1>6 DEF Read1, KeepRegs, KeepCommand, KeepHead, KeepFlags
<1>7. CASE Read2
BY <1>7 DEF Read2, SetDrqBusy, KeepRegs, KeepCommand, KeepHead
<1>8. CASE Read3Wait
BY <1>8 DEF Read3Wait, KeepRegs, KeepCommand, KeepHead, KeepFlags
<1>9. CASE Read3
BY <1>9 DEF Read3, SetDrqBusy, KeepCommand, KeepHead
<1>10. CASE ReadSectWait
BY <1>10 DEF ReadSectWait, KeepRegs, KeepCommand, KeepHead, KeepTransfer, KeepFlags
<1>11. CASE ReadSect
BY <1>11 DEF ReadSect, SetDrqBusy, KeepRegs, KeepCommand, KeepHead
<1>12. CASE WriteSectWait
BY <1>12 DEF WriteSectWait, KeepRegs, KeepCommand, KeepHead, KeepTransfer, KeepFlags
<1>13. CASE WriteSect
BY <1>13 DEF WriteSect, SetDrqBusy, KeepRegs, KeepCommand, KeepHead, KeepTransfer
<1>14. CASE Write1
BY <1>14 DEF Write1, KeepRegs, KeepCommand, KeepHead, KeepTransfer, KeepFlags
<1>15. CASE Write2
BY <1>15 DEF Write2, SetDrqBusy, KeepRegs, KeepCommand, KeepHead
<1>16. CASE WaitCpuRead
BY <1>16 DEF WaitCpuRead, KeepRegs, KeepCommand, KeepHead
<1>17. CASE WaitCpuWrite
  <2>1. /\ state = "WAIT_CPUWRITE" /\ ~s_drq => ~s_drq'
        /\ state' = "WAIT_CPUWRITE" \/ (state' = "ENDCOMMAND" /\ s_busy' = s_busy)
    BY <1>17 DEF WaitCpuWrite, SetDrqBusy
  <2>2. state = "WAIT_CPUWRITE" /\ wdstat_pending' = host_pending
    BY <1>17 DEF WaitCpuWrite, KeepCommand
  <2>3. wdstat_pending' => Commands \/ (wdstat_pending /\ ~Accepts)
    BY <2>2
  <2>4. s_drq' <=> state' \in {"READSECT", "WRITESECT"}
    <3>1. ~s_drq
      BY <2>2
    <3> QED BY <2>1, <2>2, <3>1
  <2>5. ~s_busy' => \/ state' \in {"READY", "WAIT_CPUWRITE"}
                    \/ ~s_busy /\ state \in FlushStates
    BY <2>1, <2>2
  <2> QED BY <2>1, <2>2, <2>3, <2>4, <2>5
<1>18. CASE WaitCpu
BY <1>18 DEF WaitCpu, KeepRegs, KeepCommand, KeepHead, KeepTransfer, KeepFlags
<1>19. CASE Abort
BY <1>19 DEF Abort, KeepRegs, KeepHead, KeepFlags
<1>20. CASE EndCommand
BY <1>20 DEF EndCommand, KeepRegs, KeepCommand, KeepHead, KeepTransfer, KeepFlags
<1>21. CASE EndCommand2
BY <1>21 DEF EndCommand2, SetDrqBusy, KeepRegs, KeepCommand, KeepHead, KeepTransfer
<1> QED BY <1>a, <1>1, <1>2, <1>3, <1>4, <1>5, <1>6, <1>7, <1>8, <1>9, <1>10, <1>11, <1>12, <1>13,
     <1>14, <1>15, <1>16, <1>17, <1>18, <1>19, <1>20, <1>21 DEF ClockedArm

(* The controller's claim on the buffer RAM follows its state.             *)
LEMMA BufferArm ==
  ASSUME ProtocolInv, Cycle
  PROVE  BufferLines'
<1>f. BufferLines
  BY ProtocolParts
<1> USE QuietRegisters, <1>f DEF BufferLines, ReadStates
<1>a. HostInv /\ EveryCycle /\ ClockedArm
  BY ProtocolParts, CycleArm
<1> USE <1>a
<1>1. CASE ReadyIdle
BY <1>1 DEF ReadyIdle, KeepRegs, KeepCommand, KeepHead, KeepTransfer, KeepFlags
<1>2. CASE DoRestore \/ DoSeek \/ DoStep
BY <1>2 DEF DoRestore, DoSeek, DoStep, Execute, GetBusy, SetDrqBusy, KeepTransfer
<1>3. CASE DoRead \/ DoReadAddr
BY <1>3 DEF DoRead, DoReadAddr, Execute, SetDrqBusy, KeepHead
<1>4. CASE DoWrite
BY <1>4 DEF DoWrite, Execute, SetDrqBusy, KeepHead
<1>5. CASE DoTrackOp
BY <1>5 DEF DoTrackOp, Execute, SetDrqBusy, KeepHead, KeepTransfer
<1>6. CASE Read1
BY <1>6 DEF Read1, KeepRegs, KeepCommand, KeepHead, KeepFlags
<1>7. CASE Read2
BY <1>7 DEF Read2, SetDrqBusy, KeepRegs, KeepCommand, KeepHead
<1>8. CASE Read3Wait
BY <1>8 DEF Read3Wait, KeepRegs, KeepCommand, KeepHead, KeepFlags
<1>9. CASE Read3
BY <1>9 DEF Read3, SetDrqBusy, KeepCommand, KeepHead
<1>10. CASE ReadSectWait
BY <1>10 DEF ReadSectWait, KeepRegs, KeepCommand, KeepHead, KeepTransfer, KeepFlags
<1>11. CASE ReadSect
BY <1>11 DEF ReadSect, SetDrqBusy, KeepRegs, KeepCommand, KeepHead
<1>12. CASE WriteSectWait
BY <1>12 DEF WriteSectWait, KeepRegs, KeepCommand, KeepHead, KeepTransfer, KeepFlags
<1>13. CASE WriteSect
BY <1>13 DEF WriteSect, SetDrqBusy, KeepRegs, KeepCommand, KeepHead, KeepTransfer
<1>14. CASE Write1
BY <1>14 DEF Write1, KeepRegs, KeepCommand, KeepHead, KeepTransfer, KeepFlags
<1>15. CASE Write2
BY <1>15 DEF Write2, SetDrqBusy, KeepRegs, KeepCommand, KeepHead
<1>16. CASE WaitCpuRead
BY <1>16 DEF WaitCpuRead, KeepRegs, KeepCommand, KeepHead
<1>17. CASE WaitCpuWrite
BY <1>17 DEF WaitCpuWrite, SetDrqBusy, KeepRegs, KeepCommand, KeepHead, KeepTransfer
<1>18. CASE WaitCpu
BY <1>18 DEF WaitCpu, KeepRegs, KeepCommand, KeepHead, KeepTransfer, KeepFlags
<1>19. CASE Abort
BY <1>19 DEF Abort, KeepRegs, KeepHead, KeepFlags
<1>20. CASE EndCommand
BY <1>20 DEF EndCommand, KeepRegs, KeepCommand, KeepHead, KeepTransfer, KeepFlags
<1>21. CASE EndCommand2
BY <1>21 DEF EndCommand2, SetDrqBusy, KeepRegs, KeepCommand, KeepHead, KeepTransfer
<1> QED BY <1>a, <1>1, <1>2, <1>3, <1>4, <1>5, <1>6, <1>7, <1>8, <1>9, <1>10, <1>11, <1>12, <1>13,
     <1>14, <1>15, <1>16, <1>17, <1>18, <1>19, <1>20, <1>21 DEF ClockedArm

(* The request follows the job.                                            *)
LEMMA RequestArm ==
  ASSUME ProtocolInv, Cycle
  PROVE  RequestFits'
<1>f. RequestFits /\ JobInStep /\ job \in JobType
  BY ProtocolParts
<1> USE QuietRegisters, <1>f DEF RequestFits, ReadStates, WriteStates, Reading, Request, Signal,
      NoJob, Job, JobInStep, JobType
<1>s. state = "WRITE_2" => job.side = wdstat_side
  BY ProtocolParts DEF RegistersKept, JobInStep, Flushing, FlushStates, EndStates
<1> USE <1>s
<1>a. HostInv /\ EveryCycle /\ ClockedArm
  BY ProtocolParts, CycleArm
<1> USE <1>a
<1>1. CASE ReadyIdle
BY <1>1 DEF ReadyIdle, KeepRegs, KeepCommand, KeepHead, KeepTransfer, KeepFlags
<1>2. CASE DoRestore \/ DoSeek \/ DoStep
BY <1>2 DEF DoRestore, DoSeek, DoStep, Execute, GetBusy, SetDrqBusy, KeepTransfer
<1>3. CASE DoRead \/ DoReadAddr
BY <1>3 DEF DoRead, DoReadAddr, Execute, SetDrqBusy, KeepHead
<1>4. CASE DoWrite
BY <1>4 DEF DoWrite, Execute, SetDrqBusy, KeepHead
<1>5. CASE DoTrackOp
BY <1>5 DEF DoTrackOp, Execute, SetDrqBusy, KeepHead, KeepTransfer
<1>6. CASE Read1
BY <1>6 DEF Read1, KeepRegs, KeepCommand, KeepHead, KeepFlags
<1>7. CASE Read2
BY <1>7 DEF Read2, SetDrqBusy, KeepRegs, KeepCommand, KeepHead
<1>8. CASE Read3Wait
BY <1>8 DEF Read3Wait, KeepRegs, KeepCommand, KeepHead, KeepFlags
<1>9. CASE Read3
BY <1>9 DEF Read3, SetDrqBusy, KeepCommand, KeepHead
<1>10. CASE ReadSectWait
BY <1>10 DEF ReadSectWait, KeepRegs, KeepCommand, KeepHead, KeepTransfer, KeepFlags
<1>11. CASE ReadSect
BY <1>11 DEF ReadSect, SetDrqBusy, KeepRegs, KeepCommand, KeepHead
<1>12. CASE WriteSectWait
BY <1>12 DEF WriteSectWait, KeepRegs, KeepCommand, KeepHead, KeepTransfer, KeepFlags
<1>13. CASE WriteSect
BY <1>13 DEF WriteSect, SetDrqBusy, KeepRegs, KeepCommand, KeepHead, KeepTransfer
<1>14. CASE Write1
BY <1>14 DEF Write1, KeepRegs, KeepCommand, KeepHead, KeepTransfer, KeepFlags
<1>15. CASE Write2
BY <1>15 DEF Write2, SetDrqBusy, KeepRegs, KeepCommand, KeepHead
<1>16. CASE WaitCpuRead
BY <1>16 DEF WaitCpuRead, KeepRegs, KeepCommand, KeepHead
<1>17. CASE WaitCpuWrite
BY <1>17 DEF WaitCpuWrite, SetDrqBusy, KeepRegs, KeepCommand, KeepHead, KeepTransfer
<1>18. CASE WaitCpu
BY <1>18 DEF WaitCpu, KeepRegs, KeepCommand, KeepHead, KeepTransfer, KeepFlags
<1>19. CASE Abort
BY <1>19 DEF Abort, KeepRegs, KeepHead, KeepFlags
<1>20. CASE EndCommand
BY <1>20 DEF EndCommand, KeepRegs, KeepCommand, KeepHead, KeepTransfer, KeepFlags
<1>21. CASE EndCommand2
BY <1>21 DEF EndCommand2, SetDrqBusy, KeepRegs, KeepCommand, KeepHead, KeepTransfer
<1> QED BY <1>a, <1>1, <1>2, <1>3, <1>4, <1>5, <1>6, <1>7, <1>8, <1>9, <1>10, <1>11, <1>12, <1>13,
     <1>14, <1>15, <1>16, <1>17, <1>18, <1>19, <1>20, <1>21 DEF ClockedArm

(* An idle controller stays so until it takes a command.                   *)
LEMMA IdlingStays ==
  ASSUME ProtocolInv, Cycle, Idling, ~Accepts
  PROVE  Idling' /\ (Flushing /\ state' # "READY" => Flushing') /\ UNCHANGED job
<1>1. UNCHANGED job /\ (state = "READY" => state' = "READY")
  BY ArmJob DEF Accepts
<1>2. Flushing => state' \in FlushStates \cup {"READY"}
  BY AccessArm DEF Flushing
<1> QED BY <1>1, <1>2 DEF Idling, Flushing

(* No register of a job changes before its end, but in a flush: then the   *)
(* history takes down the SECTOR number written.                           *)
LEMMA NamedTick ==
  ASSUME ProtocolInv, Cycle
  PROVE  IF Accepts THEN named' = {wdstat_sector} /\ UNCHANGED wdstat_sector
         ELSE /\ named \subseteq named'
              /\ state # "READY" /\ wdstat_sector \in named => wdstat_sector' \in named'
<1>1. EveryCycle /\ HostInv /\ AccessInv
  BY ProtocolParts, CycleArm
<1>2. HostTick
  BY DEF Cycle
<1>3. CASE Accepts
  BY <1>1, <1>2, <1>3, QuietRegisters DEF HostTick, Accepts, AccessInv, EveryCycle, host_sector,
     Writes
<1>4. CASE ~Accepts
  BY <1>1, <1>2, <1>4, QuietRegisters DEF HostTick, EveryCycle, host_sector
<1> QED BY <1>3, <1>4

LEMMA RegistersStep ==
  ASSUME ProtocolInv, Cycle
  PROVE  RegistersKept'
<1>1. EveryCycle /\ HostInv /\ AccessInv /\ RegistersKept /\ bus \in Access
  BY ProtocolParts, CycleArm
<1>2. ~Idling \/ wdstat_pending => UNCHANGED <<wdstat_sector, wdstat_side, wdstat_drive>>
  BY <1>1, QuietRegisters DEF EveryCycle, AccessInv, host_sector, host_side, host_drive, Writes
<1>3. CASE job' = NoJob
  BY <1>3 DEF NoJob, RegistersKept
<1>4. CASE /\ job' \in {Job("READ"), Job("WRITE"), Job("READADDR")}
           /\ Accepts /\ UNCHANGED disk_track
  BY <1>2, <1>4, NamedTick DEF Job, RegistersKept, Accepts
<1>5. CASE /\ UNCHANGED <<job, disk_track>> /\ (state = "READY" => state' = "READY")
  <2> SUFFICES ASSUME job.op # "NONE", state # "READY", state' # "READY"
               PROVE  /\ job.track = disk_track
                      /\ job.sector \in named' /\ wdstat_sector' \in named'
                      /\ ~Flushing' => /\ job.drive = wdstat_drive' /\ job.side = wdstat_side'
                                       /\ job.sector = wdstat_sector'
    BY <1>5 DEF RegistersKept
  <2>1. ~Accepts
    BY DEF Accepts
  <2>2. /\ job.track = disk_track
        /\ job.sector \in named' /\ wdstat_sector' \in named'
    BY <1>1, <2>1, NamedTick DEF RegistersKept
  <2>3. ~Flushing' => ~Flushing /\ ~Idling
    BY <2>1, IdlingStays DEF Idling
  <2> QED BY <1>1, <1>2, <2>2, <2>3 DEF RegistersKept
<1> QED BY ArmJob, <1>3, <1>4, <1>5 DEF Accepts

(* A command waits for the end of a flush at most, and nothing else is on  *)
(* the bus then.                                                           *)
LEMMA AccessStep ==
  ASSUME ProtocolInv, Cycle
  PROVE  AccessInv'
<1>1. /\ AccessInv /\ HostTypeOK /\ Strobes /\ bus \in Access /\ job \in JobType
      /\ bus'.op # "wr" /\ (bus'.op = "rd" => bus = bus') /\ ClockedArm
  BY ProtocolParts, CycleArm
<1>2. /\ bus.op = "wr" => bus'.op = "none" /\ seen' = "busy"
      /\ seen' \in {seen, "busy"}
      /\ wdstat_pending => bus'.op = "none" /\ seen' = "busy"
  BY <1>1 DEF Cycle, HostTick, Strobes, HostTypeOK, NoAccess, AccessInv
<1>3. ~s_busy' => Idling'
  <2>1. CASE state' = "READY"
    BY <2>1 DEF Idling
  <2>2. CASE state' = "WAIT_CPUWRITE"
    BY <2>2, RequestArm DEF RequestFits, Idling, Flushing, FlushStates
  <2>3. CASE ~s_busy /\ state \in FlushStates
    BY <1>1, <2>3, IdlingStays DEF AccessInv, FlushStates, EndStates, Accepts
  <2> QED BY <2>1, <2>2, <2>3, AccessArm
<1>4. wdstat_pending' => Idling' /\ bus'.op = "none" /\ seen' = "busy"
  <2>1. CASE Commands
    <3>1. Idling /\ bus.op = "wr" /\ ~wdstat_pending
      BY <1>1, <2>1 DEF AccessInv, Commands, Writes
    <3> QED BY <1>2, <3>1, IdlingStays DEF Accepts
  <2>2. CASE wdstat_pending /\ ~Accepts
    BY <1>1, <1>2, <2>2, IdlingStays DEF AccessInv
  <2> QED BY <2>1, <2>2, AccessArm
<1>5. s_drq' <=> state' \in {"READSECT", "WRITESECT"}
  BY AccessArm
<1>6. ~wdstat_pending => UNCHANGED job
  BY ArmJob
<1>7. bus'.op = "rd" => Reading'
  BY <1>1, <1>2, <1>6 DEF AccessInv, Reading
<1>8. seen' = "drq" => job'.op # "NONE" /\ (job'.op = "WRITE" => state' = "WRITESECT")
  BY <1>1, <1>2, <1>6, AccessArm DEF AccessInv, Strobes, Writes
<1> QED BY <1>1, <1>3, <1>4, <1>5, <1>7, <1>8 DEF AccessInv

LEMMA AccessHost ==
  ASSUME Polite, ProtocolInv, HostStep
  PROVE  AccessInv'
<1>1. /\ AccessInv /\ RequestFits /\ IdleIsStable /\ bus \in Access /\ job \in JobType
  BY ProtocolParts
<1>2. UNCHANGED <<state, s_drq, s_busy, wdstat_pending, job>> /\ (Idling' <=> Idling)
  BY DEF HostStep, fdcVars, Idling, Flushing
<1>3. seen = "idle" => Idling /\ ~wdstat_pending
  BY <1>1 DEF AccessInv, IdleIsStable
<1> USE DEF AccessInv, HostFree, NoAccess, Reading
<1>4. CASE HostStatus
  <2>1. s_drq => ~wdstat_pending
    BY <1>1 DEF Idling, Flushing, FlushStates, EndStates
  <2> QED BY <1>1, <1>2, <1>4, <2>1 DEF HostStatus, BusyBit, DrqBit, RequestFits, ReadStates,
             WriteStates
<1>5. CASE HostCommand
  BY <1>1, <1>2, <1>3, <1>5 DEF HostCommand, MayCommand, MaySet, Polite, Write
<1>6. CASE HostAbort
  BY <1>6 DEF HostAbort, Polite
<1>7. CASE HostSetTrack \/ HostSetSector \/ HostSetUnit \/ HostSetData
  BY <1>1, <1>2, <1>3, <1>7 DEF HostSetTrack, HostSetSector, HostSetUnit, HostSetData, MaySet, Write
<1>8. CASE HostPutByte
  BY <1>1, <1>2, <1>8 DEF HostPutByte, MayMove, Write
<1>9. CASE HostGetByte
  BY <1>1, <1>2, <1>9 DEF HostGetByte, MayMove, JobType
<1> QED BY <1>4, <1>5, <1>6, <1>7, <1>8, <1>9 DEF HostStep

-----------------------------------------------------------------------------
(* What the status port says while a request is being served: neither      *)
(* COMPLETE nor DRVNOTRDY.                                                 *)
LEMMA ServingStatus ==
  ASSUME ProtocolInv,
         \/ pc \in Serving \cup {"nop"}
         \/ pc = "dispatch" /\ cmd.op \in Transfers \cup {"NOP"}
  PROVE  /\ ~Failed(wdport_cpu_status) /\ ~Succeeded(wdport_cpu_status)
         /\ "COMPLETE" \notin wdport_cpu_status
         /\ state = WaitState[cmd.op] /\ state \in WaitStates
         /\ cmd = oCPU_REQUEST /\ cmd.op \in Transfers \cup {"NOP"}
<1>1. /\ StatusFits /\ ServesRequest /\ cmd \in [op : RequestOps, unit : 0 .. 3]
  BY ProtocolParts
<1>2. "COMPLETE" \notin wdport_cpu_status
  BY <1>1 DEF ServesRequest, Complete
<1>3. "DRVNOTRDY" \notin wdport_cpu_status
  BY <1>1 DEF StatusFits, DoneStatuses, Serving
<1>4. /\ state = WaitState[cmd.op] /\ cmd.op \in Transfers \cup {"NOP"} /\ cmd = oCPU_REQUEST
  BY <1>1 DEF ServesRequest
<1>5. state \in WaitStates
  BY <1>4 DEF WaitState, WaitStates, Transfers
<1> QED BY <1>2, <1>3, <1>4, <1>5 DEF Failed, Succeeded

(* Without an answer the controller goes on waiting.                       *)
LEMMA WaitGoesOn ==
  ASSUME HostInv, ClockedArm, state \in WaitStates,
         ~Failed(wdport_cpu_status), ~Succeeded(wdport_cpu_status),
         "COMPLETE" \notin wdport_cpu_status
  PROVE  UNCHANGED <<state, oCPU_REQUEST, job>>
<1> USE QuietRegisters DEF WaitStates
<1>1. CASE state = "WAIT_CPU"
  <2>1. WaitCpu
    BY <1>1 DEF ClockedArm, ReadyIdle, DoRestore, DoSeek, DoStep, DoRead, DoWrite, DoReadAddr,
       DoTrackOp, Execute, Read1, Read2, Read3Wait, Read3, ReadSectWait, ReadSect, WriteSectWait,
       WriteSect, Write1, Write2, WaitCpuRead, WaitCpuWrite, Abort, EndCommand, EndCommand2
  <2> QED BY <2>1 DEF WaitCpu
<1>2. CASE state = "WAIT_CPUREAD"
  <2>1. WaitCpuRead
    BY <1>2 DEF ClockedArm, ReadyIdle, DoRestore, DoSeek, DoStep, DoRead, DoWrite, DoReadAddr,
       DoTrackOp, Execute, Read1, Read2, Read3Wait, Read3, ReadSectWait, ReadSect, WriteSectWait,
       WriteSect, Write1, Write2, WaitCpu, WaitCpuWrite, Abort, EndCommand, EndCommand2
  <2> QED BY <2>1 DEF WaitCpuRead
<1>3. CASE state = "WAIT_CPUWRITE"
  <2>1. WaitCpuWrite
    BY <1>3 DEF ClockedArm, ReadyIdle, DoRestore, DoSeek, DoStep, DoRead, DoWrite, DoReadAddr,
       DoTrackOp, Execute, Read1, Read2, Read3Wait, Read3, ReadSectWait, ReadSect, WriteSectWait,
       WriteSect, Write1, Write2, WaitCpu, WaitCpuRead, Abort, EndCommand, EndCommand2
  <2> QED BY <2>1 DEF WaitCpuWrite
<1> QED BY <1>1, <1>2, <1>3

(* A request keeps being served through the cycles.                        *)
LEMMA ServesCycle ==
  ASSUME ProtocolInv, Cycle
  PROVE  ServesRequest' /\ SeekFits' /\ StatusFits'
<1>1. /\ HostInv /\ ClockedArm /\ StatusFits /\ ServesRequest /\ SeekFits
      /\ UNCHANGED <<pc, cmd, cur, block, wdport_cpu_status>>
  BY ProtocolParts, CycleArm DEF Cycle, CpuTick
<1>2. StatusFits'
  BY <1>1 DEF StatusFits
<1>3. CASE \/ pc \in Serving \cup {"nop"}
           \/ pc = "dispatch" /\ cmd.op \in Transfers \cup {"NOP"}
  <2>1. UNCHANGED <<state, oCPU_REQUEST, job>>
    BY <1>1, <1>3, ServingStatus, WaitGoesOn
  <2>2. ServesRequest'
    BY <1>1, <2>1 DEF ServesRequest, Complete
  <2>3. named \subseteq named'
    BY <1>3, NamedTick, ServingStatus DEF Accepts, WaitStates
  <2>4. SeekFits'
    BY <1>1, <2>1, <2>3 DEF SeekFits, MayWrite, JobPosition, Length, DriveBit
  <2> QED BY <1>2, <2>2, <2>4
<1>4. CASE ~(\/ pc \in Serving \cup {"nop"}
             \/ pc = "dispatch" /\ cmd.op \in Transfers \cup {"NOP"})
  BY <1>1, <1>2, <1>4 DEF ServesRequest, SeekFits, Serving
<1> QED BY <1>3, <1>4

(* The controller leaves its wait with the answer, and before the firmware *)
(* can look for another request.                                           *)
LEMMA AnswerArm ==
  ASSUME ProtocolInv, Cycle
  PROVE  /\ Complete => state' \in WaitStates \cup ReadStates \cup EndStates
         /\ Complete => state' \notin WaitStates
         /\ state' \in ReadStates => pc = "poll"
         /\ state' = "READ_2" /\ ~buff_rd' => cpuwait = POLL_CYCLES /\ ~Frozen
         /\ state' = "ENDCOMMAND" => pc \in {"thrall", "mount", "start", "exit", "poll"}
<1>f. AnswerTaken /\ BufferLines /\ NoAbort
  BY ProtocolParts
<1> USE QuietRegisters, <1>f DEF AnswerTaken, BufferLines, Complete, WaitStates, ReadStates,
      EndStates, Failed, Succeeded, NoAbort, Frozen
<1>s. "DRVNOTRDY" \in wdport_cpu_status => pc \in {"thrall", "mount", "start"}
  <2>1. StatusFits /\ SlaveTypeOK
    BY ProtocolParts
  <2> QED BY <2>1 DEF StatusFits, DoneStatuses, SlaveTypeOK, PCs, Serving
<1> USE <1>s
<1>a. HostInv /\ EveryCycle /\ ClockedArm
  BY ProtocolParts, CycleArm
<1> USE <1>a
<1>1. CASE ReadyIdle
BY <1>1 DEF ReadyIdle, KeepRegs, KeepCommand, KeepHead, KeepTransfer, KeepFlags
<1>2. CASE DoRestore \/ DoSeek \/ DoStep
BY <1>2 DEF DoRestore, DoSeek, DoStep, Execute, GetBusy, SetDrqBusy, KeepTransfer
<1>3. CASE DoRead \/ DoReadAddr
BY <1>3 DEF DoRead, DoReadAddr, Execute, SetDrqBusy, KeepHead
<1>4. CASE DoWrite
BY <1>4 DEF DoWrite, Execute, SetDrqBusy, KeepHead
<1>5. CASE DoTrackOp
BY <1>5 DEF DoTrackOp, Execute, SetDrqBusy, KeepHead, KeepTransfer
<1>6. CASE Read1
BY <1>6 DEF Read1, KeepRegs, KeepCommand, KeepHead, KeepFlags
<1>7. CASE Read2
BY <1>7 DEF Read2, SetDrqBusy, KeepRegs, KeepCommand, KeepHead
<1>8. CASE Read3Wait
BY <1>8 DEF Read3Wait, KeepRegs, KeepCommand, KeepHead, KeepFlags
<1>9. CASE Read3
BY <1>9 DEF Read3, SetDrqBusy, KeepCommand, KeepHead
<1>10. CASE ReadSectWait
BY <1>10 DEF ReadSectWait, KeepRegs, KeepCommand, KeepHead, KeepTransfer, KeepFlags
<1>11. CASE ReadSect
BY <1>11 DEF ReadSect, SetDrqBusy, KeepRegs, KeepCommand, KeepHead
<1>12. CASE WriteSectWait
BY <1>12 DEF WriteSectWait, KeepRegs, KeepCommand, KeepHead, KeepTransfer, KeepFlags
<1>13. CASE WriteSect
BY <1>13 DEF WriteSect, SetDrqBusy, KeepRegs, KeepCommand, KeepHead, KeepTransfer
<1>14. CASE Write1
BY <1>14 DEF Write1, KeepRegs, KeepCommand, KeepHead, KeepTransfer, KeepFlags
<1>15. CASE Write2
BY <1>15 DEF Write2, SetDrqBusy, KeepRegs, KeepCommand, KeepHead
<1>16. CASE WaitCpuRead
BY <1>16 DEF WaitCpuRead, KeepRegs, KeepCommand, KeepHead
<1>17. CASE WaitCpuWrite
BY <1>17 DEF WaitCpuWrite, SetDrqBusy, KeepRegs, KeepCommand, KeepHead, KeepTransfer
<1>18. CASE WaitCpu
BY <1>18 DEF WaitCpu, KeepRegs, KeepCommand, KeepHead, KeepTransfer, KeepFlags
<1>19. CASE Abort
BY <1>19 DEF Abort, KeepRegs, KeepHead, KeepFlags
<1>20. CASE EndCommand
BY <1>20 DEF EndCommand, KeepRegs, KeepCommand, KeepHead, KeepTransfer, KeepFlags
<1>21. CASE EndCommand2
BY <1>21 DEF EndCommand2, SetDrqBusy, KeepRegs, KeepCommand, KeepHead, KeepTransfer
<1> QED BY <1>a, <1>1, <1>2, <1>3, <1>4, <1>5, <1>6, <1>7, <1>8, <1>9, <1>10, <1>11, <1>12, <1>13,
     <1>14, <1>15, <1>16, <1>17, <1>18, <1>19, <1>20, <1>21 DEF ClockedArm

LEMMA AnswerCycle ==
  ASSUME Paced, ProtocolInv, Cycle
  PROVE  AnswerTaken'
<1>1. /\ cpuwait \in 0 .. POLL_CYCLES /\ UNCHANGED <<pc, wdport_cpu_status>>
      /\ cpuwait' \in {cpuwait, cpuwait - 1}
  BY ProtocolParts DEF Cycle, CpuTick
<1>2. cpuwait = POLL_CYCLES => cpuwait' >= 1
  BY <1>1, SlaveAssumption DEF Paced
<1> QED BY <1>1, <1>2, AnswerArm DEF AnswerTaken, Complete, WaitStates, ReadStates, EndStates

-----------------------------------------------------------------------------
(* The firmware's steps.  One that is not frozen finds no answer waiting   *)
(* to be taken, and fetches only what the controller is waiting for.       *)
LEMMA FirmwareQuiet ==
  ASSUME Paced, ProtocolInv, CpuRuns
  PROVE  /\ state \notin ReadStates
         /\ Complete => state \notin WaitStates
         /\ pc = "fetch" => state # "ENDCOMMAND"
<1>1. AnswerTaken /\ BufferLines /\ cpuwait = 0 /\ ~buff_rd /\ POLL_CYCLES >= 2
  BY ProtocolParts DEF CpuRuns, Frozen, Paced
<1> QED BY <1>1 DEF AnswerTaken, BufferLines, ReadStates, WaitStates

LEMMA FetchedIsAwaited ==
  ASSUME Paced, ProtocolInv, CpuRuns, pc = "fetch",
         oCPU_REQUEST.op \in Transfers \cup {"NOP"}
  PROVE  state = WaitState[oCPU_REQUEST.op] /\ ~Complete
<1>1. RequestFits /\ NoAbort /\ state \in States /\ oCPU_REQUEST \in RequestType
  BY ProtocolParts
<1>2. state \in WaitStates
  BY <1>1, FirmwareQuiet DEF RequestFits, ReadStates, WriteStates, Transfers, NoAbort, States,
     WaitStates, Signal
<1>3. state = WaitState[oCPU_REQUEST.op]
  BY <1>1, <1>2 DEF RequestFits, WaitStates, WaitState, Request, Signal, Transfers, Reading,
     RequestType
<1> QED BY <1>2, <1>3, FirmwareQuiet

(* The dma unit's steps of a transfer and the 6502's.                      *)
Moves == FillBlock \/ FillAddress \/ StoreBlock \/ TransferDone \/ TransferFails

LEMMA MoveEffect ==
  ASSUME ProtocolInv, Moves
  PROVE  /\ pc = "xfer" /\ pc' \in {"xfer", "report"} /\ cpuwait' = 1
         /\ UNCHANGED <<wdport_cpu_status, cmd, cur>>
         /\ block' \in {block, block + 1} /\ (pc' = "xfer" => block < Length)
BY DEF Moves, FillBlock, FillAddress, StoreBlock, TransferDone, TransferFails, Transferring, GoTo

(* The status port by the place of the firmware.                           *)
LEMMA StatusFirmware ==
  ASSUME Paced, ProtocolInv, Firmware
  PROVE  StatusFits'
<1>f. StatusFits /\ RequestFits
  BY ProtocolParts
<1>u. UNCHANGED <<state, job, oCPU_REQUEST, disk_track, wdstat_sector, wdstat_side, wdstat_drive,
                 buff_rd, buff_wr>>
  BY DEF Firmware, fdcVars
<1> USE <1>f, <1>u DEF StatusFits, Serving, GoTo, Status
<1>1. CASE Thrall \/ Mount \/ StartLoop \/ StartGarbage
BY <1>1 DEF Thrall, Mount, StartLoop, StartGarbage
<1>2. CASE Poll
BY <1>2 DEF Poll
<1>3. CASE Fetch
BY <1>3 DEF Fetch, RequestFits
<1>4. CASE DispatchTransfer
BY <1>4 DEF DispatchTransfer
<1>5. CASE DispatchAck \/ DispatchNop \/ DispatchFail \/ DispatchIdle
BY <1>5 DEF DispatchAck, DispatchNop, DispatchFail, DispatchIdle
<1>6. CASE Nop
BY <1>6 DEF Nop, DoneStatuses
<1>7. CASE SeekTrack
BY <1>7 DEF SeekTrack
<1>8. CASE SeekSector
BY <1>8 DEF SeekSector
<1>9. CASE Moves
BY <1>9, MoveEffect
<1>10. CASE Report
  <2>1. wdport_cpu_status' \in DoneStatuses
    BY <1>10 DEF Report, DoneStatuses
  <2> QED BY <1>10, <2>1 DEF Report
<1>11. CASE Exit
BY <1>11 DEF Exit
<1> QED BY <1>1, <1>2, <1>3, <1>4, <1>5, <1>6, <1>7, <1>8, <1>9, <1>10, <1>11 DEF Firmware,
     SlaveStep, Moves

(* The firmware serves what it fetched, and fetched what is awaited.       *)
LEMMA ServesFirmware ==
  ASSUME Paced, ProtocolInv, Firmware
  PROVE  ServesRequest'
<1>f. ServesRequest /\ StatusFits /\ cmd \in [op : RequestOps, unit : 0 .. 3]
  BY ProtocolParts
<1>u. UNCHANGED <<state, job, oCPU_REQUEST, disk_track, wdstat_sector, wdstat_side, wdstat_drive,
                 buff_rd, buff_wr>>
  BY DEF Firmware, fdcVars
<1> USE <1>f, <1>u DEF ServesRequest, Complete, Serving, GoTo, Status
<1>1. CASE Thrall \/ Mount \/ StartLoop \/ StartGarbage
BY <1>1 DEF Thrall, Mount, StartLoop, StartGarbage
<1>2. CASE Poll
BY <1>2 DEF Poll
<1>3. CASE Fetch
BY <1>3, FetchedIsAwaited DEF Fetch
<1>4. CASE DispatchTransfer
BY <1>4 DEF DispatchTransfer, Transfers
<1>5. CASE DispatchAck \/ DispatchNop \/ DispatchFail \/ DispatchIdle
BY <1>5 DEF DispatchAck, DispatchNop, DispatchFail, DispatchIdle
<1>6. CASE Nop
BY <1>6 DEF Nop
<1>7. CASE SeekTrack
BY <1>7 DEF SeekTrack
<1>8. CASE SeekSector
BY <1>8 DEF SeekSector
<1>9. CASE Moves
BY <1>9, MoveEffect
<1>10. CASE Report
BY <1>10 DEF Report
<1>11. CASE Exit
BY <1>11 DEF Exit
<1> QED BY <1>1, <1>2, <1>3, <1>4, <1>5, <1>6, <1>7, <1>8, <1>9, <1>10, <1>11 DEF Firmware,
     SlaveStep, Moves

(* An answer is given to a waiting controller only.                        *)
LEMMA AnswerFirmware ==
  ASSUME Paced, ProtocolInv, Firmware
  PROVE  AnswerTaken'
<1>f. AnswerTaken
  BY ProtocolParts
<1>u. UNCHANGED <<state, job, oCPU_REQUEST, disk_track, wdstat_sector, wdstat_side, wdstat_drive,
                 buff_rd, buff_wr>>
  BY DEF Firmware, fdcVars
<1> USE <1>f, <1>u DEF AnswerTaken, Complete, GoTo, Status
<1>1. CASE Thrall \/ Mount \/ StartLoop \/ StartGarbage
BY <1>1, FirmwareQuiet, SlaveAssumption DEF Thrall, Mount, StartLoop, StartGarbage
<1>2. CASE Poll
BY <1>2, FirmwareQuiet DEF Poll
<1>3. CASE Fetch
BY <1>3, FirmwareQuiet DEF Fetch
<1>4. CASE DispatchTransfer
BY <1>4 DEF DispatchTransfer
<1>5. CASE DispatchAck \/ DispatchNop \/ DispatchFail \/ DispatchIdle
BY <1>5, FirmwareQuiet, SlaveAssumption DEF DispatchAck, DispatchNop, DispatchFail, DispatchIdle
<1>6. CASE Nop
BY <1>6, ServingStatus DEF Nop, WaitStates, ReadStates, Serving
<1>7. CASE SeekTrack
BY <1>7 DEF SeekTrack
<1>8. CASE SeekSector
BY <1>8 DEF SeekSector
<1>9. CASE Moves
BY <1>9, MoveEffect
<1>10. CASE Report
  <2>1. state \in WaitStates
    BY <1>10, ServingStatus DEF Report, Serving
  <2>2. /\ pc' = "poll" => cpuwait' = POLL_CYCLES
        /\ pc' = "exit" => cpuwait' = 1 /\ "SUCCESS" \notin wdport_cpu_status'
        /\ pc' \in {"poll", "exit"}
    BY <1>10 DEF Report
  <2> QED BY <2>1, <2>2 DEF WaitStates, ReadStates
<1>11. CASE Exit
BY <1>11 DEF Exit
<1> QED BY <1>1, <1>2, <1>3, <1>4, <1>5, <1>6, <1>7, <1>8, <1>9, <1>10, <1>11 DEF Firmware,
     SlaveStep, Moves

(* The request names the side of its job, and, of a read, the drive; the   *)
(* registers hold the rest, but for a SECTOR rewritten in a flush.         *)
LEMMA RequestBits ==
  ASSUME ProtocolInv, pc \in {"dispatch", "seekT", "seekS", "xfer"}, cmd.op \in Transfers
  PROVE  /\ SideBit(cmd) = job.side /\ cmd.op = job.op
         /\ cmd.op # "WRITE" => DriveBit(cmd) = job.drive /\ job.sector = wdstat_sector
         /\ job.track = disk_track /\ wdstat_sector \in named
<1>1. RequestFits /\ RegistersKept /\ job \in JobType
  BY ProtocolParts
<1>2. state = WaitState[cmd.op] /\ cmd = oCPU_REQUEST
  BY ServingStatus DEF Serving
<1>3. \A d \in {0, 1}, s \in {0, 1} : (2 * d + s) % 2 = s /\ (2 * d + s) \div 2 = d
  OBVIOUS
<1>4. job.side \in {0, 1} /\ job.drive \in {0, 1}
  BY <1>1 DEF JobType
<1>5. CASE cmd.op = "WRITE"
  <2>1. state = "WAIT_CPUWRITE"
    BY <1>2, <1>5 DEF WaitState
  <2>2. job.op = "WRITE" /\ cmd.unit = 2 * 0 + job.side
    BY <1>1, <1>2, <2>1 DEF RequestFits, Request
  <2> QED BY <1>1, <1>3, <1>4, <1>5, <2>1, <2>2 DEF SideBit, RegistersKept
<1>6. CASE cmd.op \in {"READ", "READADDR"}
  <2>1. state = "WAIT_CPUREAD"
    BY <1>2, <1>6 DEF WaitState
  <2>2. Reading /\ cmd.op = job.op /\ cmd.unit = 2 * job.drive + job.side
    BY <1>1, <1>2, <2>1 DEF RequestFits, Request
  <2>3. SideBit(cmd) = job.side /\ DriveBit(cmd) = job.drive
    BY <1>3, <1>4, <2>2 DEF SideBit, DriveBit
  <2> QED BY <1>1, <2>1, <2>2, <2>3 DEF RegistersKept, Reading, Flushing
<1> QED BY <1>5, <1>6 DEF Transfers

(* The sought position is that of the job.                                 *)
LEMMA SeekFirmware ==
  ASSUME Paced, ProtocolInv, Firmware
  PROVE  SeekFits'
<1>f. SeekFits /\ SlaveTypeOK /\ ServesRequest
  BY ProtocolParts
<1>u. UNCHANGED <<state, job, oCPU_REQUEST, disk_track, wdstat_sector, wdstat_side, wdstat_drive,
                 buff_rd, buff_wr, named>>
  BY DEF Firmware, fdcVars, hostVars
<1> USE <1>f, <1>u DEF SeekFits, GoTo, Status
<1>1. CASE Thrall \/ Mount \/ StartLoop \/ StartGarbage
BY <1>1 DEF Thrall, Mount, StartLoop, StartGarbage
<1>2. CASE Poll
BY <1>2 DEF Poll
<1>3. CASE Fetch
BY <1>3 DEF Fetch
<1>4. CASE DispatchTransfer
BY <1>4 DEF DispatchTransfer
<1>5. CASE DispatchAck \/ DispatchNop \/ DispatchFail \/ DispatchIdle
BY <1>5 DEF DispatchAck, DispatchNop, DispatchFail, DispatchIdle
<1>6. CASE Nop
BY <1>6 DEF Nop
<1>7. CASE SeekTrack
  <2>1. cmd.op \in Transfers
    BY <1>7 DEF SeekTrack, ServesRequest, Serving
  <2>2. /\ pc' = "seekS" /\ cmd' = cmd /\ pc = "seekT"
        /\ cur'.side = SideBit(cmd) /\ cur'.track = disk_track
    BY <1>7 DEF SeekTrack, SlaveTypeOK, Position
  <2>3. SideBit(cmd) = job.side /\ job.track = disk_track
    BY <2>1, <2>2, RequestBits
  <2> QED BY <2>2, <2>3 DEF DriveBit
<1>8. CASE SeekSector
  <2>1. cmd.op \in Transfers
    BY <1>8 DEF SeekSector, ServesRequest, Serving
  <2>2. /\ pc' = "xfer" /\ cmd' = cmd /\ pc = "seekS" /\ block' = 0
        /\ cur' = [side |-> cur.side, track |-> cur.track, sector |-> wdstat_sector]
    BY <1>8 DEF SeekSector, SlaveTypeOK, Position
  <2>3. wdstat_sector \in named /\ (cmd.op # "WRITE" => job.sector = wdstat_sector)
    BY <2>1, <2>2, RequestBits
  <2>4. 0 <= Length'
    BY BusAssumption DEF Length
  <2> QED BY <2>2, <2>3, <2>4 DEF DriveBit, JobPosition, MayWrite
<1>9. CASE Moves
  <2>1. /\ pc = "xfer" /\ pc' \in {"xfer", "report"} /\ UNCHANGED <<cmd, cur>>
        /\ block' \in {block, block + 1} /\ (pc' = "xfer" => block < Length)
    BY <1>9, MoveEffect
  <2>2. block \in Nat /\ Length \in Nat /\ Length' = Length /\ JobPosition' = JobPosition
    BY <2>1, BusAssumption DEF Length, SlaveTypeOK, JobPosition
  <2>3. pc' = "xfer" => block' <= Length
    BY <2>1, <2>2
  <2> QED BY <2>1, <2>2, <2>3 DEF DriveBit, MayWrite
<1>10. CASE Report
BY <1>10 DEF Report
<1>11. CASE Exit
BY <1>11 DEF Exit
<1> QED BY <1>1, <1>2, <1>3, <1>4, <1>5, <1>6, <1>7, <1>8, <1>9, <1>10, <1>11 DEF Firmware,
     SlaveStep, Moves

-----------------------------------------------------------------------------
(* The host and the user touch nothing of the handshake.                   *)
LEMMA HandshakeKept ==
  ASSUME ProtocolInv,
         UNCHANGED <<state, job, oCPU_REQUEST, disk_track, wdstat_sector, wdstat_side, wdstat_drive,
                     buff_rd, buff_wr, wdport_cpu_status, pc, cpuwait, cmd, cur, block,
                     named>>
  PROVE  HandshakeInv'
<1>1. HandshakeInv
  BY DEF ProtocolInv
<1>2. BufferLines' /\ RequestFits' /\ RegistersKept' /\ StatusFits'
  BY <1>1 DEF HandshakeInv, BufferLines, RequestFits, RegistersKept, Flushing,
     StatusFits, Reading, Request, Signal
<1>3. ServesRequest' /\ AnswerTaken'
  BY <1>1 DEF HandshakeInv, ServesRequest, AnswerTaken, Complete
<1>4. SeekFits'
  BY <1>1 DEF HandshakeInv, SeekFits, MayWrite, JobPosition, Length, DriveBit
<1> QED BY <1>2, <1>3, <1>4 DEF HandshakeInv

LEMMA AccessKept ==
  ASSUME AccessInv, UNCHANGED <<state, job, s_drq, s_busy, wdstat_pending, bus, seen>>
  PROVE  AccessInv'
BY DEF AccessInv, Reading, Idling, Flushing

(* The firmware keeps the controller's side of the handshake.              *)
LEMMA HandshakeFirmware ==
  ASSUME Paced, ProtocolInv, Firmware
  PROVE  AccessInv' /\ HandshakeInv'
<1>1. UNCHANGED <<state, job, oCPU_REQUEST, disk_track, wdstat_sector, wdstat_side, wdstat_drive,
                  buff_rd, buff_wr, s_drq, s_busy, wdstat_pending, bus, seen, named>>
  BY DEF Firmware, fdcVars, hostVars
<1>2. AccessInv /\ BufferLines /\ RequestFits /\ RegistersKept
  BY ProtocolParts
<1>3. BufferLines' /\ RequestFits' /\ RegistersKept'
  BY <1>1, <1>2 DEF BufferLines, RequestFits, RegistersKept, Flushing, Reading, Request, Signal
<1> QED
  BY <1>1, <1>2, <1>3, AccessKept, StatusFirmware, ServesFirmware, AnswerFirmware, SeekFirmware
     DEF HandshakeInv

LEMMA ProtocolInitial == Init => ProtocolInv
<1> SUFFICES ASSUME Init PROVE ProtocolInv
  OBVIOUS
<1>1. BaseInv /\ HostInv
  BY HostInitial
<1>2. AccessInv
  BY DEF Init, FdcInit, AccessInv, Idling, NoAccess, NoJob
<1>3. BufferLines /\ RequestFits /\ RegistersKept
  BY DEF Init, FdcInit, BufferLines, RequestFits, RegistersKept, NoJob, Signal, ReadStates,
     WriteStates
<1>4. StatusFits /\ ServesRequest /\ AnswerTaken /\ SeekFits
  BY DEF Init, FdcInit, SlaveInit, StatusFits, ServesRequest, AnswerTaken, SeekFits, Signal,
     ReadStates, WaitStates, Complete, Serving
<1> QED BY <1>1, <1>2, <1>3, <1>4 DEF ProtocolInv, HandshakeInv

LEMMA ProtocolStep ==
  ASSUME Polite, Paced, ProtocolInv, [Next]_vars
  PROVE  ProtocolInv'
<1>1. Polite /\ BaseInv /\ HostInv /\ AccessInv
  BY DEF ProtocolInv
<1>2. BaseInv' /\ HostInv'
  BY <1>1, HostLayerStep
<1>3. CASE Cycle
  BY <1>2, <1>3, AccessStep, BufferArm, RequestArm, RegistersStep, ServesCycle, AnswerCycle
     DEF ProtocolInv, HandshakeInv
<1>4. CASE HostStep
  <2>1. UNCHANGED <<state, job, oCPU_REQUEST, disk_track, wdstat_sector, wdstat_side, wdstat_drive,
                     buff_rd, buff_wr, wdport_cpu_status, pc, cpuwait, cmd, cur, block,
                     named>>
    <3>1. UNCHANGED named
      BY <1>4 DEF HostStep, HostStatus, HostCommand, HostAbort, HostSetTrack, HostSetSector,
         HostSetUnit, HostSetData, HostPutByte, HostGetByte
    <3> QED BY <1>4, <3>1 DEF HostStep, fdcVars, slaveVars
  <2> QED BY <1>2, <1>4, <2>1, HandshakeKept, AccessHost DEF ProtocolInv
<1>5. CASE Firmware
  BY <1>2, <1>5, HandshakeFirmware DEF ProtocolInv
<1>6. CASE User \/ UNCHANGED vars
  <2>1. UNCHANGED <<state, job, oCPU_REQUEST, disk_track, wdstat_sector, wdstat_side, wdstat_drive,
                     buff_rd, buff_wr, wdport_cpu_status, pc, cpuwait, cmd, cur, block,
                     named>>
    BY <1>6 DEF User, MoveCard, vars, fdcVars, slaveVars, busVars, hostVars
  <2>2. UNCHANGED <<state, job, s_drq, s_busy, wdstat_pending, bus, seen>>
    BY <1>6 DEF User, vars, fdcVars, busVars, hostVars
  <2> QED BY <1>1, <1>2, <2>1, <2>2, HandshakeKept, AccessKept DEF ProtocolInv
<1> QED BY <1>3, <1>4, <1>5, <1>6 DEF Next

LEMMA ProtocolAlways ==
  ASSUME Polite, Paced
  PROVE  Spec => []ProtocolInv
<1>1. ProtocolInv /\ [Next]_vars => ProtocolInv'
  BY ProtocolStep
<1> QED BY <1>1, ProtocolInitial, PTL DEF Spec

-----------------------------------------------------------------------------
(* The firmware moves blocks only while the controller waits for exactly   *)
(* that transfer and leaves the buffer RAM alone (slave.c:120-199 against  *)
(* wd1793.v:417,494,528,549).                                              *)
THEOREM BufferIsExclusive ==
  ASSUME Polite, Paced
  PROVE  Spec => []BufferExclusive
<1>1. ProtocolInv => BufferExclusive
  <2> SUFFICES ASSUME ProtocolInv, pc = "xfer"
               PROVE  state = WaitState[cmd.op] /\ ~Frozen
    BY DEF BufferExclusive
  <2>1. state = WaitState[cmd.op] /\ state \in WaitStates
    BY ServingStatus DEF Serving
  <2>2. BufferLines
    BY ProtocolParts
  <2> QED BY <2>1, <2>2 DEF BufferLines, WaitStates, ReadStates, Frozen
<1> QED BY <1>1, ProtocolAlways, PTL

(* What the firmware seeks to is what the host had asked for when its      *)
(* command was accepted, or, of a WRITE, one of the sectors it has named   *)
(* since (slave.c:129,160,181).                                            *)
LEMMA ServesIt ==
  ASSUME ProtocolInv
  PROVE  ServesTheJob
<1> SUFFICES ASSUME pc = "xfer"
             PROVE  /\ cmd.op = job.op
                    /\ IF job.op = "WRITE" THEN MayWrite(cur)
                       ELSE cur = JobPosition /\ job.drive = 0
  BY DEF ServesTheJob
<1>1. ServesRequest /\ SeekFits
  BY ProtocolParts
<1>2. cmd.op \in Transfers
  BY <1>1 DEF ServesRequest, Serving
<1> QED BY <1>1, <1>2, RequestBits DEF SeekFits

(* No step changes the image except for a WRITE job, on its side and track *)
(* and in a sector the host has named for it: neither a request that is    *)
(* still in flight when the next command comes nor any other register      *)
(* written too early can direct a block elsewhere.  SECTOR can, when the   *)
(* host rewrites it while the firmware is on its way to the sector with    *)
(* the busy bit already clear; that number then counts as named.  The      *)
(* drive is not part of it (slave.c:172-199, wd1793.v:510,571).            *)
THEOREM ImageIsKept ==
  ASSUME Polite, Paced
  PROVE  Spec => ImageChangesOnlyByJob
<1>1. ProtocolInv /\ [Next]_vars =>
        [\A p \in Positions : image'[p] # image[p] => job.op = "WRITE" /\ MayWrite(p)]_vars
  <2> SUFFICES ASSUME ProtocolInv, Next, NEW p \in Positions, image'[p] # image[p]
               PROVE  job.op = "WRITE" /\ MayWrite(p)
    OBVIOUS
  <2>1. image' # image
    OBVIOUS
  <2>2. StoreBlock
    <3>1. Firmware
      BY <2>1 DEF Next, Cycle, CpuTick, HostStep, slaveVars, User, MoveCard
    <3> QED
      BY <2>1, <3>1 DEF Firmware, SlaveStep, Thrall, Mount, StartLoop, StartGarbage, Poll, Fetch,
         DispatchTransfer, DispatchAck, DispatchNop, Nop, DispatchFail, DispatchIdle, SeekTrack,
         SeekSector, FillBlock, FillAddress, TransferDone, TransferFails, Report, Exit
  <2>3. pc = "xfer" /\ cmd.op = "WRITE" /\ SlaveTypeOK
    BY <2>2, ProtocolParts DEF StoreBlock, Transferring
  <2>4. p = cur
    BY <2>2, <2>3 DEF StoreBlock, SlaveTypeOK
  <2> QED BY <2>3, <2>4, ServesIt DEF ServesTheJob
<1> QED BY <1>1, ProtocolAlways, PTL DEF Spec, ImageChangesOnlyByJob

-----------------------------------------------------------------------------
(* The bytes in transfer.                                                  *)

(* One more byte.                                                          *)
LEMMA AnswerAppend ==
  ASSUME NEW e \in Seq(Byte), NEW n \in Nat, NEW j, NEW img, NEW v \in Byte,
         IsAnswer(e, n, j, img), Known(j, n) => v = Answer(j, img, n)
  PROVE  IsAnswer(Append(e, v), n + 1, j, img)
BY DEF IsAnswer

LEMMA AnswerFill ==
  ASSUME NEW buf \in [0 .. SECTOR_SIZE - 1 -> Byte], NEW n \in 0 .. SECTOR_SIZE - 1,
         NEW j, NEW img, NEW v,
         HoldsAnswer(buf, n, j, img), Known(j, n) => v = Answer(j, img, n)
  PROVE  HoldsAnswer([buf EXCEPT ![n] = v], n + 1, j, img)
BY BusAssumption DEF HoldsAnswer

LEMMA AgreeStore ==
  ASSUME NEW buf \in [0 .. SECTOR_SIZE - 1 -> Byte], NEW n \in 0 .. SECTOR_SIZE - 1,
         NEW e \in Seq(Byte), Agree(buf, e, n)
  PROVE  Agree([buf EXCEPT ![n] = e[n + 1]], e, n + 1)
BY BusAssumption DEF Agree

LEMMA AgreeAppend ==
  ASSUME NEW buf, NEW e \in Seq(Byte), NEW v \in Byte, Agree(buf, e, Len(e))
  PROVE  Agree(buf, Append(e, v), Len(e)) /\ Append(e, v)[Len(e) + 1] = v
BY DEF Agree

LEMMA ImageStore ==
  ASSUME NEW img \in [Positions -> Sector], NEW buf, NEW n \in 0 .. SECTOR_SIZE - 1,
         NEW p \in Positions, HoldsBuffer(img, buf, n, p)
  PROVE  HoldsBuffer([img EXCEPT ![p][n] = buf[n]], buf, n + 1, p)
BY BusAssumption DEF HoldsBuffer, Sector

-----------------------------------------------------------------------------
(* The buffer and the image.                                               *)
LEMMA JobPlace == JobPosition = PositionOf(job) /\ (JobOnImage <=> PositionOf(job) \in Positions)
BY DEF JobPosition, PositionOf, JobOnImage

(* A SUCCESS in the status port is an answer.                              *)
LEMMA SuccessIsAnswer ==
  ASSUME ProtocolInv, "SUCCESS" \in wdport_cpu_status
  PROVE  Complete /\ Succeeded(wdport_cpu_status) /\ pc \in {"poll", "fetch", "dispatch", "exit"}
<1>1. StatusFits /\ SlaveTypeOK
  BY ProtocolParts
<1> QED BY <1>1 DEF StatusFits, DoneStatuses, SlaveTypeOK, PCs, Serving, Complete, Succeeded, Failed

(* Where a reading job comes from.                                         *)
LEMMA ReadArm ==
  ASSUME ProtocolInv, Cycle
  PROVE  /\ state' \in ReadStates => /\ UNCHANGED <<job, buffer>>
                                  /\ \/ state \in ReadStates
                                     \/ state = "WAIT_CPUREAD" /\ "SUCCESS" \in wdport_cpu_status
         /\ state \in WaitStates => UNCHANGED <<job, buffer>>
<1>f. BufferLines
  BY ProtocolParts
<1> USE QuietRegisters, <1>f DEF BufferLines, ReadStates, WaitStates, EveryCycle, Succeeded
<1>a. HostInv /\ EveryCycle /\ ClockedArm
  BY ProtocolParts, CycleArm
<1> USE <1>a
<1>1. CASE ReadyIdle
BY <1>1 DEF ReadyIdle, KeepRegs, KeepCommand, KeepHead, KeepTransfer, KeepFlags
<1>2. CASE DoRestore \/ DoSeek \/ DoStep
BY <1>2 DEF DoRestore, DoSeek, DoStep, Execute, GetBusy, SetDrqBusy, KeepTransfer
<1>3. CASE DoRead \/ DoReadAddr
BY <1>3 DEF DoRead, DoReadAddr, Execute, SetDrqBusy, KeepHead
<1>4. CASE DoWrite
BY <1>4 DEF DoWrite, Execute, SetDrqBusy, KeepHead
<1>5. CASE DoTrackOp
BY <1>5 DEF DoTrackOp, Execute, SetDrqBusy, KeepHead, KeepTransfer
<1>6. CASE Read1
BY <1>6 DEF Read1, KeepRegs, KeepCommand, KeepHead, KeepFlags
<1>7. CASE Read2
BY <1>7 DEF Read2, SetDrqBusy, KeepRegs, KeepCommand, KeepHead
<1>8. CASE Read3Wait
BY <1>8 DEF Read3Wait, KeepRegs, KeepCommand, KeepHead, KeepFlags
<1>9. CASE Read3
BY <1>9 DEF Read3, SetDrqBusy, KeepCommand, KeepHead
<1>10. CASE ReadSectWait
BY <1>10 DEF ReadSectWait, KeepRegs, KeepCommand, KeepHead, KeepTransfer, KeepFlags
<1>11. CASE ReadSect
BY <1>11 DEF ReadSect, SetDrqBusy, KeepRegs, KeepCommand, KeepHead
<1>12. CASE WriteSectWait
BY <1>12 DEF WriteSectWait, KeepRegs, KeepCommand, KeepHead, KeepTransfer, KeepFlags
<1>13. CASE WriteSect
BY <1>13 DEF WriteSect, SetDrqBusy, KeepRegs, KeepCommand, KeepHead, KeepTransfer
<1>14. CASE Write1
BY <1>14 DEF Write1, KeepRegs, KeepCommand, KeepHead, KeepTransfer, KeepFlags
<1>15. CASE Write2
BY <1>15 DEF Write2, SetDrqBusy, KeepRegs, KeepCommand, KeepHead
<1>16. CASE WaitCpuRead
BY <1>16 DEF WaitCpuRead, KeepRegs, KeepCommand, KeepHead
<1>17. CASE WaitCpuWrite
BY <1>17 DEF WaitCpuWrite, SetDrqBusy, KeepRegs, KeepCommand, KeepHead, KeepTransfer
<1>18. CASE WaitCpu
BY <1>18 DEF WaitCpu, KeepRegs, KeepCommand, KeepHead, KeepTransfer, KeepFlags
<1>19. CASE Abort
BY <1>19 DEF Abort, KeepRegs, KeepHead, KeepFlags
<1>20. CASE EndCommand
BY <1>20 DEF EndCommand, KeepRegs, KeepCommand, KeepHead, KeepTransfer, KeepFlags
<1>21. CASE EndCommand2
BY <1>21 DEF EndCommand2, SetDrqBusy, KeepRegs, KeepCommand, KeepHead, KeepTransfer
<1> QED BY <1>a, <1>1, <1>2, <1>3, <1>4, <1>5, <1>6, <1>7, <1>8, <1>9, <1>10, <1>11, <1>12, <1>13,
     <1>14, <1>15, <1>16, <1>17, <1>18, <1>19, <1>20, <1>21 DEF ClockedArm

LEMMA BufferCycle ==
  ASSUME ProtocolInv, BufferFilled, ImageStored, Cycle
  PROVE  BufferFilled' /\ ImageStored'
<1>1. UNCHANGED <<pc, cmd, cur, block, result, image, wdport_cpu_status>>
  BY DEF Cycle, CpuTick
<1>2. "SUCCESS" \in wdport_cpu_status => state' \notin WaitStates
  BY SuccessIsAnswer, AnswerArm
<1>3. pc \in {"xfer", "report"} => UNCHANGED <<job, buffer>> /\ named \subseteq named'
  BY ReadArm, ServingStatus, NamedTick DEF Serving, Accepts, WaitStates
<1>4. JobLength' = IF job'.op = "READADDR" THEN ADDR_SIZE ELSE SECTOR_SIZE
  BY DEF JobLength
<1>5. BufferFilled'
  <2>1. state' \in ReadStates => Filled(JobLength)'
    BY <1>1, ReadArm DEF BufferFilled, Filled, JobLength
  <2>2. pc' = "xfer" /\ cmd'.op # "WRITE" => Filled(block)'
    BY <1>1, <1>3 DEF BufferFilled, Filled
  <2>3. pc' = "report" /\ cmd'.op # "WRITE" /\ result' = "OK" => Filled(JobLength)'
    BY <1>1, <1>3 DEF BufferFilled, Filled, JobLength
  <2> QED BY <1>1, <1>2, <2>1, <2>2, <2>3 DEF BufferFilled, WaitStates
<1>6. ImageStored'
  BY <1>1, <1>2, <1>3 DEF ImageStored, Stored, MayWrite, WaitStates
<1> QED BY <1>5, <1>6

(* A block of a read reaches the place of the buffer it is meant for.      *)
LEMMA FillStep ==
  ASSUME ProtocolInv, BufferFilled, FillBlock \/ FillAddress, UNCHANGED job
  PROVE  /\ Filled(block)' /\ pc' = "xfer" /\ state = "WAIT_CPUREAD" /\ cmd.op # "WRITE"
         /\ UNCHANGED <<cmd, image, wdport_cpu_status>>
<1>1. /\ pc = "xfer" /\ block \in 0 .. SECTOR_SIZE - 1 /\ cmd.op \in {"READ", "READADDR"}
      /\ UNCHANGED <<cmd, image, wdport_cpu_status>> /\ pc' = "xfer" /\ block' = block + 1
  BY ProtocolParts, BusAssumption DEF FillBlock, FillAddress, Transferring, SlaveTypeOK, Length, GoTo
<1>2. state = "WAIT_CPUREAD" /\ ~Frozen
  BY <1>1, ProtocolParts, ServingStatus DEF WaitState, Serving, BufferLines, ReadStates, Frozen
<1>3. cmd.op = job.op /\ cur = PositionOf(job)
  BY <1>1, ServesIt, JobPlace DEF ServesTheJob
<1>4. buffer \in [0 .. SECTOR_SIZE - 1 -> Byte] /\ HoldsAnswer(buffer, block, job, image)
  BY <1>1, ProtocolParts DEF BufferFilled, Filled, FdcInv, BusTypeOK
<1>5. HoldsAnswer(buffer', block + 1, job, image)
  <2>1. CASE FillBlock /\ cur \in Positions
    <3>1. buffer' = [buffer EXCEPT ![block] = image[cur][block]]
      BY <1>2, <2>1 DEF FillBlock, RamAddress
    <3>2. job.op = "READ"
      BY <1>3, <2>1 DEF FillBlock
    <3>3. image[cur][block] = Answer(job, image, block)
      BY <1>3, <3>2 DEF Answer
    <3> QED BY <1>1, <1>4, <3>1, <3>3, AnswerFill
  <2>2. CASE FillBlock /\ cur \notin Positions
    <3>1. job.op = "READ"
      BY <1>3, <2>2 DEF FillBlock
    <3> QED BY <1>3, <2>2, <3>1 DEF HoldsAnswer, Known
  <2>3. CASE FillAddress
    <3>1. buffer' = [buffer EXCEPT ![block] = AddressField(block)] /\ job.op = "READADDR"
      BY <1>3, <2>3 DEF FillAddress
    <3>2. Known(job, block) => AddressField(block) = Answer(job, image, block)
      BY <1>1, <1>3, <3>1 DEF Known, Answer, AddressField, PositionOf
    <3> QED BY <1>1, <1>4, <3>1, <3>2, AnswerFill
  <2> QED BY <2>1, <2>2, <2>3
<1> QED BY <1>1, <1>2, <1>5 DEF Filled

(* A block of a write reaches its place in the image.                      *)
LEMMA StoreStep ==
  ASSUME ProtocolInv, ImageStored, StoreBlock, UNCHANGED <<job, buffer, named>>
  PROVE  /\ Stored(block)' /\ pc' = "xfer" /\ state = "WAIT_CPUWRITE" /\ cmd.op = "WRITE"
         /\ job.op = "WRITE" /\ UNCHANGED <<cmd, wdport_cpu_status>>
<1>1. /\ pc = "xfer" /\ block \in 0 .. SECTOR_SIZE - 1 /\ cmd.op = "WRITE"
      /\ UNCHANGED <<cmd, cur, wdport_cpu_status>> /\ pc' = "xfer" /\ block' = block + 1
  BY ProtocolParts, BusAssumption DEF StoreBlock, Transferring, SlaveTypeOK, Length, GoTo
<1>2. state = "WAIT_CPUWRITE" /\ ~Frozen
  BY <1>1, ProtocolParts, ServingStatus DEF WaitState, Serving, BufferLines, ReadStates, Frozen
<1>3. cmd.op = job.op /\ MayWrite(cur)
  BY <1>1, ServesIt DEF ServesTheJob
<1>4. image \in [Positions -> Sector] /\ HoldsBuffer(image, buffer, block, cur)
  BY <1>1, ProtocolParts DEF ImageStored, Stored, SlaveTypeOK
<1>5. HoldsBuffer(image', buffer, block + 1, cur)
  <2>1. CASE cur \in Positions
    <3>1. image' = [image EXCEPT ![cur][block] = buffer[block]]
      BY <1>2, <1>3, <2>1 DEF StoreBlock, RamAddress
    <3> QED BY <1>1, <1>3, <1>4, <2>1, <3>1, ImageStore
  <2>2. CASE cur \notin Positions
    BY <1>3, <2>2 DEF HoldsBuffer
  <2> QED BY <2>1, <2>2
<1> QED BY <1>1, <1>2, <1>3, <1>5 DEF Stored, MayWrite

(* The other steps of the firmware move no byte.                           *)
LEMMA QuietFirmware ==
  ASSUME Firmware, ~(FillBlock \/ FillAddress \/ StoreBlock)
  PROVE  /\ UNCHANGED <<buffer, image>>
         /\ pc' = "xfer" => block' = 0
         /\ pc' = "report" /\ result' = "OK" =>
              pc = "xfer" /\ block = Length /\ UNCHANGED <<cmd, cur, block>>
         /\ "SUCCESS" \in wdport_cpu_status' =>
              \/ UNCHANGED wdport_cpu_status
              \/ pc = "report" /\ result = "OK" /\ UNCHANGED cur
<1> USE DEF GoTo, Status
<1>1. CASE Thrall \/ Mount \/ StartLoop \/ StartGarbage
  BY <1>1 DEF Thrall, Mount, StartLoop, StartGarbage, Firmware, SlaveStep
<1>2. CASE Poll \/ Fetch
  BY <1>2 DEF Poll, Fetch, Firmware, SlaveStep
<1>3. CASE DispatchTransfer
  BY <1>3 DEF DispatchTransfer, Firmware, SlaveStep
<1>4. CASE DispatchAck \/ DispatchNop \/ Nop \/ DispatchFail \/ DispatchIdle
  BY <1>4 DEF DispatchAck, DispatchNop, Nop, DispatchFail, DispatchIdle, Firmware, SlaveStep
<1>5. CASE SeekTrack \/ SeekSector
  BY <1>5 DEF SeekTrack, SeekSector, Firmware, SlaveStep
<1>6. CASE TransferDone \/ TransferFails
  BY <1>6 DEF TransferDone, TransferFails, Firmware, SlaveStep
<1>7. CASE Report \/ Exit
  BY <1>7 DEF Report, Exit, Firmware, SlaveStep
<1> QED BY <1>1, <1>2, <1>3, <1>4, <1>5, <1>6, <1>7 DEF Firmware, SlaveStep

(* Only the seek moves the position.                                       *)
LEMMA QuietCur ==
  ASSUME Firmware, pc \notin {"seekT", "seekS"}
  PROVE  UNCHANGED cur
BY DEF Firmware, SlaveStep, Thrall, Mount, StartLoop, StartGarbage, Poll, Fetch, DispatchTransfer,
   DispatchAck, DispatchNop, Nop, DispatchFail, DispatchIdle, SeekTrack, SeekSector, FillBlock,
   FillAddress, StoreBlock, TransferDone, TransferFails, Transferring, Report, Exit

LEMMA BufferFirmware ==
  ASSUME Paced, ProtocolInv, BufferFilled, ImageStored, Firmware
  PROVE  /\ BufferFilled' /\ ImageStored'
         /\ image' # image => job.op = "WRITE"
         /\ buffer' # buffer => state = "WAIT_CPUREAD"
<1>u. UNCHANGED <<state, job, named>> /\ JobLength' = JobLength
  BY DEF Firmware, fdcVars, hostVars, JobLength
<1>1. CASE FillBlock \/ FillAddress
  <2>1. /\ Filled(block)' /\ pc' = "xfer" /\ state = "WAIT_CPUREAD" /\ cmd.op # "WRITE"
        /\ UNCHANGED <<cmd, image, wdport_cpu_status>> /\ pc = "xfer"
    BY <1>u, <1>1, FillStep DEF FillBlock, FillAddress, Transferring
  <2>2. "SUCCESS" \notin wdport_cpu_status
    BY <2>1, SuccessIsAnswer
  <2> QED BY <1>u, <2>1, <2>2 DEF BufferFilled, ImageStored, ReadStates
<1>2. CASE StoreBlock
  <2>0. UNCHANGED buffer
    BY <1>2, FillStep, ProtocolParts DEF Firmware, SlaveStep, FillBlock, FillAddress, StoreBlock
  <2>1. /\ Stored(block)' /\ pc' = "xfer" /\ state = "WAIT_CPUWRITE" /\ cmd.op = "WRITE"
        /\ job.op = "WRITE" /\ UNCHANGED <<cmd, wdport_cpu_status>> /\ pc = "xfer"
    BY <1>u, <1>2, <2>0, StoreStep DEF StoreBlock, Transferring
  <2>2. "SUCCESS" \notin wdport_cpu_status
    BY <2>1, SuccessIsAnswer
  <2> QED BY <1>u, <2>0, <2>1, <2>2 DEF BufferFilled, ImageStored, ReadStates
<1>3. CASE ~(FillBlock \/ FillAddress \/ StoreBlock)
  <2>1. /\ UNCHANGED <<buffer, image>>
        /\ pc' = "xfer" => block' = 0
        /\ pc' = "report" /\ result' = "OK" =>
             pc = "xfer" /\ block = Length /\ UNCHANGED <<cmd, cur, block>>
        /\ "SUCCESS" \in wdport_cpu_status' =>
             \/ UNCHANGED wdport_cpu_status
             \/ pc = "report" /\ result = "OK" /\ UNCHANGED cur
    BY <1>3, QuietFirmware
  <2>2. pc = "xfer" => Length = JobLength
    BY ServesIt DEF ServesTheJob, Length, JobLength
  <2>3. pc = "report" /\ state = "WAIT_CPUREAD" => cmd.op # "WRITE"
    BY ServingStatus DEF Serving, WaitState
  <2>4. pc = "report" /\ state = "WAIT_CPUWRITE" => cmd.op = "WRITE"
    BY ServingStatus DEF Serving, WaitState, Transfers
  <2>5. Filled(0)'
    BY DEF Filled, HoldsAnswer
  <2>6. \A n : Filled(n) => HoldsAnswer(buffer', n, job', image')
    BY <1>u, <2>1 DEF Filled
  <2>7. BufferFilled'
    BY <1>u, <2>1, <2>2, <2>3, <2>5, <2>6 DEF BufferFilled, Filled
  <2>8. pc' = "xfer" /\ cmd'.op = "WRITE" => Stored(block)'
    <3>1. SeekFits'
      BY SeekFirmware
    <3> QED BY <2>1, <3>1 DEF SeekFits, Stored, HoldsBuffer
  <2>9. \A n : Stored(n) /\ UNCHANGED cur => Stored(n)'
    BY <1>u, <2>1 DEF Stored, MayWrite
  <2>10. pc = "xfer" /\ cmd.op = "WRITE" => Length = SECTOR_SIZE
    BY DEF Length
  <2>11. "SUCCESS" \in wdport_cpu_status /\ state = "WAIT_CPUWRITE" => UNCHANGED cur
    BY <1>3, QuietCur, SuccessIsAnswer
  <2>12. ImageStored'
    BY <1>u, <2>1, <2>4, <2>8, <2>9, <2>10, <2>11 DEF ImageStored
  <2> QED BY <2>1, <2>7, <2>12
<1> QED BY <1>1, <1>2, <1>3

(* The host, the user and the clock of the others leave both alone.        *)
LEMMA BufferKept ==
  ASSUME BufferFilled, ImageStored,
         UNCHANGED <<state, job, buffer, image, wdport_cpu_status, pc, cmd, cur, block, result,
                     named>>
  PROVE  BufferFilled' /\ ImageStored'
BY DEF BufferFilled, ImageStored, Filled, Stored, MayWrite, JobLength

-----------------------------------------------------------------------------
(* The bytes on the bus.                                                   *)
LEMMA ExchangeTick ==
  ASSUME ProtocolInv, Cycle
  PROVE  /\ state = "READY" /\ wdstat_pending =>
              exch' = <<>> /\ bus.op = "none" /\ bus'.op = "none" /\ seen' = "busy"
         /\ ~(state = "READY" /\ wdstat_pending) =>
              IF bus.op = "rd" /\ hcount = 0
              THEN exch' = Note(wdstat_datareg) /\ bus'.op = "none"
              ELSE exch' = exch /\ (bus'.op = "rd" <=> bus.op = "rd")
                   /\ (bus.op = "rd" => hcount' = hcount - 1 /\ hcount > 0)
         /\ missed /\ ~(state = "READY" /\ wdstat_pending) => missed'
         /\ state = "READSECT" /\ WatchdogBark /\ ~HostFetches => missed'
         /\ bus.op = "none" => bus'.op = "none" /\ UNCHANGED seen
<1>1. Strobes /\ AccessInv /\ HostTypeOK /\ bus \in Access
  BY ProtocolParts
<1>2. Reads("DATA") <=> bus.op = "rd"
  BY <1>1 DEF Strobes, Reads
<1>3. HostTick
  BY DEF Cycle
<1>4. bus.op = "none" => bus'.op = "none" /\ UNCHANGED seen
  BY <1>3 DEF HostTick, Accepts
<1>5. state = "READY" /\ wdstat_pending =>
        exch' = <<>> /\ bus.op = "none" /\ bus'.op = "none" /\ seen' = "busy"
  BY <1>1, <1>3, <1>4 DEF HostTick, Accepts, AccessInv
<1>6. bus.op = "rd" => IF hcount = 0 THEN bus'.op = "none"
                       ELSE bus'.op = "rd" /\ hcount' = hcount - 1 /\ hcount > 0
  BY <1>1, <1>3 DEF HostTick, Accepts, HostTypeOK, NoAccess
<1>7. bus.op = "wr" => bus'.op = "none"
  BY <1>1, <1>3 DEF HostTick, Accepts, Strobes, NoAccess
<1>8. bus.op \in {"none", "rd", "wr"}
  BY <1>1 DEF Access
<1>9. ~(state = "READY" /\ wdstat_pending) =>
         exch' = IF bus.op = "rd" /\ hcount = 0 THEN Note(wdstat_datareg) ELSE exch
  BY <1>2, <1>3 DEF HostTick, Accepts
<1>10. /\ missed /\ ~(state = "READY" /\ wdstat_pending) => missed'
       /\ state = "READSECT" /\ WatchdogBark /\ ~HostFetches => missed'
  BY <1>3 DEF HostTick, Accepts
<1> QED BY <1>4, <1>5, <1>6, <1>7, <1>8, <1>9, <1>10

(* How a write goes round (wd1793.v:483-516).                              *)
LEMMA WriteArm ==
  ASSUME ProtocolInv, Cycle
  PROVE  /\ state' = "WRITESECT" =>
              \/ state = "READY" /\ wdstat_pending /\ buff_addr' = 0
              \/ state = "WRITESECT" /\ ~Writes("DATA") /\ UNCHANGED buff_addr
              \/ /\ state = "WRITE_2" /\ data_rdlength # 1
                 /\ buff_addr' = (buff_addr + 1) % SECTOR_SIZE
         /\ state' = "WRITE_1" => /\ state = "WRITESECT" /\ Writes("DATA") /\ UNCHANGED buff_addr
                                 /\ wdstat_datareg' = bus.data
         /\ state' = "WRITE_2" => /\ state = "WRITE_1" /\ UNCHANGED buff_addr
                                 /\ wdstat_datareg' = host_datareg
         /\ state' = "WAIT_CPUWRITE" => state \in {"WAIT_CPUWRITE", "WRITE_2"}
         /\ state = "WRITE_2" /\ state' = "WAIT_CPUWRITE" => data_rdlength = 1
<1>f. data_rdlength \in 0 .. SECTOR_SIZE
  BY ProtocolParts
<1> USE QuietRegisters, <1>f DEF host_datareg
<1>a. HostInv /\ EveryCycle /\ ClockedArm
  BY ProtocolParts, CycleArm
<1> USE <1>a
<1>1. CASE ReadyIdle
BY <1>1 DEF ReadyIdle, KeepRegs, KeepCommand, KeepHead, KeepTransfer, KeepFlags
<1>2. CASE DoRestore \/ DoSeek \/ DoStep
BY <1>2 DEF DoRestore, DoSeek, DoStep, Execute, GetBusy, SetDrqBusy, KeepTransfer
<1>3. CASE DoRead \/ DoReadAddr
BY <1>3 DEF DoRead, DoReadAddr, Execute, SetDrqBusy, KeepHead
<1>4. CASE DoWrite
BY <1>4 DEF DoWrite, Execute, SetDrqBusy, KeepHead
<1>5. CASE DoTrackOp
BY <1>5 DEF DoTrackOp, Execute, SetDrqBusy, KeepHead, KeepTransfer
<1>6. CASE Read1
BY <1>6 DEF Read1, KeepRegs, KeepCommand, KeepHead, KeepFlags
<1>7. CASE Read2
BY <1>7 DEF Read2, SetDrqBusy, KeepRegs, KeepCommand, KeepHead
<1>8. CASE Read3Wait
BY <1>8 DEF Read3Wait, KeepRegs, KeepCommand, KeepHead, KeepFlags
<1>9. CASE Read3
BY <1>9 DEF Read3, SetDrqBusy, KeepCommand, KeepHead
<1>10. CASE ReadSectWait
BY <1>10 DEF ReadSectWait, KeepRegs, KeepCommand, KeepHead, KeepTransfer, KeepFlags
<1>11. CASE ReadSect
BY <1>11 DEF ReadSect, SetDrqBusy, KeepRegs, KeepCommand, KeepHead
<1>12. CASE WriteSectWait
BY <1>12 DEF WriteSectWait, KeepRegs, KeepCommand, KeepHead, KeepTransfer, KeepFlags
<1>13. CASE WriteSect
BY <1>13 DEF WriteSect, SetDrqBusy, KeepRegs, KeepCommand, KeepHead, KeepTransfer
<1>14. CASE Write1
BY <1>14 DEF Write1, KeepRegs, KeepCommand, KeepHead, KeepTransfer, KeepFlags
<1>15. CASE Write2
BY <1>15 DEF Write2, SetDrqBusy, KeepRegs, KeepCommand, KeepHead
<1>16. CASE WaitCpuRead
BY <1>16 DEF WaitCpuRead, KeepRegs, KeepCommand, KeepHead
<1>17. CASE WaitCpuWrite
  <2>1. state' \in {"ENDCOMMAND", state} /\ state = "WAIT_CPUWRITE"
    BY <1>17 DEF WaitCpuWrite
  <2> QED BY <2>1
<1>18. CASE WaitCpu
BY <1>18 DEF WaitCpu, KeepRegs, KeepCommand, KeepHead, KeepTransfer, KeepFlags
<1>19. CASE Abort
BY <1>19 DEF Abort, KeepRegs, KeepHead, KeepFlags
<1>20. CASE EndCommand
BY <1>20 DEF EndCommand, KeepRegs, KeepCommand, KeepHead, KeepTransfer, KeepFlags
<1>21. CASE EndCommand2
BY <1>21 DEF EndCommand2, SetDrqBusy, KeepRegs, KeepCommand, KeepHead, KeepTransfer
<1> QED BY <1>a, <1>1, <1>2, <1>3, <1>4, <1>5, <1>6, <1>7, <1>8, <1>9, <1>10, <1>11, <1>12, <1>13,
     <1>14, <1>15, <1>16, <1>17, <1>18, <1>19, <1>20, <1>21 DEF ClockedArm

LEMMA WriteCycle ==
  ASSUME ProtocolInv, WriteExchange, Cycle
  PROVE  WriteExchange'
<1>1. /\ AccessInv /\ RequestFits /\ BufferLines /\ TransferInStep /\ bus \in Access
      /\ job \in JobType /\ exch \in Seq(Byte) /\ EveryCycle
      /\ buff_addr \in 0 .. SECTOR_SIZE - 1 /\ buffer \in [0 .. SECTOR_SIZE - 1 -> Byte]
  BY ProtocolParts, CycleArm DEF HostTypeOK, FdcInv, BusTypeOK
<1>2. state \in WriteStates \cup {"WAIT_CPUWRITE"} =>
        /\ job.op = "WRITE" /\ bus.op # "rd" /\ exch' = exch
        /\ bus'.op = "none" /\ (state \in {"WRITE_1", "WRITE_2"} => bus.op = "none")
  <2> SUFFICES ASSUME state \in WriteStates \cup {"WAIT_CPUWRITE"}
               PROVE  /\ job.op = "WRITE" /\ bus.op # "rd" /\ exch' = exch
                      /\ bus'.op = "none" /\ (state \in {"WRITE_1", "WRITE_2"} => bus.op = "none")
    OBVIOUS
  <2>1. job.op = "WRITE" /\ state # "READY"
    BY <1>1 DEF RequestFits, WriteStates
  <2>2. bus.op # "rd" /\ (state \in {"WRITE_1", "WRITE_2"} => bus.op = "none")
    BY <1>1, <2>1 DEF AccessInv, Reading, Idling, Flushing, FlushStates, EndStates, Access
  <2>3. bus'.op \in {"none", "rd", "wr"}
    BY CycleBase, ProtocolParts DEF BaseInv, FdcInv, BusTypeOK, Access
  <2> QED BY <2>1, <2>2, <2>3, ExchangeTick, CycleArm, ProtocolParts
<1>3. state # "WRITE_2" => buffer' = buffer
  BY <1>1 DEF BufferLines, EveryCycle
<1>4. CASE state = "READY" /\ state' = "WRITESECT"
  <2>1. buff_addr' = 0 /\ exch' = <<>> /\ bus'.op = "none"
    BY <1>4, WriteArm, ExchangeTick
  <2> QED BY <1>4, <2>1 DEF WriteExchange, Kept, Agree
<1>5. CASE state = "WRITESECT" /\ state' = "WRITESECT"
  BY <1>1, <1>2, <1>3, <1>5, WriteArm DEF WriteExchange, Kept, AccessInv, Idling, Flushing,
     FlushStates, EndStates, Writes, WriteStates
<1>6. CASE state = "WRITESECT" /\ state' = "WRITE_1"
  BY <1>1, <1>2, <1>3, <1>6, WriteArm DEF WriteExchange, Kept, Writes, WriteStates
<1>7. CASE state = "WRITE_1" /\ state' = "WRITE_2"
  BY <1>1, <1>2, <1>3, <1>7, WriteArm DEF WriteExchange, Kept, Writes, WriteStates, host_datareg
<1>8. CASE state = "WRITE_2"
  <2>1. /\ Agree(buffer, exch, buff_addr) /\ Len(exch) = buff_addr + 1
        /\ wdstat_datareg = exch[buff_addr + 1] /\ exch' = exch /\ bus'.op = "none"
    BY <1>2, <1>8 DEF WriteExchange, Kept, WriteStates
  <2>2. buffer' = [buffer EXCEPT ![buff_addr] = exch[buff_addr + 1]]
    BY <1>1, <1>8, <2>1 DEF BufferLines, EveryCycle
  <2>3. Agree(buffer', exch', buff_addr + 1)
    BY <1>1, <2>1, <2>2, AgreeStore
  <2>4. data_rdlength \in 1 .. SECTOR_SIZE /\ buff_addr + data_rdlength = SECTOR_SIZE
    BY <1>1, <1>2, <1>8 DEF TransferInStep, WriteStates
  <2>5. CASE state' = "WRITESECT"
    <3>1. buff_addr' = buff_addr + 1
      BY <1>1, <1>8, <2>4, <2>5, WriteArm, BusAssumption
    <3> QED BY <2>1, <2>3, <2>5, <3>1 DEF WriteExchange, Kept
  <2>6. CASE state' = "WAIT_CPUWRITE"
    <3>1. buff_addr + 1 = SECTOR_SIZE
      BY <1>1, <1>8, <2>4, <2>6, WriteArm
    <3> QED BY <2>1, <2>3, <2>6, <3>1 DEF WriteExchange, Kept
  <2> QED BY <1>8, <2>5, <2>6, WriteArm DEF WriteExchange
<1>9. CASE state = "WAIT_CPUWRITE" /\ state' = "WAIT_CPUWRITE"
  BY <1>2, <1>3, <1>9 DEF WriteExchange, Kept
<1> QED BY <1>4, <1>5, <1>6, <1>7, <1>8, <1>9, WriteArm DEF WriteExchange

LEMMA FreshCycle ==
  ASSUME ProtocolInv, DrqIsFresh, Cycle
  PROVE  DrqIsFresh'
<1> SUFFICES ASSUME seen' = "drq", ~missed', bus'.op = "none"
             PROVE  state' \in {"READSECT", "WRITESECT"}
  BY DEF DrqIsFresh
<1>1. /\ Strobes /\ AccessInv /\ HostTypeOK /\ bus \in Access /\ ClockedArm /\ HostInv
  BY ProtocolParts, CycleArm
<1>2. ~(state = "READY" /\ wdstat_pending) /\ ~missed
  BY ExchangeTick
<1>3. bus.op = "none" /\ seen = "drq"
  BY <1>1 DEF Strobes, HostTypeOK, Access, Cycle, HostTick, NoAccess
<1>4. state \in {"READSECT", "WRITESECT"}
  BY <1>2, <1>3 DEF DrqIsFresh
<1>5. CASE state = "WRITESECT"
  BY <1>3, <1>5, AccessArm DEF Writes
<1>6. CASE state = "READSECT"
  <2>1. ~HostFetches /\ ~WatchdogBark
    BY <1>3, <1>6, ExchangeTick DEF HostFetches, Reads
  <2>2. ReadSectWait
    BY <1>1, <1>6, <2>1 DEF ClockedArm, ReadyIdle, DoRestore, DoSeek, DoStep, DoRead, DoWrite,
       DoReadAddr, DoTrackOp, Execute, Read1, Read2, Read3Wait, Read3, ReadSect, WriteSectWait,
       WriteSect, Write1, Write2, WaitCpuRead, WaitCpuWrite, WaitCpu, Abort, EndCommand, EndCommand2
  <2> QED BY <1>1, <1>6, <2>2, QuietRegisters DEF ReadSectWait
<1> QED BY <1>4, <1>5, <1>6

-----------------------------------------------------------------------------
(* Reading.  A byte is the host's at the end of its strobe.                *)
LEMMA StrobeTick ==
  ASSUME ProtocolInv, Cycle, NEW n \in Nat, n <= SECTOR_SIZE, InStrobe(n), bus.op = "rd",
         UNCHANGED job, hcount # 0 => UNCHANGED wdstat_datareg,
         ~(state = "READY" /\ wdstat_pending)
  PROVE  IF hcount = 0 THEN Delivered(n)' /\ bus'.op = "none"
         ELSE InStrobe(n)' /\ bus'.op = "rd" /\ hcount' = hcount - 1
<1>1. UNCHANGED image /\ exch \in Seq(Byte) /\ wdstat_datareg \in Byte
  BY ProtocolParts DEF Cycle, CpuTick, HostTypeOK, FdcInv, FdcTypeOK
<1>2. CASE hcount = 0
  <2>1. IsAnswer(exch, n - 1, job, image) /\ n - 1 \in Nat /\ Len(exch) <= SECTOR_SIZE
    BY BusAssumption DEF InStrobe, Delivered, IsAnswer
  <2>2. exch' = Append(exch, wdstat_datareg) /\ bus'.op = "none"
    BY <1>2, <2>1, ExchangeTick DEF Note
  <2>3. IsAnswer(Append(exch, wdstat_datareg), (n - 1) + 1, job, image)
    BY <1>1, <2>1, AnswerAppend DEF InStrobe
  <2> QED BY <1>1, <1>2, <2>2, <2>3 DEF Delivered
<1>3. CASE hcount # 0
  BY <1>1, <1>3, ExchangeTick DEF InStrobe, Delivered
<1> QED BY <1>2, <1>3

LEMMA IdleTick ==
  ASSUME ProtocolInv, Cycle, NEW n, Delivered(n), bus.op # "rd",
         UNCHANGED job, ~(state = "READY" /\ wdstat_pending)
  PROVE  Delivered(n)' /\ bus'.op # "rd"
<1>1. UNCHANGED image
  BY DEF Cycle, CpuTick
<1> QED BY <1>1, ExchangeTick DEF Delivered

(* The counters of a read.                                                 *)
LEMMA ReadCounts ==
  ASSUME ProtocolInv
  PROVE  /\ JobLength \in 1 .. SECTOR_SIZE
         /\ state \in ReadStates => /\ data_rdlength \in 1 .. JobLength
                                    /\ buff_addr = JobLength - data_rdlength
                                    /\ buff_addr \in 0 .. SECTOR_SIZE - 1
         /\ state = "READ_1" => data_rdlength >= 2
         /\ state = "WAIT_CPUREAD" => data_rdlength = JobLength
<1>1. TransferInStep /\ JobInStep /\ buff_addr \in 0 .. SECTOR_SIZE - 1
  BY ProtocolParts DEF FdcInv, BusTypeOK
<1>2. JobLength \in 1 .. SECTOR_SIZE
  BY BusAssumption DEF JobLength
<1> QED BY <1>1, <1>2, BusAssumption DEF TransferInStep, JobInStep, JobLength, ReadStates

(* The data register changes under a reading host only when it is loaded.  *)
LEMMA DataRegKept ==
  ASSUME ProtocolInv, Reading, bus.op = "rd" \/ state # "READY"
  PROVE  host_datareg = wdstat_datareg
<1>1. AccessInv /\ JobInStep
  BY ProtocolParts
<1> QED BY <1>1 DEF AccessInv, Idling, Flushing, JobInStep, Reading, host_datareg, Writes

(* Between the DRQs, and after the last one.                               *)
LEMMA PauseStep ==
  ASSUME ProtocolInv, ReadProgress, Cycle, UNCHANGED <<job, wdstat_datareg>>,
         state \in ReadStates \ {"READSECT"}, Taken' = Taken,
         StrobeBound' = StrobeBound - 1
  PROVE  IF bus'.op = "rd" THEN InStrobe(Taken)' /\ hcount' <= StrobeBound'
         ELSE Delivered(Taken)'
<1>1. PICK n \in Nat : n = Taken /\ n <= SECTOR_SIZE
  <2>1. Taken \in Nat /\ Taken <= SECTOR_SIZE
    BY ReadCounts, BusAssumption DEF Taken, ReadStates
  <2> QED BY <2>1
<1>2. hcount \in Nat /\ StrobeBound \in Int
  <2>1. read_timer \in Nat
    BY ProtocolParts, Wd1793Assumption DEF FdcInv, FdcTypeOK
  <2> QED BY <2>1, ProtocolParts, Wd1793Assumption DEF HostTypeOK, StrobeBound, ReadStates
<1>3. state # "READY"
  BY DEF ReadStates
<1>4. CASE bus.op = "rd"
  <2>1. InStrobe(n) /\ hcount <= StrobeBound
    BY <1>1, <1>4 DEF ReadProgress
  <2>2. IF hcount = 0 THEN Delivered(n)' /\ bus'.op = "none"
        ELSE InStrobe(n)' /\ bus'.op = "rd" /\ hcount' = hcount - 1
    BY <1>1, <1>3, <1>4, <2>1, StrobeTick
  <2> QED BY <1>1, <1>2, <2>1, <2>2
<1>5. CASE bus.op # "rd"
  <2>1. Delivered(n)
    BY <1>1, <1>5 DEF ReadProgress
  <2>2. Delivered(n)' /\ bus'.op # "rd"
    BY <1>3, <1>5, <2>1, IdleTick
  <2> QED BY <1>1, <2>2
<1> QED BY <1>4, <1>5

LEMMA EndStep ==
  ASSUME ProtocolInv, ReadProgress, Reading, Cycle, UNCHANGED job,
         bus.op = "rd" => UNCHANGED wdstat_datareg,
         state \in EndStates \cup {"READY"}, ~(state = "READY" /\ wdstat_pending),
         state' \in EndStates \cup {"READY"}, state' # "READY" => state # "READY" /\ s_err' = s_err
  PROVE  ReadProgress'
<1>1. PICK n \in Nat : n = JobLength /\ n <= SECTOR_SIZE
  BY ReadCounts, BusAssumption
<1>2. JobLength' = n
  BY <1>1 DEF JobLength
<1>3. IF bus'.op = "rd" THEN InStrobe(n)'
      ELSE \/ Delivered(n)'
           \/ Delivered(0)' /\ (state' # "READY" => s_err' # {})
  <2>1. CASE bus.op = "rd"
    <3>1. InStrobe(n)
      BY <1>1, <2>1 DEF ReadProgress
    <3> QED BY <1>1, <2>1, <3>1, StrobeTick
  <2>2. CASE bus.op # "rd" /\ Delivered(n)
    BY <2>2, IdleTick
  <2>3. CASE bus.op # "rd" /\ ~Delivered(n)
    <3>1. Delivered(0) /\ (state # "READY" => s_err # {})
      BY <1>1, <2>3 DEF ReadProgress
    <3>2. Delivered(0)' /\ bus'.op # "rd"
      BY <2>3, <3>1, IdleTick
    <3> QED BY <3>1, <3>2
  <2> QED BY <2>1, <2>2, <2>3
<1> QED BY <1>2, <1>3 DEF ReadProgress, EndStates, ReadStates

(* Before the next DRQ the strobe is over.                                 *)
LEMMA LastTick ==
  ASSUME ProtocolInv, ReadProgress, Cycle, UNCHANGED job,
         state = "READ_3", read_timer = 0, Taken' = Taken
  PROVE  Delivered(Taken)'
<1>1. PICK n \in Nat : n = Taken /\ n <= SECTOR_SIZE
  <2>1. Taken \in Nat /\ Taken <= SECTOR_SIZE
    BY ReadCounts, BusAssumption DEF Taken, ReadStates
  <2> QED BY <2>1
<1>2. CASE bus.op = "rd"
  <2>1. InStrobe(n) /\ hcount = 0
    BY <1>1, <1>2, ProtocolParts DEF ReadProgress, StrobeBound, ReadStates, HostTypeOK
  <2> QED BY <1>1, <1>2, <2>1, StrobeTick
<1>3. CASE bus.op # "rd"
  <2>1. Delivered(n)
    BY <1>1, <1>3 DEF ReadProgress, ReadStates
  <2> QED BY <1>1, <1>3, <2>1, IdleTick
<1> QED BY <1>2, <1>3

(* The host fetches the byte of a DRQ.                                     *)
LEMMA FetchStep ==
  ASSUME Paced, ProtocolInv, ReadProgress, Reading, Cycle, UNCHANGED <<job, wdstat_datareg>>,
         state = "READSECT", bus.op = "rd", NEW n \in Nat, n = Taken + 1
  PROVE  IF bus'.op = "rd" THEN InStrobe(n)' /\ hcount' <= READ_TIMER + 2
         ELSE Delivered(n)'
<1>1. n >= 1 /\ n <= SECTOR_SIZE /\ n - 1 = Taken
  BY ReadCounts, BusAssumption DEF Taken, ReadStates
<1>2. InStrobe(n)
  <2>1. Delivered(Taken) /\ (Known(job, Taken) => wdstat_datareg = Answer(job, image, Taken))
    BY DEF ReadProgress
  <2> QED BY <1>1, <2>1 DEF InStrobe, Delivered
<1>3. hcount \in Nat /\ hcount <= READ_TIMER + 3 /\ RD_CYCLES \in Nat /\ READ_TIMER \in Nat
  BY ProtocolParts, FloppyAssumption, Wd1793Assumption DEF Strobes, HostTypeOK, Paced
<1> QED BY <1>1, <1>2, <1>3, StrobeTick

(* A cycle hands the host the next byte of the answer, or none             *)
(* (wd1793.v:409-480).                                                     *)
LEMMA ReadCycle ==
  ASSUME Paced, ProtocolInv, BufferFilled, ReadExchange, Cycle
  PROVE  ReadExchange'
<1> SUFFICES ASSUME Reading', ~missed' PROVE ReadProgress'
  BY DEF ReadExchange
<1>a. HostInv /\ EveryCycle /\ ClockedArm /\ NoAbort /\ job \in JobType
  BY ProtocolParts, CycleArm
<1>b. UNCHANGED job => Reading
  BY DEF Reading
<1>c. ~(state = "READY" /\ wdstat_pending) /\ UNCHANGED job => ReadProgress
  BY <1>b, ExchangeTick DEF ReadExchange
<1>d. read_timer \in 0 .. READ_TIMER /\ READ_TIMER \in Nat
  BY ProtocolParts, Wd1793Assumption DEF FdcInv, FdcTypeOK
<1>1. CASE ReadyIdle
  <2>1. /\ state = "READY" /\ state' = "READY" /\ ~wdstat_pending /\ UNCHANGED job
        /\ wdstat_datareg' = host_datareg
    BY <1>1, <1>a, QuietRegisters DEF ReadyIdle, KeepRegs
  <2> QED BY <1>b, <1>c, <2>1, EndStep, DataRegKept
<1>2. CASE DoRead \/ DoReadAddr
  <2>1. state = "READY" /\ wdstat_pending /\ state' = "WAIT_CPUREAD"
    BY <1>2 DEF DoRead, DoReadAddr, Execute
  <2>2. exch' = <<>> /\ bus'.op = "none"
    BY <2>1, ExchangeTick
  <2> QED BY <2>1, <2>2 DEF ReadProgress, Delivered, IsAnswer, ReadStates, EndStates
<1>3. CASE WaitCpuRead
  <2>1. /\ state = "WAIT_CPUREAD" /\ UNCHANGED <<job, data_rdlength>>
        /\ state' \in {"WAIT_CPUREAD", "READ_2", "ENDCOMMAND"}
        /\ state' = "ENDCOMMAND" => s_err' # {}
    BY <1>3, <1>a, QuietRegisters DEF WaitCpuRead
  <2>2. Delivered(0) /\ bus.op = "none"
    BY <1>c, <2>1 DEF ReadProgress
  <2>3. Delivered(0)' /\ bus'.op = "none"
    BY <2>1, <2>2, IdleTick, ExchangeTick
  <2>4. state' = "READ_2" => Taken' = 0
    BY <2>1, ReadCounts, BusAssumption DEF Taken, JobLength
  <2> QED BY <2>1, <2>3, <2>4 DEF ReadProgress, ReadStates, EndStates
<1>4. CASE Read1 \/ Read2 \/ Read3Wait
  <2>1. /\ state \in ReadStates \ {"READSECT"} /\ UNCHANGED job /\ state # "READY"
        /\ wdstat_datareg' = host_datareg
    BY <1>4, <1>a, QuietRegisters DEF Read1, Read2, Read3Wait, KeepRegs, ReadStates
  <2>2. state' \in ReadStates /\ state' # "READSECT" /\ Taken' = Taken
    <3>1. JobLength' = JobLength /\ JobLength \in Nat /\ data_rdlength \in Nat
      BY <2>1, ReadCounts, ProtocolParts, BusAssumption DEF JobLength
    <3>2. CASE Read1
      BY <3>1, <3>2 DEF Read1, ReadStates, Taken
    <3>3. CASE Read2 \/ Read3Wait
      BY <1>a, <3>1, <3>3, QuietRegisters DEF Read2, Read3Wait, ReadStates, Taken
    <3> QED BY <1>4, <3>2, <3>3
  <2>3. StrobeBound' = StrobeBound - 1
    <3>1. CASE Read1
      BY <1>d, <3>1 DEF Read1, StrobeBound
    <3>2. CASE Read2
      BY <1>d, <3>2 DEF Read2, StrobeBound
    <3>3. CASE Read3Wait
      BY <1>a, <1>d, <3>3, QuietRegisters DEF Read3Wait, StrobeBound
    <3> QED BY <1>4, <3>1, <3>2, <3>3
  <2>4. IF bus'.op = "rd" THEN InStrobe(Taken)' /\ hcount' <= StrobeBound' ELSE Delivered(Taken)'
    BY <1>b, <1>c, <2>1, <2>2, <2>3, DataRegKept, PauseStep
  <2> QED BY <2>2, <2>4 DEF ReadProgress, ReadStates, EndStates
<1>5. CASE Read3
  <2>1. /\ state = "READ_3" /\ state' = "READSECT" /\ UNCHANGED <<job, data_rdlength>>
        /\ wdstat_datareg' = buffer[buff_addr] /\ read_timer = 0
    BY <1>5 DEF Read3
  <2>2. Taken' = Taken /\ Taken = buff_addr /\ Taken \in 0 .. JobLength - 1
    BY <2>1, ReadCounts DEF Taken, JobLength, ReadStates
  <2>3. Delivered(Taken)'
    BY <1>c, <2>1, <2>2, LastTick
  <2>4. Known(job, Taken) => wdstat_datareg' = Answer(job, image, Taken)
    BY <2>1, <2>2 DEF BufferFilled, Filled, HoldsAnswer, ReadStates
  <2>5. UNCHANGED image
    BY DEF Cycle, CpuTick
  <2> QED BY <2>1, <2>2, <2>3, <2>4, <2>5 DEF ReadProgress, ReadStates, EndStates
<1>6. CASE ReadSectWait
  <2>1. /\ state = "READSECT" /\ state' = "READSECT" /\ UNCHANGED <<job, data_rdlength>>
        /\ wdstat_datareg' = host_datareg /\ ~HostFetches
    BY <1>6, <1>a, QuietRegisters DEF ReadSectWait, KeepRegs, KeepTransfer
  <2>2. bus.op # "rd" /\ UNCHANGED image
    BY <2>1, ProtocolParts DEF HostFetches, Reads, Strobes, AccessInv, Cycle, CpuTick
  <2>3. PICK n : n = Taken
    OBVIOUS
  <2>4. Taken' = n
    BY <2>1, <2>3 DEF Taken, JobLength
  <2>5. Delivered(n) /\ (Known(job, n) => wdstat_datareg = Answer(job, image, n))
    BY <1>c, <2>1, <2>3 DEF ReadProgress
  <2>6. Delivered(n)'
    BY <2>1, <2>2, <2>5, IdleTick
  <2>7. wdstat_datareg' = wdstat_datareg
    BY <1>b, <2>1, DataRegKept
  <2> QED BY <2>1, <2>2, <2>4, <2>5, <2>6, <2>7 DEF ReadProgress, ReadStates, EndStates
<1>7. CASE ReadSect
  <2>1. /\ state = "READSECT" /\ UNCHANGED <<job, data_rdlength>> /\ wdstat_datareg' = host_datareg
        /\ WatchdogBark \/ HostFetches
        /\ IF data_rdlength - 1 = 0 THEN state' = "ENDCOMMAND" ELSE state' = "READ_1"
    BY <1>7 DEF ReadSect, KeepRegs
  <2>2. bus.op = "rd"
    BY <2>1, ExchangeTick DEF HostFetches, Reads
  <2>3. wdstat_datareg' = wdstat_datareg
    BY <1>b, <2>1, DataRegKept
  <2>4. PICK n \in Nat : n = Taken + 1
    BY <2>1, ReadCounts, BusAssumption DEF Taken, ReadStates
  <2>5. IF bus'.op = "rd" THEN InStrobe(n)' /\ hcount' <= READ_TIMER + 2 ELSE Delivered(n)'
    BY <1>b, <1>c, <2>1, <2>2, <2>3, <2>4, FetchStep
  <2>6. /\ state' = "READ_1" => Taken' = n /\ StrobeBound' = READ_TIMER + 2
        /\ state' = "ENDCOMMAND" => JobLength' = n
    BY <2>1, <2>4, ReadCounts, BusAssumption DEF Taken, JobLength, StrobeBound, ReadStates
  <2> QED BY <2>1, <2>5, <2>6 DEF ReadProgress, ReadStates, EndStates
<1>8. CASE EndCommand \/ EndCommand2
  <2>1. /\ state \in EndStates /\ state' \in EndStates \cup {"READY"} /\ UNCHANGED job
        /\ wdstat_datareg' = host_datareg /\ s_err' = s_err /\ state # "READY"
    BY <1>8, <1>a, QuietRegisters DEF EndCommand, EndCommand2, KeepRegs, KeepFlags, EndStates
  <2> QED BY <1>b, <1>c, <2>1, EndStep, DataRegKept
<1>9. CASE DoRestore \/ DoSeek \/ DoStep \/ DoWrite \/ DoTrackOp
  <2>1. job' = NoJob \/ job' = Job("WRITE")
    BY <1>9 DEF DoRestore, DoSeek, DoStep, DoWrite, DoTrackOp, GetBusy
  <2> QED BY <2>1 DEF NoJob, Job, Reading
<1>10. CASE \/ WriteSectWait \/ WriteSect \/ Write1 \/ Write2 \/ WaitCpuWrite \/ WaitCpu \/ Abort
  <2>1. RequestFits
    BY ProtocolParts
  <2> QED
    BY <1>10, <1>a, <2>1 DEF WriteSectWait, WriteSect, Write1, Write2, WaitCpuWrite, WaitCpu, Abort,
       NoAbort, RequestFits, WriteStates, Reading
<1> QED
  BY <1>a, <1>1, <1>2, <1>3, <1>4, <1>5, <1>6, <1>7, <1>8, <1>9, <1>10 DEF ClockedArm

-----------------------------------------------------------------------------
(* The host's own steps.                                                   *)
LEMMA DataHost ==
  ASSUME Polite, ProtocolInv, DataInv, HostStep
  PROVE  DataInv'
<1>1. /\ UNCHANGED <<state, job, buffer, image, wdport_cpu_status, pc, cmd, cur, block, result>>
      /\ UNCHANGED <<data_rdlength, read_timer, wdstat_datareg, buff_addr, s_err, s_drq, named>>
  BY DEF HostStep, fdcVars, slaveVars, HostStatus, HostCommand, HostAbort, HostSetTrack,
     HostSetSector, HostSetUnit, HostSetData, HostPutByte, HostGetByte
<1>2. BufferFilled' /\ ImageStored'
  BY <1>1, BufferKept DEF DataInv
<1>3. /\ AccessInv /\ IdleIsStable /\ JobInStep /\ RequestFits /\ bus \in Access /\ job \in JobType
      /\ exch \in Seq(Byte) /\ buff_addr \in 0 .. SECTOR_SIZE - 1
  BY ProtocolParts DEF HostTypeOK, FdcInv, BusTypeOK
<1>4. ReadExchange /\ DrqIsFresh /\ WriteExchange
  BY DEF DataInv
<1>5. /\ JobLength' = JobLength /\ Taken' = Taken /\ StrobeBound' = StrobeBound
  BY <1>1 DEF JobLength, Taken, StrobeBound
<1>6. CASE HostStatus
  <2>1. UNCHANGED <<bus, exch, missed>> /\ bus = NoAccess
    BY <1>6 DEF HostStatus, HostFree
  <2>2. ReadExchange'
    BY <1>1, <1>4, <1>5, <2>1 DEF ReadExchange, ReadProgress, Reading, Delivered, NoAccess
  <2>3. DrqIsFresh'
    BY <1>1, <1>3, <1>6, <2>1 DEF DrqIsFresh, HostStatus, DrqBit, AccessInv
  <2>4. WriteExchange'
    BY <1>1, <1>4, <2>1 DEF WriteExchange, Kept
  <2> QED BY <1>2, <2>2, <2>3, <2>4 DEF DataInv
<1>7. CASE HostCommand \/ HostAbort \/ HostSetTrack \/ HostSetSector \/ HostSetUnit \/ HostSetData
  <2>1. /\ UNCHANGED <<exch, missed>> /\ bus = NoAccess /\ bus'.op = "wr" /\ seen' = "busy"
        /\ seen = "idle"
    BY <1>7 DEF HostCommand, HostAbort, HostSetTrack, HostSetSector, HostSetUnit, HostSetData, Write,
       HostFree, MayCommand, MaySet, Polite
  <2>2. state = "READY" \/ (job.op = "WRITE" /\ state \in FlushStates)
    BY <1>3, <2>1 DEF IdleIsStable, AccessInv, Idling, Flushing
  <2>3. ReadExchange'
    BY <1>1, <1>4, <1>5, <2>1, <2>2 DEF ReadExchange, ReadProgress, Reading, Delivered, NoAccess,
       ReadStates, EndStates
  <2>4. WriteExchange'
    BY <1>1, <1>4, <2>1, <2>2 DEF WriteExchange, Kept, FlushStates, EndStates
  <2> QED BY <1>2, <2>1, <2>3, <2>4 DEF DataInv, DrqIsFresh
<1>8. CASE HostPutByte
  <2>1. PICK v : /\ seen = "drq" /\ job.op = "WRITE" /\ bus = NoAccess /\ bus'.op = "wr"
                 /\ bus'.data = v /\ seen' = "busy" /\ exch' = Note(v)
    BY <1>8 DEF HostPutByte, MayMove, Write, HostFree
  <2>2. state = "WRITESECT"
    BY <1>3, <2>1 DEF AccessInv
  <2>3. Len(exch) = buff_addr /\ Agree(buffer, exch, Len(exch))
    BY <1>4, <2>1, <2>2 DEF WriteExchange, Kept, NoAccess
  <2>4. exch' = Append(exch, v)
    BY <1>3, <2>1, <2>3, BusAssumption DEF Note
  <2>5. v \in Byte
    <3>1. bus' \in Access
      BY HostBase, ProtocolParts DEF BaseInv, FdcInv, BusTypeOK
    <3> QED BY <2>1, <3>1 DEF Access
  <2>6. /\ Agree(buffer, exch', Len(exch)) /\ exch'[Len(exch) + 1] = v
        /\ Len(exch') = Len(exch) + 1
    BY <1>3, <2>3, <2>4, <2>5, AgreeAppend
  <2>7. WriteExchange'
    BY <1>1, <2>1, <2>2, <2>3, <2>6 DEF WriteExchange, Kept
  <2> QED BY <1>1, <1>2, <2>1, <2>7 DEF DataInv, DrqIsFresh, ReadExchange, Reading
<1>9. CASE HostGetByte
  <2>1. /\ UNCHANGED <<seen, exch, missed>> /\ bus = NoAccess /\ bus'.op = "rd" /\ seen = "drq"
        /\ job.op # "WRITE"
    BY <1>9 DEF HostGetByte, HostFree, MayMove
  <2>2. Reading /\ (~missed => state = "READSECT") /\ state \notin WriteStates \cup {"WAIT_CPUWRITE"}
    BY <1>3, <1>4, <2>1 DEF AccessInv, DrqIsFresh, NoAccess, JobInStep, Reading, JobType, RequestFits,
       WriteStates
  <2>3. ReadExchange'
    BY <1>1, <1>4, <1>5, <2>1, <2>2 DEF ReadExchange, ReadProgress, Reading, Delivered, ReadStates,
       EndStates
  <2> QED BY <1>1, <1>2, <2>1, <2>2, <2>3 DEF DataInv, DrqIsFresh, WriteExchange, WriteStates
<1> QED BY <1>6, <1>7, <1>8, <1>9 DEF HostStep

(* The firmware moves no byte the host has or is about to get.             *)
LEMMA DataFirmware ==
  ASSUME Paced, ProtocolInv, DataInv, Firmware
  PROVE  DataInv'
<1>1. UNCHANGED <<state, job, data_rdlength, read_timer, wdstat_datareg, buff_addr, s_err, bus,
                  hcount, seen, exch, missed>>
  BY DEF Firmware, fdcVars, hostVars
<1>2. /\ BufferFilled' /\ ImageStored'
      /\ image' # image => job.op = "WRITE"
      /\ buffer' # buffer => state = "WAIT_CPUREAD"
  BY BufferFirmware DEF DataInv
<1>3. /\ JobLength' = JobLength /\ Taken' = Taken /\ StrobeBound' = StrobeBound
  BY <1>1 DEF JobLength, Taken, StrobeBound
<1>4. ReadExchange'
  BY <1>1, <1>2, <1>3 DEF DataInv, ReadExchange, ReadProgress, Reading, Delivered, InStrobe
<1>5. WriteExchange'
  BY <1>1, <1>2 DEF DataInv, WriteExchange, Kept
<1> QED BY <1>1, <1>2, <1>4, <1>5 DEF DataInv, DrqIsFresh

LEMMA DataKept ==
  ASSUME DataInv,
         UNCHANGED <<state, job, buffer, image, wdport_cpu_status, pc, cmd, cur, block, result>>,
         UNCHANGED <<data_rdlength, read_timer, wdstat_datareg, buff_addr, s_err, bus, hcount, seen,
                     exch, named, missed>>
  PROVE  DataInv'
<1>1. BufferFilled' /\ ImageStored'
  BY BufferKept DEF DataInv
<1>2. JobLength' = JobLength /\ Taken' = Taken /\ StrobeBound' = StrobeBound
  BY DEF JobLength, Taken, StrobeBound
<1>3. ReadExchange'
  BY <1>2 DEF DataInv, ReadExchange, ReadProgress, Reading, Delivered, InStrobe
<1>4. WriteExchange' /\ DrqIsFresh'
  BY DEF DataInv, WriteExchange, Kept, DrqIsFresh
<1> QED BY <1>1, <1>3, <1>4 DEF DataInv

LEMMA DataInitial == Init => DataInv
<1> SUFFICES ASSUME Init PROVE DataInv
  OBVIOUS
<1>1. BufferFilled /\ ImageStored
  BY DEF Init, FdcInit, SlaveInit, BufferFilled, ImageStored, ReadStates
<1> QED
  BY <1>1 DEF Init, FdcInit, DataInv, ReadExchange, Reading, NoJob, DrqIsFresh, WriteExchange

LEMMA FloppyAlways ==
  ASSUME Polite, Paced
  PROVE  Spec => []FloppyInvariant
<1>1. Init => FloppyInvariant
  BY ProtocolInitial, DataInitial DEF FloppyInvariant
<1>2. FloppyInvariant /\ [Next]_vars => FloppyInvariant'
  <2> SUFFICES ASSUME ProtocolInv, DataInv, [Next]_vars
               PROVE  ProtocolInv' /\ DataInv'
    BY DEF FloppyInvariant
  <2>1. ProtocolInv'
    BY ProtocolStep
  <2>2. CASE Cycle
    <3>1. BufferFilled' /\ ImageStored' /\ ReadExchange' /\ WriteExchange' /\ DrqIsFresh'
      BY <2>2, BufferCycle, ReadCycle, WriteCycle, FreshCycle DEF DataInv
    <3> QED BY <2>1, <3>1 DEF DataInv
  <2>3. CASE User \/ UNCHANGED vars
    <3>1. /\ UNCHANGED <<state, job, buffer, image, wdport_cpu_status, pc, cmd, cur, block, result>>
          /\ UNCHANGED <<data_rdlength, read_timer, wdstat_datareg, buff_addr, s_err, bus, hcount,
                         seen, exch, named, missed>>
      BY <2>3 DEF User, MoveCard, vars, fdcVars, slaveVars, busVars, hostVars
    <3> QED BY <2>1, <3>1, DataKept
  <2> QED BY <2>1, <2>2, <2>3, DataHost, DataFirmware DEF Next
<1> QED BY <1>1, <1>2, PTL DEF Spec

-----------------------------------------------------------------------------
(* How far an answer has got, in every state a reading job can be in.      *)
LEMMA ExchangeIsAnswer ==
  ASSUME FloppyInvariant, Reading, ~missed
  PROVE  \E n \in 0 .. JobLength : Delivered(n)
<1>1. /\ ProtocolInv /\ ReadProgress
  BY DEF FloppyInvariant, DataInv, ReadExchange
<1>2. RequestFits /\ NoAbort /\ state \in States
  BY <1>1, ProtocolParts
<1>3. state \in {"WAIT_CPUREAD", "READY"} \cup ReadStates \cup EndStates
  BY <1>2 DEF RequestFits, NoAbort, States, Reading, ReadStates, EndStates, WriteStates
<1>4. JobLength \in Nat /\ JobLength >= 1 /\ (state \in ReadStates => Taken \in 0 .. JobLength)
  BY <1>1, ReadCounts, BusAssumption DEF Taken, ReadStates
<1>5. CASE state = "WAIT_CPUREAD"
  BY <1>1, <1>4, <1>5 DEF ReadProgress
<1>6. CASE state \in ReadStates
  <2>1. Delivered(Taken) \/ InStrobe(Taken)
    BY <1>1, <1>6 DEF ReadProgress
  <2> QED BY <1>4, <1>6, <2>1 DEF InStrobe
<1>7. CASE state \in EndStates \cup {"READY"}
  <2>1. Delivered(JobLength) \/ Delivered(0) \/ InStrobe(JobLength)
    BY <1>1, <1>7 DEF ReadProgress
  <2> QED BY <1>4, <2>1 DEF InStrobe
<1> QED BY <1>3, <1>5, <1>6, <1>7

(* Reading: the bytes the host fetches are the blocks of the sector it     *)
(* asked for, in order, none twice and none skipped, and all of them       *)
(* unless an error is shown (wd1793.v:409-480, slave.c:128-148).           *)
THEOREM SectorAlwaysRead ==
  ASSUME Polite, Paced
  PROVE  Spec => []SectorIsRead
<1>1. FloppyInvariant => SectorIsRead
  <2> SUFFICES ASSUME FloppyInvariant PROVE SectorIsRead
    OBVIOUS
  <2>1. TypeOK
    BY DEF FloppyInvariant, ProtocolInv, BaseInv, FdcInv, HostTypeOK, TypeOK
  <2>2. HostGetsSector
    <3> SUFFICES ASSUME job.op = "READ", JobOnImage, ~missed
                 PROVE  /\ Len(exch) <= SECTOR_SIZE
                        /\ \A i \in 1 .. Len(exch) : exch[i] = image[JobPosition][i - 1]
      BY DEF HostGetsSector
    <3>1. PICK n \in 0 .. JobLength : IsAnswer(exch, n, job, image)
      BY ExchangeIsAnswer DEF Reading, Delivered
    <3>2. JobLength = SECTOR_SIZE /\ n \in Nat
      BY BusAssumption DEF JobLength
    <3>3. \A i \in 0 .. n - 1 : exch[i + 1] = image[JobPosition][i]
      BY <3>1, JobPlace DEF IsAnswer, Known, Answer
    <3>4. Len(exch) = n
      BY <3>1 DEF IsAnswer
    <3>5. \A i \in 1 .. n : (i - 1) \in 0 .. n - 1 /\ (i - 1) + 1 = i
      BY <3>2
    <3> QED BY <3>2, <3>3, <3>4, <3>5, BusAssumption
  <2>3. ReadIsWhole
    <3> SUFFICES ASSUME state \in EndStates, bus = NoAccess, job.op = "READ", ~missed, s_err = {}
                 PROVE  Len(exch) = SECTOR_SIZE
      BY DEF ReadIsWhole, EndStates
    <3>1. ReadProgress
      BY DEF FloppyInvariant, DataInv, ReadExchange, Reading
    <3>2. Delivered(JobLength)
      BY <3>1 DEF ReadProgress, NoAccess, EndStates
    <3> QED BY <3>2 DEF Delivered, IsAnswer, JobLength
  <2> QED BY <2>1, <2>2, <2>3 DEF SectorIsRead
<1> QED BY <1>1, FloppyAlways, PTL

(* Writing: a write the firmware reports as successful has stored the      *)
(* bytes the host supplied, all in one sector of the command's side and    *)
(* track, which is the one the host had selected unless it has rewritten   *)
(* SECTOR itself since the busy bit went down (wd1793.v:483-571,           *)
(* slave.c:164-199).                                                       *)
THEOREM WriteAlwaysStored ==
  ASSUME Polite, Paced
  PROVE  Spec => []WriteIsStored
<1>1. FloppyInvariant => WriteIsStored
  <2> SUFFICES ASSUME FloppyInvariant, state = "WAIT_CPUWRITE", Succeeded(wdport_cpu_status)
               PROVE  /\ MayWrite(cur)
                      /\ cur \in Positions =>
                           \A i \in 0 .. SECTOR_SIZE - 1 : image[cur][i] = exch[i + 1]
    BY DEF WriteIsStored
  <2>1. "SUCCESS" \in wdport_cpu_status
    BY DEF Succeeded
  <2>2. Stored(SECTOR_SIZE) /\ Kept(SECTOR_SIZE)
    BY <2>1 DEF FloppyInvariant, DataInv, ImageStored, WriteExchange
  <2> QED BY <2>2 DEF Stored, Kept, HoldsBuffer, Agree
<1> QED BY <1>1, FloppyAlways, PTL

(* Serving: the job of the firmware is the job of the host, a WRITE's      *)
(* drive apart, and a READ ADDRESS answers with the head's track and side  *)
(* (slave.c:119-180).                                                      *)
THEOREM JobAlwaysServed ==
  ASSUME Polite, Paced
  PROVE  Spec => []JobIsServed
<1>1. FloppyInvariant => JobIsServed
  <2> SUFFICES ASSUME FloppyInvariant PROVE JobIsServed
    OBVIOUS
  <2>1. ServesTheJob
    BY ServesIt DEF FloppyInvariant
  <2>2. AddressIsHeads
    <3> SUFFICES ASSUME job.op = "READADDR", ~missed
                 PROVE  /\ Len(exch) <= ADDR_SIZE
                        /\ Len(exch) >= 1 => exch[1] = job.track
                        /\ Len(exch) >= 2 => exch[2] = job.side
      BY DEF AddressIsHeads
    <3>1. PICK n \in 0 .. JobLength : IsAnswer(exch, n, job, image)
      BY ExchangeIsAnswer DEF Reading, Delivered
    <3>2. JobLength = ADDR_SIZE /\ ADDR_SIZE \in Nat /\ n \in Nat
      BY BusAssumption DEF JobLength
    <3>3. \A i \in 0 .. n - 1 : i \in {0, 1} => exch[i + 1] = IF i = 0 THEN job.track ELSE job.side
      BY <3>1 DEF IsAnswer, Known, Answer
    <3>4. Len(exch) = n
      BY <3>1 DEF IsAnswer
    <3>5. n >= 1 => 0 \in 0 .. n - 1 /\ exch[0 + 1] = job.track
      BY <3>2, <3>3
    <3>6. n >= 2 => 1 \in 0 .. n - 1 /\ exch[1 + 1] = job.side
      BY <3>2, <3>3
    <3> QED BY <3>2, <3>4, <3>5, <3>6
  <2> QED BY <2>1, <2>2 DEF JobIsServed
<1> QED BY <1>1, FloppyAlways, PTL
=============================================================================
