---------------------------- MODULE Wd1793Lemmas ----------------------------
(***************************************************************************)
(* What one cycle of the controller does to its registers, whatever the    *)
(* host and the firmware do: the counters stay in range, the address and   *)
(* the counter of a transfer agree, and the busy bit covers every working  *)
(* state.                                                                  *)
(*                                                                         *)
(* The three are proved together: the byte counter stays in range because  *)
(* a transfer is in step, and it is in step because a transfer starts with *)
(* the length of its job and leaves its loop at the last byte (JobInStep). *)
(***************************************************************************)
EXTENDS Wd1793, TLAPS

JobLength == IF job.op = "READADDR" THEN ADDR_SIZE ELSE SECTOR_SIZE

(* The strengthening: a read waits with the length of its job, the address *)
(* is only advanced when another byte is due, and a write is a WRITE job.  *)
JobInStep ==
  /\ state = "WAIT_CPUREAD" => data_rdlength = JobLength
  /\ state = "READ_1" => data_rdlength >= 2
  /\ state \in {"WRITESECT", "WRITE_1", "WRITE_2"} => job.op = "WRITE"

FdcInv == BusTypeOK /\ FdcTypeOK /\ TransferInStep /\ JobInStep /\ BusyWhileWorking

RequestType == [op : RequestOps, unit : 0 .. 3]
JobType == [op : {"NONE", "READ", "WRITE", "READADDR"}, drive : {0, 1},
            side : {0, 1}, track : Byte, sector : Byte]

(* The registers every arm of the state machine determines.                *)
ArmTypeOK ==
  /\ state \in States /\ oCPU_REQUEST \in RequestType
  /\ wdstat_track \in Byte /\ wdstat_datareg \in Byte
  /\ cmd_mode \in {0, 1} /\ s_err \in SUBSET ErrFlags
  /\ disk_track \in Byte /\ wdstat_stepdirection \in {0, 1}
  /\ data_rdlength \in 0 .. SECTOR_SIZE /\ buff_addr \in 0 .. SECTOR_SIZE - 1
  /\ read_timer \in 0 .. READ_TIMER
  /\ job \in JobType

FlagTypeOK ==
  /\ wdstat_pending \in BOOLEAN /\ s_drq \in BOOLEAN /\ s_busy \in BOOLEAN
  /\ buff_rd \in BOOLEAN /\ buff_wr \in BOOLEAN /\ watchdog_set \in BOOLEAN

(* The rest: what EveryCycle determines, and the environment's wires.      *)
CycleTypeOK ==
  /\ wdstat_sector \in Byte /\ wdstat_side \in {0, 1} /\ wdstat_drive \in {0, 1}
  /\ wdstat_command \in Byte /\ buffer \in [0 .. SECTOR_SIZE - 1 -> Byte]
  /\ watchdog_timer \in 0 .. WATCHDOG_TIME /\ cmd_on_bus \in BOOLEAN

WiresTypeOK == wdport_cpu_status \in SUBSET StatusFlags /\ bus \in Access

(* The type invariant, split by who determines a register.                 *)
LEMMA TypeParts ==
  BusTypeOK /\ FdcTypeOK <=> ArmTypeOK /\ FlagTypeOK /\ CycleTypeOK /\ WiresTypeOK
BY DEF RequestType, JobType, BusTypeOK, FdcTypeOK, ArmTypeOK, FlagTypeOK, CycleTypeOK, WiresTypeOK

(* What the register section yields stays in the registers' ranges.        *)
LEMMA HostSideTypes ==
  ASSUME ArmTypeOK, FlagTypeOK, CycleTypeOK, WiresTypeOK
  PROVE  /\ host_track \in Byte /\ host_sector \in Byte /\ host_datareg \in Byte
         /\ host_side \in {0, 1} /\ host_drive \in {0, 1}
         /\ host_command \in Byte /\ host_pending \in BOOLEAN
         /\ host_mode \in {0, 1} /\ host_state \in States
         /\ host_err \in SUBSET ErrFlags
<1> USE DEF ArmTypeOK, FlagTypeOK, CycleTypeOK, WiresTypeOK
<1>1. bus.data \in Byte
  BY DEF Access
<1>2. Diagnostic \in Byte
  <2>1. StateCode[state] \in 0 .. 15
    BY DEF StateCode, States
  <2>2. (IF s_busy THEN 16 ELSE 0) \in {0, 16}
    OBVIOUS
  <2>3. (IF s_drq THEN 32 ELSE 0) \in {0, 32}
    OBVIOUS
  <2>4. \A a \in 0 .. 15, b \in {0, 16}, c \in {0, 32} : a + b + c \in 0 .. 255
    OBVIOUS
  <2> QED BY ONLY <2>1, <2>2, <2>3, <2>4 DEF Diagnostic, Byte
<1>3. \A n \in Byte, k \in {0, 2, 3} : Bit(n, k) \in {0, 1}
  BY DEF Bit, Byte
<1> QED
  BY <1>1, <1>2, <1>3 DEF host_track, host_sector, host_datareg, host_side,
     host_drive, host_command, host_pending, host_mode, host_state, host_err, States

(* The register section keeps the state, or enters ABORT or DEAD.          *)
LEMMA HostStates == host_state \in {state, "ABORT", "DEAD"}
BY DEF host_state

(* The registers outside the state machine stay in range (wd1793.v:223-290). *)
LEMMA EveryCycleTypes ==
  ASSUME ArmTypeOK, FlagTypeOK, CycleTypeOK, WiresTypeOK, EveryCycle
  PROVE  CycleTypeOK'
<1>1. buffer' \in [0 .. SECTOR_SIZE - 1 -> Byte]
  BY DEF EveryCycle, ArmTypeOK, FlagTypeOK, CycleTypeOK
<1>2. watchdog_timer' \in 0 .. WATCHDOG_TIME
  BY Wd1793Assumption DEF EveryCycle, CycleTypeOK
<1>3. cmd_on_bus' \in BOOLEAN
  BY DEF EveryCycle
<1> QED
  BY <1>1, <1>2, <1>3, HostSideTypes DEF EveryCycle, CycleTypeOK

(* Each arm keeps its registers in range, given that the transfer it is in *)
(* the middle of is in step.                                               *)
LEMMA ArmTypes ==
  ASSUME ArmTypeOK, FlagTypeOK, CycleTypeOK, WiresTypeOK, TransferInStep, JobInStep, ClockedArm
  PROVE  ArmTypeOK'
<1>a. /\ host_track \in Byte /\ host_datareg \in Byte /\ host_mode \in {0, 1}
      /\ host_state \in States /\ host_err \in SUBSET ErrFlags
  BY HostSideTypes
<1>b. /\ Bit(wdstat_command, 3) \in {0, 1} /\ CommandDirection \in {0, 1}
      /\ \A dir \in {0, 1} : NextTrack(dir) \in Byte
  BY DEF ArmTypeOK, CycleTypeOK, Bit, Byte, CommandDirection, NextTrack
<1>c. /\ NoJob \in JobType
      /\ \A op \in {"READ", "WRITE", "READADDR"} : Job(op) \in JobType
  BY DEF ArmTypeOK, CycleTypeOK, JobType, NoJob, Job, Byte
<1>d. /\ \A op \in RequestOps : Signal(op) \in RequestType
      /\ \A op \in RequestOps, d \in {0, 1}, sd \in {0, 1} :
            Request(op, d, sd) \in RequestType
  BY DEF Signal, Request, RequestType
<1> USE BusAssumption, Wd1793Assumption, <1>a, <1>b, <1>c, <1>d
    DEF ArmTypeOK, CycleTypeOK
<1>1. CASE ReadyIdle
  BY <1>1 DEF ReadyIdle, KeepRegs, KeepCommand, KeepHead, KeepTransfer, KeepFlags, RequestOps, States, ErrFlags
<1>2. CASE DoRestore
  BY <1>2 DEF DoRestore, Execute, GetBusy, SetDrqBusy, KeepTransfer, Byte, RequestOps, States, ErrFlags
<1>3. CASE DoSeek
  BY <1>3 DEF DoSeek, Execute, GetBusy, SetDrqBusy, KeepTransfer, RequestOps, States, ErrFlags
<1>4. CASE DoStep
  BY <1>4 DEF DoStep, Execute, GetBusy, SetDrqBusy, KeepTransfer, StepDirections, RequestOps, States, ErrFlags
<1>5. CASE DoRead
  BY <1>5 DEF DoRead, Execute, SetDrqBusy, KeepHead, RequestOps, States, ErrFlags
<1>6. CASE DoWrite
  BY <1>6 DEF DoWrite, Execute, SetDrqBusy, KeepHead, RequestOps, States, ErrFlags
<1>7. CASE DoReadAddr
  BY <1>7 DEF DoReadAddr, Execute, SetDrqBusy, KeepHead, RequestOps, States, ErrFlags
<1>8. CASE DoTrackOp
  BY <1>8 DEF DoTrackOp, Execute, SetDrqBusy, KeepHead, KeepTransfer, RequestOps, States, ErrFlags
<1>9. CASE Read1
  BY <1>9 DEF Read1, KeepRegs, KeepCommand, KeepHead, KeepFlags, RequestOps, States, ErrFlags, TransferInStep, JobInStep
<1>10. CASE Read2
  BY <1>10 DEF Read2, SetDrqBusy, KeepRegs, KeepCommand, KeepHead, RequestOps, States, ErrFlags
<1>11. CASE Read3Wait
  BY <1>11 DEF Read3Wait, KeepRegs, KeepCommand, KeepHead, KeepFlags, RequestOps, States, ErrFlags
<1>12. CASE Read3
  BY <1>12 DEF Read3, SetDrqBusy, KeepCommand, KeepHead, RequestOps, States, ErrFlags
<1>13. CASE ReadSectWait
  BY <1>13 DEF ReadSectWait, KeepRegs, KeepCommand, KeepHead, KeepTransfer, KeepFlags, RequestOps, States, ErrFlags
<1>14. CASE ReadSect
  BY <1>14 DEF ReadSect, SetDrqBusy, KeepRegs, KeepCommand, KeepHead, RequestOps, States, ErrFlags
<1>15. CASE WriteSectWait
  BY <1>15 DEF WriteSectWait, KeepRegs, KeepCommand, KeepHead, KeepTransfer, KeepFlags, RequestOps, States, ErrFlags
<1>16. CASE WriteSect
  BY <1>16 DEF WriteSect, SetDrqBusy, KeepRegs, KeepCommand, KeepHead, KeepTransfer, RequestOps, States, ErrFlags
<1>17. CASE Write1
  BY <1>17 DEF Write1, KeepRegs, KeepCommand, KeepHead, KeepTransfer, KeepFlags, RequestOps, States, ErrFlags
<1>18. CASE Write2
  BY <1>18 DEF Write2, SetDrqBusy, KeepRegs, KeepCommand, KeepHead, RequestOps, States, ErrFlags, TransferInStep, JobInStep
<1>19. CASE WaitCpuRead
  <2>1. state' \in States /\ buff_addr' \in 0 .. SECTOR_SIZE - 1
    BY <1>19 DEF WaitCpuRead, States
  <2>2. s_err' \in SUBSET ErrFlags
    BY <1>19 DEF WaitCpuRead, ErrFlags
  <2> QED BY <1>19, <2>1, <2>2 DEF WaitCpuRead, KeepRegs, KeepCommand, KeepHead
<1>20. CASE WaitCpuWrite
  BY <1>20 DEF WaitCpuWrite, SetDrqBusy, KeepRegs, KeepCommand, KeepHead, KeepTransfer, RequestOps, States, ErrFlags
<1>21. CASE WaitCpu
  BY <1>21 DEF WaitCpu, KeepRegs, KeepCommand, KeepHead, KeepTransfer, KeepFlags, RequestOps, States, ErrFlags
<1>22. CASE Abort
  BY <1>22 DEF Abort, KeepRegs, KeepHead, KeepFlags, RequestOps, States, ErrFlags
<1>23. CASE EndCommand
  BY <1>23 DEF EndCommand, KeepRegs, KeepCommand, KeepHead, KeepTransfer, KeepFlags, RequestOps, States, ErrFlags
<1>24. CASE EndCommand2
  BY <1>24 DEF EndCommand2, SetDrqBusy, KeepRegs, KeepCommand, KeepHead, KeepTransfer, RequestOps, States, ErrFlags
<1> QED BY ClockedArm, <1>1, <1>2, <1>3, <1>4, <1>5, <1>6, <1>7, <1>8, <1>9, <1>10, <1>11, <1>12, <1>13, <1>14, <1>15, <1>16, <1>17, <1>18, <1>19, <1>20, <1>21, <1>22, <1>23, <1>24 DEF ClockedArm

(* The flags stay Boolean in every arm.                                    *)
LEMMA FlagTypes ==
  ASSUME ArmTypeOK, FlagTypeOK, CycleTypeOK, WiresTypeOK, ClockedArm
  PROVE  FlagTypeOK'
<1>a. host_pending \in BOOLEAN
  BY HostSideTypes
<1> USE <1>a DEF FlagTypeOK
<1>1. CASE ReadyIdle
  BY <1>1 DEF ReadyIdle, KeepCommand, KeepTransfer, KeepFlags
<1>2. CASE DoRestore
  BY <1>2 DEF DoRestore, Execute, GetBusy, SetDrqBusy, KeepTransfer
<1>3. CASE DoSeek
  BY <1>3 DEF DoSeek, Execute, GetBusy, SetDrqBusy, KeepTransfer
<1>4. CASE DoStep
  BY <1>4 DEF DoStep, Execute, GetBusy, SetDrqBusy, KeepTransfer
<1>5. CASE DoRead
  BY <1>5 DEF DoRead, Execute, SetDrqBusy
<1>6. CASE DoWrite
  BY <1>6 DEF DoWrite, Execute, SetDrqBusy
<1>7. CASE DoReadAddr
  BY <1>7 DEF DoReadAddr, Execute, SetDrqBusy
<1>8. CASE DoTrackOp
  BY <1>8 DEF DoTrackOp, Execute, SetDrqBusy, KeepTransfer
<1>9. CASE Read1
  BY <1>9 DEF Read1, KeepCommand, KeepFlags
<1>10. CASE Read2
  BY <1>10 DEF Read2, SetDrqBusy, KeepCommand
<1>11. CASE Read3Wait
  BY <1>11 DEF Read3Wait, KeepCommand, KeepFlags
<1>12. CASE Read3
  BY <1>12 DEF Read3, SetDrqBusy, KeepCommand
<1>13. CASE ReadSectWait
  BY <1>13 DEF ReadSectWait, KeepCommand, KeepTransfer, KeepFlags
<1>14. CASE ReadSect
  BY <1>14 DEF ReadSect, SetDrqBusy, KeepCommand
<1>15. CASE WriteSectWait
  BY <1>15 DEF WriteSectWait, KeepCommand, KeepTransfer, KeepFlags
<1>16. CASE WriteSect
  BY <1>16 DEF WriteSect, SetDrqBusy, KeepCommand, KeepTransfer
<1>17. CASE Write1
  BY <1>17 DEF Write1, KeepCommand, KeepTransfer, KeepFlags
<1>18. CASE Write2
  BY <1>18 DEF Write2, SetDrqBusy, KeepCommand
<1>19. CASE WaitCpuRead
  BY <1>19 DEF WaitCpuRead, KeepCommand
<1>20. CASE WaitCpuWrite
  BY <1>20 DEF WaitCpuWrite, SetDrqBusy, KeepCommand, KeepTransfer
<1>21. CASE WaitCpu
  BY <1>21 DEF WaitCpu, KeepCommand, KeepTransfer, KeepFlags
<1>22. CASE Abort
  BY <1>22 DEF Abort, KeepFlags
<1>23. CASE EndCommand
  BY <1>23 DEF EndCommand, KeepCommand, KeepTransfer, KeepFlags
<1>24. CASE EndCommand2
  BY <1>24 DEF EndCommand2, SetDrqBusy, KeepCommand, KeepTransfer
<1> QED BY ClockedArm, <1>1, <1>2, <1>3, <1>4, <1>5, <1>6, <1>7, <1>8, <1>9, <1>10, <1>11, <1>12, <1>13, <1>14, <1>15, <1>16, <1>17, <1>18, <1>19, <1>20, <1>21, <1>22, <1>23, <1>24 DEF ClockedArm

(* Busy is raised by every command and dropped only in WAIT_CPUWRITE and   *)
(* on the way back to READY.                                               *)
LEMMA BusyStep ==
  ASSUME BusyWhileWorking, FlagTypeOK, ClockedArm
  PROVE  BusyWhileWorking'
<1> USE HostStates DEF BusyWhileWorking
<1>1. CASE ReadyIdle
  BY <1>1 DEF ReadyIdle, KeepFlags
<1>2. CASE DoRestore
  BY <1>2 DEF DoRestore, Execute, GetBusy, SetDrqBusy
<1>3. CASE DoSeek
  BY <1>3 DEF DoSeek, Execute, GetBusy, SetDrqBusy
<1>4. CASE DoStep
  BY <1>4 DEF DoStep, Execute, GetBusy, SetDrqBusy
<1>5. CASE DoRead
  BY <1>5 DEF DoRead, Execute, SetDrqBusy
<1>6. CASE DoWrite
  BY <1>6 DEF DoWrite, Execute, SetDrqBusy
<1>7. CASE DoReadAddr
  BY <1>7 DEF DoReadAddr, Execute, SetDrqBusy
<1>8. CASE DoTrackOp
  BY <1>8 DEF DoTrackOp, Execute, SetDrqBusy
<1>9. CASE Read1
  BY <1>9 DEF Read1, KeepFlags
<1>10. CASE Read2
  BY <1>10 DEF Read2, SetDrqBusy
<1>11. CASE Read3Wait
  BY <1>11 DEF Read3Wait, KeepFlags
<1>12. CASE Read3
  BY <1>12 DEF Read3, SetDrqBusy
<1>13. CASE ReadSectWait
  BY <1>13 DEF ReadSectWait, KeepFlags
<1>14. CASE ReadSect
  BY <1>14 DEF ReadSect, SetDrqBusy
<1>15. CASE WriteSectWait
  BY <1>15 DEF WriteSectWait, KeepFlags
<1>16. CASE WriteSect
  BY <1>16 DEF WriteSect, SetDrqBusy
<1>17. CASE Write1
  BY <1>17 DEF Write1, KeepFlags
<1>18. CASE Write2
  BY <1>18 DEF Write2, SetDrqBusy
<1>19. CASE WaitCpuRead
  BY <1>19 DEF WaitCpuRead
<1>20. CASE WaitCpuWrite
  BY <1>20 DEF WaitCpuWrite, SetDrqBusy
<1>21. CASE WaitCpu
  BY <1>21 DEF WaitCpu, KeepFlags
<1>22. CASE Abort
  BY <1>22 DEF Abort, KeepFlags
<1>23. CASE EndCommand
  BY <1>23 DEF EndCommand, KeepFlags
<1>24. CASE EndCommand2
  BY <1>24 DEF EndCommand2, SetDrqBusy
<1> QED BY ClockedArm, <1>1, <1>2, <1>3, <1>4, <1>5, <1>6, <1>7, <1>8, <1>9, <1>10, <1>11, <1>12, <1>13, <1>14, <1>15, <1>16, <1>17, <1>18, <1>19, <1>20, <1>21, <1>22, <1>23, <1>24 DEF ClockedArm

(* Address and counter move together, and a transfer starts in step.       *)
LEMMA TransferStep ==
  ASSUME ArmTypeOK, TransferInStep, JobInStep, ClockedArm
  PROVE  TransferInStep' /\ JobInStep'
<1> USE HostStates, BusAssumption DEF ArmTypeOK, TransferInStep, JobInStep, JobLength
<1>1. CASE ReadyIdle
  BY <1>1 DEF ReadyIdle, KeepTransfer
<1>2. CASE DoRestore
  BY <1>2 DEF DoRestore, Execute, GetBusy, KeepTransfer, NoJob
<1>3. CASE DoSeek
  BY <1>3 DEF DoSeek, Execute, GetBusy, KeepTransfer, NoJob
<1>4. CASE DoStep
  BY <1>4 DEF DoStep, Execute, GetBusy, KeepTransfer, NoJob
<1>5. CASE DoRead
  BY <1>5 DEF DoRead, Execute, Job
<1>6. CASE DoWrite
  BY <1>6 DEF DoWrite, Execute, Job
<1>7. CASE DoReadAddr
  BY <1>7 DEF DoReadAddr, Execute, Job
<1>8. CASE DoTrackOp
  BY <1>8 DEF DoTrackOp, Execute, KeepTransfer, NoJob
<1>9. CASE Read1
  BY <1>9 DEF Read1
<1>10. CASE Read2
  BY <1>10 DEF Read2
<1>11. CASE Read3Wait
  BY <1>11 DEF Read3Wait
<1>12. CASE Read3
  BY <1>12 DEF Read3
<1>13. CASE ReadSectWait
  BY <1>13 DEF ReadSectWait, KeepTransfer
<1>14. CASE ReadSect
  BY <1>14 DEF ReadSect
<1>15. CASE WriteSectWait
  BY <1>15 DEF WriteSectWait, KeepTransfer
<1>16. CASE WriteSect
  BY <1>16 DEF WriteSect, KeepTransfer
<1>17. CASE Write1
  BY <1>17 DEF Write1, KeepTransfer
<1>18. CASE Write2
  <2>1. CASE data_rdlength = 1
    BY <1>18, <2>1 DEF Write2
  <2>2. CASE data_rdlength # 1
    <3>1. job.op = "WRITE" /\ data_rdlength \in 2 .. SECTOR_SIZE
          /\ buff_addr + data_rdlength = SECTOR_SIZE
      BY <1>18, <2>2 DEF Write2
    <3>2. buff_addr' = buff_addr + 1 /\ data_rdlength' = data_rdlength - 1
      BY <1>18, <3>1 DEF Write2
    <3>3. state' = "WRITESECT" /\ job' = job
      <4>1. data_rdlength - 1 # 0
        BY <3>1
      <4> QED BY ONLY <1>18, <4>1 DEF Write2
    <3> QED BY <3>1, <3>2, <3>3
  <2> QED BY <2>1, <2>2
<1>19. CASE WaitCpuRead
  BY <1>19 DEF WaitCpuRead
<1>20. CASE WaitCpuWrite
  BY <1>20 DEF WaitCpuWrite, KeepTransfer
<1>21. CASE WaitCpu
  BY <1>21 DEF WaitCpu, KeepTransfer
<1>22. CASE Abort
  BY <1>22 DEF Abort
<1>23. CASE EndCommand
  BY <1>23 DEF EndCommand, KeepTransfer
<1>24. CASE EndCommand2
  BY <1>24 DEF EndCommand2, KeepTransfer
<1> QED BY ClockedArm, <1>1, <1>2, <1>3, <1>4, <1>5, <1>6, <1>7, <1>8, <1>9, <1>10, <1>11, <1>12, <1>13, <1>14, <1>15, <1>16, <1>17, <1>18, <1>19, <1>20, <1>21, <1>22, <1>23, <1>24 DEF ClockedArm

-----------------------------------------------------------------------------
(* Reset establishes the invariant (wd1793.v:195-215).                     *)
LEMMA FdcInitial ==
  ASSUME FdcInit, WiresTypeOK, buffer = [i \in 0 .. SECTOR_SIZE - 1 |-> 0]
  PROVE  FdcInv
<1> USE BusAssumption, Wd1793Assumption DEF FdcInit
<1>1. CycleTypeOK
  <2>1. cmd_on_bus \in BOOLEAN
    BY DEF FdcInit
  <2>2. buffer \in [0 .. SECTOR_SIZE - 1 -> Byte]
    BY DEF Byte
  <2> QED BY <2>1, <2>2 DEF CycleTypeOK, Byte
<1>2. FlagTypeOK
  BY DEF FlagTypeOK
<1>3. ArmTypeOK
  <2>1. NoJob \in JobType /\ Signal("ACK") \in RequestType
    BY DEF RequestType, RequestOps, Signal, JobType, NoJob, Byte
  <2> QED BY <2>1 DEF ArmTypeOK, States, Byte
<1> QED
  BY <1>1, <1>2, <1>3, TypeParts
  DEF FdcInv, TransferInStep, JobInStep, BusyWhileWorking

(* Every cycle keeps it (wd1793.v:193-621).                                *)
LEMMA FdcStep ==
  ASSUME FdcInv, FdcCycle, WiresTypeOK'
  PROVE  FdcInv'
<1>1. ArmTypeOK /\ FlagTypeOK /\ CycleTypeOK /\ WiresTypeOK
  BY TypeParts DEF FdcInv
<1>2. CASE EveryCycle /\ ClockedArm
  <2>1. ArmTypeOK' /\ FlagTypeOK' /\ CycleTypeOK'
    BY <1>1, <1>2, ArmTypes, FlagTypes, EveryCycleTypes DEF FdcInv
  <2>2. TransferInStep' /\ JobInStep' /\ BusyWhileWorking'
    BY <1>1, <1>2, TransferStep, BusyStep DEF FdcInv
  <2>3. (BusTypeOK /\ FdcTypeOK)'
    BY <2>1, TypeParts, PTL
  <2> QED BY <2>2, <2>3 DEF FdcInv
<1>3. CASE Dead
  <2>1. ArmTypeOK' /\ FlagTypeOK' /\ CycleTypeOK'
    BY <1>1, <1>3 DEF Dead, SetDrqBusy, ArmTypeOK, FlagTypeOK, CycleTypeOK,
                      ErrFlags, Signal, RequestType, RequestOps
  <2>2. (BusTypeOK /\ FdcTypeOK)'
    BY <2>1, TypeParts, PTL
  <2> QED
    BY <1>3, <2>2 DEF Dead, FdcInv, TransferInStep, JobInStep, BusyWhileWorking
<1> QED BY <1>2, <1>3 DEF FdcCycle
=============================================================================
