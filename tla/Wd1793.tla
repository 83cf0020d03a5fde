------------------------------- MODULE Wd1793 -------------------------------
(***************************************************************************)
(* The floppy disk controller, u9_vector/src/floppy/wd1793.v.              *)
(*                                                                         *)
(* One action per arm of the state machine, each one ce cycle.  The        *)
(* register section that precedes the case statement runs in every cycle;  *)
(* its assignments are the operators host_*, which an arm uses wherever it *)
(* does not assign the register itself: the last nonblocking assignment    *)
(* wins, so an arm that assigns the state overrides an abort.              *)
(*                                                                         *)
(* Left out, because no property is about them: s_ready, s_index,          *)
(* s_headloaded, s_readonly, the unused multisector flag (the build does   *)
(* not define WITH_MULTISECTOR) and the diagnostic nibble boo.             *)
(***************************************************************************)
EXTENDS FloppyBus

CONSTANTS
  READ_TIMER,    \* cycles between two DRQs of a read (15, wd1793.v:420)
  WATCHDOG_TIME  \* cycles the host has to fetch a byte (2048, wd1793.v:606)

ASSUME Wd1793Assumption == READ_TIMER \in Nat /\ WATCHDOG_TIME \in Nat

VARIABLES
  state,
  wdstat_track, wdstat_side, wdstat_drive, wdstat_datareg,
  wdstat_command, wdstat_pending, wdstat_stepdirection,
  cmd_mode,      \* status register shows 0: type I bits, 1: DRQ
  s_drq, s_busy,
  s_err,         \* subset of ErrFlags
  data_rdlength, \* bytes left to transfer
  read_timer,
  watchdog_set, watchdog_timer,
  cmd_on_bus,    \* the command was written in the cycle before this one
  job            \* history: what the command being executed asked for

fdcVars == <<state, wdstat_track, wdstat_side, wdstat_drive, wdstat_datareg,
             wdstat_command, wdstat_pending, wdstat_stepdirection, cmd_mode,
             s_drq, s_busy, s_err, data_rdlength, read_timer, watchdog_set,
             watchdog_timer, cmd_on_bus, job>>

ErrFlags == {"WRFAULT", "SEEKERR", "CRCERR", "LOSTDATA"}

States == {"READY", "WAIT_CPUREAD", "WAIT_CPU", "ABORT", "READ_1", "READ_2",
           "READ_3", "READSECT", "WRITESECT", "WRITE_1", "WRITE_2",
           "WAIT_CPUWRITE", "ENDCOMMAND", "ENDCOMMAND2", "DEAD"}

(* Commands are the high nibble of the command byte.                       *)
RESTORE == 0
SEEK == 1
STEPS == 2 .. 7
READS == {8, 9}
WRITES == {10, 11}
READADDR == 12
FORCE_INT == 13
TRACK_OPS == {14, 15}

Bit(n, k) == (n \div 2^k) % 2

(* The busy bit of the status register.                                    *)
BusyBitNoPending == s_busy  \* mutant: a command not yet executed is not busy
BusyBit == s_busy \/ wdstat_pending
(* The DRQ bit is only in the status register after a type II command.     *)
DrqBit == cmd_mode = 1 /\ s_drq

NoJob == [op |-> "NONE", drive |-> 0, side |-> 0, track |-> 0, sector |-> 0]
Job(op) == [op |-> op, drive |-> wdstat_drive, side |-> wdstat_side,
            track |-> disk_track, sector |-> wdstat_sector]

FdcInit ==
  /\ state = "READY"
  /\ oCPU_REQUEST = Signal("ACK")
  /\ disk_track = 255
  /\ wdstat_track = 0 /\ wdstat_sector = 0
  /\ wdstat_side = 0 /\ wdstat_drive = 0
  /\ wdstat_datareg = 0 /\ wdstat_command = 0
  /\ wdstat_pending = FALSE /\ wdstat_stepdirection = 0
  /\ cmd_mode = 0 /\ s_drq = FALSE /\ s_busy = FALSE /\ s_err = {}
  /\ data_rdlength = 0 /\ buff_addr = 0 /\ buff_rd = FALSE /\ buff_wr = FALSE
  /\ read_timer = 0 /\ watchdog_set = FALSE /\ watchdog_timer = 0
  /\ cmd_on_bus = FALSE /\ job = NoJob

-----------------------------------------------------------------------------
(* The register section.                                                   *)
Interrupts == Writes("COMMAND") /\ bus.data = FORCE_INT
Commands == Writes("COMMAND") /\ bus.data # FORCE_INT
Overruns == Commands /\ wdstat_pending

(* The diagnostic value {2'b00, s_drq_busy, state} left for the firmware.  *)
StateCode == [s \in States |->
  CASE s = "READY" -> 0 [] s = "WAIT_CPUREAD" -> 1 [] s = "WAIT_CPU" -> 2
    [] s = "ABORT" -> 3 [] s = "READ_2" -> 4 [] s = "READ_3" -> 5
    [] s = "WAIT_CPUWRITE" -> 6 [] s = "READ_1" -> 7 [] s = "WRITE_1" -> 8
    [] s = "WRITE_2" -> 9 [] s = "WRITESECT" -> 10 [] s = "READSECT" -> 11
    [] s = "ENDCOMMAND2" -> 13 [] s = "ENDCOMMAND" -> 14 [] s = "DEAD" -> 15]
Diagnostic == StateCode[state] + (IF s_busy THEN 16 ELSE 0)
                               + (IF s_drq THEN 32 ELSE 0)

host_track == IF Overruns THEN Diagnostic
              ELSE IF Writes("TRACK") /\ ~s_busy THEN bus.data
              ELSE wdstat_track
host_sector == IF Overruns \/ (Writes("SECTOR") /\ ~s_busy) THEN bus.data
               ELSE wdstat_sector
host_side == IF Writes("CTL2") THEN Bit(bus.data, 2) ELSE wdstat_side
host_drive == IF Writes("CTL2") THEN Bit(bus.data, 0) ELSE wdstat_drive
host_datareg == IF Writes("DATA") THEN bus.data ELSE wdstat_datareg
host_command == IF Commands /\ ~wdstat_pending THEN bus.data ELSE wdstat_command
host_pending == wdstat_pending \/ Commands
host_mode == IF Interrupts THEN 0 ELSE cmd_mode
host_state == IF Interrupts /\ state # "READY" THEN "ABORT"
              ELSE IF Overruns THEN "DEAD"
              ELSE state
host_err == IF Interrupts /\ state = "READY" THEN {} ELSE s_err

(* Registers no arm of the state machine assigns, the buffer write that a  *)
(* raised buff_wr performs, and the watchdog counter.                      *)
EveryCycle ==
  /\ wdstat_sector' = host_sector
  /\ wdstat_side' = host_side /\ wdstat_drive' = host_drive
  /\ wdstat_command' = host_command
  /\ buffer' = IF buff_wr THEN [buffer EXCEPT ![buff_addr] = wdstat_datareg]
               ELSE buffer
  /\ watchdog_timer' = IF watchdog_set THEN WATCHDOG_TIME
                       ELSE IF watchdog_timer # 0 THEN watchdog_timer - 1
                       ELSE 0
  /\ cmd_on_bus' = (Commands /\ ~wdstat_pending)

WatchdogNeverBarks == FALSE  \* mutant: the host may take for ever
WatchdogBark == watchdog_timer = 0

(* What an arm leaves to the register section.                             *)
KeepRegs == wdstat_track' = host_track /\ wdstat_datareg' = host_datareg
KeepCommand == wdstat_pending' = host_pending /\ cmd_mode' = host_mode
KeepHead == UNCHANGED <<disk_track, wdstat_stepdirection>>
KeepTransfer == UNCHANGED <<data_rdlength, buff_addr, buff_rd, read_timer,
                            watchdog_set>>
SetDrqBusy(d, b) == s_drq' = d /\ s_busy' = b
KeepFlags == s_err' = host_err /\ UNCHANGED <<s_drq, s_busy>>

-----------------------------------------------------------------------------
(* STATE_READY: idle, or execute the pending command.                      *)
ReadyIdle ==
  /\ state = "READY" /\ ~wdstat_pending
  /\ state' = host_state
  /\ KeepRegs /\ KeepCommand /\ KeepHead /\ KeepTransfer /\ KeepFlags
  /\ UNCHANGED <<oCPU_REQUEST, job>> /\ buff_wr' = FALSE

(* Common to every command that is executed.                               *)
Execute(cmds) ==
  /\ state = "READY" /\ wdstat_pending /\ wdstat_command \in cmds
  /\ wdstat_pending' = FALSE
  /\ cmd_mode' = Bit(wdstat_command, 3)
  /\ wdstat_datareg' = host_datareg
  /\ buff_wr' = FALSE

(* Type I commands move the head at once and then hand a NOP to the        *)
(* firmware, only to look busy for a while.                                *)
GetBusy ==
  /\ SetDrqBusy(FALSE, TRUE)
  /\ oCPU_REQUEST' = Signal("NOP")
  /\ state' = "WAIT_CPU"
  /\ s_err' = host_err
  /\ KeepTransfer /\ job' = NoJob

DoRestore ==
  /\ Execute({RESTORE}) /\ GetBusy
  /\ wdstat_track' = 0 /\ disk_track' = 0
  /\ UNCHANGED wdstat_stepdirection

DoSeek ==
  /\ Execute({SEEK}) /\ GetBusy
  /\ wdstat_track' = host_track /\ disk_track' = wdstat_datareg
  /\ UNCHANGED wdstat_stepdirection

(* wNextTrack looks at idata, not at the command register.  One cycle      *)
(* after the command strobe the 8080 shows the status word of its next     *)
(* machine cycle there, whose bit 6 is 0: the stored direction is used.    *)
(* While HOLD stops the 8080 the command byte itself stays on the bus.  A  *)
(* command that had to wait meets whatever byte is on the bus by then.     *)
CommandDirection == IF Bit(wdstat_command, 2) = 1 THEN Bit(wdstat_command, 1)
                    ELSE wdstat_stepdirection
StepDirections == IF cmd_on_bus THEN {wdstat_stepdirection, CommandDirection}
                  ELSE {0, 1}
NextTrack(dir) == IF dir = 1 THEN (disk_track + 255) % 256
                  ELSE (disk_track + 1) % 256

DoStepNoUpdate ==  \* mutant: the update flag is ignored
  \E dir \in StepDirections :
    /\ Execute(STEPS) /\ GetBusy
    /\ wdstat_stepdirection' = CommandDirection
    /\ disk_track' = NextTrack(dir)
    /\ wdstat_track' = host_track

DoStep ==
  \E dir \in StepDirections :
    /\ Execute(STEPS) /\ GetBusy
    /\ wdstat_stepdirection' = CommandDirection
    /\ disk_track' = NextTrack(dir)
    /\ wdstat_track' = IF Bit(wdstat_command, 0) = 1 THEN NextTrack(dir)
                       ELSE host_track

(* Type II and III commands.                                               *)
DoReadSilently ==  \* mutant: busy is not raised
  /\ Execute(READS)
  /\ oCPU_REQUEST' = Request("READ", wdstat_drive, wdstat_side)
  /\ SetDrqBusy(FALSE, FALSE) /\ s_err' = {}
  /\ data_rdlength' = SECTOR_SIZE
  /\ state' = "WAIT_CPUREAD"
  /\ job' = Job("READ")
  /\ wdstat_track' = host_track /\ KeepHead
  /\ UNCHANGED <<buff_addr, buff_rd, read_timer, watchdog_set>>

DoRead ==
  /\ Execute(READS)
  /\ oCPU_REQUEST' = Request("READ", wdstat_drive, wdstat_side)
  /\ SetDrqBusy(FALSE, TRUE) /\ s_err' = {}
  /\ data_rdlength' = SECTOR_SIZE
  /\ state' = "WAIT_CPUREAD"
  /\ job' = Job("READ")
  /\ wdstat_track' = host_track /\ KeepHead
  /\ UNCHANGED <<buff_addr, buff_rd, read_timer, watchdog_set>>

DoWriteAnywhere ==  \* mutant: the buffer address is not reset
  /\ Execute(WRITES)
  /\ SetDrqBusy(TRUE, TRUE) /\ s_err' = {}
  /\ data_rdlength' = SECTOR_SIZE
  /\ state' = "WRITESECT"
  /\ job' = Job("WRITE")
  /\ wdstat_track' = host_track /\ KeepHead
  /\ UNCHANGED <<oCPU_REQUEST, buff_addr, buff_rd, read_timer, watchdog_set>>

DoWrite ==
  /\ Execute(WRITES)
  /\ SetDrqBusy(TRUE, TRUE) /\ s_err' = {}
  /\ data_rdlength' = SECTOR_SIZE /\ buff_addr' = 0
  /\ state' = "WRITESECT"
  /\ job' = Job("WRITE")
  /\ wdstat_track' = host_track /\ KeepHead
  /\ UNCHANGED <<oCPU_REQUEST, buff_rd, read_timer, watchdog_set>>

DoReadAddr ==
  /\ Execute({READADDR})
  /\ oCPU_REQUEST' = Request("READADDR", wdstat_drive, wdstat_side)
  /\ SetDrqBusy(FALSE, TRUE) /\ s_err' = {}
  /\ data_rdlength' = ADDR_SIZE
  /\ state' = "WAIT_CPUREAD"
  /\ job' = Job("READADDR")
  /\ wdstat_track' = host_track /\ KeepHead
  /\ UNCHANGED <<buff_addr, buff_rd, read_timer, watchdog_set>>

(* READ TRACK and WRITE TRACK are not supported: nothing happens.          *)
DoTrackOp ==
  /\ Execute(TRACK_OPS)
  /\ SetDrqBusy(FALSE, FALSE) /\ s_err' = host_err
  /\ state' = host_state
  /\ wdstat_track' = host_track /\ KeepHead /\ KeepTransfer
  /\ UNCHANGED oCPU_REQUEST /\ job' = NoJob

-----------------------------------------------------------------------------
(* Buffer to host.                                                         *)
Read1 ==
  /\ state = "READ_1"
  /\ buff_addr' = (buff_addr + 1) % SECTOR_SIZE
  /\ data_rdlength' = data_rdlength - 1
  /\ state' = "READ_2"
  /\ KeepRegs /\ KeepCommand /\ KeepHead /\ KeepFlags
  /\ UNCHANGED <<oCPU_REQUEST, job, buff_rd, read_timer, watchdog_set>>
  /\ buff_wr' = FALSE

Read2NoPause ==  \* mutant: the next DRQ may meet the old read strobe
  /\ state = "READ_2"
  /\ watchdog_set' = TRUE /\ read_timer' = 0
  /\ SetDrqBusy(FALSE, TRUE) /\ buff_rd' = TRUE
  /\ state' = "READ_3"
  /\ s_err' = host_err
  /\ KeepRegs /\ KeepCommand /\ KeepHead
  /\ UNCHANGED <<oCPU_REQUEST, job, data_rdlength, buff_addr>>
  /\ buff_wr' = FALSE

Read2 ==
  /\ state = "READ_2"
  /\ watchdog_set' = TRUE /\ read_timer' = READ_TIMER
  /\ SetDrqBusy(FALSE, TRUE) /\ buff_rd' = TRUE
  /\ state' = "READ_3"
  /\ s_err' = host_err
  /\ KeepRegs /\ KeepCommand /\ KeepHead
  /\ UNCHANGED <<oCPU_REQUEST, job, data_rdlength, buff_addr>>
  /\ buff_wr' = FALSE

Read3Wait ==
  /\ state = "READ_3" /\ read_timer # 0
  /\ read_timer' = read_timer - 1
  /\ state' = host_state
  /\ KeepRegs /\ KeepCommand /\ KeepHead /\ KeepFlags
  /\ UNCHANGED <<oCPU_REQUEST, job, data_rdlength, buff_addr, buff_rd, watchdog_set>>
  /\ buff_wr' = FALSE

(* Load the data register and raise DRQ.  LOSTDATA is cleared here.        *)
Read3 ==
  /\ state = "READ_3" /\ read_timer = 0
  /\ watchdog_set' = FALSE
  /\ s_err' = host_err \ {"LOSTDATA"}
  /\ SetDrqBusy(TRUE, TRUE)
  /\ wdstat_datareg' = buffer[buff_addr]
  /\ state' = "READSECT"
  /\ wdstat_track' = host_track
  /\ KeepCommand /\ KeepHead
  /\ UNCHANGED <<oCPU_REQUEST, job, data_rdlength, buff_addr, buff_rd, read_timer>>
  /\ buff_wr' = FALSE

HostFetches == Reads("DATA") /\ s_drq

ReadSectWait ==
  /\ state = "READSECT" /\ ~WatchdogBark /\ ~HostFetches
  /\ state' = host_state
  /\ KeepRegs /\ KeepCommand /\ KeepHead /\ KeepTransfer /\ KeepFlags
  /\ UNCHANGED <<oCPU_REQUEST, job>> /\ buff_wr' = FALSE

(* The host has fetched the byte, or the watchdog gives up on it.          *)
ReadSect ==
  /\ state = "READSECT" /\ (WatchdogBark \/ HostFetches)
  /\ SetDrqBusy(FALSE, TRUE)
  /\ s_err' = IF WatchdogBark THEN host_err \cup {"LOSTDATA"}
              ELSE host_err \ {"LOSTDATA"}
  /\ IF data_rdlength - 1 = 0
     THEN buff_rd' = FALSE /\ state' = "ENDCOMMAND"
     ELSE UNCHANGED buff_rd /\ state' = "READ_1"
  /\ KeepRegs /\ KeepCommand /\ KeepHead
  /\ UNCHANGED <<oCPU_REQUEST, job, data_rdlength, buff_addr, read_timer, watchdog_set>>
  /\ buff_wr' = FALSE

-----------------------------------------------------------------------------
(* Host to buffer.                                                         *)
WriteSectWait ==
  /\ state = "WRITESECT" /\ ~Writes("DATA")
  /\ state' = host_state
  /\ KeepRegs /\ KeepCommand /\ KeepHead /\ KeepTransfer /\ KeepFlags
  /\ UNCHANGED <<oCPU_REQUEST, job>> /\ buff_wr' = FALSE

WriteSect ==
  /\ state = "WRITESECT" /\ Writes("DATA")
  /\ SetDrqBusy(FALSE, TRUE)
  /\ s_err' = host_err \ {"LOSTDATA"}
  /\ state' = "WRITE_1"
  /\ KeepRegs /\ KeepCommand /\ KeepHead /\ KeepTransfer
  /\ UNCHANGED <<oCPU_REQUEST, job>> /\ buff_wr' = FALSE

Write1 ==
  /\ state = "WRITE_1"
  /\ buff_wr' = TRUE
  /\ state' = "WRITE_2"
  /\ KeepRegs /\ KeepCommand /\ KeepHead /\ KeepTransfer /\ KeepFlags
  /\ UNCHANGED <<oCPU_REQUEST, job>>

Write2InPlace ==  \* mutant: every byte goes to the same address
  /\ state = "WRITE_2"
  /\ buff_wr' = FALSE
  /\ buff_addr' = buff_addr
  /\ data_rdlength' = data_rdlength - 1
  /\ s_err' = host_err
  /\ IF data_rdlength - 1 = 0
     THEN /\ oCPU_REQUEST' = Request("WRITE", 0, wdstat_side)
          /\ state' = "WAIT_CPUWRITE"
          /\ UNCHANGED <<s_drq, s_busy>>
     ELSE /\ SetDrqBusy(TRUE, TRUE)
          /\ state' = "WRITESECT"
          /\ UNCHANGED oCPU_REQUEST
  /\ KeepRegs /\ KeepCommand /\ KeepHead
  /\ UNCHANGED <<job, buff_rd, read_timer, watchdog_set>>

Write2Overflow ==  \* mutant: the address does not wrap
  /\ state = "WRITE_2"
  /\ buff_wr' = FALSE
  /\ buff_addr' = buff_addr + 1
  /\ data_rdlength' = data_rdlength - 1
  /\ s_err' = host_err
  /\ IF data_rdlength - 1 = 0
     THEN /\ oCPU_REQUEST' = Request("WRITE", 0, wdstat_side)
          /\ state' = "WAIT_CPUWRITE"
          /\ UNCHANGED <<s_drq, s_busy>>
     ELSE /\ SetDrqBusy(TRUE, TRUE)
          /\ state' = "WRITESECT"
          /\ UNCHANGED oCPU_REQUEST
  /\ KeepRegs /\ KeepCommand /\ KeepHead
  /\ UNCHANGED <<job, buff_rd, read_timer, watchdog_set>>

(* Next byte, or flush the sector.  The request carries the side but, like *)
(* the source, no drive bit.                                               *)
Write2 ==
  /\ state = "WRITE_2"
  /\ buff_wr' = FALSE
  /\ buff_addr' = (buff_addr + 1) % SECTOR_SIZE
  /\ data_rdlength' = data_rdlength - 1
  /\ s_err' = host_err
  /\ IF data_rdlength - 1 = 0
     THEN /\ oCPU_REQUEST' = Request("WRITE", 0, wdstat_side)
          /\ state' = "WAIT_CPUWRITE"
          /\ UNCHANGED <<s_drq, s_busy>>
     ELSE /\ SetDrqBusy(TRUE, TRUE)
          /\ state' = "WRITESECT"
          /\ UNCHANGED oCPU_REQUEST
  /\ KeepRegs /\ KeepCommand /\ KeepHead
  /\ UNCHANGED <<job, buff_rd, read_timer, watchdog_set>>

-----------------------------------------------------------------------------
(* Waiting for the firmware, and the end of every command.                 *)
WaitCpuRead ==
  /\ state = "WAIT_CPUREAD"
  /\ LET st == wdport_cpu_status IN
       \/ /\ Failed(st)
          /\ s_err' = (host_err \ {"CRCERR"}) \cup {"SEEKERR"}
                        \cup (IF "CRC" \in st THEN {"CRCERR"} ELSE {})
          /\ state' = "ENDCOMMAND" /\ UNCHANGED buff_addr
       \/ /\ Succeeded(st)
          /\ buff_addr' = 0 /\ state' = "READ_2" /\ s_err' = host_err
       \/ /\ ~Failed(st) /\ ~Succeeded(st)
          /\ state' = host_state /\ s_err' = host_err /\ UNCHANGED buff_addr
  /\ KeepRegs /\ KeepCommand /\ KeepHead
  /\ UNCHANGED <<oCPU_REQUEST, job, s_drq, s_busy, data_rdlength, buff_rd,
                 read_timer, watchdog_set>>
  /\ buff_wr' = FALSE

(* The busy bit is dropped while the firmware still writes the sector.     *)
WaitCpuWrite ==
  /\ state = "WAIT_CPUWRITE"
  /\ LET st == wdport_cpu_status IN
       \/ /\ Failed(st)
          /\ s_err' = (host_err \ {"WRFAULT"})
                        \cup (IF "CRC" \in st THEN {"WRFAULT"} ELSE {})
          /\ state' = "ENDCOMMAND" /\ UNCHANGED <<s_drq, s_busy>>
       \/ /\ Succeeded(st)
          /\ state' = "ENDCOMMAND" /\ s_err' = host_err
          /\ UNCHANGED <<s_drq, s_busy>>
       \/ /\ ~Failed(st) /\ ~Succeeded(st)
          /\ state' = host_state /\ s_err' = host_err
          /\ SetDrqBusy(FALSE, FALSE)
  /\ KeepRegs /\ KeepCommand /\ KeepHead /\ KeepTransfer
  /\ UNCHANGED <<oCPU_REQUEST, job>> /\ buff_wr' = FALSE

WaitCpu ==
  /\ state = "WAIT_CPU"
  /\ state' = IF "COMPLETE" \in wdport_cpu_status THEN "ENDCOMMAND"
              ELSE host_state
  /\ KeepRegs /\ KeepCommand /\ KeepHead /\ KeepTransfer /\ KeepFlags
  /\ UNCHANGED <<oCPU_REQUEST, job>> /\ buff_wr' = FALSE

Abort ==
  /\ state = "ABORT"
  /\ data_rdlength' = 0 /\ wdstat_pending' = FALSE
  /\ state' = "ENDCOMMAND"
  /\ cmd_mode' = host_mode
  /\ KeepRegs /\ KeepHead /\ KeepFlags
  /\ UNCHANGED <<oCPU_REQUEST, job, buff_addr, buff_rd, read_timer, watchdog_set>>
  /\ buff_wr' = FALSE

EndCommand ==
  /\ state = "ENDCOMMAND"
  /\ oCPU_REQUEST' = Signal("ACK")
  /\ state' = "ENDCOMMAND2"
  /\ KeepRegs /\ KeepCommand /\ KeepHead /\ KeepTransfer /\ KeepFlags
  /\ UNCHANGED job /\ buff_wr' = FALSE

EndCommand2Hasty ==  \* mutant: does not wait for the acknowledgement
  /\ state = "ENDCOMMAND2"
  /\ oCPU_REQUEST' = Signal("NONE") /\ state' = "READY"
  /\ SetDrqBusy(FALSE, FALSE) /\ s_err' = host_err
  /\ KeepRegs /\ KeepCommand /\ KeepHead /\ KeepTransfer
  /\ UNCHANGED job /\ buff_wr' = FALSE

EndCommand2 ==
  /\ state = "ENDCOMMAND2"
  /\ IF wdport_cpu_status = {}
     THEN /\ oCPU_REQUEST' = Signal("NONE")
          /\ state' = "READY"
          /\ SetDrqBusy(FALSE, FALSE)
     ELSE /\ state' = host_state
          /\ UNCHANGED <<oCPU_REQUEST, s_drq, s_busy>>
  /\ s_err' = host_err
  /\ KeepRegs /\ KeepCommand /\ KeepHead /\ KeepTransfer
  /\ UNCHANGED job /\ buff_wr' = FALSE

ClockedArm ==
  \/ ReadyIdle \/ DoRestore \/ DoSeek \/ DoStep \/ DoRead \/ DoWrite
  \/ DoReadAddr \/ DoTrackOp
  \/ Read1 \/ Read2 \/ Read3Wait \/ Read3 \/ ReadSectWait \/ ReadSect
  \/ WriteSectWait \/ WriteSect \/ Write1 \/ Write2
  \/ WaitCpuRead \/ WaitCpuWrite \/ WaitCpu
  \/ Abort \/ EndCommand \/ EndCommand2

DeadSilent ==  \* mutant: the firmware is not told
  /\ state = "DEAD"
  /\ SetDrqBusy(TRUE, TRUE)
  /\ s_err' = s_err \cup {"SEEKERR", "WRFAULT", "CRCERR"}
  /\ UNCHANGED oCPU_REQUEST
  /\ UNCHANGED <<state, wdstat_track, wdstat_sector, wdstat_side, wdstat_drive,
       wdstat_datareg, wdstat_command, wdstat_pending, wdstat_stepdirection,
       cmd_mode, disk_track, data_rdlength, buff_addr, buff_rd, buff_wr,
       read_timer, watchdog_set, watchdog_timer, cmd_on_bus, job, buffer>>

(* STATE_DEAD ignores the host and the firmware for good; its output wtf   *)
(* holds the host CPU.                                                     *)
Dead ==
  /\ state = "DEAD"
  /\ SetDrqBusy(TRUE, TRUE)
  /\ s_err' = s_err \cup {"SEEKERR", "WRFAULT", "CRCERR"}
  /\ oCPU_REQUEST' = Signal("FAIL")
  /\ UNCHANGED <<state, wdstat_track, wdstat_sector, wdstat_side, wdstat_drive,
       wdstat_datareg, wdstat_command, wdstat_pending, wdstat_stepdirection,
       cmd_mode, disk_track, data_rdlength, buff_addr, buff_rd, buff_wr,
       read_timer, watchdog_set, watchdog_timer, cmd_on_bus, job, buffer>>

(* One ce cycle of the controller.                                         *)
FdcCycle == (EveryCycle /\ ClockedArm) \/ Dead

FdcTypeOK ==
  /\ state \in States
  /\ wdstat_track \in Byte /\ wdstat_datareg \in Byte
  /\ wdstat_side \in {0, 1} /\ wdstat_drive \in {0, 1}
  /\ wdstat_command \in Byte /\ wdstat_pending \in BOOLEAN
  /\ wdstat_stepdirection \in {0, 1} /\ cmd_mode \in {0, 1}
  /\ s_drq \in BOOLEAN /\ s_busy \in BOOLEAN /\ s_err \in SUBSET ErrFlags
  /\ data_rdlength \in 0 .. SECTOR_SIZE
  /\ read_timer \in 0 .. READ_TIMER
  /\ watchdog_set \in BOOLEAN /\ watchdog_timer \in 0 .. WATCHDOG_TIME
  /\ cmd_on_bus \in BOOLEAN
  /\ job \in [op : {"NONE", "READ", "WRITE", "READADDR"}, drive : {0, 1},
               side : {0, 1}, track : Byte, sector : Byte]

(* Address and byte counter of a transfer stay in step, whatever the host  *)
(* does: the counter never underflows (wd1793.v:166,409-424,483-516).      *)
TransferInStep ==
  state \in {"READ_1", "READ_2", "READ_3", "READSECT", "WRITESECT", "WRITE_1", "WRITE_2"}
  => /\ data_rdlength \in 1 .. SECTOR_SIZE
     /\ buff_addr + data_rdlength =
          IF job.op = "READADDR" THEN ADDR_SIZE ELSE SECTOR_SIZE

(* Whatever the environment does, the status register never shows idle     *)
(* while a command is in progress, except for the two phases in which the  *)
(* source drops the bit early: a sector write being flushed, and the end   *)
(* of a command (wd1793.v:313-418,443,571).                                *)
BusyWhileWorking ==
  state \in {"WAIT_CPU", "WAIT_CPUREAD", "READ_1", "READ_2", "READ_3",
             "READSECT", "WRITESECT", "WRITE_1", "WRITE_2"} => s_busy
=============================================================================
