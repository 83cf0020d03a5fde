------------------------------- MODULE Floppy -------------------------------
(***************************************************************************)
(* The floppy subsystem: host program, controller (Wd1793) and firmware    *)
(* (Slave) on the bus of floppy.v.                                         *)
(*                                                                         *)
(* The host is any program that polls the status register and then acts on *)
(* what it saw: it writes a command or a register after an idle status,    *)
(* and moves a data byte after a status with DRQ.  It takes the busy bit   *)
(* at its word, also while the firmware still writes out a sector: the bit *)
(* is clear then, and a register or the next command may be written.       *)
(* QUIRKS adds behaviours:                                                 *)
(*   "abort"     it may write FORCE INTERRUPT ($D0) at any time;           *)
(*   "impolite"  it writes commands without looking at the status;         *)
(*   "eject"     the user may pull the card and put it back.               *)
(***************************************************************************)
EXTENDS Wd1793, Slave, Sequences

CONSTANTS
  QUIRKS,
  HOST_GAP,      \* least number of ce cycles between two host accesses
  RD_CYCLES,     \* longest read strobe, in ce cycles after the first
  HostCommands,  \* command codes the host uses (FORCE INTERRUPT apart)
  HostTracks,    \* values it writes to the TRACK register
  HostSectors,   \* values it writes to the SECTOR register
  HostUnits,     \* values it writes to the CTL2 port (bit 0 drive, bit 2 side)
  HostBytes,     \* values it writes to the DATA register
  Contents       \* the image file before the first write

ASSUME FloppyAssumption ==
  /\ QUIRKS \subseteq {"abort", "impolite", "eject"}
  /\ HOST_GAP \in Nat /\ RD_CYCLES \in Nat
  /\ HostCommands \subseteq (0 .. 15) \ {FORCE_INT}
  /\ HostTracks \subseteq Byte /\ HostSectors \subseteq Byte
  /\ HostUnits \subseteq Byte /\ HostBytes \subseteq Byte
  /\ Contents \in [Positions -> Sector]

VARIABLES
  hcount, \* ce cycles left of the strobe, or of the gap after it
  seen,   \* what the last status read showed
  exch,   \* history: the bytes the host has moved for the current job
  named,  \* history: the SECTOR numbers of the current job: the one it began
          \* with, and any the host has written before it was over
  missed  \* history: the watchdog has given up on a byte of this job

hostVars == <<hcount, seen, exch, named, missed>>
vars == <<busVars, fdcVars, slaveVars, hostVars>>

Init ==
  /\ FdcInit
  /\ buffer = [i \in 0 .. SECTOR_SIZE - 1 |-> 0]
  /\ bus = NoAccess
  /\ SlaveInit(Contents)
  /\ hcount = 0 /\ seen = "busy" /\ exch = <<>> /\ named = {} /\ missed = FALSE

-----------------------------------------------------------------------------
(* The host, between two cycles.                                           *)
HostFree == bus = NoAccess /\ hcount = 0 /\ state # "DEAD"

(* IN STATUS: the strobe itself has no effect that is modelled.            *)
HostStatus ==
  /\ HostFree
  /\ seen' = IF ~BusyBit THEN "idle" ELSE IF DrqBit THEN "drq" ELSE "busy"
  /\ hcount' = HOST_GAP
  /\ UNCHANGED <<bus, exch, named, missed>>

MaySet == seen = "idle"
MayCommand == MaySet \/ "impolite" \in QUIRKS
MayMove == seen = "drq"

Write(p, v) ==
  /\ HostFree
  /\ bus' = [op |-> "wr", port |-> p, data |-> v]
  /\ hcount' = 0 /\ seen' = "busy"

HostCommand == \E c \in HostCommands :
                 MayCommand /\ Write("COMMAND", c) /\ UNCHANGED <<exch, named, missed>>
HostAbort == "abort" \in QUIRKS /\ Write("COMMAND", FORCE_INT) /\ UNCHANGED <<exch, named, missed>>
HostSetTrack == \E v \in HostTracks :
                  MaySet /\ Write("TRACK", v) /\ UNCHANGED <<exch, named, missed>>
HostSetSector == \E v \in HostSectors :
                   MaySet /\ Write("SECTOR", v) /\ UNCHANGED <<exch, named, missed>>
HostSetUnit == \E v \in HostUnits :
                 MaySet /\ Write("CTL2", v) /\ UNCHANGED <<exch, named, missed>>
(* The history keeps one byte more than a sector, enough to show an excess.*)
Note(v) == IF Len(exch) <= SECTOR_SIZE THEN Append(exch, v) ELSE exch

(* The parameter of a SEEK goes through the DATA register.                 *)
HostSetData == \E v \in HostTracks :
                 MaySet /\ Write("DATA", v) /\ UNCHANGED <<exch, named, missed>>
(* Successive bytes of a sector differ, so that their order shows.         *)
HostPutByte == \E b \in HostBytes :
                 LET v == (b + Len(exch)) % 256 IN
                 /\ MayMove /\ job.op = "WRITE" /\ Write("DATA", v)
                 /\ exch' = Note(v) /\ UNCHANGED <<named, missed>>
HostGetByte ==
  /\ HostFree /\ MayMove /\ job.op # "WRITE"
  /\ bus' = [op |-> "rd", port |-> "DATA", data |-> 0]
  /\ hcount' \in 0 .. RD_CYCLES
  /\ UNCHANGED <<seen, exch, named, missed>>

HostStep ==
  /\ \/ HostStatus \/ HostCommand \/ HostAbort \/ HostSetTrack \/ HostSetSector
     \/ HostSetUnit \/ HostSetData \/ HostPutByte \/ HostGetByte
  /\ UNCHANGED <<fdcVars, slaveVars, oCPU_REQUEST, wdport_cpu_status, disk_track,
                 wdstat_sector, buffer, buff_addr, buff_rd, buff_wr>>

(* The controller takes the pending command, with the registers as they    *)
(* are in this cycle.                                                      *)
Accepts == state = "READY" /\ wdstat_pending

(* The access during one cycle.  At the end of a DATA strobe the host      *)
(* latches the data register.                                              *)
HostTick ==
  /\ IF bus.op = "none"
     THEN /\ hcount' = IF hcount > 0 THEN hcount - 1 ELSE 0
          /\ UNCHANGED <<bus, seen>>
     ELSE IF hcount > 0
     THEN hcount' = hcount - 1 /\ UNCHANGED <<bus, seen>>
     ELSE bus' = NoAccess /\ hcount' = HOST_GAP /\ seen' = "busy"
  /\ exch' = IF Accepts THEN <<>>
             ELSE IF Reads("DATA") /\ hcount = 0 THEN Note(wdstat_datareg)
             ELSE exch
  /\ named' = IF Accepts THEN {wdstat_sector}
              ELSE IF Writes("SECTOR") /\ state # "READY" THEN named \cup {bus.data}
              ELSE named
  /\ missed' = IF Accepts THEN FALSE
               ELSE missed \/ (state = "READSECT" /\ WatchdogBark /\ ~HostFetches)

-----------------------------------------------------------------------------
(* One ce cycle for all.                                                   *)
Cycle == FdcCycle /\ HostTick /\ CpuTick /\ UNCHANGED wdport_cpu_status

Firmware ==
  /\ SlaveStep
  /\ UNCHANGED <<fdcVars, hostVars, oCPU_REQUEST, disk_track, wdstat_sector,
                 buff_addr, buff_rd, buff_wr, bus>>

User ==
  /\ "eject" \in QUIRKS
  /\ \E inserted \in BOOLEAN : MoveCard(inserted)
  /\ UNCHANGED <<busVars, fdcVars, hostVars>>

Next == Cycle \/ HostStep \/ Firmware \/ User

(* The clock never stops, the 6502 executes whenever it is enabled, and    *)
(* the garbage slave() starts with is not FR_RW_ERROR every single time.   *)
Fairness == /\ WF_vars(Cycle)
            /\ WF_vars(Firmware)
            /\ SF_vars(Firmware /\ StartLoop)

Spec == Init /\ [][Next]_vars /\ Fairness

-----------------------------------------------------------------------------
(* Registers, firmware variables and the host's history keep their ranges. *)
TypeOK ==
  /\ BusTypeOK /\ FdcTypeOK /\ SlaveTypeOK
  /\ hcount \in Nat /\ seen \in {"idle", "drq", "busy"}
  /\ exch \in Seq(Byte) /\ named \subseteq Byte /\ missed \in BOOLEAN

JobPosition == [side |-> job.side, track |-> job.track, sector |-> job.sector]
JobOnImage == JobPosition \in Positions

(* The controller waits for the firmware in one of these states.           *)
WaitState == [op \in {"READ", "READADDR", "WRITE", "NOP"} |->
                CASE op \in {"READ", "READADDR"} -> "WAIT_CPUREAD"
                  [] op = "WRITE" -> "WAIT_CPUWRITE" [] op = "NOP" -> "WAIT_CPU"]

(* The firmware moves blocks between the card and the buffer only while    *)
(* the controller waits for exactly that transfer; so the two never use    *)
(* the buffer RAM at the same time (slave.c:120-199 against wd1793.v:417,  *)
(* 494, 528, 549).                                                         *)
BufferExclusive ==
  pc = "xfer" => state = WaitState[cmd.op] /\ ~Frozen

(* What the host may expect of the place where a WRITE ends up: the side   *)
(* and track of the command, and its sector or, where the host has         *)
(* rewritten SECTOR before the flush was over, one of the new numbers.     *)
MayWrite(p) ==
  p.side = job.side /\ p.track = job.track /\ p.sector \in named

(* What the firmware seeks to is what the host had asked for when its      *)
(* command was accepted, although MASTER_TRACK and MASTER_SECTOR are read  *)
(* from live registers much later (slave.c:129,160,181).  A read that      *)
(* names the drive without an image never gets that far.  A WRITE request  *)
(* carries no drive: one to drive 1 is served from the image, and nothing  *)
(* is claimed of its drive.                                                *)
ServesTheJob ==
  pc = "xfer" =>
    /\ cmd.op = job.op
    /\ IF job.op = "WRITE" THEN MayWrite(cur)
       ELSE cur = JobPosition /\ job.drive = 0

(* The bytes the host fetches are the sector's blocks, in order, none      *)
(* twice and none skipped, unless the watchdog gave up on one: a read      *)
(* strobe of several cycles consumes one byte only (wd1793.v:409-480).     *)
HostGetsSector ==
  job.op = "READ" /\ JobOnImage /\ ~missed =>
    /\ Len(exch) <= SECTOR_SIZE
    /\ \A i \in 1 .. Len(exch) : exch[i] = image[JobPosition][i - 1]

(* A read that ends without an error bit has delivered the whole sector.   *)
ReadIsWhole ==
  /\ state \in {"ENDCOMMAND", "ENDCOMMAND2"} /\ bus = NoAccess
  /\ job.op = "READ" /\ ~missed /\ s_err = {}
  => Len(exch) = SECTOR_SIZE

(* A write the firmware reports as successful has stored the bytes the     *)
(* host supplied, all in one sector of the command's side and track: the   *)
(* one the host had selected, unless the host itself has rewritten SECTOR  *)
(* after the busy bit went down and before the firmware looked             *)
(* (wd1793.v:502-517,549-571; slave.c:164-190).                            *)
WriteIsStored ==
  state = "WAIT_CPUWRITE" /\ Succeeded(wdport_cpu_status) =>
    /\ MayWrite(cur)
    /\ cur \in Positions =>
         \A i \in 0 .. SECTOR_SIZE - 1 : image[cur][i] = exch[i + 1]

(* No step changes the image except for a WRITE job, on its side and track *)
(* and in a sector the host has named for it.  The drive is not part of    *)
(* the claim: the WRITE request carries none (wd1793.v:510, slave.c:172).  *)
ImageChangesOnlyByJob ==
  [][\A p \in Positions : image'[p] # image[p]
        => job.op = "WRITE" /\ MayWrite(p)]_vars

(* A host that honours the busy bit never drives the controller into the   *)
(* state of "total cessation" (wd1793.v:117, 273-276).                     *)
NeverDead == state # "DEAD"

(* Once a card stays in the socket, every command that no longer waits for *)
(* data of the host comes to an end.                                       *)
CommandEnds ==
  <>[]card => ((state \notin {"READY", "WRITESECT"}) ~>
                 (state \in {"READY", "WRITESECT"}))

(* Force Interrupt ends the command it hits, provided the controller was   *)
(* not reading the buffer and no overrun kills it: whatever the firmware   *)
(* was doing for the aborted command, it acknowledges                      *)
(* (wd1793.v:519-525,585-598; slave.c:200-203).                            *)
AbortEnds ==
  <>[]card => ((state = "ABORT" /\ ~buff_rd) ~> (state \in {"READY", "DEAD"}))

(* When an overrun kills the controller, the firmware finds out and stops  *)
(* (slave.c:212-223), provided the controller did not hold the buffer.     *)
DeathIsNoticed == <>[]card => ((state = "DEAD" /\ ~Frozen) ~> (pc = "halt"))

(* A READ ADDRESS answers with the head's track and side.                  *)
AddressIsHeads ==
  job.op = "READADDR" /\ ~missed =>
    /\ Len(exch) <= ADDR_SIZE
    /\ Len(exch) >= 1 => exch[1] = job.track
    /\ Len(exch) >= 2 => exch[2] = job.side

(* RESTORE and the STEP commands with the update flag keep the TRACK       *)
(* register on the head's track, whichever way the head really went        *)
(* (wd1793.v:307-359).                                                     *)
TrackRegisterFollowsHead ==
  [][/\ wdstat_track = disk_track
     /\ wdstat_command \in {RESTORE, 3, 5, 7} /\ ~Overruns /\ ~Writes("TRACK")
     => wdstat_track' = disk_track']_vars

(* Reading: the host gets the bytes of the sector it asked for, in order,  *)
(* and all of them unless an error is shown, with every register in range  *)
(* (wd1793.v:409-480, slave.c:128-148).                                    *)
SectorIsRead == TypeOK /\ HostGetsSector /\ ReadIsWhole

(* Serving: the job of the firmware is the job of the host, but for the    *)
(* drive of a WRITE, and the address it answers with is the one of that    *)
(* job (slave.c:119-180).                                                  *)
JobIsServed == ServesTheJob /\ AddressIsHeads

-----------------------------------------------------------------------------
(* "Abort current command ($D0) -> STATE_READY" (wd1793.v:105).            *)
AbortAlwaysEnds == <>[]card => ((state = "ABORT") ~> (state = "READY"))
=============================================================================
