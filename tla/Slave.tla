-------------------------------- MODULE Slave --------------------------------
(***************************************************************************)
(* The request handler of the 6502, thrall() and slave() of                *)
(* u9_vector/firmware/floppysrc/slave.c, with the image access of          *)
(* fddimage.c reduced to "block n of the image at the sought position".    *)
(*                                                                         *)
(* An action ends at each access to a port the controller sees or writes,  *)
(* or to the shared buffer.  cpuwait is the number of unfrozen ce cycles   *)
(* that must pass before the next access: at least one, and at least       *)
(* POLL_CYCLES for disk_poll(), which exchanges more than a dozen bytes    *)
(* with the card.  An action may take longer than that: it stays enabled.  *)
(***************************************************************************)
EXTENDS FloppyBus

CONSTANTS
  POLL_CYCLES, \* lower bound on the ce cycles one disk_poll() takes
  Positions    \* the sectors that lie inside the image file

Position == [side : {0, 1}, track : Byte, sector : Byte]

ASSUME SlaveAssumption ==
  /\ POLL_CYCLES \in Nat \ {0}
  /\ Positions \subseteq Position

VARIABLES
  pc,       \* where the 6502 is
  cpuwait,
  cmd,      \* slave()'s cmd: the request it is serving
  t1,       \* slave()'s t1: drive bit of the last READ or READADDR
  result,   \* slave()'s result
  cur,      \* fddimage.cur_side, cur_track, cur_sector
  block,    \* next block of the buffer to transfer
  image,    \* contents of the image file: position -> blocks
  card      \* a readable card with an image is in the socket

slaveVars == <<pc, cpuwait, cmd, t1, result, cur, block, image, card>>

PCs == {"thrall", "mount", "start", "poll", "fetch", "dispatch", "seekT",
        "seekS", "xfer", "report", "nop", "exit", "halt"}
Results == {"OK", "INVALID_DRIVE", "RW_ERROR"}

Sector == [0 .. SECTOR_SIZE - 1 -> Byte]

DriveBit(c) == c.unit \div 2
SideBit(c) == c.unit % 2

(* The 6502 runs when its clock enable is not masked.                      *)
CpuRuns == cpuwait = 0 /\ ~Frozen

(* Leave the program counter at l; the next access is n cycles away.       *)
GoTo(l) == pc' = l /\ cpuwait' = IF l = "poll" THEN POLL_CYCLES ELSE 1
Status(f) == wdport_cpu_status' = f

(* main() has cleared the status port and entered thrall().                *)
SlaveInit(contents) ==
  /\ pc = "thrall" /\ cpuwait = 1
  /\ wdport_cpu_status = {}
  /\ cmd = Signal("NONE") /\ t1 = 0 /\ result = "OK"
  /\ cur = [side |-> 0, track |-> 0, sector |-> 0] /\ block = 0
  /\ image = contents
  /\ card \in BOOLEAN

-----------------------------------------------------------------------------
(* thrall().                                                               *)
Thrall ==
  /\ pc = "thrall" /\ CpuRuns
  /\ Status({"DRVNOTRDY"}) /\ GoTo("mount")
  /\ UNCHANGED <<cmd, t1, result, cur, block, image, card>>

(* philes_mount, philes_opendir, f_open, fdd_load; without a card the menu *)
(* asks for one and the loop starts over.                                  *)
Mount ==
  /\ pc = "mount" /\ CpuRuns
  /\ IF card THEN GoTo("start") ELSE GoTo("thrall")
  /\ UNCHANGED <<wdport_cpu_status, cmd, t1, result, cur, block, image, card>>

(* slave() clears the status port with t1 and result uninitialised: a      *)
(* garbage result equal to FR_RW_ERROR ends the loop before its first turn.*)
StartLoop ==
  /\ pc = "start" /\ CpuRuns
  /\ Status({}) /\ GoTo("poll")
  /\ t1' \in {0, 1}
  /\ UNCHANGED <<cmd, result, cur, block, image, card>>

StartGarbage ==
  /\ pc = "start" /\ CpuRuns
  /\ Status({}) /\ GoTo("exit")
  /\ t1' \in {0, 1}
  /\ UNCHANGED <<cmd, result, cur, block, image, card>>

Poll ==
  /\ pc = "poll" /\ CpuRuns
  /\ result' = "OK"
  /\ IF card THEN GoTo("fetch") ELSE GoTo("exit")
  /\ UNCHANGED <<wdport_cpu_status, cmd, t1, cur, block, image, card>>

Fetch ==
  /\ pc = "fetch" /\ CpuRuns
  /\ cmd' = oCPU_REQUEST
  /\ GoTo("dispatch")
  /\ UNCHANGED <<wdport_cpu_status, t1, result, cur, block, image, card>>

-----------------------------------------------------------------------------
(* The arms of the switch, up to their first write to the status port.     *)
Transfers == {"READ", "READADDR", "WRITE"}

(* READ and READADDR take the drive from the request.  WRITE tests the t1  *)
(* that an earlier request left behind.                                    *)
DispatchTransfer ==
  /\ pc = "dispatch" /\ CpuRuns /\ cmd.op \in Transfers
  /\ Status({"BUSY"})
  /\ t1' = IF cmd.op = "WRITE" THEN t1 ELSE DriveBit(cmd)
  /\ IF t1' = 0 THEN GoTo("seekT") /\ UNCHANGED result
     ELSE GoTo("report") /\ result' = "INVALID_DRIVE"
  /\ UNCHANGED <<cmd, cur, block, image, card>>

DispatchAckMute ==  \* mutant: the status is not cleared
  /\ pc = "dispatch" /\ CpuRuns /\ cmd.op = "ACK"
  /\ GoTo("poll")
  /\ UNCHANGED <<wdport_cpu_status, cmd, t1, result, cur, block, image, card>>

DispatchAck ==
  /\ pc = "dispatch" /\ CpuRuns /\ cmd.op = "ACK"
  /\ Status({}) /\ GoTo("poll")
  /\ UNCHANGED <<cmd, t1, result, cur, block, image, card>>

DispatchNop ==
  /\ pc = "dispatch" /\ CpuRuns /\ cmd.op = "NOP"
  /\ Status({"BUSY"}) /\ GoTo("nop")
  /\ UNCHANGED <<cmd, t1, result, cur, block, image, card>>

Nop ==
  /\ pc = "nop" /\ CpuRuns
  /\ Status({"COMPLETE"}) /\ GoTo("poll")
  /\ UNCHANGED <<cmd, t1, result, cur, block, image, card>>

DispatchFail ==
  /\ pc = "dispatch" /\ CpuRuns /\ cmd.op = "FAIL"
  /\ Status({}) /\ GoTo("halt")
  /\ UNCHANGED <<cmd, t1, result, cur, block, image, card>>

(* Nothing requested: blink() runs the menu, which may select an image and *)
(* so leave slave() for thrall().                                          *)
DispatchIdle ==
  /\ pc = "dispatch" /\ CpuRuns /\ cmd.op = "NONE"
  /\ Status({})
  /\ \/ GoTo("poll")
     \/ GoTo("thrall")
  /\ UNCHANGED <<cmd, t1, result, cur, block, image, card>>

-----------------------------------------------------------------------------
(* fdd_seek reads MASTER_TRACK, then MASTER_SECTOR.                        *)
SeekTrackOneSided ==  \* mutant: the side bit is forgotten
  /\ pc = "seekT" /\ CpuRuns
  /\ cur' = [cur EXCEPT !.track = disk_track]
  /\ GoTo("seekS")
  /\ UNCHANGED <<wdport_cpu_status, cmd, t1, result, block, image, card>>

SeekTrack ==
  /\ pc = "seekT" /\ CpuRuns
  /\ cur' = [cur EXCEPT !.side = SideBit(cmd), !.track = disk_track]
  /\ GoTo("seekS")
  /\ UNCHANGED <<wdport_cpu_status, cmd, t1, result, block, image, card>>

SeekSectorFromOne ==  \* mutant: sectors counted from 0 instead of 1
  /\ pc = "seekS" /\ CpuRuns
  /\ cur' = [cur EXCEPT !.sector = (wdstat_sector + 255) % 256]
  /\ block' = 0
  /\ GoTo("xfer")
  /\ UNCHANGED <<wdport_cpu_status, cmd, t1, result, image, card>>

SeekSector ==
  /\ pc = "seekS" /\ CpuRuns
  /\ cur' = [cur EXCEPT !.sector = wdstat_sector]
  /\ block' = 0
  /\ GoTo("xfer")
  /\ UNCHANGED <<wdport_cpu_status, cmd, t1, result, image, card>>

Length == IF cmd.op = "READADDR" THEN ADDR_SIZE ELSE SECTOR_SIZE

(* fdd_readadr's answer: track, side, sector, size code, no checksum.      *)
AddressField(n) == CASE n = 0 -> cur.track [] n = 1 -> cur.side
                     [] n = 2 -> cur.sector [] n = 3 -> 3 [] OTHER -> 0

(* The block read from the card lands where the RAM's address multiplexer  *)
(* points: at the controller's address if it has the RAM at that moment.   *)
RamAddress == IF Frozen THEN buff_addr ELSE block

Transferring == pc = "xfer" /\ cpuwait = 0 /\ block < Length

(* fdd_readsector: the dma unit copies block after block into the buffer.  *)
(* Beyond the end of the file f_read copies nothing and returns FR_OK.     *)
FillBlock ==
  /\ Transferring /\ cmd.op = "READ" /\ card
  /\ buffer' = IF cur \in Positions
               THEN [buffer EXCEPT ![RamAddress] = image[cur][block]]
               ELSE buffer
  /\ block' = block + 1
  /\ GoTo("xfer")
  /\ UNCHANGED <<wdport_cpu_status, cmd, t1, result, cur, image, card>>

(* fdd_readadr: the 6502 itself stores the six bytes.                      *)
FillAddress ==
  /\ Transferring /\ ~Frozen /\ cmd.op = "READADDR"
  /\ buffer' = [buffer EXCEPT ![block] = AddressField(block)]
  /\ block' = block + 1
  /\ GoTo("xfer")
  /\ UNCHANGED <<wdport_cpu_status, cmd, t1, result, cur, image, card>>

(* fdd_writesector: the same in the other direction, in place.             *)
StoreBlock ==
  /\ Transferring /\ cmd.op = "WRITE" /\ card
  /\ image' = IF cur \in Positions
              THEN [image EXCEPT ![cur][block] = buffer[RamAddress]]
              ELSE image
  /\ block' = block + 1
  /\ GoTo("xfer")
  /\ UNCHANGED <<wdport_cpu_status, cmd, t1, result, cur, card>>

TransferDone ==
  /\ pc = "xfer" /\ CpuRuns /\ block = Length
  /\ result' = "OK" /\ GoTo("report")
  /\ UNCHANGED <<wdport_cpu_status, cmd, t1, cur, block, image, card>>

(* The card fails or is gone: the file layer reports FR_RW_ERROR.          *)
TransferFails ==
  /\ Transferring /\ ~Frozen /\ cmd.op # "READADDR"
  /\ result' = "RW_ERROR" /\ GoTo("report")
  /\ UNCHANGED <<wdport_cpu_status, cmd, t1, cur, block, image, card>>

(* An RW_ERROR ends the loop; any other result goes back to the poll.      *)
Report ==
  /\ pc = "report" /\ CpuRuns
  /\ Status({"COMPLETE"} \cup (IF result = "OK" THEN {"SUCCESS"} ELSE {})
                         \cup (IF result = "RW_ERROR" THEN {"CRC"} ELSE {}))
  /\ IF result = "RW_ERROR" THEN GoTo("exit") ELSE GoTo("poll")
  /\ UNCHANGED <<cmd, t1, result, cur, block, image, card>>

Exit ==
  /\ pc = "exit" /\ CpuRuns
  /\ Status({}) /\ GoTo("thrall")
  /\ UNCHANGED <<cmd, t1, result, cur, block, image, card>>

-----------------------------------------------------------------------------
(* Steps that touch the buffer, and all the others.                        *)
SlaveStep ==
  \/ FillBlock
  \/ FillAddress
  \/ /\ \/ Thrall \/ Mount \/ StartLoop \/ StartGarbage \/ Poll \/ Fetch
        \/ DispatchTransfer \/ DispatchAck \/ DispatchNop \/ Nop
        \/ DispatchFail \/ DispatchIdle
        \/ SeekTrack \/ SeekSector
        \/ StoreBlock \/ TransferDone \/ TransferFails
        \/ Report \/ Exit
     /\ UNCHANGED buffer

(* The user pulls or inserts the card.                                     *)
MoveCard(inserted) ==
  /\ card # inserted /\ card' = inserted
  /\ UNCHANGED <<pc, cpuwait, cmd, t1, result, cur, block, image>>

(* One ce cycle as the 6502 sees it; the dma unit is not frozen.           *)
CpuTick ==
  /\ cpuwait' = IF cpuwait > 0 /\ (~Frozen \/ pc = "xfer") THEN cpuwait - 1
                ELSE cpuwait
  /\ UNCHANGED <<pc, cmd, t1, result, cur, block, image, card>>

SlaveTypeOK ==
  /\ pc \in PCs
  /\ cpuwait \in 0 .. POLL_CYCLES
  /\ cmd \in [op : RequestOps, unit : 0 .. 3]
  /\ t1 \in {0, 1} /\ result \in Results
  /\ cur \in Position
  /\ block \in 0 .. SECTOR_SIZE
  /\ image \in [Positions -> Sector]
  /\ card \in BOOLEAN
=============================================================================
