------------------------------ MODULE FloppyBus ------------------------------
(***************************************************************************)
(* The wires and memories between the three actors of the Vector-06C       *)
(* floppy subsystem (u9_vector/src/floppy/floppy.v):                       *)
(*                                                                         *)
(*   - the host, a KR580 (8080) program that drives the disk controller    *)
(*     through five I/O ports;                                             *)
(*   - the controller, wd1793.v (module Wd1793);                           *)
(*   - the workhorse, a 6502 that runs firmware/floppysrc (module Slave)   *)
(*     and moves sectors between the image file and the sector buffer.     *)
(*                                                                         *)
(* All three run on one clock enable (ce).  One step of the controller is  *)
(* one ce cycle; the host and the 6502 act between two cycles, the 6502 at *)
(* most once.  A byte of the model stands for a 512-byte block of the      *)
(* real 1024-byte buffer, so that a sector is SECTOR_SIZE blocks.          *)
(***************************************************************************)
EXTENDS Integers, FiniteSets

CONSTANTS
  SECTOR_SIZE,  \* blocks in a sector buffer (wd1793.v:120)
  ADDR_SIZE     \* blocks of a READ ADDRESS answer (6 bytes, wd1793.v:399)

ASSUME BusAssumption ==
  /\ SECTOR_SIZE \in Nat \ {0}
  /\ ADDR_SIZE \in 1 .. SECTOR_SIZE

Byte == 0 .. 255  \* the registers and the buses are eight bits wide

VARIABLES
  oCPU_REQUEST,      \* request of the controller to the 6502: [op, unit]
  wdport_cpu_status, \* status port of the 6502: a set of flags
  disk_track,        \* oTRACK, the head position
  wdstat_sector,     \* oSECTOR, the sector register
  buffer,            \* bufpa, the sector buffer RAM
  buff_addr, buff_rd, buff_wr, \* the controller's side of the buffer
  bus                \* the access the host performs in this cycle

busVars == <<oCPU_REQUEST, wdport_cpu_status, disk_track, wdstat_sector,
             buffer, buff_addr, buff_rd, buff_wr, bus>>

(* The 6502's clock enable is masked while the controller uses the RAM.    *)
Frozen == buff_rd \/ buff_wr

(* Request codes: the high nibble is the operation, bit 1 of the low       *)
(* nibble the drive, bit 0 the side.  The low nibble of NOP, ACK and FAIL  *)
(* (a command code or the diagnostic "boo") is only ever printed.          *)
RequestOps == {"NONE", "READ", "WRITE", "READADDR", "NOP", "ACK", "FAIL"}
Request(op, drive, side) == [op |-> op, unit |-> 2 * drive + side]
Signal(op) == [op |-> op, unit |-> 0]

StatusFlags == {"COMPLETE", "SUCCESS", "CRC", "DRVNOTRDY", "BUSY"}

(* What the controller decodes from the status port.                       *)
Failed(st) == "DRVNOTRDY" \in st \/ ("COMPLETE" \in st /\ "SUCCESS" \notin st)
Succeeded(st) == ~Failed(st) /\ {"COMPLETE", "SUCCESS"} \subseteq st

(* Host accesses.  wr is a strobe of one cycle; rd lasts several.          *)
Ports == {"COMMAND", "TRACK", "SECTOR", "DATA", "CTL2"}
NoAccess == [op |-> "none", port |-> "COMMAND", data |-> 0]
Access == [op : {"none", "rd", "wr"}, port : Ports, data : Byte]
Reads(p) == bus.op = "rd" /\ bus.port = p
Writes(p) == bus.op = "wr" /\ bus.port = p

BusTypeOK ==
  /\ oCPU_REQUEST \in [op : RequestOps, unit : 0 .. 3]
  /\ wdport_cpu_status \in SUBSET StatusFlags
  /\ disk_track \in Byte
  /\ wdstat_sector \in Byte
  /\ buffer \in [0 .. SECTOR_SIZE - 1 -> Byte]
  /\ buff_addr \in 0 .. SECTOR_SIZE - 1
  /\ buff_rd \in BOOLEAN /\ buff_wr \in BOOLEAN
  /\ bus \in Access
=============================================================================
