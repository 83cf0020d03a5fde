# A verification of the ReVerSE-U9 firmware and debugger

ReVerSE-U9 is an FPGA board with a collection of computer replicas. Most of the
repository is hardware description; two designs come with programs of their own.
The floppy drive of the Vector-06C (`u9_vector`) is a small computer inside the
FPGA, a 6502 with about 3000 lines of C that serves disk images from an SD card
to a WD1793 controller written in Verilog. The NES (`u9_nes`) has a debugger on a
PC that talks over a serial line to a host interface in the FPGA. That is where
the repository's concurrency, failure handling and data integrity live, and it is
what these TLA+ modules model.

## 1. The system

| Part | Source (under `src/`) | State | Operations |
|---|---|---|---|
| Host program on the KR580 | outside the repository | what it last saw in the status | polls STATUS, writes COMMAND, TRACK, SECTOR, CTL2, moves DATA bytes |
| Controller | `u9_vector/src/floppy/wd1793.v` | state machine of 15 states, register file, byte counter, buffer address, watchdog | one step per `ce` cycle: register section, then the arm of the current state |
| Bus and wiring | `u9_vector/src/floppy/floppy.v` | request and status port, 1024-byte buffer RAM with one port | the controller's `buff_rd`/`buff_wr` take the RAM and freeze the 6502 |
| Request handler | `firmware/floppysrc/slave.c`, `main.c` | `cmd`, `t1`, `result`, the sought position | `thrall` mounts and opens; `slave` polls the card, fetches a request, serves it, acknowledges |
| Image access | `fddimage.c`, `tff.c` | file object, one cached card sector (the window) | `fdd_readsector`, `fdd_writesector` over `f_lseek`, `f_read_or_wr` |
| Card driver | `mmc.c`, `timer100hz.v` | `Stat`, `CardType`, two hardware timers | `disk_initialize`, `disk_poll`, `disk_read`, `disk_write`, `disk_ioctl` |
| File system | `tff.c`, `philes.c` | FATFS object with window and mount id, DIR and FIL objects | mount, lookup, listing, opening; in the write configuration also create, write, rename, remove |
| Menu and file selector | `menu.c`, `osd.c`, `slave.c` | cursor, page, display memory, inactivity counter | joystick dispatch, directory pages, choice of an image |
| NES debugger (PC) | `u9_nes/sw/src/*.cpp` | the handler at work, its buffer, dialogs, test counts | ROM loading, raw packets, scripts of Lua functions |
| NES host interface | `u9_nes/hw/src/hci/hci.v`, `cmn/uart`, `cmn/fifo` | decoder state, counters, two FIFOs of 8 bytes | one step per byte: echo, memory, registers, halt and run |
| SPI and DMA units | `spi.v`, `dma_rw.v` | shift register, byte counter | one byte; one block between SPI and RAM |

How they interact. The host writes a command; the controller turns it into a
*request* in a port the firmware polls. The firmware answers through the
*status* port: BUSY, then COMPLETE with or without SUCCESS and CRC. The
controller raises ACK and waits until the firmware has cleared the status. TRACK
and SECTOR are not part of the request: the firmware reads them from live
registers. Sector data crosses the buffer RAM, which the DMA unit, the 6502 and
the controller use in turn, with nothing but the order of requests and answers to
keep them apart. There are four clocks of progress: the host, the controller's
cycle, the 6502 and the timers; and a user who can pull the card at any time.

The debugger is a second, independent system: a handler on the PC writes packets
and waits for a fixed number of bytes with a timeout; the interface answers byte
by byte through FIFOs, while the processor under test may halt by itself.

What is hard here: interleavings of host, controller and firmware; an abort in
any cycle; a card that disappears between two steps; waits without a timeout in
the controller; counters that end at zero or wrap; a file object left half
updated by an error; a window, mount id or display that is stale when used; power
that fails between two sectors of one call; packets that nobody acknowledges.
`PROJECT.json` lists these hazards at their lines.

The other designs (TS-Config, MSX, ZX Spectrum, Specialist, self test) are
listed under "components" with the reason why they are not modelled. Vendored
processors, sound chips, the C library and generated memories are left aside.

## 2. Modules

| Module | Models | Extends |
|---|---|---|
| `FloppyBus` | the wires shared by controller, firmware and host | |
| `Wd1793` | `wd1793.v`, one action per state of the machine, `FdcCycle` = one clock with `ce` | `FloppyBus` |
| `Wd1793Open` | the controller alone, in any environment | `Wd1793` |
| `Wd1793Lemmas` | the controller's inductive invariant `FdcInv` and its step, for any environment | `Wd1793`, `TLAPS` |
| `Wd1793Proofs` | theorems about the open controller | `Wd1793Open`, `Wd1793Lemmas` |
| `Slave` | `thrall()` and `slave()`; an action ends at each access to a shared port or to the buffer | `FloppyBus` |
| `Floppy` | host, controller and firmware together, and the properties of the whole | `Wd1793`, `Slave` |
| `FloppyInv` | the inductive invariant of the subsystem, in three layers | `Floppy`, `Wd1793Lemmas` |
| `FloppyProofs` | theorems about it: what a polite host does on the bus, request and status between controller and firmware, where the bytes of the sector in transfer are | `FloppyInv` |
| `ImageFile` | a sector request down to FAT clusters and card sectors; one action per turn of a loop | |
| `ImageFileProofs` | theorems about it | `ImageFile`, `TLAPS` |
| `Mmc` | the card driver with card, timers and user | |
| `MmcProofs` | theorems about it | `Mmc`, `TLAPS` |
| `Selector` | `menu.c`, the display and the part of `thrall()`/`slave()` that drives them | |
| `SelectorProofs` | theorems about it | `Selector`, `TLAPS` |
| `Volume` | mounting, path lookup, directory listing and opening in `tff.c` and `philes.c`, read-only configuration | |
| `VolumeInv` | its inductive invariant | `Volume` |
| `VolumeProofs` | theorems about it | `VolumeInv`, `TLAPS` |
| `FatWrite` | the calls of `tff.c` that change a volume, read/write configuration | |
| `Packets` | the packet classes and the machine they act on: effect and answer of a command | |
| `NesSession` | abstract specification of the debug link | `Packets` |
| `Hci` | `hci.v` with its FIFOs, one action per state | `Packets` |
| `Debugger` | the PC program, the serial line and `Hci` together; implements `NesSession` | `Hci` |
| `DebuggerInv` | its inductive invariant: what is on the line | `Debugger` |
| `DebuggerProofs` | theorems about it, the refinement among them | `DebuggerInv`, `TLAPS` |
| `MC...` | small instances for TLC | |

`Floppy` sees image access as block copies that may fail. `ImageFile` opens that
step and sees card access as sector transfers that may fail; so do `Volume` and
`FatWrite`, for the calls before and beside a transfer. `Mmc` opens those.
`Selector` sees the file system as a list of images that may fail to be read.
The layers meet in these results: FR_OK, FR_RW_ERROR, and RES_OK or an error.

**Controller.** `FdcCycle` is `EveryCycle` (the register section, which sees the
access on the bus) together with the arm of the current state. Arms override the
register section as later non-blocking assignments do in Verilog: this is how an
abort can get lost or win. Bytes of the buffer are kept; `SECTOR_SIZE`,
`READ_TIMER` and `WATCHDOG_TIME` are constants. A command byte is its upper
nibble, as in the source's decoder; of the lower bits only
bit 3 is looked at, and it only sets head-loaded. The multi-sector flag (bit 4) is
unused because the build does not define `WITH_MULTISECTOR`. `job` is a history record of
what the host had selected when a command was accepted. The direction of a STEP is
decoded from the bus one cycle after the strobe, where the byte is either still
present or already replaced by the processor's next word: both are allowed.

**Firmware.** `cpuwait` is the least number of cycles to the next access: at least
one for any instruction, `POLL_CYCLES` for `disk_poll()`, which shifts more than a
dozen bytes through SPI. The step may come any time later. `t1` and `result` are
uninitialised in the source, so `StartLoop` and `StartGarbage` choose them. The
6502 does not run while the controller holds the buffer; the DMA unit does, and
then its bytes land at the controller's address (`RamAddress`).

**Host.** Any program that acts on what the status showed and takes the busy bit
at its word, also during the flush of a written sector, when the bit is clear and
TRACK, SECTOR, CTL2 and the next command may be written. `QUIRKS` adds behaviours:
`abort` (Force Interrupt at any time), `impolite` (commands without looking),
`eject` (the user pulls the card). `named` is a history variable: the SECTOR
numbers of the current command, the one it was accepted with and any the host has
written since and before it was over.

**Image file.** Data is abstracted to places. `moved` records which unit of the
buffer was exchanged with which unit of which card sector; the reference `Place`
computes it straight from the cluster chain. The FAT is a chain with a tail: an
end mark, or 0 in a damaged file. A FAT12 entry that spans two sectors is
one access. The branch of `f_read_or_wr` that continues inside a card sector
cannot be taken, since floppy sectors are multiples of card sectors: the model has
no step for it, and the deadlock check shows none is missing.

**Card driver.** A polling loop that goes round is a stuttering step. The card
answers as its specification says, or not at all; a lost reply may or may not
mean that the command was executed. A freshly inserted card ignores everything
but CMD0. A card that streams a multiple block read refuses every command but CMD12
and CMD0, and its data is not taken for a reply: an assumption about the card.
`Stat` has only STA_NOINIT here (nothing sets the other bits).

`disk_ioctl` is part of the model although the build excludes it (`_USE_IOCTL` 0).

**Selector.** One action per call of `menu_dispatch`; the display is a function
from the cells of the items to what is written there, because the firmware reads
the name to open back from the display. The byte arithmetic of the cursor is kept:
`(menu_x - 1) % 2` is 255 in column 0. A page is a function of the directory and
of the read that fails in it. Bounds: pages of 4 instead of 12 items, 5 images or no
card, `INACTIVITY` 2, `FaultReads` and `FaultPages` name which read of a page fails.

**Volume.** One action per turn of a loop over directory entries, each with its
sector access, which may fail; cards are swapped between calls. Names keep their
characters (two and one instead of eight and three), because padding, case and
extension are what lookup is about. Bounds: four cards, sectors of four entries,
`FAT12MAX`/`FAT16MAX` in place of 0xFF7/0xFFF7, mount ids modulo `IDS`. Not
modelled: a path through a damaged directory entry; names with inner blanks or
other than ASCII, which are listed and cannot be opened.

**FatWrite.** A call is an operator from the volume to the volume, the result and
the sectors it writes, in order; `Store` then puts them on the medium one at a time,
and every invariant about `medium` is an invariant about a power failure at that
moment. `goal` and `maybe` are what a path shall and may hold. Bounds: four
clusters of 1 or 2 sectors, `UNIT`, `FATENT`, `DIRENT` per sector, five calls, one
failing write per call among its first five accesses. The firmware is built with
`_FS_READONLY` 1: this is the library in its other configuration, as a developer
would enable it. The discipline assumed, because the code needs it: one file open
at a time, not renamed or removed while open; written forward only (a direct write
goes under a dirty window, tff.c:1053); no write after a short one (sect_clust 0
becomes 255, tff.c:1034); directories not moved (".." is not updated, tff.c:1573);
only closing after a failed access; FAT16.

**Debugger.** `job` is the handler at work with the packets it still has to send,
`sent` and `cur` are history: packets issued and the one at work in the interface.
A byte on the line may be lost or damaged once. `Session` maps the state to
`NesSession`: the machine is the one after the command at work, the pending
commands are those whose first byte has not been taken, the answer is what is on
its way. Bounds: FIFOs of 2, ROM banks of 4 and 2 bytes sent two by two, two calls
of a script, two scripts.

Definitions whose comment begins with `mutant:` are altered copies of the
definition that follows them. They are not used by any specification; each is a
plausible bug that one property must catch.

## 3. Runs

All passing runs check deadlock, except `Debugger` (the program can be closed) and
`FatWrite` (the calls are bounded). Several invariants are conjunctions of named
parts, given in brackets.

| Run | Bounds | Shows |
|---|---|---|
| `Sectors` | 2 sectors of 2 bytes, commands RESTORE, READ, WRITE | a polling host gets the sector's bytes in order, none twice, all of them (`SectorIsRead`: `TypeOK`, `HostGetsSector`, `ReadIsWhole`); a write that succeeds has stored the host's bytes in one sector of the command's side and track whose number the host has named for it, and the image changes nowhere else (`WriteIsStored`, `ImageChangesOnlyByJob`); the host may rewrite SECTOR during the flush; the buffer has one user (`BufferExclusive`) |
| `Heads` | 2 tracks, 2 sides, 2 drives; STEP-OUT with update (in either direction), WRITE SECTOR, READ ADDRESS; head within one track of 0 | the firmware serves the drive and position a reading command was accepted for and answers with it, and the side, track and sector of a write, whose drive it ignores (`JobIsServed`: `ServesTheJob`, `AddressIsHeads`); TRACK follows the head (`TrackRegisterFollowsHead`) |
| `Live` | 1-byte sectors, card pulled at will | no command kills the controller (`NeverDead`); commands end once a card stays (`CommandEnds`) |
| `Rude` | 1-byte sectors, READ, aborts and commands at any time | an abort ends the command unless it hits a buffer read (`AbortEnds`); the firmware learns of the controller's death (`DeathIsNoticed`) |
| `Open` | 2-byte sectors, any of six accesses and three statuses in each cycle | registers in range, `TransferInStep`, `BusyWhileWorking` without any assumption on host or firmware |
| `Image` | 9 cards: clusters of 1, 2, 4 sectors, fragmented, odd-sized, damaged, empty; card sectors of 2 units, 8 floppy sectors of 4, sector numbers 0 to 3 of 2 | `TransferIsExact`, `StaysInFile` (`FileTypeOK`, `WritesStayInFile`), `NoSpuriousError` with a failure at every card access and other cards after a reopen |
| `Card` | transfers of 1 and 2 blocks, five kinds of card, all control codes | `EveryCallReturns`, `AddressUnitFits`, `ReadIsGenuine`, `WriteIsHonest` (`MmcTypeOK`, `WriteIsAccepted`, `WriteIsClosed`, `SyncIsStored`) |
| `Selector` | see `Selector` above | the screen is the truth about selection and directory (`ScreenIsTrue`: `SelTypeOK`, `HighlightIsSelection`, `PageIsExact`), no image is passed over (`PagesOverlap`), the image served is the one chosen (`OpensTheChosen`), no action on the computer while nothing is served (`NoActionWithoutImage`), an untouched selector closes (`SelectorCloses`), and an image is served again and again (`ServesAgain`) |
| `Volume` | four cards, a failure at any access, swaps | `MountIsCoherent` (`VolTypeOK`, `WindowIsCoherent`), `ListingIsExact`, `OpensTheNamedFile`, `NoFalseRefusal`, `WalksEnd` |
| `Debugger` | one fault of the line | the link implements `NesSession` (`LinkIsFaithful`); `RomIsLoaded`, `HaltIsKnown` (`DbgTypeOK`, `HeldIsHalted`), `TallyIsExact`, `RawDialogIsFaithful`, `CallsReturn` |
| `FatWrite` | five calls, one write refused, power failure anywhere | `VolumeIsSound` (`FatTypeOK`, `StructureIsSound`, `MirrorIsExact`), `SavedIsSafe`, `SpaceIsAccounted` (`NoLostClusters`, `FreeIsExact`) |

Why the bounds are enough: the controller's byte loop treats the first, the middle
and the last byte differently only at "another byte due or not", which two bytes
show; `READ_TIMER` and `WATCHDOG_TIME` of 2 make a timer run, reach its last cycle
and expire; read strobes last 1 to 5 cycles, longer and shorter than the gap
between two DRQs. Two sectors suffice to confuse one with the other. Sector
numbers 0 and `NSECTORS` + 1 leave the track on both ends, track 0 wraps below
zero, and the image ends inside the addressed range. `Heads` restricts
the head by a state constraint, because the track counter is a free byte.

The selector's cursor logic tells only first, inner and last line and page apart;
5 images on pages of 4 give two pages that overlap. A directory of two sectors and
two clusters has every kind of border; the directory entry that stretches a
directory, the last free cluster and a chain that wraps around the volume all
happen with four clusters. A FIFO of two is full and empty within every read.

One run expects a violation, a disagreement of the code with its own comment
(see "findings"): `AbortFreezes`. Force Interrupt during a buffer read leaves
`buff_rd` set; the 6502 stays frozen and the controller never becomes ready.

Seen while modelling, without a run of its own:

* floppy: busy is dropped while a sector is flushed, so a host that rewrites
  SECTOR then has its data stored under the new number if it is faster than the
  firmware; the properties therefore speak of the numbers the host has named, and
  "in the sector the command was given for" is false; a write with drive 1 selected
  changes drive 0's image after a read from drive 0, and no property speaks of the
  drive of a write; STEP-OUT after reset
  can move the head in; after an abort between slave.c:119 and the write of BUSY
  the firmware may serve the aborted request for the next command; READ_3 clears
  the lost-data bit, so only a loss of the last byte shows; an uninitialised `t1`
  can make the first write after a mount end in INVALID_DRIVE, which sets no error
  bit; `fdd_seek` notes an illegal position that nobody looks at;
* image file: a write into the last, partial card sector of an odd-sized image
  copies from the card into the buffer and reports success (`TransferIsExact`
  says so);
* card: the reply to STOP_TRANSMISSION is not looked at, and a card that missed it
  goes on streaming into the next call. `ReadIsGenuine` says that no block of that
  stream is taken for one of the new call, provided the card refuses the new command
  while it streams; a data byte that passed for a good reply would break this. A
  card pulled inside the last block of a read goes unnoticed, there being no CRC
  check; `ReadIsGenuine` says that no more than this block is lost;
  `disk_ioctl` asks for registers of 16 and 64 bytes, for which the dma is
  started with 0 blocks: the call succeeds with an uninitialised value and the
  block stays in the card (mmc.c:213); the dma unit itself would store a second
  block over the first (dma_rw.v:107), which nobody asks for;
* menu: "left" in column 0 selects item 255 (menu.c:183), and opening it falls back
  to the first image; with more than 264 images the page start wraps; after a page
  that could not be read a next page is still offered;
* volume: a FAT sector that cannot be read ends a listing as if the directory
  ended (tff.c:362); the border between FAT12 and FAT16 is drawn at a cluster count
  that includes the two reserved ones (tff.c:710);
* write configuration: `f_close` after a failed `f_write` succeeds; a file created
  and closed without a write exists only in the window; the result of the write to
  the second FAT is ignored; a stretched directory is linked before its cluster is
  cleaned (tff.c:590);
* debugger: a running interface takes bytes one by one, and a data byte 3 halts the
  machine in the middle of a packet; a debugger started while the program runs
  takes the board for not connected; a byte with a parity error is used and the
  error code never asked for; results of `SendData` and `ReceiveData` are ignored;
  a script that returns nothing is counted with the result of the one before; a
  ROM without PRG banks is accepted and its reset vector taken from the header, and
  the size of the file is never checked.

### Fairness

* `Floppy`: weak fairness of `Cycle` (the clock does not stop) and of `Firmware`
  (an enabled 6502 executes), strong fairness of `StartLoop`: the garbage that
  `slave()` starts with is not FR_RW_ERROR at every single call. Host and user get
  none. `CommandEnds`, `AbortEnds` and `DeathIsNoticed` therefore assume that a
  card eventually stays, and say nothing of a command that waits for host bytes.
* `Mmc`: weak fairness of a call in progress and of both timers, which are
  free-running hardware. Nothing is assumed of the card.
* `Selector`: the firmware's loop goes on (stated as infinitely many steps of its
  program counter). User and card get none; the liveness properties say what they
  need of them.
* `Volume`: weak fairness of a call in progress.
* `Debugger`: weak fairness of a handler at work, of the line and the interface,
  and of the program under test reaching its halt instruction, which
  `LuaWaitForHlt` assumes. `CallsReturn` is about handlers, also after a fault of the
  line.

## 4. Proofs

The theorems hold for every value of the constants that meets the named ASSUMEs
of the modules, where a theorem names no further hypothesis.

### Controller alone (`Wd1793Lemmas`, `Wd1793Proofs`)

`OpenTyped`, `OpenSafe` and `OpenBusy` prove `OpenTypeOK`, `TransferInStep` and
`BusyWhileWorking` of `OpenSpec`: the environment makes any access whose command
byte is a nibble in any cycle and shows any status.

The inductive invariant is `FdcInv == BusTypeOK /\ FdcTypeOK /\ TransferInStep /\ JobInStep /\
BusyWhileWorking`. Neither the types nor `TransferInStep` are inductive alone: the counter's range
depends on the transfer being in step when it is decremented, and a transfer
starts in step only because WAIT_CPUREAD carries the length of its job, READ_1 is
entered only with another byte due, and the write states belong to a WRITE job;
that is `JobInStep`. The proof goes arm by arm. `HostSideTypes` and `HostStates`
say what the register section can produce, `ArmTypes` and `FlagTypes` that each arm
keeps the ranges, `TransferStep` and `BusyStep` the other two conjuncts. `FdcStep`
is stated for any bus and status, so the composed system uses it as it is.

### Floppy subsystem (`FloppyInv`, `FloppyProofs`)

| Theorem | Property | Hypotheses |
|---|---|---|
| `NeverDies` | `[]NeverDead` | `Polite` |
| `TrackFollows` | `TrackRegisterFollowsHead` | none |
| `BufferIsExclusive` | `[]BufferExclusive` | `Polite`, `Paced` |
| `ImageIsKept` | `ImageChangesOnlyByJob` | `Polite`, `Paced` |
| `SectorAlwaysRead` | `[]SectorIsRead` | `Polite`, `Paced` |
| `WriteAlwaysStored` | `[]WriteIsStored` | `Polite`, `Paced` |
| `JobAlwaysServed` | `[]JobIsServed` | `Polite`, `Paced` |

They hold for any sector size, image, read pause, watchdog time, command set and
register values, and whatever the user does with the card.

Hypotheses. `Polite`: the host neither aborts nor commands without having seen the
idle status (`abort` and `impolite` are not in `QUIRKS`). It does trust the busy bit,
and may write registers and the next command while a written sector is still being
flushed. `Polite` describes the host program, not the code, and is necessary: the run
`Rude` reaches the dead state. What is proved of writing is accordingly what the code
does for such a host: the sector goes to the side and track of the command, whole and
to one place, under the SECTOR number of the command or one the host wrote meanwhile
(`MayWrite`). Two claims are not made because they are false: that it is the number of
the command when the host has rewritten it, and anything about the drive of a write.
`Paced` is about timing. `POLL_CYCLES >= 2`: `disk_poll()` exchanges
more than a dozen bytes with the card over SPI before the next request is fetched,
and the controller withdraws a finished request in two cycles. `RD_CYCLES <=
READ_TIMER + 3`: READ_TIMER is 15 in the source (wd1793.v:420), so a read strobe of
the 8080 bus is over before the next byte raises DRQ. TLC finds counterexamples to
`FloppyInvariant` without either.

The invariant `FloppyInvariant` has three layers.

1. `BaseInv /\ HostInv` (host): `FdcInv` and the types; a write strobe lasts one
   cycle, a read strobe is one of the data register after DRQ, what the host saw
   idle is idle until it acts on it. `NeverDead` needs only this layer: a command
   meets no pending one because the busy bit the host saw was clear and stays clear.
2. `AccessInv /\ HandshakeInv` (handshake). `BufferExclusive` is not inductive: that
   a firmware in "xfer" faces a controller in the matching WAIT state depends on the
   request it fetched being the one still in the port (`ServesRequest`), which
   depends on the firmware fetching nothing between its answer and the controller's
   taking note of it (`AnswerTaken`), which is where `POLL_CYCLES` enters.
   `RegistersKept` says that the registers the firmware reads late are still those
   of the job, or in a flush that SECTOR is one of the numbers `named`; `SeekFits` that
   it sought what they say, or said when it looked. `AccessInv` says when the bus can be
   used at all: busy is clear only while the controller is ready or in the flush of a
   write (`Idling`), and a command given in the flush stays pending to its end.
3. `DataInv` (bytes): the buffer holds the first `block` bytes of the answer while the
   firmware fills it (`BufferFilled`); `Taken` counts the bytes the controller has
   handed out, and the exchange is that prefix of the answer, the byte in the data
   register being the next one or, during a strobe, the last one
   (`ReadProgress`); likewise for a write, from the host to the image
   (`WriteExchange`, `ImageStored`). A strobe ends before the register changes
   because `hcount` is bounded by what is left of the pause (`StrobeBound`).

The step of each layer is proved from the layers below it, one lemma per conjunct
and actor: the arms of the controller (`...Arm`, `...Cycle`), the steps of the
firmware (`...Firmware`) and the host (`...Host`). TLC has checked the whole of
`FloppyInvariant` on the instances of `Sectors` and `Heads` and on one in which the
card is ejected.

### Card driver (`MmcProofs`)

`WriteHonest`, `ReadGenuine` and `UnitFits` prove `[]WriteIsHonest`,
`[]ReadIsGenuine` and `AddressUnitFits` for any block count and any timer values,
with commands and replies lost, a card that stays busy, and swaps at any moment.
No hypothesis beyond the ASSUMEs of `Mmc`.

`MmcInv` says which call is at which place and which command is being sent for it
(`PlaceFitsCall`, `InitSends`, `DataSends`), that blocks moved and blocks left add
up to the call, but for the block in which a card was pulled (`CountersAddUp`), in
which mode the card is while the driver sends and that a card streaming into a read
does so for this call's command (`ModeFits`; `mine` is a history field of the card,
reset when a call begins), and what `disk_initialize` has learnt at each place (`TypeIsLearnt`).
`AddressUnitFits` rests on the last: a block addressed card becomes ready only by
ACMD41 with the HCS bit, which is sent only after CMD8 was answered, and a card that
replaced the one asked is in no state to accept a data command (`UnitIsKnown`). TLC
has checked `MmcInv` on the instance of `Card`.

### Image access (`ImageFileProofs`)

| Theorem | Property | Hypotheses |
|---|---|---|
| `WritesKeepToFile` | `[]StaysInFile` | none |
| `TransferAlwaysExact` | `[]TransferIsExact` | none |
| `ErrorHasReason` | `[]NoSpuriousError` | none |

They hold for every set of cards, cluster size, chain, file length and position, with
a failure at any access to the card and cards swapped between requests. The ASSUME of
`ImageFile` says what a card can be: `sects_clust` is a byte and not 0 (tff.h:87), a
chain is made of distinct valid clusters and ends in an end mark or in a free entry,
and both the floppy sector (1024 bytes) and the address space (2^32 bytes) are whole
card sectors. The last is why a request starts on a sector boundary even where
`calc_offset` wraps (`OffsetAligned`); without it the copy out of the window would
have to begin inside a sector.

The invariant `FileInv` relates the file object to the chain.

* `Seeking`: f_lseek has skipped k clusters and holds the one with index k.
* `Prepared` (`Stands`): the object is at its start with `sect_clust = 1`, or it last
  touched sector j of cluster k: `curr_clust` is that cluster, `sect_clust` the sectors
  from j on, `fptr` lies behind the start of j and not behind its end. `curr_sect` is
  j's place on the card only if sectors are left in the cluster: where f_lseek met a
  free entry at the end of a chain that is too short, it computes the place of cluster 0,
  and nothing uses it (`Short`).
* `Transferring`: what has been moved is exactly the first `Total - btr` units of the
  request in their places (`Exact`), and `fptr` and `btr` add up to its end.
* `Finished`: the same when the request is over, all units after FR_OK, any first
  ones after a failure; an error goes with a fault or a short chain.

The properties are not inductive without `Stands`: that the next unit goes to its
place depends on where the object was left by f_lseek or by the last turn. The
arithmetic is in lemmas of its own (`SplitUnit`: the cluster, sector and unit of an
offset; `RunPlace` and `RunExact`: a run of units inside a cluster; `Boundary`), each
of them about products only, so that the steps need linear arithmetic. TLC has checked
`FileInv` on the instance of `Image`.

### File selector (`SelectorProofs`)

| Theorem | Property | Hypotheses |
|---|---|---|
| `ScreenAlwaysTrue` | `[]ScreenIsTrue` | none |
| `ChosenIsOpened` | `OpensTheChosen` | none |
| `NoActionWithout` | `NoActionWithoutImage` | none |
| `PagesAlwaysOverlap` | `PagesOverlap` | `Cards \subseteq 0 .. 245` |

They hold for 1 to 6 lines of items, any set of cards, any joystick positions, and
any pattern of reads that fail. The inductive invariant `SelInv` is a predicate
`Consistent` of the record `u` and the card, so that each function of `menu.c` is
shown to keep it on its own and the steps of the loop only combine them. It adds to
`ScreenIsTrue` what is under the highlight between two redraws (`Highlight`), that the
cursor is on the page or is the byte 255 (`OnPage`), that the two header cells keep
their text (`HeaderKept`: the byte 255 highlights one of them, and
`fsel_getselected` then reads the header), and that what is drawn stays the page
until the next redraw (`PageKept`). `draw_fsel` is the hard case: the first read that
fails is a least element, and on a page without failures the count of lost reads is
the cardinality of an empty set. TLC has checked `SelInv` on the instance of `Selector`.

The hypothesis of the last theorem is necessary. A page that cannot be opened
always offers a next one, so pages that cannot be read lead past byte 255 of
`fsel_pagestart` to a page in 1..10; "up" from there wraps back to 246..255, which is
a page of the card when it holds that many images. TLC reaches this with 253 images
and pages of 12.

### File system (`VolumeInv`, `VolumeProofs`)

| Theorem | Property | Hypotheses |
|---|---|---|
| `MountCoherent` | `[]MountIsCoherent` | none |
| `ListingExact` | `[]ListingIsExact` | none |
| `NoRefusal` | `[]NoFalseRefusal` | none |
| `NamedFileOpened` | `[]OpensTheNamedFile` | `NamesReadBack` |

They hold for any set of cards and any geometry of them: any number of FATs, root
entries, sectors per cluster, chains in any order through the volume, with a failure
at any access and cards swapped between calls. The named ASSUME `CardAssumption` says
what such a card is: its areas lie one behind the other inside the volume (what a
formatter writes), the names in a directory differ, the root's entry
for the directory of the images names the first cluster of its chain, and the names in it are those that `make_dirfile`
produces. A name with an inner blank is listed and cannot be opened, which is why the
last is needed. `NamesReadBack` says of the two conversions of a name, `make_dirfile`
and `get_fileinfo`, that one undoes the other on the names that are asked for. They
run along the characters of a name, so that this is an induction over data; TLC
evaluates it on the instance (`MCVolume`).

`VolInv` has these parts.

* `MountOK`: the FATFS object is cleared or all its numbers are the geometry of its
  card; and what is `up` in the slot is that card.
* `TraceOK`: the DIR object of a lookup stands at an entry of the root or of the
  directory, its sector, cluster and index belonging to one another (`InRoot`,
  `InDir`), and no entry before it has the name (`Passed`).
* `ListOK`: the same of the DIR object of a listing, and what was listed is the
  sequence of the images before it (`Listed`); a walk that has stopped without a
  failure has passed all of them.
* `CallOK`, `OpenedOK`: which call is at which place, and what an open has found.

`ListingIsExact` is not inductive: nothing in it says that the sector about to be read
holds the entries with the index that is counted beside it. The step that keeps `InDir`
goes through `next_dir_entry`, along a FAT whose 12 bit entry may lie in two sectors
(`Clustered`, `FatSector`); the lemmas about `DataStart`, `ClusterFits` and `Entry` turn a sector
of the card back into a place in the chain. TLC has checked `VolInv` on the instance of
`Volume`.

### Debugger (`DebuggerInv`, `DebuggerProofs`)

| Theorem | Property | Hypotheses |
|---|---|---|
| `HaltKnown` | `[]HaltIsKnown` | none |
| `RomLoaded` | `[]RomIsLoaded` | none |
| `LinkFaithful` | `LinkIsFaithful` | none |
| `TallyExact` | `[]TallyIsExact` | no script ends without a result |

They hold for any FIFO size, banks, blocks, ROMs, scripts and typed packets, for data of
any length up to what 16 bits can name, and for any interleaving of handler, line,
interface and program under test. `InputAssumption` says that files and typed lines
are complete: a .nes file is as long as its header says, a .prg file has its address, and
a packet typed in hex has the bytes its header announces. The code checks none of
this; with less it sends whatever the rest of the buffer held. The hypothesis of
`TallyExact` is necessary: a script that returns nothing is counted with the result of the
one before.

The inductive invariant is `DbgInv`. As long as no byte was damaged (`LinkInv`):

* `StreamOK`: what lies in the receive register and on the line is the rest of the
  packet at work, followed by the bytes of the packets not begun. `Consumed` counts the bytes
  the interface has taken from its own counters.
* `WorkOK`: the interface stands inside that packet: its argument bytes, address and
  count are those of the packet, and the bytes already written are in their places.
* `AnswerOK`: what has come back is a beginning of the answer of the one packet that
  has an answer, and nothing is under way that the handler does not wait for.
* `HaltOK`: after all that was sent the processor will be halted if the program takes it
  for halted; only a break or a query is sent to a processor that may run.
* `RomOK`: of a ROM, the packets that have taken effect have left their bytes (`Loaded`),
  and those still to come are the next ones of the file.

None of the properties is inductive alone: that a packet takes effect whole depends on
where the packet before it ended on the line, and that on the interface having stopped
counting exactly there. Each step of the interface is shown to be one of four things
(`AtOnce`, `Begins`, `GoesOn`, `Finishes`), and the other conjuncts are proved from these
and no longer from the code. `LinkFaithful` maps the state to `NesSession` as the run
does; the step at which a command takes effect in the session is the one at which its
first byte is taken, and the rest of its work is stuttering. That the answer does not change while
the bytes of it are read, and the effect not while the bytes are written one by
one, is `GoesOn`. The arithmetic of blocks and addresses modulo 2^16 is in lemmas of its
own. TLC has checked `DbgInv` on the instances of `Debugger`.

### Only model-checked

* All liveness (`CommandEnds`, `AbortEnds`, `DeathIsNoticed`, `EveryCallReturns`,
  `SelectorCloses`, `ServesAgain`, `WalksEnd`, `CallsReturn`), which is beyond the proof system.
* The three invariants of `FatWrite`: it follows chains with recursive operators, which
  the prover does not accept.
* `RawDialogIsFaithful` of `Debugger`, and `NamesReadBack` of `Volume`: they are about
  what parsing and formatting do to texts of any length, an induction over data.

## 5. Not modelled

Console output, LEDs, the wording and layout of screens and dialogs, the text a
script prints; the SPI shifter and the DMA unit's byte loop; FAT32 and FSInfo; FAT12
in the write configuration; time stamps; bit timing of the UART (the interface at
100 MHz is far ahead of 38400 baud, which `Waits` and `SKEW` state); processors, video,
sound and memory arbiters of all designs; the vendored C library and Lua.

## 6. Plan

1. **Theorems** about `FatWrite`: its chains as recursive functions instead of operators,
   then `VolumeIsSound` over the writes of one call.
2. **An abstract drive**: a command is accepted, served once, and ends;
   `Floppy` without aborts shown to implement it by a refinement mapping.
3. **DMA and SPI** (`dma_rw.v`, `spi.v`) as a refinement of the block step.
4. **TS-Config memory arbiter and DMA** (`arbiter.v`, `dma.v`).
