------------------------------ MODULE FloppyInv ------------------------------
(***************************************************************************)
(* The inductive invariant of the floppy subsystem.                        *)
(*                                                                         *)
(* Three layers, each resting on the one before it: what a host that       *)
(* honours the status register does on the bus; the handshake of request   *)
(* and status port between controller and firmware; and where the bytes    *)
(* of the sector in transfer are.                                          *)
(***************************************************************************)
EXTENDS Floppy, Wd1793Lemmas

(* The host never interrupts, and commands only after an idle status.      *)
Polite == "abort" \notin QUIRKS /\ "impolite" \notin QUIRKS
(* A disk_poll() takes longer than the controller needs to take note of a  *)
(* finished request, and a read strobe is over before the next DRQ.        *)
Paced == POLL_CYCLES >= 2 /\ RD_CYCLES <= READ_TIMER + 3

HostTypeOK == /\ hcount \in Nat /\ seen \in {"idle", "drq", "busy"}
              /\ exch \in Seq(Byte) /\ named \subseteq Byte /\ missed \in BOOLEAN

(* The controller's own invariant, the types of the firmware and the host. *)
BaseInv == FdcInv /\ SlaveTypeOK /\ HostTypeOK

-----------------------------------------------------------------------------
(* The host on the bus.                                                    *)
ReadStates == {"READ_1", "READ_2", "READ_3", "READSECT"}
WriteStates == {"WRITESECT", "WRITE_1", "WRITE_2"}
WaitStates == {"WAIT_CPU", "WAIT_CPUREAD", "WAIT_CPUWRITE"}
EndStates == {"ENDCOMMAND", "ENDCOMMAND2"}

Reading == job.op \in {"READ", "READADDR"}

(* A write strobe lasts one cycle and leaves the host without knowledge;   *)
(* a read strobe is one of the data register after DRQ.                    *)
Strobes ==
  /\ bus.op = "none" => bus = NoAccess
  /\ bus.op = "wr" => hcount = 0 /\ seen = "busy"
  /\ bus.op = "rd" => bus.port = "DATA" /\ seen = "drq" /\ hcount <= RD_CYCLES

(* What the host saw idle stays idle until it acts on it, and so no        *)
(* command meets another one.                                              *)
IdleIsStable ==
  /\ seen = "idle" => ~s_busy /\ ~wdstat_pending
  /\ Writes("COMMAND") => ~wdstat_pending /\ bus.data \in HostCommands

NoAbort == state \notin {"ABORT", "DEAD"}
HostInv == Strobes /\ IdleIsStable /\ NoAbort

(* The busy bit is clear in READY and, early, while a sector is flushed;   *)
(* only then can the host set registers or give the next command, which    *)
(* in a flush has to wait.                                                 *)
FlushStates == {"WAIT_CPUWRITE"} \cup EndStates
Flushing == job.op = "WRITE" /\ state \in FlushStates
Idling == state = "READY" \/ Flushing

(* Nothing else is on the bus while a command is pending, and DRQ means    *)
(* the one state that waits for the host in the job's direction.           *)
AccessInv ==
  /\ ~s_busy => Idling
  /\ wdstat_pending => Idling /\ bus.op = "none" /\ seen = "busy"
  /\ bus.op = "wr" => Idling \/ state = "WRITESECT"
  /\ bus.op = "wr" /\ bus.port # "DATA" => Idling
  /\ s_drq <=> state \in {"READSECT", "WRITESECT"}
  /\ seen = "drq" => job.op # "NONE" /\ (job.op = "WRITE" => state = "WRITESECT")
  /\ bus.op = "rd" => Reading

-----------------------------------------------------------------------------
(* The handshake.                                                          *)
(* The controller's claim on the buffer RAM.                               *)
BufferLines ==
  /\ buff_wr <=> state = "WRITE_2"
  /\ buff_rd => state \in ReadStates
  /\ state \in {"READ_1", "READ_3", "READSECT"} => buff_rd

(* The request says what the controller waits for.                         *)
RequestFits ==
  /\ state \in {"WAIT_CPUREAD"} \cup ReadStates =>
       Reading /\ oCPU_REQUEST = Request(job.op, job.drive, job.side)
  /\ state \in WriteStates \cup {"WAIT_CPUWRITE"} => job.op = "WRITE"
  /\ state = "WAIT_CPUWRITE" => oCPU_REQUEST = Request("WRITE", 0, job.side)
  /\ state = "WAIT_CPU" => job.op = "NONE" /\ oCPU_REQUEST = Signal("NOP")
  /\ state \in WriteStates \cup {"READY"} => oCPU_REQUEST.op \in {"NONE", "ACK"}
  /\ state = "ENDCOMMAND2" => oCPU_REQUEST = Signal("ACK")
  /\ oCPU_REQUEST.op # "FAIL"

(* The registers the firmware will look at are still those of the job, but *)
(* in a flush for SECTOR, where they are numbers the host has named.       *)
RegistersKept ==
  job.op # "NONE" /\ state # "READY" =>
    /\ job.track = disk_track
    /\ job.sector \in named /\ wdstat_sector \in named
    /\ ~Flushing => /\ job.drive = wdstat_drive /\ job.side = wdstat_side
                    /\ job.sector = wdstat_sector

Complete == "COMPLETE" \in wdport_cpu_status
DoneStatuses == {{"COMPLETE"}, {"COMPLETE", "SUCCESS"}, {"COMPLETE", "CRC"}}
Serving == {"seekT", "seekS", "xfer", "report"}

(* The status port by the place the firmware is at.                        *)
StatusFits ==
  /\ pc \in {"mount", "start"} => wdport_cpu_status = {"DRVNOTRDY"}
  /\ pc = "thrall" => wdport_cpu_status \in {{}, {"DRVNOTRDY"}}
  /\ pc \in {"poll", "fetch", "dispatch", "exit"} =>
       wdport_cpu_status \in {{}} \cup DoneStatuses
  /\ pc \in Serving \cup {"nop"} => wdport_cpu_status = {"BUSY"}
  /\ pc # "halt" /\ cmd.op # "FAIL"

(* From the fetch to the report the controller waits for this request.     *)
ServesRequest ==
  /\ pc \in Serving => cmd.op \in Transfers
  /\ pc = "nop" => cmd.op = "NOP"
  /\ \/ pc \in Serving \cup {"nop"}
     \/ pc = "dispatch" /\ cmd.op \in Transfers \cup {"NOP"}
     => state = WaitState[cmd.op] /\ cmd = oCPU_REQUEST /\ ~Complete

(* The firmware looks for the next request only after the controller has   *)
(* taken the answer and withdrawn the old one.                             *)
AnswerTaken ==
  /\ Complete => state \in WaitStates \cup ReadStates \cup EndStates
  /\ Complete /\ state \in WaitStates =>
       \/ pc = "poll" /\ cpuwait = POLL_CYCLES
       \/ pc = "exit" /\ cpuwait = 1 /\ "SUCCESS" \notin wdport_cpu_status
  /\ state \in ReadStates => pc = "poll"
  /\ state = "READ_2" /\ ~buff_rd => cpuwait >= 1
  /\ state = "ENDCOMMAND" =>
       \/ pc \in {"thrall", "mount", "start", "exit", "poll"}
       \/ pc = "fetch" /\ cpuwait >= 1

(* The position sought is that of the job.                                 *)
SeekFits ==
  /\ pc \in {"seekT", "seekS", "xfer"} /\ cmd.op # "WRITE" => DriveBit(cmd) = 0
  /\ pc \in {"seekS", "xfer"} => cur.side = job.side /\ cur.track = job.track
  /\ pc = "xfer" => /\ block <= Length
                    /\ IF cmd.op = "WRITE" THEN MayWrite(cur) ELSE cur = JobPosition

HandshakeInv == /\ BufferLines /\ RequestFits /\ RegistersKept /\ StatusFits
                /\ ServesRequest /\ AnswerTaken /\ SeekFits

(* The first two layers: who may do what when.                             *)
ProtocolInv == BaseInv /\ HostInv /\ AccessInv /\ HandshakeInv

-----------------------------------------------------------------------------
(* The bytes.                                                              *)
(* What byte i of the answer to a reading job is to be, where that is      *)
(* known: a sector outside the image leaves the buffer as it was.          *)
PositionOf(j) == [side |-> j.side, track |-> j.track, sector |-> j.sector]
Answer(j, img, i) == IF j.op = "READ" THEN img[PositionOf(j)][i]
                     ELSE IF i = 0 THEN j.track ELSE j.side
Known(j, i) == IF j.op = "READ" THEN PositionOf(j) \in Positions ELSE i \in {0, 1}

(* The first n bytes of the buffer, and all n bytes of the exchange.       *)
HoldsAnswer(buf, n, j, img) ==
  \A i \in 0 .. n - 1 : Known(j, i) => buf[i] = Answer(j, img, i)
IsAnswer(e, n, j, img) ==
  Len(e) = n /\ \A i \in 0 .. n - 1 : Known(j, i) => e[i + 1] = Answer(j, img, i)
Filled(n) == HoldsAnswer(buffer, n, job, image)
Delivered(n) == IsAnswer(exch, n, job, image)

(* Before the host gets a byte, the whole answer is in the buffer.         *)
BufferFilled ==
  /\ pc = "xfer" /\ cmd.op # "WRITE" => Filled(block)
  /\ pc = "report" /\ cmd.op # "WRITE" /\ result = "OK" => Filled(JobLength)
  /\ state = "WAIT_CPUREAD" /\ "SUCCESS" \in wdport_cpu_status => Filled(JobLength)
  /\ state \in ReadStates => Filled(JobLength)

(* Bytes the controller has handed out, the one in the data register while *)
(* the strobe lasts included.                                              *)
Taken == IF state = "READ_1" THEN JobLength - data_rdlength + 1
         ELSE JobLength - data_rdlength
StrobeBound == CASE state = "READ_1" -> READ_TIMER + 2
                 [] state = "READ_2" -> READ_TIMER + 1
                 [] OTHER -> read_timer
InStrobe(n) == /\ n >= 1 /\ Delivered(n - 1)
               /\ Known(job, n - 1) => wdstat_datareg = Answer(job, image, n - 1)

ReadProgress ==
  /\ state = "WAIT_CPUREAD" => Delivered(0) /\ bus.op = "none"
  /\ state = "READSECT" =>
       /\ Delivered(Taken)
       /\ Known(job, Taken) => wdstat_datareg = Answer(job, image, Taken)
  /\ state \in ReadStates \ {"READSECT"} =>
       IF bus.op = "rd" THEN InStrobe(Taken) /\ hcount <= StrobeBound
       ELSE Delivered(Taken)
  /\ state \in EndStates \cup {"READY"} =>
       IF bus.op = "rd" THEN InStrobe(JobLength)
       ELSE \/ Delivered(JobLength)
            \/ Delivered(0) /\ (state # "READY" => s_err # {})
ReadExchange == Reading /\ ~missed => ReadProgress

(* A DRQ the host has seen waits for it, unless the watchdog gave up.      *)
DrqIsFresh ==
  seen = "drq" /\ ~missed /\ bus.op = "none" => state \in {"READSECT", "WRITESECT"}

(* The host's bytes are in the buffer, the last one in the data register   *)
(* or still on the bus.                                                    *)
Agree(buf, e, n) == \A i \in 0 .. n - 1 : buf[i] = e[i + 1]
Kept(n) == Agree(buffer, exch, n)
WriteExchange ==
  /\ state = "WRITESECT" =>
       /\ Kept(buff_addr)
       /\ IF bus.op = "wr" THEN Len(exch) = buff_addr + 1 /\ exch[buff_addr + 1] = bus.data
          ELSE Len(exch) = buff_addr
  /\ state \in {"WRITE_1", "WRITE_2"} =>
       Kept(buff_addr) /\ Len(exch) = buff_addr + 1 /\ exch[buff_addr + 1] = wdstat_datareg
  /\ state = "WAIT_CPUWRITE" => Kept(SECTOR_SIZE) /\ Len(exch) = SECTOR_SIZE

(* What the firmware has stored, at the place it sought, is what the       *)
(* buffer holds.                                                           *)
HoldsBuffer(img, buf, n, p) ==
  p \in Positions => \A i \in 0 .. n - 1 : img[p][i] = buf[i]
Stored(n) == MayWrite(cur) /\ HoldsBuffer(image, buffer, n, cur)
ImageStored ==
  /\ pc = "xfer" /\ cmd.op = "WRITE" => Stored(block)
  /\ pc = "report" /\ cmd.op = "WRITE" /\ result = "OK" => Stored(SECTOR_SIZE)
  /\ state = "WAIT_CPUWRITE" /\ "SUCCESS" \in wdport_cpu_status => Stored(SECTOR_SIZE)

DataInv == BufferFilled /\ ReadExchange /\ DrqIsFresh /\ WriteExchange /\ ImageStored

FloppyInvariant == ProtocolInv /\ DataInv
=============================================================================
