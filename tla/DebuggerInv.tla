---------------------------- MODULE DebuggerInv ----------------------------
(***************************************************************************)
(* The inductive invariant of the debug link: what is on the line is the   *)
(* rest of the packet at work followed by the packets not begun, the       *)
(* interface stands at the byte of the packet it takes next, and what has  *)
(* come back is the part of the answer given so far.                       *)
(***************************************************************************)
EXTENDS Debugger

-----------------------------------------------------------------------------
(* Ranges.                                                                 *)
IsMemory(m) ==
  /\ DOMAIN m \subseteq Word /\ \A x \in DOMAIN m : m[x] \in Octet
  /\ m = [x \in DOMAIN m |-> m[x]]
IsMachine(m) ==
  /\ m = [halted |-> m.halted, mem |-> m.mem, vram |-> m.vram, cfg |-> m.cfg,
          ppu |-> m.ppu, regs |-> m.regs]
  /\ m.halted \in BOOLEAN /\ IsMemory(m.mem) /\ IsMemory(m.vram)
  /\ m.cfg \in Seq(Octet) /\ Len(m.cfg) = 5 /\ m.ppu \in BOOLEAN
  /\ m.regs \in [0 .. 6 -> Octet]

IsHci(h) ==
  /\ h = [st |-> h.st, op |-> h.op, args |-> h.args, n |-> h.n, addr |-> h.addr, err |-> h.err]
  /\ h.st \in {"off", "decode", "args", "echo", "read", "write", "err", "ppu"}
  /\ h.op \in Octet /\ h.args \in Seq(Octet) /\ h.n \in Word /\ h.addr \in Word
  /\ h.err \in BOOLEAN
  /\ h.st # "args" => h.args = <<>>
  /\ h.st = "args" => Len(h.args) < Args(h.op)
  /\ h.st \in {"echo", "read", "write"} => h.n # 0

HwTypes ==
  /\ rx \in Seq(Octet) /\ Len(rx) <= 1 /\ tx \in Seq(Octet) /\ Len(tx) <= FIFO
  /\ IsHci(hci) /\ IsMachine(nes) /\ (nes.halted <=> hci.st # "off")
LinkTypes ==
  /\ HwTypes /\ out \in Seq(Octet) /\ back \in Seq(Octet)
  /\ broken \in BOOLEAN /\ (broken => sent = <<>> /\ cur = NoCmd)

(* A handler: a script's call, the dialog's and the first echo send one    *)
(* packet, LoadRom those of the file; only a break or a query is sent when *)
(* the machine may be running.                                             *)
Breaks == {"DbgHlt", "QueryHlt"}
Issued == Len(RomPackets(job.of[1])) - Len(job.cmds)
JobOK ==
  /\ job = [cmds |-> job.cmds, wait |-> job.wait, then |-> job.then, of |-> job.of]
  /\ job.wait \in Word /\ held \in BOOLEAN
  /\ job.then \in {"none", "init", "lua", "wait", "raw", "rom"}
  /\ job.then = "none" => job = NoJob
  /\ job.then # "rom" =>
       \/ job.cmds = <<>>
       \/ /\ job.cmds = <<job.cmds[1]>> /\ IsCommand(job.cmds[1]) /\ job.wait = 0
          /\ held \/ job.cmds[1].op \in Breaks
          /\ job.then = "wait" => job.cmds[1] = Simple("QueryHlt")
          /\ job.then = "init" => job.cmds[1].op = "Echo"
  /\ app = "start" => held /\ job.then \in {"none", "init"}
  /\ job.then = "rom" =>
       LET f == job.of[1] IN
       /\ f \in Roms /\ RomAccepted(f)
       /\ Issued \in 0 .. Len(RomPackets(f))
       /\ job.cmds = SubSeq(RomPackets(f), Issued + 1, Len(RomPackets(f)))
       /\ 0 < Issued /\ Issued < Len(RomPackets(f)) => held

TallyOK ==
  /\ tally = [done |-> tally.done, cnt |-> tally.cnt, pass |-> tally.pass, fail |-> tally.fail,
              error |-> tally.error, top |-> tally.top, really |-> tally.really]
  /\ tally.cnt \in 0 .. SCRIPTS /\ tally.done \in 0 .. tally.cnt
  /\ {tally.pass, tally.fail, tally.error} \subseteq Nat
  /\ app = "test" => tally.done = tally.cnt
  /\ app \in {"start", "main", "raw", "test", "script", "gone"}

-----------------------------------------------------------------------------
(* The line, as long as no byte was damaged.                               *)
P(c) == PacketData(c).bytes
Expect(c) == PacketData(c).expected

(* Bytes of the packet at work that the interface has taken.               *)
Consumed ==
  IF hci.st = "args" THEN 1 + Len(hci.args)
  ELSE IF hci.st \in {"echo", "write"} THEN Len(P(cur)) - hci.n ELSE Len(P(cur))
RestOf(c, k) == IF c = NoCmd THEN <<>> ELSE SubSeq(P(c), k + 1, Len(P(c)))
Rest == RestOf(cur, Consumed)
IsQueue(s) ==
  \/ s = <<>>
  \/ s = <<s[1]>> /\ IsCommand(s[1])
  \/ s = <<s[1], s[2]>> /\ IsCommand(s[1]) /\ IsCommand(s[2])
WireOf(s) == IF s = <<>> THEN <<>>
             ELSE IF Len(s) = 1 THEN P(s[1]) ELSE P(s[1]) \o P(s[2])
StreamOK ==
  /\ IsQueue(sent)
  /\ rx \o out = Rest \o WireOf(sent)
  /\ rx # <<>> /\ hci.st = "echo" => Len(tx) < FIFO

(* The interface works on cur.                                             *)
WorkOK ==
  /\ hci.st \in {"off", "decode"} <=> cur = NoCmd
  /\ cur # NoCmd => IsCommand(cur)
  /\ hci.st # "err"
  /\ hci.st = "args" =>
       /\ hci.op = Op[cur.op] /\ hci.args = SubSeq(P(cur), 2, 1 + Len(hci.args))
       /\ cur.op = "CartSetCfg" =>
            \A i \in 1 .. Len(hci.args) : nes.cfg[5 - Len(hci.args) + i] = cur.data[i]
  /\ hci.st = "echo" => cur.op = "Echo" /\ hci.n \in 1 .. Len(cur.data)
  /\ hci.st = "write" =>
       LET m == IF cur.op = "CpuMemWr" THEN nes.mem ELSE nes.vram IN
       /\ cur.op \in {"CpuMemWr", "PpuMemWr"} /\ hci.op = Op[cur.op]
       /\ hci.n \in 1 .. Len(cur.data)
       /\ hci.addr = (cur.addr + Len(cur.data) - hci.n) % WORD
       /\ \A i \in 1 .. Len(cur.data) - hci.n :
            (cur.addr + i - 1) % WORD \in DOMAIN m /\ m[(cur.addr + i - 1) % WORD] = cur.data[i]
  /\ hci.st = "read" =>
       /\ cur.op \in {"CpuMemRd", "PpuMemRd"} /\ hci.op = Op[cur.op] /\ hci.n \in 1 .. cur.n
       /\ hci.addr = (cur.addr + cur.n - hci.n) % WORD
  /\ hci.st = "ppu" => cur.op = "PpuDisable"

(* What has come back is the beginning of the answer the handler waits     *)
(* for, and nothing else is under way.                                     *)
Produced == IF hci.st = "echo" THEN Len(cur.data) - hci.n
            ELSE IF hci.st = "read" THEN cur.n - hci.n ELSE 0
AnswerOK ==
  /\ cur # NoCmd /\ (sent # <<>> \/ job.wait = 0) => Expect(cur) = 0
  /\ \A i \in 1 .. Len(sent) : i < Len(sent) \/ job.wait = 0 => Expect(sent[i]) = 0
  /\ sent # <<>> \/ job.wait = 0 => back = <<>> /\ tx = <<>>
  /\ job.wait > 0 /\ sent # <<>> => Expect(sent[Len(sent)]) = job.wait
  /\ job.wait > 0 /\ sent = <<>> /\ cur # NoCmd =>
       Expect(cur) = job.wait /\ back \o tx = SubSeq(Answer(cur, nes), 1, Produced)
  /\ job.wait > 0 /\ sent = <<>> /\ cur = NoCmd => Len(back \o tx) = job.wait

(* Whether the processor will be halted when all that was sent is done.    *)
Settles(c, h) == IF c.op = "DbgHlt" THEN TRUE ELSE IF c.op = "DbgRun" THEN FALSE ELSE h
Settled == IF sent = <<>> THEN nes.halted
           ELSE IF Len(sent) = 1 THEN Settles(sent[1], nes.halted)
           ELSE Settles(sent[2], Settles(sent[1], nes.halted))
HaltOK ==
  /\ held => Settled
  /\ sent # <<>> => sent[1].op \in Breaks \/ nes.halted
  /\ Len(sent) = 2 => sent[2].op \in Breaks \/ Settles(sent[1], nes.halted)
  /\ job.then = "wait" /\ job.cmds = <<>> =>
       IF job.wait = 0
       THEN sent = <<>> /\ cur = NoCmd /\ Len(buf) = 1 /\ (buf[1] # 0 => nes.halted)
       ELSE /\ job.wait = 1
            /\ sent = <<>> => cur = NoCmd /\ ((back \o tx)[1] # 0 => nes.halted)
            /\ sent # <<>> => sent[Len(sent)] = Simple("QueryHlt")

-----------------------------------------------------------------------------
(* What a step of the interface is: a command carried out at once, one     *)
(* begun, work that goes on, or work that ends.                            *)
AtOnce ==
  /\ cur = NoCmd /\ sent # <<>> /\ cur' = NoCmd /\ sent' = Tail(sent)
  /\ nes' = Effect(sent[1], nes) /\ tx = <<>> /\ back = <<>> /\ tx' = Answer(sent[1], nes)
  /\ nes.halted \/ sent[1].op \in Breaks
Begins ==
  /\ cur = NoCmd /\ sent # <<>> /\ cur' = sent[1] /\ sent' = Tail(sent)
  /\ sent[1].op \notin {"DbgHlt", "DbgRun", "QueryHlt"} /\ nes.halted
  /\ nes' = nes /\ tx = <<>> /\ back = <<>> /\ tx' = <<>> /\ Produced' = 0
Yields ==
  /\ Produced < Len(Answer(cur, nes))
  /\ tx' = Append(tx, Answer(cur, nes)[Produced + 1])
GoesOn ==
  /\ cur # NoCmd /\ cur' = cur /\ sent' = sent /\ nes.halted /\ nes'.halted
  /\ Effect(cur, nes') = Effect(cur, nes) /\ Answer(cur, nes') = Answer(cur, nes)
  /\ \/ tx' = tx /\ Produced' = Produced
     \/ Yields /\ Produced' = Produced + 1
Finishes ==
  /\ cur # NoCmd /\ cur' = NoCmd /\ sent' = sent /\ nes.halted /\ nes'.halted
  /\ nes' = Effect(cur, nes)
  /\ \/ tx' = tx /\ Produced = Len(Answer(cur, nes))
     \/ Yields /\ Produced + 1 = Len(Answer(cur, nes))

-----------------------------------------------------------------------------
(* The packets of LoadRom that have taken effect have left their bytes.    *)
Held == Effect(cur, nes)
Executed == Issued - Len(sent)
PrgBase == 32768
Prg(f) == f.hdr[5] * PRGBANK
Chr(f) == f.hdr[6] * CHRBANK
PrgBlocks(f) == Prg(f) \div BLOCK
ChrBlocks(f) == Chr(f) \div BLOCK
Loaded(m, f, e) ==
  /\ e >= 1 => m.halted
  /\ e >= 2 => ~m.ppu
  /\ e >= 3 => m.cfg = SubSeq(f.hdr, 5, 9)
  /\ \A i \in 0 .. Prg(f) - 1 :
       e > 3 + i \div BLOCK => Read(m.mem, PrgBase + i) = f.body[i + 1]
  /\ \A i \in 0 .. Chr(f) - 1 :
       e > 3 + PrgBlocks(f) + i \div BLOCK => Read(m.vram, i) = f.body[Prg(f) + i + 1]
  /\ e >= 4 + PrgBlocks(f) + ChrBlocks(f) => m.regs[0] = FileData(f, 16 + Prg(f) - 4)
  /\ e >= 5 + PrgBlocks(f) + ChrBlocks(f) => m.regs[1] = FileData(f, 16 + Prg(f) - 3)
RomOK ==
  job.then = "rom" =>
    /\ \A i \in 1 .. Len(sent) : Executed + i >= 1 => sent[i] = RomPackets(job.of[1])[Executed + i]
    /\ Executed < Len(RomPackets(job.of[1])) => Loaded(Held, job.of[1], Executed)

LinkInv == StreamOK /\ WorkOK /\ AnswerOK /\ HaltOK /\ RomOK
DbgInv == LinkTypes /\ JobOK /\ TallyOK /\ (~broken => LinkInv)
=============================================================================
