------------------------------- MODULE Packets -------------------------------
(***************************************************************************)
(* The packets by which the NES debugger on the PC commands the machine in *)
(* the FPGA (dbgpacket.h, dbgpacket.cpp), what each of them means, and the *)
(* text form of the raw debug dialog.                                      *)
(*                                                                         *)
(* A command is a record [op, addr, data, n]; a packet is its bytes and    *)
(* the number of bytes the machine answers with.  Bytes and 16 bit words   *)
(* have their real widths.                                                 *)
(***************************************************************************)
EXTENDS Integers, Sequences, SequencesExt

BYTE == 256
WORD == 65536
U16(n) == <<n % BYTE, (n \div BYTE) % BYTE>>
Num(lo, hi) == lo + BYTE * hi

Op == [Echo |-> 0, CpuMemRd |-> 1, CpuMemWr |-> 2, DbgHlt |-> 3, DbgRun |-> 4,
       CpuRegRd |-> 5, CpuRegWr |-> 6, QueryHlt |-> 7, QueryErrCode |-> 8,
       PpuMemRd |-> 9, PpuMemWr |-> 10, PpuDisable |-> 11, CartSetCfg |-> 12]
CpuReg == [Pcl |-> 0, Pch |-> 1, Ac |-> 2, X |-> 3, Y |-> 4, P |-> 5, S |-> 6]

Cmd(op, addr, data, n) == [op |-> op, addr |-> addr, data |-> data, n |-> n]
NoCmd == Cmd("None", 0, <<>>, 0)
Simple(op) == Cmd(op, 0, <<>>, 0)

(* A command that fits its packet: 16 bit addresses and lengths, bytes,    *)
(* and the registers of the machine.                                       *)
Octet == 0 .. BYTE - 1
Word == 0 .. WORD - 1
IsCommand(c) ==
  /\ c = Cmd(c.op, c.addr, c.data, c.n) /\ c.op \in DOMAIN Op \ {"QueryErrCode"}
  /\ c.addr \in Word /\ c.n \in Word /\ c.data \in Seq(Octet) /\ Len(c.data) \in Word
  /\ c.op \in {"CpuRegRd", "CpuRegWr"} => c.addr \in 0 .. 6
  /\ c.op = "CpuRegWr" => Len(c.data) = 1
  /\ c.op = "CartSetCfg" => Len(c.data) = 5

(* A packet: its bytes, and how many the machine returns.                  *)
DbgPacket(op, body, expected) == [bytes |-> <<Op[op]>> \o body, expected |-> expected]

EchoPacket(data) == DbgPacket("Echo", U16(Len(data)) \o data, Len(data))
CpuMemRdPacket(addr, n) == DbgPacket("CpuMemRd", U16(addr) \o U16(n), n)
CpuMemWrPacket(addr, data) == DbgPacket("CpuMemWr", U16(addr) \o U16(Len(data)) \o data, 0)
DbgHltPacket == DbgPacket("DbgHlt", <<>>, 0)
DbgRunPacket == DbgPacket("DbgRun", <<>>, 0)
CpuRegRdPacket(reg) == DbgPacket("CpuRegRd", <<reg>>, 1)
CpuRegWrPacket(reg, val) == DbgPacket("CpuRegWr", <<reg, val>>, 0)
QueryHltPacket == DbgPacket("QueryHlt", <<>>, 1)
PpuMemRdPacket(addr, n) == DbgPacket("PpuMemRd", U16(addr) \o U16(n), n)
PpuMemWrPacket(addr, data) == DbgPacket("PpuMemWr", U16(addr) \o U16(Len(data)) \o data, 0)
PpuDisablePacket == DbgPacket("PpuDisable", <<>>, 0)
CartSetCfgPacket(cfg) == DbgPacket("CartSetCfg", cfg, 0)

(* The packet class of a command: those about the CPU, the others.         *)
CpuPacket(c) ==
  CASE c.op = "Echo"       -> EchoPacket(c.data)
    [] c.op = "CpuMemRd"   -> CpuMemRdPacket(c.addr, c.n)
    [] c.op = "CpuMemWr"   -> CpuMemWrPacket(c.addr, c.data)
    [] c.op = "DbgHlt"     -> DbgHltPacket
    [] c.op = "DbgRun"     -> DbgRunPacket
    [] c.op = "CpuRegRd"   -> CpuRegRdPacket(c.addr)
    [] c.op = "CpuRegWr"   -> CpuRegWrPacket(c.addr, c.data[1])
CartPacket(c) ==
  CASE c.op = "QueryHlt"   -> QueryHltPacket
    [] c.op = "PpuMemRd"   -> PpuMemRdPacket(c.addr, c.n)
    [] c.op = "PpuMemWr"   -> PpuMemWrPacket(c.addr, c.data)
    [] c.op = "PpuDisable" -> PpuDisablePacket
    [] c.op = "CartSetCfg" -> CartSetCfgPacket(c.data)
PacketData(c) ==
  IF c.op \in {"QueryHlt", "PpuMemRd", "PpuMemWr", "PpuDisable", "CartSetCfg"}
  THEN CartPacket(c) ELSE CpuPacket(c)

-----------------------------------------------------------------------------
(* The raw dialog.  A character is a hex digit 0 .. 15, Blank, or another. *)
(* Digits pair up across blanks; only three packets can be typed.          *)
Blank == 16
CreateObjFromString(text) ==
  LET nibbles == SelectSeq(text, LAMBDA c : c # Blank)
      raw == [i \in 1 .. Len(nibbles) \div 2 |-> 16 * nibbles[2*i - 1] + nibbles[2*i]]
  IN IF Len(nibbles) % 2 = 1 \/ \E i \in DOMAIN text : text[i] > Blank THEN NoCmd
     ELSE CASE raw[1] = Op.Echo ->
                 Cmd("Echo", 0, SubSeq(raw, 4, 3 + Num(raw[2], raw[3])), 0)
            [] raw[1] = Op.CpuMemRd ->
                 Cmd("CpuMemRd", Num(raw[2], raw[3]), <<>>, Num(raw[4], raw[5]))
            [] raw[1] = Op.CpuMemWr ->
                 Cmd("CpuMemWr", Num(raw[2], raw[3]),
                     SubSeq(raw, 6, 5 + Num(raw[4], raw[5])), 0)
            [] OTHER -> NoCmd

ShownShort(bytes) ==  \* mutant: no leading zero
  FlattenSeq([i \in DOMAIN bytes |->
    (IF bytes[i] < 16 THEN <<>> ELSE <<bytes[i] \div 16>>) \o <<bytes[i] % 16, Blank>>])

(* The reply as the dialog shows it: two digits and a blank for each byte. *)
Shown(bytes) ==
  FlattenSeq([i \in DOMAIN bytes |-> <<bytes[i] \div 16, bytes[i] % 16, Blank>>])

-----------------------------------------------------------------------------
(* The machine as its debugger sees it, and what a command does to it.  A  *)
(* memory is the function of the bytes written; the rest reads 0.          *)
Read(m, a) == IF a \in DOMAIN m THEN m[a] ELSE 0
Put(m, a, data) ==
  LET new == {(a + i - 1) % WORD : i \in DOMAIN data}
      last(x) == CHOOSE i \in DOMAIN data :
                   /\ (a + i - 1) % WORD = x
                   /\ \A j \in DOMAIN data : (a + j - 1) % WORD = x => j <= i
  IN [x \in DOMAIN m \cup new |-> IF x \in new THEN data[last(x)] ELSE m[x]]

Reset == [halted |-> TRUE, mem |-> <<>>, vram |-> <<>>, cfg |-> <<0, 0, 0, 0, 0>>,
          ppu |-> TRUE, regs |-> [r \in {CpuReg[k] : k \in DOMAIN CpuReg} |-> 0]]

Effect(c, m) ==
  IF c.op = "DbgHlt" THEN [m EXCEPT !.halted = TRUE]
  ELSE IF ~m.halted THEN m
  ELSE CASE c.op = "DbgRun"     -> [m EXCEPT !.halted = FALSE]
         [] c.op = "CpuMemWr"   -> [m EXCEPT !.mem = Put(@, c.addr, c.data)]
         [] c.op = "PpuMemWr"   -> [m EXCEPT !.vram = Put(@, c.addr, c.data)]
         [] c.op = "CpuRegWr"   -> [m EXCEPT !.regs[c.addr] = c.data[1]]
         [] c.op = "CartSetCfg" -> [m EXCEPT !.cfg = c.data]
         [] c.op = "PpuDisable" -> [m EXCEPT !.ppu = FALSE]
         [] OTHER               -> m

Answer(c, m) ==
  LET Fetched(x) == [i \in 1 .. c.n |-> Read(x, (c.addr + i - 1) % WORD)] IN
  IF c.op = "QueryHlt" THEN <<IF m.halted THEN 1 ELSE 0>>
  ELSE IF ~m.halted THEN <<>>
  ELSE CASE c.op = "Echo"     -> c.data
         [] c.op = "CpuMemRd" -> Fetched(m.mem)
         [] c.op = "PpuMemRd" -> Fetched(m.vram)
         [] c.op = "CpuRegRd" -> <<m.regs[c.addr]>>
         [] OTHER             -> <<>>
=============================================================================
