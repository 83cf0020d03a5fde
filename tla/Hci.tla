--------------------------------- MODULE Hci ---------------------------------
(***************************************************************************)
(* The machine's end of the debug link: the UART's two FIFOs and the state *)
(* machine of the host communication interface (hci.v).  While the         *)
(* processor runs ("off") the bytes of the line are looked at one by one   *)
(* and only a break and the query are recognised.                          *)
(*                                                                         *)
(* The states of a packet's header (_STG_0) are one state "args" that     *)
(* collects its bytes; the two cycles of a memory read, and the six of     *)
(* PPU_DISABLE, are one step, for the line brings no byte in that time.    *)
(***************************************************************************)
EXTENDS Packets

CONSTANT FIFO  \* bytes of a UART FIFO (8)

ASSUME FifoAssumption == FIFO \in Nat \ {0}

VARIABLES
  rx, tx,  \* the UART's FIFOs
  hci,     \* q_state, the opcode, its header bytes, q_execute_cnt, q_addr
  nes      \* the machine

hciVars == <<rx, tx, hci, nes>>

HciInit ==
  /\ rx = <<>> /\ tx = <<>> /\ nes = Reset
  /\ hci = [st |-> "decode", op |-> 0, args |-> <<>>, n |-> 0, addr |-> 0, err |-> FALSE]

(* A FIFO that is full ignores a write.                                    *)
Push(f, b) == IF Len(f) < FIFO THEN Append(f, b) ELSE f

Decoding == [hci EXCEPT !.st = "decode", !.args = <<>>, !.n = 0, !.addr = 0, !.op = 0]

(* Header bytes after the opcode.                                          *)
Args(op) == CASE op = Op.Echo -> 2
              [] op \in {Op.CpuMemRd, Op.CpuMemWr, Op.PpuMemRd, Op.PpuMemWr} -> 4
              [] op = Op.CpuRegRd -> 1
              [] op = Op.CpuRegWr -> 2
              [] op = Op.CartSetCfg -> 5
              [] OTHER -> 0

S_DISABLED ==
  /\ hci.st = "off" /\ rx # <<>>
  /\ rx' = Tail(rx)
  /\ tx' = IF Head(rx) = Op.QueryHlt THEN Push(tx, 0) ELSE tx
  /\ IF Head(rx) = Op.DbgHlt
     THEN hci' = Decoding /\ nes' = [nes EXCEPT !.halted = TRUE]
     ELSE UNCHANGED <<hci, nes>>

S_DECODE ==
  /\ hci.st = "decode" /\ rx # <<>>
  /\ rx' = Tail(rx)
  /\ LET op == Head(rx) IN
     /\ tx' = IF op = Op.QueryHlt THEN Push(tx, 1) ELSE tx
     /\ nes' = [nes EXCEPT !.halted = op # Op.DbgRun]
     /\ hci' = IF op = Op.DbgRun THEN [hci EXCEPT !.st = "off"]
               ELSE IF op = Op.QueryErrCode THEN [hci EXCEPT !.st = "err"]
               ELSE IF op = Op.PpuDisable THEN [hci EXCEPT !.st = "ppu"]
               ELSE IF Args(op) > 0 THEN [hci EXCEPT !.st = "args", !.op = op]
               ELSE IF op \in {Op.DbgHlt, Op.QueryHlt} THEN hci
               ELSE [hci EXCEPT !.err = TRUE]

(* A header byte; with the last one the packet's work begins.  CPU_REG_RD  *)
(* takes it only when there is room for the answer.                        *)
S_ARGS ==
  /\ hci.st = "args" /\ rx # <<>>
  /\ hci.op = Op.CpuRegRd => Len(tx) < FIFO
  /\ rx' = Tail(rx)
  /\ LET args == Append(hci.args, Head(rx))
         full == Len(args) = Args(hci.op)
         n == Num(args[Len(args) - 1], args[Len(args)])
         Work(st) == IF n = 0 THEN Decoding
                     ELSE [hci EXCEPT !.st = st, !.args = <<>>, !.n = n,
                            !.addr = IF st = "echo" THEN 0 ELSE Num(args[1], args[2])] IN
     /\ hci' = IF ~full THEN [hci EXCEPT !.args = args]
               ELSE IF hci.op = Op.Echo THEN Work("echo")
               ELSE IF hci.op \in {Op.CpuMemRd, Op.PpuMemRd} THEN Work("read")
               ELSE IF hci.op \in {Op.CpuMemWr, Op.PpuMemWr} THEN Work("write")
               ELSE Decoding
     /\ tx' = IF hci.op = Op.CpuRegRd THEN Push(tx, Read(nes.regs, Head(rx) % 16)) ELSE tx
     /\ nes' = IF hci.op = Op.CartSetCfg
               THEN [nes EXCEPT !.cfg = Append(Tail(@), Head(rx))]
               ELSE IF hci.op = Op.CpuRegWr /\ full /\ args[1] % 16 \in DOMAIN nes.regs
               THEN [nes EXCEPT !.regs[args[1] % 16] = args[2]]
               ELSE nes

Count == IF hci.n = 1 THEN Decoding
         ELSE [hci EXCEPT !.n = @ - 1, !.addr = (@ + 1) % WORD]

S_ECHO_STG_1 ==
  /\ hci.st = "echo" /\ rx # <<>>
  /\ rx' = Tail(rx) /\ tx' = Push(tx, Head(rx)) /\ hci' = Count
  /\ UNCHANGED nes

S_MEM_WR_STG_1 ==
  /\ hci.st = "write" /\ rx # <<>>
  /\ rx' = Tail(rx) /\ hci' = Count
  /\ nes' = IF hci.op = Op.CpuMemWr
            THEN [nes EXCEPT !.mem = Put(@, hci.addr, <<Head(rx)>>)]
            ELSE [nes EXCEPT !.vram = Put(@, hci.addr, <<Head(rx)>>)]
  /\ UNCHANGED tx

S_MEM_RD_STG_1Unchecked ==  \* mutant: tx_full is not looked at
  /\ hci.st = "read"
  /\ tx' = Push(tx, Read(IF hci.op = Op.CpuMemRd THEN nes.mem ELSE nes.vram, hci.addr))
  /\ hci' = Count
  /\ UNCHANGED <<rx, nes>>

S_MEM_RD_STG_1 ==
  /\ hci.st = "read" /\ Len(tx) < FIFO
  /\ tx' = Push(tx, Read(IF hci.op = Op.CpuMemRd THEN nes.mem ELSE nes.vram, hci.addr))
  /\ hci' = Count
  /\ UNCHANGED <<rx, nes>>

S_QUERY_ERR_CODE ==
  /\ hci.st = "err" /\ Len(tx) < FIFO
  /\ tx' = Push(tx, IF hci.err THEN 2 ELSE 0) /\ hci' = Decoding
  /\ UNCHANGED <<rx, nes>>

S_PPU_DISABLE ==
  /\ hci.st = "ppu"
  /\ nes' = [nes EXCEPT !.ppu = FALSE] /\ hci' = Decoding
  /\ UNCHANGED <<rx, tx>>

HciStep == \/ S_DISABLED \/ S_DECODE \/ S_ARGS \/ S_ECHO_STG_1 \/ S_MEM_WR_STG_1
           \/ S_MEM_RD_STG_1 \/ S_QUERY_ERR_CODE \/ S_PPU_DISABLE

(* HciStep is not enabled: it waits for the line or for room.              *)
Waits == \/ hci.st \in {"off", "decode", "echo", "write"} /\ rx = <<>>
         \/ hci.st = "args" /\ (rx = <<>> \/ (hci.op = Op.CpuRegRd /\ Len(tx) = FIFO))
         \/ hci.st \in {"read", "err"} /\ Len(tx) = FIFO

(* The processor, while it runs: the program under test stores a byte, or  *)
(* stops at its halt instruction.                                          *)
Cpu(values) ==
  /\ hci.st = "off"
  /\ \E v \in values : nes' = [nes EXCEPT !.mem = Put(@, 0, <<v>>)]
  /\ UNCHANGED <<rx, tx, hci>>
Brk ==
  /\ hci.st = "off"
  /\ nes' = [nes EXCEPT !.halted = TRUE] /\ hci' = Decoding
  /\ UNCHANGED <<rx, tx>>
=============================================================================
