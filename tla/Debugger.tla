------------------------------ MODULE Debugger ------------------------------
(***************************************************************************)
(* The NES debugger: the Windows program (main.cpp, nesdbg.cpp,            *)
(* scriptmgr.cpp, scriptmgrdlg.cpp, serialcomm.cpp), the serial line and   *)
(* the machine.  The program has one thread; a handler of its menu, of a   *)
(* dialog or of a script sends packets and may wait for the answer.        *)
(*                                                                         *)
(* Timing.  HCI works at 100 MHz and needs a few cycles for what the line  *)
(* takes thousands to bring, so that it is done or waits before the next   *)
(* byte arrives.  Both directions have one baud rate: an answer lags by at *)
(* most SKEW bytes behind what it echoes.  A read gives up after five      *)
(* seconds, when everything that was on its way has arrived.               *)
(***************************************************************************)
EXTENDS Hci

CONSTANTS
  SKEW,      \* bytes one direction may lag behind the other
  FAULTS,    \* bytes the line may damage or lose
  CALLS,     \* packets sequences sent in a behaviour
  SCRIPTS,   \* scripts selected at a time
  Bytes,     \* data of the calls
  Noise,     \* what a damaged byte may become
  Addrs,     \* addresses of the calls
  Roms,      \* .nes files: [hdr, body]
  Prgs,      \* .prg files, as their bytes
  Texts,     \* lines typed into the raw dialog
  Outcomes,  \* how a script may end: "pass", "fail", "error", "lua", "mute"
  PRGBANK, CHRBANK, BLOCK  \* bytes of a ROM bank, and of a packet (0x4000, 0x2000, 0x400)

ASSUME DebuggerAssumption ==
  /\ SKEW \in 0 .. FIFO - 1 /\ {FAULTS, CALLS} \subseteq Nat /\ SCRIPTS \in Nat
  /\ Bytes \cup Noise \subseteq Octet /\ Addrs \subseteq Word
  /\ FIFO + 2 \in Word /\ BLOCK \in Word \ {0}
  /\ PRGBANK \in 4 .. 16384 /\ PRGBANK % BLOCK = 0
  /\ CHRBANK \in 1 .. WORD /\ CHRBANK % BLOCK = 0

(* Files and typed lines are complete: a .prg file has its address and fits *)
(* the memory, a .nes file has its header and the banks this names, and a  *)
(* packet typed in hex has all the bytes its header announces.             *)
ASSUME InputAssumption ==
  /\ \A f \in Prgs : f \in Seq(Octet) /\ Len(f) \in 2 .. WORD
  /\ \A f \in Roms :
       /\ f.hdr \in Seq(Octet) /\ Len(f.hdr) = 16 /\ f.body \in Seq(Octet)
       /\ f.hdr[5] <= 2 /\ f.hdr[6] <= 1 => Len(f.body) >= f.hdr[5] * PRGBANK + f.hdr[6] * CHRBANK
  /\ \A t \in Texts : CreateObjFromString(t) = NoCmd \/ IsCommand(CreateObjFromString(t))

VARIABLES
  app,    \* "start", "main", "raw", "test", "script", "gone"
  job,    \* the handler at work: packets to send, bytes to wait for
  buf,    \* the buffer of the last ReceiveData
  shown,  \* text in the output of the raw dialog
  tally,  \* the run of test scripts, and the top of the Lua stack
  out, back,  \* the line, from and to the PC
  held,   \* the PC knows the machine halted
  calls, faults,  \* counters of the bounds
  sent, cur,      \* history: commands not begun, and the one at work
  broken          \* history: a byte was damaged or lost

hostVars == <<app, job, buf, shown, tally, held, calls>>
dbgVars == <<hciVars, hostVars, out, back, faults, sent, cur, broken>>

NoJob == [cmds |-> <<>>, wait |-> 0, then |-> "none", of |-> <<>>]
InitString == <<78, 69, 83, 0>>
NoTally == [done |-> 0, cnt |-> 0, pass |-> 0, fail |-> 0, error |-> 0, top |-> 0, really |-> <<>>]

DbgInit ==
  /\ HciInit
  /\ app = "start" /\ job = NoJob /\ buf = <<>> /\ shown = <<>> /\ tally = NoTally
  /\ out = <<>> /\ back = <<>> /\ held = TRUE /\ calls = 0 /\ faults = 0
  /\ sent = <<>> /\ cur = NoCmd /\ broken = FALSE

-----------------------------------------------------------------------------
(* The line and the machine.  History: the command whose first byte HCI    *)
(* takes is at work until HCI decodes again.                               *)
HciAction ==
  /\ HciStep
  /\ LET begins == hci.st \in {"off", "decode"} /\ sent # <<>>
         ends == hci'.st \in {"off", "decode"}
         c == IF begins THEN Head(sent) ELSE cur IN
     /\ cur' = IF broken \/ ends THEN NoCmd ELSE c
     /\ sent' = IF begins THEN Tail(sent) ELSE sent
  /\ UNCHANGED <<hostVars, out, back, faults, broken>>

Runs == Cpu(Bytes) /\ UNCHANGED <<hostVars, out, back, faults, sent, cur, broken>>
Halts == Brk /\ UNCHANGED <<hostVars, out, back, faults, sent, cur, broken>>

(* uart_rx: a byte arrives; with a parity error it is stored all the same. *)
Arrive ==
  /\ Waits /\ out # <<>> /\ Len(tx) <= SKEW
  /\ out' = Tail(out)
  /\ \/ /\ rx' = Push(rx, Head(out)) /\ UNCHANGED <<faults, sent, cur, broken>>
     \/ /\ faults < FAULTS /\ faults' = faults + 1
        /\ rx' \in {rx} \cup {Push(rx, b) : b \in Noise \ {Head(out)}}
        /\ broken' = TRUE /\ sent' = <<>> /\ cur' = NoCmd
  /\ UNCHANGED <<tx, hci, nes, hostVars, back>>

(* uart_tx.                                                                *)
Leave ==
  /\ Waits /\ tx # <<>>
  /\ tx' = Tail(tx) /\ back' = Append(back, Head(tx))
  /\ UNCHANGED <<rx, hci, nes, hostVars, out, faults, sent, cur, broken>>

Quiet == Waits /\ out = <<>> /\ tx = <<>>

-----------------------------------------------------------------------------
(* serialcomm.cpp.  WriteFile returns when the packet has gone out; only   *)
(* then is the next one sent, or the handler done.                         *)
SendData ==
  /\ job.cmds # <<>> /\ job.wait = 0 /\ out = <<>>
  /\ LET c == Head(job.cmds) IN
     /\ out' = out \o PacketData(c).bytes
     /\ sent' = IF broken THEN sent ELSE Append(sent, c)
     /\ job' = [job EXCEPT !.cmds = Tail(@), !.wait = PacketData(c).expected]
     /\ held' = IF c.op = "DbgHlt" THEN TRUE ELSE IF c.op = "DbgRun" THEN FALSE ELSE held
  /\ UNCHANGED <<hciVars, app, buf, shown, tally, back, calls, faults, cur, broken>>

(* The bytes asked for, or what has come when the time is up; the rest of  *)
(* the buffer is not initialised.  The callers ignore the difference.      *)
ReceiveDataPatient ==  \* mutant: no timeout
  /\ job.wait > 0 /\ Len(back) >= job.wait
  /\ buf' = SubSeq(back, 1, job.wait)
  /\ back' = SubSeq(back, job.wait + 1, Len(back))
  /\ job' = [job EXCEPT !.wait = 0]
  /\ UNCHANGED <<hciVars, app, shown, tally, out, held, calls, faults, sent, cur, broken>>

ReceiveData ==
  /\ job.wait > 0
  /\ \/ /\ Len(back) >= job.wait
        /\ buf' = SubSeq(back, 1, job.wait)
        /\ back' = SubSeq(back, job.wait + 1, Len(back))
     \/ /\ Quiet /\ Len(back) < job.wait
        /\ \E b \in {0, 1} :
             buf' = back \o [i \in 1 .. job.wait - Len(back) |-> b]
        /\ back' = <<>>
  /\ job' = [job EXCEPT !.wait = 0]
  /\ UNCHANGED <<hciVars, app, shown, tally, out, held, calls, faults, sent, cur, broken>>

-----------------------------------------------------------------------------
(* A handler starts with the packets it will send, and ends.               *)
Start(cmds, then, of) ==
  /\ job = NoJob
  /\ job' = [cmds |-> cmds, wait |-> 0, then |-> then, of |-> of]
  /\ UNCHANGED <<hciVars, buf, shown, out, back, held, faults, sent, cur, broken>>
Ended == job.then # "none" /\ job.cmds = <<>> /\ job.wait = 0 /\ out = <<>>
End ==
  /\ job' = NoJob
  /\ UNCHANGED <<hciVars, out, back, calls, faults, sent, cur, broken>>

(* WinMain, NesDbg::Init, SerialComm::Init: an echo proves the connection. *)
SerialCommInit ==
  /\ app = "start" /\ Start(<<Cmd("Echo", 0, InitString, 0)>>, "init", <<>>)
  /\ UNCHANGED <<app, tally, calls>>
WinMain ==
  /\ Ended /\ job.then = "init" /\ End
  /\ app' = IF buf = InitString THEN "main" ELSE "gone"
  /\ UNCHANGED <<buf, shown, tally, held>>

(* The menu; both dialogs are modal and open empty.                        *)
Goes(from, to) ==
  /\ job = NoJob /\ app = from /\ app' = to
  /\ shown' = <<>> /\ tally' = [NoTally EXCEPT !.top = tally.top]
  /\ UNCHANGED <<hciVars, job, buf, out, back, held, calls, faults, sent, cur, broken>>
WndProc == Goes("main", "gone")
LaunchRawDbgDlg == Goes("main", "raw") \/ Goes("raw", "main")

(* A call within the bound.  Only a break and the query reach a machine    *)
(* that runs: scripts issue the others after WaitForHlt.                   *)
Calls(cmds, then, of) ==
  /\ calls < CALLS /\ calls' = calls + 1
  /\ held \/ Head(cmds).op \in {"DbgHlt", "QueryHlt"}
  /\ Start(cmds, then, of)
  /\ UNCHANGED <<app, tally>>
Lua(cmd) == app = "script" /\ Calls(<<cmd>>, "lua", <<>>)

LuaEcho == \E d \in Bytes : Lua(Cmd("Echo", 0, <<d, d, d>>, 0))
LuaCpuMemRd == \E a \in Addrs, n \in {0, FIFO + 2} : Lua(Cmd("CpuMemRd", a, <<>>, n))
LuaCpuMemWr == \E a \in Addrs, d \in Bytes : Lua(Cmd("CpuMemWr", a, <<d, d>>, 0))
LuaDbgHlt == Lua(Simple("DbgHlt"))
LuaDbgRun == Lua(Simple("DbgRun"))
LuaCpuRegRd == Lua(Cmd("CpuRegRd", CpuReg.X, <<>>, 0))
LuaCpuRegWr == \E d \in Bytes : Lua(Cmd("CpuRegWr", CpuReg.X, <<d>>, 0))
LuaPpuMemRd == \E a \in Addrs : Lua(Cmd("PpuMemRd", a, <<>>, 2))
LuaPpuMemWr == \E a \in Addrs, d \in Bytes : Lua(Cmd("PpuMemWr", a, <<d>>, 0))

(* The query is repeated until the answer is not 0.                        *)
LuaWaitForHlt == app = "script" /\ Calls(<<Simple("QueryHlt")>>, "wait", <<>>)
PollAgain ==
  /\ Ended /\ job.then = "wait" /\ buf[1] = 0
  /\ job' = [job EXCEPT !.cmds = <<Simple("QueryHlt")>>]
  /\ UNCHANGED <<hciVars, app, buf, shown, tally, held, calls, out, back, faults, sent,
                 cur, broken>>
PollEndsAtOnce ==  \* mutant: any answer is taken for "halted"
  /\ Ended /\ job.then = "wait" /\ End
  /\ held' = TRUE
  /\ UNCHANGED <<app, buf, shown, tally>>

PollEnds ==
  /\ Ended /\ job.then = "wait" /\ buf[1] # 0 /\ End
  /\ held' = TRUE
  /\ UNCHANGED <<app, buf, shown, tally>>

(* The first two bytes of a .prg file are where the rest belongs.          *)
LuaLoadAsm == \E f \in Prgs :
  Lua(Cmd("CpuMemWr", Num(f[1], f[2]), SubSeq(f, 3, Len(f)), 0))
Returns ==
  /\ Ended /\ job.then \in {"lua", "rom"} /\ End
  /\ UNCHANGED <<app, buf, shown, tally, held>>

-----------------------------------------------------------------------------
(* LoadRom.  pFileData[i] is byte i of the file.                           *)
FileData(f, i) == (f.hdr \o f.body)[i + 1]
RomAccepted(f) ==
  /\ SubSeq(f.hdr, 1, 4) = <<78, 69, 83, 26>>
  /\ f.hdr[5] <= 2 /\ f.hdr[6] <= 1
  /\ (f.hdr[7] \div 8) % 2 = 0
  /\ f.hdr[7] \div 16 = 0 /\ f.hdr[8] \div 16 = 0

Blocks(f, op, base, from, size) ==
  [i \in 1 .. size \div BLOCK |->
     Cmd(op, base + BLOCK * (i - 1),
         [k \in 1 .. BLOCK |-> FileData(f, from + BLOCK * (i - 1) + k - 1)], 0)]

RomPacketsShort(f) ==  \* mutant: the picture data are looked for one bank too early
  LET prg == f.hdr[5] * PRGBANK
      chr == f.hdr[6] * CHRBANK
      Reg(r, i) == Cmd("CpuRegWr", r, <<FileData(f, i)>>, 0)
  IN <<Simple("DbgHlt"), Simple("PpuDisable"),
       Cmd("CartSetCfg", 0, SubSeq(f.hdr, 5, 9), 0)>>
     \o Blocks(f, "CpuMemWr", 32768, 16, prg) \o Blocks(f, "PpuMemWr", 0, 16, chr)
     \o <<Reg(CpuReg.Pcl, 16 + prg - 4), Reg(CpuReg.Pch, 16 + prg - 3), Simple("DbgRun")>>

RomPackets(f) ==
  LET prg == f.hdr[5] * PRGBANK
      chr == f.hdr[6] * CHRBANK
      Reg(r, i) == Cmd("CpuRegWr", r, <<FileData(f, i)>>, 0)
  IN <<Simple("DbgHlt"), Simple("PpuDisable"),
       Cmd("CartSetCfg", 0, SubSeq(f.hdr, 5, 9), 0)>>
     \o Blocks(f, "CpuMemWr", 32768, 16, prg)
     \o Blocks(f, "PpuMemWr", 0, 16 + prg, chr)
     \o <<Reg(CpuReg.Pcl, 16 + prg - 4), Reg(CpuReg.Pch, 16 + prg - 3), Simple("DbgRun")>>

LoadRom ==
  \E f \in Roms :
    app = "main" /\ RomAccepted(f) /\ Calls(RomPackets(f), "rom", <<f>>)

-----------------------------------------------------------------------------
(* The raw dialog: what was typed is sent, the answer shown in hex.        *)
RawDbgDlgProc ==
  \E t \in Texts :
    /\ app = "raw" /\ CreateObjFromString(t) # NoCmd
    /\ Calls(<<CreateObjFromString(t)>>, "raw", t)
RawShows ==
  /\ Ended /\ job.then = "raw" /\ End
  /\ shown' = IF PacketData(CreateObjFromString(job.of)).expected = 0 THEN <<>> ELSE Shown(buf)
  /\ UNCHANGED <<app, buf, tally, held>>
RawClear ==
  /\ app = "raw" /\ job = NoJob /\ shown' = <<>>
  /\ UNCHANGED <<hciVars, app, job, buf, tally, out, back, held, calls, faults, sent, cur,
                 broken>>

-----------------------------------------------------------------------------
(* Test scripts.  The result is the number on top of the Lua stack; a      *)
(* script that returns nothing leaves the one of the script before it.     *)
Code(o) == CASE o = "pass" -> 0 [] o = "fail" -> 1 [] o = "error" -> 2 [] OTHER -> 0
TestScriptDlgSetProgress(t, done, cnt) == [t EXCEPT !.done = done, !.cnt = cnt]
TestScriptDlgSetResults(t, r) ==
  [t EXCEPT !.pass = IF r = 0 THEN @ + 1 ELSE @, !.fail = IF r = 1 THEN @ + 1 ELSE @,
            !.error = IF r = 2 THEN @ + 1 ELSE @]
TestScriptDlgRun ==
  /\ app = "test" /\ job = NoJob
  /\ \E n \in 1 .. SCRIPTS :
       tally' = TestScriptDlgSetProgress([NoTally EXCEPT !.top = tally.top], 0, n)
  /\ app' = "script"
  /\ UNCHANGED <<hciVars, job, buf, shown, out, back, held, calls, faults, sent, cur, broken>>

ExecuteScriptBlind(o, top) ==  \* mutant: the return code of luaL_dofile is ignored
  IF o \in {"lua", "mute"} THEN top ELSE Code(o)

ExecuteScript(o, top) == IF o = "lua" THEN 2 ELSE IF o = "mute" THEN top ELSE Code(o)
ScriptEnds ==
  /\ app = "script" /\ job = NoJob /\ tally.done < tally.cnt
  /\ \E o \in Outcomes :
       LET r == ExecuteScript(o, tally.top)
           t == [tally EXCEPT !.top = IF o = "lua" THEN 0 ELSE r, !.really = Append(@, o)]
       IN tally' = TestScriptDlgSetProgress(TestScriptDlgSetResults(t, r), tally.done + 1, tally.cnt)
  /\ app' = IF tally'.done = tally.cnt THEN "test" ELSE "script"
  /\ UNCHANGED <<hciVars, job, buf, shown, out, back, held, calls, faults, sent, cur, broken>>
TestScriptDlgProc == Goes("main", "test") \/ Goes("test", "main") \/ TestScriptDlgRun

-----------------------------------------------------------------------------
(* The functions a script can call.                                        *)
LuaCall == \/ LuaEcho \/ LuaCpuMemRd \/ LuaCpuMemWr \/ LuaDbgHlt \/ LuaDbgRun
           \/ LuaCpuRegRd \/ LuaCpuRegWr \/ LuaWaitForHlt \/ LuaLoadAsm
           \/ LuaPpuMemRd \/ LuaPpuMemWr
(* Bound: when the line failed, a behaviour is followed until the handler  *)
(* at work has returned; a count made of later packets would keep HCI busy *)
(* for thousands of steps.                                                 *)
User ==
  /\ ~broken
  /\ \/ SerialCommInit \/ WndProc \/ LaunchRawDbgDlg \/ LoadRom \/ RawDbgDlgProc \/ RawClear
     \/ TestScriptDlgProc \/ ScriptEnds \/ LuaCall
Handler == \/ SendData \/ ReceiveData \/ WinMain \/ PollAgain \/ PollEnds \/ Returns
           \/ RawShows
Link == HciAction \/ Arrive \/ Leave
DbgNext == User \/ Handler \/ Link \/ Runs \/ Halts
DbgSpec == DbgInit /\ [][DbgNext]_dbgVars

(* A handler goes on, the hardware works, and the program under test       *)
(* reaches its halt instruction.                                           *)
FairDbgSpec ==
  DbgSpec /\ WF_dbgVars(Handler) /\ WF_dbgVars(Link) /\ WF_dbgVars(Halts)

-----------------------------------------------------------------------------
(* Ranges; what is on its way to an idle PC or from an idle machine is     *)
(* bounded by the FIFOs.                                                   *)
DbgTypeOK ==
  /\ app \in {"start", "main", "raw", "test", "script", "gone"}
  /\ Len(rx) <= 1 /\ Len(tx) <= FIFO
  /\ hci.st \in {"off", "decode", "args", "echo", "read", "write", "err", "ppu"}
  /\ nes.halted = (hci.st # "off")
  /\ job.wait \in 0 .. WORD - 1
  /\ tally.done \in 0 .. tally.cnt /\ tally.cnt \in 0 .. SCRIPTS /\ held \in BOOLEAN /\ broken \in BOOLEAN

(* The link does what the session promises: byte by byte transfers, full   *)
(* FIFOs and a processor that halts by itself are not visible in it        *)
(* (hci.v, serialcomm.cpp:163-210).                                        *)
Queries == {"Echo", "CpuMemRd", "CpuRegRd", "PpuMemRd"}
Session == INSTANCE NesSession WITH
  machine <- Effect(cur, nes), pending <- sent, taken <- buf,
  answer <- IF cur.op \in Queries THEN Answer(cur, nes) ELSE back \o tx
LinkIsFaithful == Session!SessionSpec

(* When the machine is about to be started by LoadRom it holds the file:   *)
(* every byte of both ROMs in its place, the cartridge's configuration,    *)
(* the reset vector in the program counter, and the PPU off                *)
(* (nesdbg.cpp:147-340).                                                   *)
RomIsLoaded ==
  (job.then = "rom" /\ job.cmds = <<>> /\ ~broken /\ cur = NoCmd /\ sent = <<Simple("DbgRun")>>) =>
    LET f == job.of[1]
        prg == f.hdr[5] * PRGBANK IN
    /\ \A i \in 0 .. prg - 1 : Read(nes.mem, 32768 + i) = f.body[i + 1]
    /\ \A i \in 0 .. f.hdr[6] * CHRBANK - 1 : Read(nes.vram, i) = f.body[prg + i + 1]
    /\ nes.cfg = SubSeq(f.hdr, 5, 9) /\ ~nes.ppu /\ nes.halted
    /\ prg > 0 => <<nes.regs[0], nes.regs[1]>> = SubSeq(f.body, prg - 3, prg - 2)

(* The raw dialog shows for an echo the very digits that were typed, after *)
(* parsing, sending, answering and formatting (nesdbg.cpp:354-430).        *)
Digits(text) == SelectSeq(text, LAMBDA c : c # Blank)
ShowsTyped ==
  (job.then = "raw" /\ Ended /\ ~broken /\ CreateObjFromString(job.of).op = "Echo") =>
    Digits(shown') = SubSeq(Digits(job.of), 7, Len(Digits(job.of)))
RawDialogIsFaithful == [][job' = NoJob => ShowsTyped]_dbgVars

(* "Returns control to the lua script once the NES CPU is halted"          *)
(* (scriptmgr.cpp:418): when the PC takes the machine for halted and       *)
(* nothing is on its way, it is.                                           *)
HeldIsHalted == (held /\ ~broken /\ sent = <<>> /\ cur = NoCmd) => nes.halted

(* The counts of the test dialog are those of what the scripts returned,   *)
(* none left out, and the dialog is free again only when all have run      *)
(* (scriptmgr.cpp:113-140, scriptmgrdlg.cpp:109-267).                      *)
Ends(set) == Cardinality({i \in DOMAIN tally.really : tally.really[i] \in set})
TallyIsExact ==
  /\ tally.pass = Ends({"pass"}) /\ tally.fail = Ends({"fail"})
  /\ tally.error = Ends({"error", "lua", "mute"})
  /\ tally.pass + tally.fail + tally.error = tally.done
  /\ app = "test" => tally.done = tally.cnt

(* No handler hangs, also when the line damaged a byte and HCI waits for   *)
(* the rest of a packet that will not come (serialcomm.cpp:111-118).       *)
CallsReturn == [](job # NoJob => <>(job = NoJob))

(* What the PC knows about the processor is true, and the interface takes  *)
(* commands exactly while it is halted (scriptmgr.cpp:411-435, hci.v:188). *)
HaltIsKnown == DbgTypeOK /\ HeldIsHalted
=============================================================================
