----------------------------- MODULE MmcProofs -----------------------------
(***************************************************************************)
(* The card driver, for every timeout and every length of a call: what it  *)
(* reports of a write or a read is true, and no card ever gets an address  *)
(* in the other card type's unit.                                          *)
(*                                                                         *)
(* None of this is inductive as it stands.  MmcInv adds which call may be  *)
(* at which place of the driver, how the block counters move together, in  *)
(* which mode a card is while the driver sends, and what disk_initialize   *)
(* has found out so far about a card that is ready.                        *)
(***************************************************************************)
EXTENDS Mmc, TLAPS

(* The place in a caller of send_cmd: where the driver is, or goes on.     *)
At == IF pc = "select" THEN then ELSE pc

InitPlaces == {"cmd0", "cmd8", "type", "loop", "looped", "last", "finish"}
ReadPlaces == {"reading", "token", "block", "stopped"}
WritePlaces == {"announced", "writing", "send", "stop"}
Places == InitPlaces \cup ReadPlaces \cup WritePlaces
          \cup {"idle", "off", "polled", "sync", "register", "value"}
ReturnPlaces == {"cmd0", "cmd8", "type", "looped", "last", "polled", "register",
                 "reading", "stopped", "announced", "writing"}
Ops == {"init", "poll", "read", "write"} \cup Ioctls
Results == {"NONE", "OK", "NOTRDY", "ERROR", "PARERR"}
Resps == {"ok", "idle", "err", "none"}
Modes == {"cmd", "rd", "rdm", "reg", "wr", "wrm"}
Cards == [kind : Kinds, phase : {"native", "idle", "ready"}, mode : Modes, busy : BOOLEAN,
          mine : BOOLEAN]

DriverTypes ==
  /\ pc \in Places \cup {"select"} /\ then \in Places
  /\ call \in [op : Ops, count : 0 .. MAX_COUNT] /\ res \in Results
  /\ ty \in {0, 1, 2, 4, 12} /\ CardType \in {0, 1, 2, 4, 12}
  /\ cmd \in Commands /\ acmd \in AppCommands \cup {"none"} /\ resp \in Resps

FlagTypes == noinit \in BOOLEAN /\ pulled \in BOOLEAN
TimerTypes == Timer1 \in Nat /\ Timer2 \in Nat
CountTypes == count \in 0 .. MAX_COUNT /\ done \in 0 .. MAX_COUNT

(* Which call the driver is executing at each place, and the places that   *)
(* wait for send_cmd.                                                      *)
PlaceFitsCall ==
  /\ At \in InitPlaces => call.op = "init"
  /\ At = "off" => call.op \in {"init", "power_off"}
  /\ At = "polled" => call.op \in {"poll", "ocr"}
  /\ At \in ReadPlaces => call.op = "read"
  /\ At \in WritePlaces => call.op = "write"
  /\ At = "sync" => call.op = "sync"
  /\ At \in {"register", "value"} => call.op \in Registers
  /\ pc = "select" => then \in ReturnPlaces

(* The command that is being sent for each place.                          *)
InitSends ==
  pc = "select" =>
    /\ then = "cmd0" => cmd = "CMD0" /\ acmd = "none"
    /\ then = "cmd8" => cmd = "CMD8" /\ acmd = "none"
    /\ then = "type" => {cmd, acmd} \subseteq {"CMD55", "ACMD41", "none"}
    /\ then = "looped" =>
         CASE ty = 4 -> {cmd, acmd} \subseteq {"CMD55", "ACMD41H", "none"}
           [] ty = 2 -> {cmd, acmd} \subseteq {"CMD55", "ACMD41", "none"}
           [] ty = 1 -> cmd = "CMD1" /\ acmd = "none"
           [] OTHER -> FALSE
    /\ then = "last" => cmd \in {"CMD58", "CMD16"} /\ acmd = "none"
    /\ then \notin InitPlaces =>
         {cmd, acmd} \cap {"CMD0", "CMD1", "ACMD41", "ACMD41H"} = {}
DataSends ==
  pc = "select" =>
    /\ then = "writing" =>
         cmd = (IF call.count = 1 THEN "CMD24" ELSE "CMD25") /\ acmd = "none"
    /\ then = "reading" => cmd \in {"CMD17", "CMD18"} /\ acmd = "none"
    /\ {cmd, acmd} \cap {"CMD17", "CMD18", "CMD24", "CMD25"} # {}
         => then \in {"reading", "writing"}

(* The locals of disk_read and disk_write: what is left and what was moved *)
(* add up to the call.  A read falls behind by the block under way when    *)
(* the card was pulled, and no further token is found then.                *)
CountersAddUp ==
  /\ call.op = "write" /\ At \in WritePlaces => done + count = call.count
  /\ call.op = "read" /\ At \in ReadPlaces =>
       \/ done + count = call.count
       \/ /\ pulled /\ done + count = call.count - 1
          /\ At = "stopped" \/ (At = "token" /\ card.mode \notin {"rd", "rdm"})
  /\ At \in {"announced", "writing", "send", "reading", "token", "block"} => count > 0
  /\ At \in {"announced", "stop"} => call.count # 1

(* While disk_write sends, the card is in the mode its command opened, or  *)
(* a fresh card is there that accepts nothing.  While disk_read receives,  *)
(* a card that streams does so for the command of this call.               *)
SendMode == IF call.count = 1 THEN "wr" ELSE "wrm"
ModeFits ==
  /\ pc = "writing" /\ resp = "ok" => card.mode \in {"cmd", SendMode}
  /\ pc \in {"send", "stop"} => card.mode \in {"cmd", SendMode}
  /\ pc = "block" /\ ~pulled => card.mode \in {"rd", "rdm"}
  /\ pc \in {"token", "block"} \/ (pc = "reading" /\ resp = "ok")
       => (card.mode \in {"rd", "rdm"} => card.mine)

(* What disk_initialize knows: a card that is ready answered the command   *)
(* of its type, and only ACMD41 with HCS makes a block addressed card      *)
(* ready.                                                                  *)
Unit(t) == card.phase = "ready" => (t = 12 <=> card.kind = "SDHC")
TypeIsLearnt ==
  /\ pc = "cmd0" /\ resp = "idle" => card.phase # "ready"
  /\ At = "cmd8" => card.phase # "ready"
  /\ At = "type" => Unit(0)
  /\ At \in {"loop", "looped", "last"} => ty \in {1, 2, 4} /\ (ty # 4 => Unit(ty))
  /\ At = "finish" /\ ty # 0 => Unit(ty)

(* Outside disk_initialize a ready card is addressed in its own unit.      *)
UnitIsKnown == At \notin InitPlaces \cup {"off"} /\ ~noinit => Unit(CardType)
NotInitialised ==
  pc = "select" /\ {cmd, acmd} \cap {"CMD17", "CMD18", "CMD24", "CMD25"} # {} => ~noinit

MmcInv ==
  /\ DriverTypes /\ FlagTypes /\ TimerTypes /\ CountTypes /\ card \in Cards
  /\ PlaceFitsCall /\ InitSends /\ DataSends /\ CountersAddUp /\ ModeFits
  /\ TypeIsLearnt /\ UnitIsKnown /\ NotInitialised
  /\ WriteIsAccepted /\ WriteIsClosed /\ SyncIsStored /\ ReadIsGenuine

-----------------------------------------------------------------------------
(* What a card may answer to a command it executes, and what becomes of it. *)
LEMMA AnswerFacts ==
  ASSUME NEW m \in Commands, NEW c \in Cards, NEW r \in Answers(m, c)
  PROVE  /\ r[1] \in Resps /\ r[2] \in Cards /\ r[2].kind = c.kind
         /\ r[2].phase = "ready" /\ c.phase # "ready" =>
              m = "ACMD41H" \/ (m \in {"ACMD41", "CMD1"} /\ c.kind # "SDHC")
         /\ r[2].mode \notin {c.mode, "reg"} =>
              m \in {"CMD17", "CMD18", "CMD24", "CMD25"} /\ c.phase = "ready"
         /\ m = "CMD24" /\ r[1] = "ok" => r[2].mode = "wr"
         /\ m = "CMD25" /\ r[1] = "ok" => r[2].mode = "wrm"
         /\ m \in {"CMD17", "CMD18"} /\ r[1] = "ok" => r[2].mine
<1>1. CASE m \in DOMAIN Open /\ c.phase = "ready"
  <2>1. r = <<"ok", [c EXCEPT !.mode = Open[m], !.mine = TRUE]>>
    BY <1>1 DEF Answers, Open
  <2>2. /\ m \in {"CMD17", "CMD18", "CMD24", "CMD25"} \/ Open[m] = "reg"
        /\ Open[m] \in Modes
        /\ m = "CMD24" => Open[m] = "wr"
        /\ m = "CMD25" => Open[m] = "wrm"
    BY <1>1 DEF Open, Modes
  <2> QED BY <1>1, <2>1, <2>2 DEF Cards, Resps
<1>2. CASE ~(m \in DOMAIN Open /\ c.phase = "ready")
  <2>1. m \in {"CMD17", "CMD18", "CMD24", "CMD25"} => r[1] = "err"
    BY <1>2 DEF Answers, Open, AppCommands
  <2>2. r[1] \in Resps /\ (r[2] = c \/ r[2] = [c EXCEPT !.phase = "ready"])
    BY <1>2 DEF Answers, Phase, Resps
  <2>3. r[2] # c => m = "ACMD41H" \/ (m \in {"ACMD41", "CMD1"} /\ c.kind # "SDHC")
    BY <1>2 DEF Answers, Phase
  <2> QED BY <2>1, <2>2, <2>3 DEF Cards, Kinds
<1> QED BY <1>1, <1>2

(* The same of a command that may get lost on the way, or its reply.       *)
LEMMA ReplyFacts ==
  ASSUME NEW m \in Commands, NEW c \in Cards, NEW r \in Replies(m, c)
  PROVE  /\ r[1] \in Resps /\ r[2] \in Cards /\ r[2].kind = c.kind
         /\ r[2].phase = "ready" /\ c.phase # "ready" =>
              m = "ACMD41H" \/ (m \in {"ACMD41", "CMD1"} /\ c.kind # "SDHC")
         /\ r[2].mode \notin {c.mode, "cmd", "reg"} =>
              m \in {"CMD17", "CMD18", "CMD24", "CMD25"} /\ c.phase = "ready"
         /\ m = "CMD0" /\ r[1] = "idle" => r[2].phase # "ready"
         /\ m = "CMD24" /\ r[1] = "ok" => r[2].mode = "wr"
         /\ m = "CMD25" /\ r[1] = "ok" => r[2].mode = "wrm"
         /\ m \in {"CMD17", "CMD18"} /\ r[1] = "ok" => r[2].mine
<1> DEFINE d == [c EXCEPT !.mode = "cmd"]
           z == [Inserted(c.kind) EXCEPT !.phase = "idle"]
           Fits(x) ==
             /\ x[1] \in Resps /\ x[2] \in Cards /\ x[2].kind = c.kind
             /\ x[2].phase = "ready" /\ c.phase # "ready" =>
                  m = "ACMD41H" \/ (m \in {"ACMD41", "CMD1"} /\ c.kind # "SDHC")
             /\ x[2].mode \notin {c.mode, "cmd", "reg"} =>
                  m \in {"CMD17", "CMD18", "CMD24", "CMD25"} /\ c.phase = "ready"
             /\ m = "CMD0" /\ x[1] = "idle" => x[2].phase # "ready"
             /\ m = "CMD24" /\ x[1] = "ok" => x[2].mode = "wr"
             /\ m = "CMD25" /\ x[1] = "ok" => x[2].mode = "wrm"
             /\ m \in {"CMD17", "CMD18"} /\ x[1] = "ok" => x[2].mine
           exec == IF c.kind = "none" THEN {}
                   ELSE IF m = "CMD0" THEN {<<"idle", z>>}
                   ELSE IF c.phase = "native" THEN {}
                   ELSE IF c.mode = "cmd" THEN Answers(m, c)
                   ELSE IF m = "CMD12" /\ c.mode = "rdm" THEN {<<"ok", d>>}
                   ELSE {<<"err", c>>} \cup (IF c.mode \in {"rd", "reg"}
                                             THEN Answers(m, d) ELSE {})
<1>1. d \in Cards /\ d.kind = c.kind /\ d.phase = c.phase /\ d.mode = "cmd"
  BY DEF Cards, Modes
<1>2. z \in Cards /\ z.kind = c.kind /\ z.mode = "cmd" /\ z.phase = "idle"
  BY DEF Inserted, Cards, Modes
<1>3. r \in exec \cup {<<"none", c>>} \cup {<<"none", x[2]>> : x \in exec}
  BY DEF Replies
<1> HIDE DEF d, z
<1>4. ASSUME NEW x \in exec PROVE Fits(x)
  <2>1. CASE m = "CMD0"
    BY <1>2, <1>4, <2>1 DEF Resps
  <2>2. CASE m # "CMD0" /\ c.mode = "cmd"
    BY <1>4, <2>2, AnswerFacts
  <2>3. CASE m = "CMD12" /\ c.mode = "rdm"
    BY <1>1, <1>4, <2>3 DEF Resps
  <2>4. CASE m # "CMD0" /\ c.mode # "cmd" /\ ~(m = "CMD12" /\ c.mode = "rdm")
    <3>1. x = <<"err", c>> \/ x \in Answers(m, d)
      BY <1>4, <2>4
    <3>2. CASE x = <<"err", c>>
      BY <2>4, <3>2 DEF Resps
    <3>3. CASE x \in Answers(m, d)
      BY <1>1, <2>4, <3>3, AnswerFacts
    <3> QED BY <3>1, <3>2, <3>3
  <2> QED BY <2>1, <2>2, <2>3, <2>4
<1> HIDE DEF exec
<1>5. CASE r \in exec
  BY <1>4, <1>5
<1>6. CASE r = <<"none", c>>
  BY <1>6 DEF Resps
<1>7. CASE r \in {<<"none", x[2]>> : x \in exec}
  BY <1>4, <1>7 DEF Resps
<1> QED
  BY <1>3, <1>5, <1>6, <1>7

(* What disk_ioctl does with a function code, by the outcome.              *)
IoctlDoes(op) ==
  \/ op = "power_off" /\ Waits("off")
  \/ op = "sync" /\ ~noinit /\ Waits("sync")
  \/ /\ op \in Registers /\ ~noinit /\ UNCHANGED res
     /\ \E c \in {"ACMD13", "CMD10", "CMD9"} : send_cmd(c, "register")
  \/ op = "ocr" /\ ~noinit /\ send_cmd("CMD58", "polled") /\ UNCHANGED res
  \/ op # "sync" /\ \E r \in {"OK", "PARERR"} : AtOnce(r)
  \/ AtOnce("NOTRDY")

LEMMA IoctlCases ==
  ASSUME disk_ioctl
  PROVE  \E op \in Ioctls : Begin(op, 0) /\ IoctlDoes(op)
<1>1. PICK op \in Ioctls :
        /\ Begin(op, 0)
        /\ CASE op = "power_off" -> Waits("off")
             [] op = "power_on" -> AtOnce("OK")
             [] op = "power_bad" -> AtOnce("PARERR")
             [] op \notin Powers /\ noinit -> AtOnce("NOTRDY")
             [] op = "sync" /\ ~noinit -> Waits("sync")
             [] op \in Registers /\ ~noinit -> send_cmd(RegisterCommand(op), "register") /\ UNCHANGED res
             [] op = "ocr" /\ ~noinit -> send_cmd("CMD58", "polled") /\ UNCHANGED res
             [] op = "known" /\ ~noinit -> AtOnce("OK")
             [] op = "other" /\ ~noinit -> AtOnce("PARERR")
  BY DEF disk_ioctl
<1> USE DEF Powers, Registers, Ioctls, IoctlDoes
<1>2. CASE op = "power_off"
  BY <1>1, <1>2
<1>3. CASE op = "power_on"
  BY <1>1, <1>3
<1>4. CASE op = "power_bad"
  BY <1>1, <1>4
<1>5. CASE op \notin Powers /\ noinit
  BY <1>1, <1>5
<1>6. CASE op = "sync" /\ ~noinit
  BY <1>1, <1>6
<1>7. CASE op \in Registers /\ ~noinit
  BY <1>1, <1>7 DEF RegisterCommand
<1>8. CASE op = "ocr" /\ ~noinit
  BY <1>1, <1>8
<1>9. CASE op \in {"known", "other"} /\ ~noinit
  BY <1>1, <1>9
<1> QED
  BY <1>2, <1>3, <1>4, <1>5, <1>6, <1>7, <1>8, <1>9

(* The type invariant, by who disturbs it: the driver's registers ...       *)
LEMMA DriverTypesStep ==
  ASSUME MmcInv, [MmcNext]_mmcVars
  PROVE  DriverTypes'
<1> USE MmcAssumption DEF MmcInv, DriverTypes, Places, InitPlaces, ReadPlaces, WritePlaces, Results,
      Ops, Ioctls, Registers, Powers, AppCommands, Commands, Resps
<1>1. CASE disk_initialize \/ disk_poll \/ disk_read \/ disk_write
BY <1>1 DEF disk_initialize, Begin, send_cmd, disk_poll, disk_read, NotReady, Return, sendVars,
     disk_write
<1>2. CASE disk_ioctl
  <2>1. PICK op \in Ioctls : Begin(op, 0) /\ IoctlDoes(op)
    BY <1>2, IoctlCases
  <2>2. call' \in [op : Ops, count : 0 .. MAX_COUNT] /\ UNCHANGED <<ty, resp, CardType>>
    BY <2>1 DEF Begin
  <2>3. pc' \in Places \cup {"select"} /\ then' \in Places /\ res' \in Results
    BY <2>1 DEF IoctlDoes, Waits, AtOnce, Return, send_cmd, sendVars
  <2>4. cmd' \in Commands /\ acmd' \in AppCommands \cup {"none"}
    BY <2>1 DEF IoctlDoes, Waits, AtOnce, Return, send_cmd, sendVars
  <2> QED BY <2>2, <2>3, <2>4
<1>3. CASE SelectReady
BY <1>3, ReplyFacts DEF SelectReady
<1>4. CASE SelectTimeout \/ Polled \/ Synced \/ Register \/ RegisterValue
BY <1>4 DEF SelectTimeout, Polled, Return, sendVars, Synced, LineFF, Register, RegisterValue
<1>5. CASE Cmd0 \/ Cmd8 \/ Type \/ Looped \/ Last \/ Finish \/ PowerOff
BY <1>5 DEF Cmd0, send_cmd, GiveUp, GoOn, initRest, sendVars, Cmd8, Type, Looped, Last, Finish,
     Return, PowerOff
<1>6. CASE Loop
BY <1>6 DEF Loop, InitCommand, send_cmd, GiveUp, GoOn, initRest, sendVars, TypeIsLearnt, At
<1>7. CASE Reading \/ TokenFound \/ TokenFails \/ Block \/ Stopped
BY <1>7 DEF Reading, Return, dataRest, sendVars, TokenFound, TokenFails, Fails, send_cmd, Block,
     Stopped
<1>8. CASE Announced \/ Writing \/ SendBlock \/ SendFails \/ StopWrite
BY <1>8 DEF Announced, send_cmd, dataRest, Writing, Return, SendBlock, SendFails, Fails, sendVars,
     StopWrite
<1>9. CASE Tick1 \/ Tick2 \/ CardDone
BY <1>9 DEF Tick1, driverVars, Tick2, CardDone
<1>10. CASE Swap
BY <1>10 DEF Swap, Inserted, driverVars
<1>11. CASE UNCHANGED mmcVars
BY <1>11 DEF mmcVars, driverVars
<1> QED BY <1>1, <1>2, <1>3, <1>4, <1>5, <1>6, <1>7, <1>8, <1>9, <1>10, <1>11 DEF MmcNext, Work

(* ... the flags and the timers ...                                        *)
LEMMA FlagTypesStep ==
  ASSUME MmcInv, [MmcNext]_mmcVars
  PROVE  (FlagTypes /\ TimerTypes)'
<1> USE MmcAssumption DEF MmcInv, FlagTypes, TimerTypes
<1>1. CASE disk_initialize \/ disk_poll \/ disk_read \/ disk_write
BY <1>1 DEF disk_initialize, Begin, send_cmd, disk_poll, disk_read, NotReady, Return, sendVars,
     disk_write
<1>2. CASE disk_ioctl
BY <1>2, IoctlCases DEF IoctlDoes, Begin, send_cmd, Waits, AtOnce, Return, sendVars, Powers,
     Registers, Ioctls
<1>3. CASE SelectReady
BY <1>3 DEF SelectReady
<1>4. CASE SelectTimeout \/ Polled \/ Synced \/ Register \/ RegisterValue
BY <1>4 DEF SelectTimeout, Polled, Return, sendVars, Synced, LineFF, Register, RegisterValue
<1>5. CASE Cmd0 \/ Cmd8 \/ Type \/ Loop \/ Looped \/ Last \/ Finish \/ PowerOff
BY <1>5 DEF Cmd0, send_cmd, GiveUp, GoOn, initRest, sendVars, Cmd8, Type, Loop, InitCommand, Looped,
     Last, Finish, Return, PowerOff
<1>6. CASE Reading \/ TokenFound \/ TokenFails \/ Block \/ Stopped
BY <1>6 DEF Reading, Return, dataRest, sendVars, TokenFound, TokenFails, Fails, send_cmd, Block,
     Stopped
<1>7. CASE Announced \/ Writing \/ SendBlock \/ SendFails \/ StopWrite
BY <1>7 DEF Announced, send_cmd, dataRest, Writing, Return, SendBlock, SendFails, Fails, sendVars,
     StopWrite
<1>8. CASE Tick1 \/ Tick2 \/ CardDone
BY <1>8 DEF Tick1, driverVars, Tick2, CardDone
<1>9. CASE Swap
BY <1>9 DEF Swap, Inserted, driverVars
<1>10. CASE UNCHANGED mmcVars
BY <1>10 DEF mmcVars, driverVars
<1> QED BY <1>1, <1>2, <1>3, <1>4, <1>5, <1>6, <1>7, <1>8, <1>9, <1>10 DEF MmcNext, Work

(* ... the block counters, which need that a transfer adds up ...          *)
LEMMA CountTypesStep ==
  ASSUME MmcInv, [MmcNext]_mmcVars
  PROVE  CountTypes'
<1> USE MmcAssumption DEF MmcInv, DriverTypes, FlagTypes, CountTypes, CountersAddUp, PlaceFitsCall,
      ReturnPlaces, At, ReadPlaces, WritePlaces, Places, InitPlaces
<1>1. CASE disk_initialize \/ disk_poll \/ disk_read \/ disk_write
BY <1>1 DEF disk_initialize, Begin, send_cmd, disk_poll, disk_read, NotReady, Return, sendVars,
     disk_write
<1>2. CASE disk_ioctl
  <2>1. PICK op \in Ioctls : Begin(op, 0) /\ IoctlDoes(op)
    BY <1>2, IoctlCases
  <2> QED BY <2>1 DEF Begin
<1>3. CASE SelectReady
BY <1>3 DEF SelectReady
<1>4. CASE SelectTimeout \/ Polled \/ Synced \/ Register \/ RegisterValue
BY <1>4 DEF SelectTimeout, Polled, Return, sendVars, Synced, LineFF, Register, RegisterValue
<1>5. CASE Cmd0 \/ Cmd8 \/ Type \/ Loop \/ Looped \/ Last \/ Finish \/ PowerOff
BY <1>5 DEF Cmd0, send_cmd, GiveUp, GoOn, initRest, sendVars, Cmd8, Type, Loop, InitCommand, Looped,
     Last, Finish, Return, PowerOff
<1>6. CASE Reading \/ TokenFound \/ TokenFails \/ Block \/ Stopped
BY <1>6 DEF Reading, Return, dataRest, sendVars, TokenFound, TokenFails, Fails, send_cmd, Block,
     Stopped
<1>7. CASE Announced \/ Writing \/ SendBlock \/ SendFails \/ StopWrite
BY <1>7 DEF Announced, send_cmd, dataRest, Writing, Return, SendBlock, SendFails, Fails, sendVars,
     StopWrite
<1>8. CASE Tick1 \/ Tick2 \/ CardDone
BY <1>8 DEF Tick1, driverVars, Tick2, CardDone
<1>9. CASE Swap
BY <1>9 DEF Swap, Inserted, driverVars
<1>10. CASE UNCHANGED mmcVars
BY <1>10 DEF mmcVars, driverVars
<1> QED BY <1>1, <1>2, <1>3, <1>4, <1>5, <1>6, <1>7, <1>8, <1>9, <1>10 DEF MmcNext, Work

(* ... and the card.                                                       *)
LEMMA CardTypesStep ==
  ASSUME MmcInv, [MmcNext]_mmcVars
  PROVE  (card \in Cards)'
<1> USE MmcAssumption DEF MmcInv, Cards, Modes, Kinds
<1>1. CASE disk_initialize \/ disk_poll \/ disk_read \/ disk_write
BY <1>1 DEF disk_initialize, Begin, send_cmd, disk_poll, disk_read, NotReady, Return, sendVars,
     disk_write
<1>2. CASE disk_ioctl
BY <1>2, IoctlCases DEF IoctlDoes, Begin, send_cmd, Waits, AtOnce, Return, sendVars, Powers,
     Registers, Ioctls
<1>3. CASE SelectReady
BY <1>3, ReplyFacts DEF SelectReady, DriverTypes
<1>4. CASE SelectTimeout \/ Polled \/ Synced \/ Register \/ RegisterValue
BY <1>4 DEF SelectTimeout, Polled, Return, sendVars, Synced, LineFF, Register, RegisterValue
<1>5. CASE Cmd0 \/ Cmd8 \/ Type \/ Loop \/ Looped \/ Last \/ Finish \/ PowerOff
BY <1>5 DEF Cmd0, send_cmd, GiveUp, GoOn, initRest, sendVars, Cmd8, Type, Loop, InitCommand, Looped,
     Last, Finish, Return, PowerOff
<1>6. CASE Reading \/ TokenFound \/ TokenFails \/ Block \/ Stopped
BY <1>6 DEF Reading, Return, dataRest, sendVars, TokenFound, TokenFails, Fails, send_cmd, Block,
     Stopped
<1>7. CASE Announced \/ Writing \/ SendBlock \/ SendFails \/ StopWrite
BY <1>7 DEF Announced, send_cmd, dataRest, Writing, Return, SendBlock, SendFails, Fails, sendVars,
     StopWrite
<1>8. CASE Tick1 \/ Tick2 \/ CardDone
BY <1>8 DEF Tick1, driverVars, Tick2, CardDone
<1>9. CASE Swap
BY <1>9 DEF Swap, Inserted, driverVars
<1>10. CASE UNCHANGED mmcVars
BY <1>10 DEF mmcVars, driverVars
<1> QED BY <1>1, <1>2, <1>3, <1>4, <1>5, <1>6, <1>7, <1>8, <1>9, <1>10 DEF MmcNext, Work

(* Each place of the driver is reached in its own call only.               *)
LEMMA PlaceStep ==
  ASSUME MmcInv, [MmcNext]_mmcVars
  PROVE  PlaceFitsCall'
<1> USE MmcAssumption DEF MmcInv, DriverTypes, PlaceFitsCall, ReturnPlaces, At, ReadPlaces,
      WritePlaces, Places, InitPlaces
<1>1. CASE disk_initialize \/ disk_poll \/ disk_read \/ disk_write
BY <1>1 DEF disk_initialize, Begin, send_cmd, disk_poll, disk_read, NotReady, Return, sendVars,
     disk_write
<1>2. CASE disk_ioctl
  <2>1. PICK op \in Ioctls : Begin(op, 0) /\ IoctlDoes(op)
    BY <1>2, IoctlCases
  <2> QED BY <2>1 DEF IoctlDoes, Begin, send_cmd, Waits, AtOnce, Return, sendVars, Powers, Registers, Ioctls
<1>3. CASE SelectReady
BY <1>3 DEF SelectReady
<1>4. CASE SelectTimeout \/ Polled \/ Synced \/ Register \/ RegisterValue
BY <1>4 DEF SelectTimeout, Polled, Return, sendVars, Synced, LineFF, Register, RegisterValue
<1>5. CASE Cmd0 \/ Cmd8 \/ Type \/ Loop \/ Looped \/ Last \/ Finish \/ PowerOff
BY <1>5 DEF Cmd0, send_cmd, GiveUp, GoOn, initRest, sendVars, Cmd8, Type, Loop, InitCommand, Looped,
     Last, Finish, Return, PowerOff
<1>6. CASE Reading \/ TokenFound \/ TokenFails \/ Block \/ Stopped
BY <1>6 DEF Reading, Return, dataRest, sendVars, TokenFound, TokenFails, Fails, send_cmd, Block,
     Stopped
<1>7. CASE Announced \/ Writing \/ SendBlock \/ SendFails \/ StopWrite
BY <1>7 DEF Announced, send_cmd, dataRest, Writing, Return, SendBlock, SendFails, Fails, sendVars,
     StopWrite
<1>8. CASE Tick1 \/ Tick2 \/ CardDone
BY <1>8 DEF Tick1, driverVars, Tick2, CardDone
<1>9. CASE Swap
BY <1>9 DEF Swap, Inserted, driverVars
<1>10. CASE UNCHANGED mmcVars
BY <1>10 DEF mmcVars, driverVars
<1> QED BY <1>1, <1>2, <1>3, <1>4, <1>5, <1>6, <1>7, <1>8, <1>9, <1>10 DEF MmcNext, Work

(* Only disk_initialize sends what makes a card ready, and transfers are    *)
(* only started while STA_NOINIT is clear (mmc.c:392-530).                 *)
LEMMA SendsStep ==
  ASSUME MmcInv, [MmcNext]_mmcVars
  PROVE  (InitSends /\ NotInitialised)'
<1> USE MmcAssumption DEF MmcInv, DriverTypes, FlagTypes, TypeIsLearnt, InitSends, NotInitialised,
      AppCommands, ReturnPlaces, At, ReadPlaces, WritePlaces, Places, InitPlaces
<1>1. CASE disk_initialize \/ disk_poll
BY <1>1 DEF disk_initialize, Begin, send_cmd, disk_poll
<1>2. CASE disk_read
BY <1>2 DEF disk_read, Begin, send_cmd, NotReady, Return, sendVars
<1>3. CASE disk_write
BY <1>3 DEF disk_write, Begin, send_cmd, NotReady, Return, sendVars
<1>4. CASE disk_ioctl
BY <1>4, IoctlCases DEF IoctlDoes, Begin, send_cmd, Waits, AtOnce, Return, sendVars, Powers,
     Registers, Ioctls
<1>5. CASE SelectReady
BY <1>5 DEF SelectReady
<1>6. CASE SelectTimeout
BY <1>6 DEF SelectTimeout
<1>7. CASE Polled \/ Synced \/ Register \/ RegisterValue
BY <1>7 DEF Polled, Return, sendVars, Synced, LineFF, Register, RegisterValue
<1>8. CASE Cmd0 \/ Cmd8 \/ Type
BY <1>8 DEF Cmd0, send_cmd, GiveUp, GoOn, initRest, sendVars, Cmd8, Type
<1>9. CASE Loop
BY <1>9 DEF Loop, InitCommand, send_cmd, GiveUp, GoOn, initRest, sendVars
<1>10. CASE Looped \/ Last
BY <1>10 DEF Looped, send_cmd, GiveUp, GoOn, initRest, sendVars, Last
<1>11. CASE Finish \/ PowerOff
BY <1>11 DEF Finish, Return, sendVars, PowerOff
<1>12. CASE Reading \/ TokenFound \/ TokenFails \/ Stopped
BY <1>12 DEF Reading, Return, dataRest, sendVars, TokenFound, TokenFails, Fails, send_cmd, Stopped
<1>13. CASE Block
BY <1>13 DEF Block, Return, send_cmd, dataRest, sendVars
<1>14. CASE Announced \/ Writing \/ SendFails
BY <1>14 DEF Announced, send_cmd, dataRest, Writing, Return, SendFails, Fails, sendVars
<1>15. CASE SendBlock
BY <1>15 DEF SendBlock, Return, dataRest
<1>16. CASE StopWrite
BY <1>16 DEF StopWrite, Return, dataRest, sendVars
<1>17. CASE Tick1 \/ Tick2 \/ CardDone
BY <1>17 DEF Tick1, driverVars, Tick2, CardDone
<1>18. CASE Swap
BY <1>18 DEF Swap, Inserted, driverVars
<1>19. CASE UNCHANGED mmcVars
BY <1>19 DEF mmcVars, driverVars
<1> QED BY <1>1, <1>2, <1>3, <1>4, <1>5, <1>6, <1>7, <1>8, <1>9, <1>10, <1>11, <1>12, <1>13, <1>14,
     <1>15, <1>16, <1>17, <1>18, <1>19 DEF MmcNext, Work

(* A transfer command is only sent by disk_read and disk_write, the single *)
(* or the multiple form as the count asks for (mmc.c:472-480,511-520).     *)
LEMMA DataSendsStep ==
  ASSUME MmcInv, [MmcNext]_mmcVars
  PROVE  DataSends'
<1> USE MmcAssumption DEF MmcInv, DriverTypes, PlaceFitsCall, CountersAddUp, DataSends, AppCommands,
      ReturnPlaces, At, ReadPlaces, WritePlaces, Places, InitPlaces
<1>1. CASE disk_initialize \/ disk_poll
BY <1>1 DEF disk_initialize, Begin, send_cmd, disk_poll
<1>2. CASE disk_read
BY <1>2 DEF disk_read, Begin, send_cmd, NotReady, Return, sendVars
<1>3. CASE disk_write
BY <1>3 DEF disk_write, Begin, send_cmd, NotReady, Return, sendVars
<1>4. CASE disk_ioctl
BY <1>4, IoctlCases DEF IoctlDoes, Begin, send_cmd, Waits, AtOnce, Return, sendVars, Powers,
     Registers, Ioctls
<1>5. CASE SelectReady
BY <1>5 DEF SelectReady
<1>6. CASE SelectTimeout
BY <1>6 DEF SelectTimeout
<1>7. CASE Polled \/ Synced \/ Register \/ RegisterValue
BY <1>7 DEF Polled, Return, sendVars, Synced, LineFF, Register, RegisterValue
<1>8. CASE Cmd0 \/ Cmd8 \/ Type
BY <1>8 DEF Cmd0, send_cmd, GiveUp, GoOn, initRest, sendVars, Cmd8, Type
<1>9. CASE Loop
BY <1>9 DEF Loop, InitCommand, send_cmd, GiveUp, GoOn, initRest, sendVars
<1>10. CASE Looped \/ Last
BY <1>10 DEF Looped, send_cmd, GiveUp, GoOn, initRest, sendVars, Last
<1>11. CASE Finish \/ PowerOff
BY <1>11 DEF Finish, Return, sendVars, PowerOff
<1>12. CASE Reading \/ TokenFound \/ TokenFails \/ Stopped
BY <1>12 DEF Reading, Return, dataRest, sendVars, TokenFound, TokenFails, Fails, send_cmd, Stopped
<1>13. CASE Block
BY <1>13 DEF Block, Return, send_cmd, dataRest, sendVars
<1>14. CASE Announced \/ Writing \/ SendFails
BY <1>14 DEF Announced, send_cmd, dataRest, Writing, Return, SendFails, Fails, sendVars
<1>15. CASE SendBlock
BY <1>15 DEF SendBlock, Return, dataRest
<1>16. CASE StopWrite
BY <1>16 DEF StopWrite, Return, dataRest, sendVars
<1>17. CASE Tick1 \/ Tick2 \/ CardDone
BY <1>17 DEF Tick1, driverVars, Tick2, CardDone
<1>18. CASE Swap
BY <1>18 DEF Swap, Inserted, driverVars
<1>19. CASE UNCHANGED mmcVars
BY <1>19 DEF mmcVars, driverVars
<1> QED BY <1>1, <1>2, <1>3, <1>4, <1>5, <1>6, <1>7, <1>8, <1>9, <1>10, <1>11, <1>12, <1>13, <1>14,
     <1>15, <1>16, <1>17, <1>18, <1>19 DEF MmcNext, Work

(* The blocks left and the blocks moved add up to the call; only a card    *)
(* pulled inside a block leaves a read one behind, with no block to give.  *)
LEMMA CountersStep ==
  ASSUME MmcInv, [MmcNext]_mmcVars
  PROVE  CountersAddUp'
<1> USE MmcAssumption DEF MmcInv, DriverTypes, FlagTypes, CountTypes, PlaceFitsCall, CountersAddUp,
      ReturnPlaces, At, ReadPlaces, WritePlaces, Places, InitPlaces
<1>1. CASE disk_initialize \/ disk_poll
BY <1>1 DEF disk_initialize, Begin, send_cmd, disk_poll
<1>2. CASE disk_read
BY <1>2 DEF disk_read, Begin, send_cmd, NotReady, Return, sendVars
<1>3. CASE disk_write
BY <1>3 DEF disk_write, Begin, send_cmd, NotReady, Return, sendVars
<1>4. CASE disk_ioctl
BY <1>4, IoctlCases DEF IoctlDoes, Begin, send_cmd, Waits, AtOnce, Return, sendVars, Powers,
     Registers, Ioctls
<1>5. CASE SelectReady
BY <1>5 DEF SelectReady
<1>6. CASE SelectTimeout
BY <1>6 DEF SelectTimeout
<1>7. CASE Polled \/ Synced \/ Register \/ RegisterValue
BY <1>7 DEF Polled, Return, sendVars, Synced, LineFF, Register, RegisterValue
<1>8. CASE Cmd0 \/ Cmd8 \/ Type
BY <1>8 DEF Cmd0, send_cmd, GiveUp, GoOn, initRest, sendVars, Cmd8, Type
<1>9. CASE Loop
BY <1>9 DEF Loop, InitCommand, send_cmd, GiveUp, GoOn, initRest, sendVars
<1>10. CASE Looped \/ Last
BY <1>10 DEF Looped, send_cmd, GiveUp, GoOn, initRest, sendVars, Last
<1>11. CASE Finish \/ PowerOff
BY <1>11 DEF Finish, Return, sendVars, PowerOff
<1>12. CASE Reading \/ TokenFound \/ TokenFails \/ Stopped
BY <1>12 DEF Reading, Return, dataRest, sendVars, TokenFound, TokenFails, Fails, send_cmd, Stopped
<1>13. CASE Block
BY <1>13 DEF Block, Return, send_cmd, dataRest, sendVars, ModeFits
<1>14. CASE Announced \/ Writing \/ SendFails
BY <1>14 DEF Announced, send_cmd, dataRest, Writing, Return, SendFails, Fails, sendVars
<1>15. CASE SendBlock
BY <1>15 DEF SendBlock, Return, dataRest
<1>16. CASE StopWrite
BY <1>16 DEF StopWrite, Return, dataRest, sendVars
<1>17. CASE Tick1 \/ Tick2 \/ CardDone
  <2>1. card'.mode = card.mode
    BY <1>17 DEF Tick1, Tick2, CardDone, Cards
  <2>2. UNCHANGED <<pc, then, call, count, done, pulled>>
    BY <1>17 DEF Tick1, driverVars, Tick2, CardDone
  <2> QED BY <2>1, <2>2
<1>18. CASE Swap
BY <1>18 DEF Swap, Inserted, driverVars
<1>19. CASE UNCHANGED mmcVars
BY <1>19 DEF mmcVars, driverVars
<1> QED BY <1>1, <1>2, <1>3, <1>4, <1>5, <1>6, <1>7, <1>8, <1>9, <1>10, <1>11, <1>12, <1>13, <1>14,
     <1>15, <1>16, <1>17, <1>18, <1>19 DEF MmcNext, Work

(* While disk_write sends, no card is in another transfer.                 *)
LEMMA ModeStep ==
  ASSUME MmcInv, [MmcNext]_mmcVars
  PROVE  ModeFits'
<1> USE MmcAssumption DEF MmcInv, DriverTypes, FlagTypes, PlaceFitsCall, ModeFits, SendMode, Cards,
      Modes, ReturnPlaces, At, ReadPlaces, WritePlaces, Places, InitPlaces
<1>1. CASE disk_initialize \/ disk_poll
BY <1>1 DEF disk_initialize, Begin, send_cmd, disk_poll
<1>2. CASE disk_read
BY <1>2 DEF disk_read, Begin, send_cmd, NotReady, Return, sendVars
<1>3. CASE disk_write
BY <1>3 DEF disk_write, Begin, send_cmd, NotReady, Return, sendVars
<1>4. CASE disk_ioctl
BY <1>4, IoctlCases DEF IoctlDoes, Begin, send_cmd, Waits, AtOnce, Return, sendVars, Powers,
     Registers, Ioctls
<1>5. CASE SelectReady
BY <1>5, ReplyFacts DEF SelectReady, DataSends
<1>6. CASE SelectTimeout
BY <1>6 DEF SelectTimeout
<1>7. CASE Polled \/ Synced \/ Register \/ RegisterValue
BY <1>7 DEF Polled, Return, sendVars, Synced, LineFF, Register, RegisterValue
<1>8. CASE Cmd0 \/ Cmd8 \/ Type
BY <1>8 DEF Cmd0, send_cmd, GiveUp, GoOn, initRest, sendVars, Cmd8, Type
<1>9. CASE Loop
BY <1>9 DEF Loop, InitCommand, send_cmd, GiveUp, GoOn, initRest, sendVars
<1>10. CASE Looped \/ Last
BY <1>10 DEF Looped, send_cmd, GiveUp, GoOn, initRest, sendVars, Last
<1>11. CASE Finish \/ PowerOff
BY <1>11 DEF Finish, Return, sendVars, PowerOff
<1>12. CASE Reading \/ TokenFound \/ TokenFails \/ Stopped
BY <1>12 DEF Reading, Return, dataRest, sendVars, TokenFound, TokenFails, Fails, send_cmd, Stopped
<1>13. CASE Block
BY <1>13 DEF Block, Return, send_cmd, dataRest, sendVars
<1>14. CASE Announced \/ Writing \/ SendFails
BY <1>14 DEF Announced, send_cmd, dataRest, Writing, Return, SendFails, Fails, sendVars
<1>15. CASE SendBlock
BY <1>15 DEF SendBlock, Return, dataRest
<1>16. CASE StopWrite
BY <1>16 DEF StopWrite, Return, dataRest, sendVars
<1>17. CASE Tick1 \/ Tick2 \/ CardDone
BY <1>17 DEF Tick1, driverVars, Tick2, CardDone
<1>18. CASE Swap
BY <1>18 DEF Swap, Inserted, driverVars
<1>19. CASE UNCHANGED mmcVars
BY <1>19 DEF mmcVars, driverVars
<1> QED BY <1>1, <1>2, <1>3, <1>4, <1>5, <1>6, <1>7, <1>8, <1>9, <1>10, <1>11, <1>12, <1>13, <1>14,
     <1>15, <1>16, <1>17, <1>18, <1>19 DEF MmcNext, Work

(* What disk_initialize finds out about the card stays true of any card    *)
(* that is ready: a swapped one is not, until the next CMD0.               *)
LEMMA LearntStep ==
  ASSUME MmcInv, [MmcNext]_mmcVars
  PROVE  TypeIsLearnt'
<1> USE MmcAssumption DEF MmcInv, DriverTypes, TypeIsLearnt, Unit, Cards, Modes, ReturnPlaces, At,
      ReadPlaces, WritePlaces, Places, InitPlaces
<1>1. CASE disk_initialize \/ disk_poll
BY <1>1 DEF disk_initialize, Begin, send_cmd, disk_poll
<1>2. CASE disk_read
BY <1>2 DEF disk_read, Begin, send_cmd, NotReady, Return, sendVars
<1>3. CASE disk_write
BY <1>3 DEF disk_write, Begin, send_cmd, NotReady, Return, sendVars
<1>4. CASE disk_ioctl
BY <1>4, IoctlCases DEF IoctlDoes, Begin, send_cmd, Waits, AtOnce, Return, sendVars, Powers,
     Registers, Ioctls
<1>5. CASE SelectReady
  <2>1. PICK r \in Replies(cmd, card) :
           /\ resp' = r[1] /\ card' = r[2]
           /\ \/ pc' = "select" /\ acmd # "none"
              \/ pc' = then
    BY <1>5 DEF SelectReady
  <2>2. /\ r[2].kind = card.kind
        /\ r[2].phase = "ready" /\ card.phase # "ready" =>
             cmd = "ACMD41H" \/ (cmd \in {"ACMD41", "CMD1"} /\ card.kind # "SDHC")
        /\ cmd = "CMD0" /\ r[1] = "idle" => r[2].phase # "ready"
    BY <2>1, ReplyFacts
  <2>3. pc = "select" /\ UNCHANGED <<ty, then, noinit, CardType>>
    BY <1>5 DEF SelectReady
  <2> HIDE DEF Cards
  <2>4. CASE then = "cmd0"
    BY <2>1, <2>2, <2>3, <2>4 DEF InitSends
  <2>5. CASE then \in {"cmd8", "type"}
    BY <2>1, <2>2, <2>3, <2>5 DEF InitSends
  <2>6. CASE then \in {"looped", "last"}
    <3>1. ty \in {1, 2, 4} /\ (ty # 4 => Unit(ty))
      BY <2>3, <2>6
    <3>2. ty # 4 => cmd # "ACMD41H"
      BY <2>3, <2>6, <3>1 DEF InitSends
    <3>3. ty' \in {1, 2, 4} /\ (ty' # 4 => Unit(ty)')
      BY <2>1, <2>2, <2>3, <3>1, <3>2
    <3> QED BY <2>1, <2>3, <2>6, <3>3
  <2>7. CASE then \in ReturnPlaces \ {"cmd0", "cmd8", "type", "looped", "last"}
    BY <2>1, <2>3, <2>7
  <2> QED BY <2>3, <2>4, <2>5, <2>6, <2>7 DEF PlaceFitsCall
<1>6. CASE SelectTimeout
BY <1>6 DEF SelectTimeout
<1>7. CASE Polled \/ Synced \/ Register \/ RegisterValue
BY <1>7 DEF Polled, Return, sendVars, Synced, LineFF, Register, RegisterValue
<1>8. CASE Cmd0 \/ Cmd8 \/ Type
BY <1>8 DEF Cmd0, send_cmd, GiveUp, GoOn, initRest, sendVars, Cmd8, Type
<1>9. CASE Loop
BY <1>9 DEF Loop, InitCommand, send_cmd, GiveUp, GoOn, initRest, sendVars
<1>10. CASE Looped \/ Last
BY <1>10 DEF Looped, send_cmd, GiveUp, GoOn, initRest, sendVars, Last
<1>11. CASE Finish \/ PowerOff
BY <1>11 DEF Finish, Return, sendVars, PowerOff
<1>12. CASE Reading \/ TokenFound \/ TokenFails \/ Stopped
BY <1>12 DEF Reading, Return, dataRest, sendVars, TokenFound, TokenFails, Fails, send_cmd, Stopped
<1>13. CASE Block
BY <1>13 DEF Block, Return, send_cmd, dataRest, sendVars
<1>14. CASE Announced \/ Writing \/ SendFails
BY <1>14 DEF Announced, send_cmd, dataRest, Writing, Return, SendFails, Fails, sendVars
<1>15. CASE SendBlock
BY <1>15 DEF SendBlock, Return, dataRest
<1>16. CASE StopWrite
BY <1>16 DEF StopWrite, Return, dataRest, sendVars
<1>17. CASE Tick1 \/ Tick2 \/ CardDone
BY <1>17 DEF Tick1, driverVars, Tick2, CardDone
<1>18. CASE Swap
BY <1>18 DEF Swap, Inserted, driverVars
<1>19. CASE UNCHANGED mmcVars
BY <1>19 DEF mmcVars, driverVars
<1> QED BY <1>1, <1>2, <1>3, <1>4, <1>5, <1>6, <1>7, <1>8, <1>9, <1>10, <1>11, <1>12, <1>13, <1>14,
     <1>15, <1>16, <1>17, <1>18, <1>19 DEF MmcNext, Work

(* Outside disk_initialize CardType is right for a card that is ready.      *)
LEMMA KnownStep ==
  ASSUME MmcInv, [MmcNext]_mmcVars
  PROVE  UnitIsKnown'
<1> USE MmcAssumption DEF MmcInv, DriverTypes, FlagTypes, Cards, UnitIsKnown, TypeIsLearnt, Unit,
      ReturnPlaces, At, ReadPlaces, WritePlaces, Places, InitPlaces
<1>1. CASE disk_initialize \/ disk_poll
BY <1>1 DEF disk_initialize, Begin, send_cmd, disk_poll
<1>2. CASE disk_read
BY <1>2 DEF disk_read, Begin, send_cmd, NotReady, Return, sendVars
<1>3. CASE disk_write
BY <1>3 DEF disk_write, Begin, send_cmd, NotReady, Return, sendVars
<1>4. CASE disk_ioctl
  <2>1. PICK op \in Ioctls : Begin(op, 0) /\ IoctlDoes(op)
    BY <1>4, IoctlCases
  <2> QED BY <2>1 DEF IoctlDoes, Begin, send_cmd, Waits, AtOnce, Return, sendVars, Powers, Registers, Ioctls
<1>5. CASE SelectReady
  <2>1. PICK r \in Replies(cmd, card) :
           /\ resp' = r[1] /\ card' = r[2]
           /\ \/ pc' = "select" /\ acmd # "none"
              \/ pc' = then
    BY <1>5 DEF SelectReady
  <2>2. /\ r[2].kind = card.kind
        /\ r[2].phase = "ready" /\ card.phase # "ready" =>
             cmd = "ACMD41H" \/ (cmd \in {"ACMD41", "CMD1"} /\ card.kind # "SDHC")
        /\ cmd = "CMD0" /\ r[1] = "idle" => r[2].phase # "ready"
    BY <2>1, ReplyFacts
  <2>3. pc = "select" /\ UNCHANGED <<ty, then, noinit, CardType>>
    BY <1>5 DEF SelectReady
  <2> HIDE DEF Cards
  <2>4. then \notin InitPlaces => cmd \notin {"ACMD41", "ACMD41H", "CMD1"}
    BY <2>3 DEF InitSends
  <2> QED BY <2>1, <2>2, <2>3, <2>4 DEF PlaceFitsCall
<1>6. CASE SelectTimeout
BY <1>6 DEF SelectTimeout
<1>7. CASE Polled \/ Synced \/ Register \/ RegisterValue
BY <1>7 DEF Polled, Return, sendVars, Synced, LineFF, Register, RegisterValue
<1>8. CASE Cmd0 \/ Cmd8 \/ Type
BY <1>8 DEF Cmd0, send_cmd, GiveUp, GoOn, initRest, sendVars, Cmd8, Type
<1>9. CASE Loop
BY <1>9 DEF Loop, InitCommand, send_cmd, GiveUp, GoOn, initRest, sendVars
<1>10. CASE Looped \/ Last
BY <1>10 DEF Looped, send_cmd, GiveUp, GoOn, initRest, sendVars, Last
<1>11. CASE Finish \/ PowerOff
BY <1>11 DEF Finish, Return, sendVars, PowerOff
<1>12. CASE Reading \/ TokenFound \/ TokenFails \/ Stopped
BY <1>12 DEF Reading, Return, dataRest, sendVars, TokenFound, TokenFails, Fails, send_cmd, Stopped
<1>13. CASE Block
BY <1>13 DEF Block, Return, send_cmd, dataRest, sendVars
<1>14. CASE Announced \/ Writing \/ SendFails
BY <1>14 DEF Announced, send_cmd, dataRest, Writing, Return, SendFails, Fails, sendVars
<1>15. CASE SendBlock
BY <1>15 DEF SendBlock, Return, dataRest
<1>16. CASE StopWrite
BY <1>16 DEF StopWrite, Return, dataRest, sendVars
<1>17. CASE Tick1 \/ Tick2 \/ CardDone
BY <1>17 DEF Tick1, driverVars, Tick2, CardDone
<1>18. CASE Swap
BY <1>18 DEF Swap, Inserted, driverVars
<1>19. CASE UNCHANGED mmcVars
BY <1>19 DEF mmcVars, driverVars
<1> QED BY <1>1, <1>2, <1>3, <1>4, <1>5, <1>6, <1>7, <1>8, <1>9, <1>10, <1>11, <1>12, <1>13, <1>14,
     <1>15, <1>16, <1>17, <1>18, <1>19 DEF MmcNext, Work

(* What a finished call reported stays true until the next call, and is    *)
(* true when the call returns.                                             *)
LEMMA ReportsStep ==
  ASSUME MmcInv, [MmcNext]_mmcVars
  PROVE  (WriteIsAccepted /\ WriteIsClosed /\ SyncIsStored /\ ReadIsGenuine)'
<1> USE MmcAssumption DEF MmcInv, DriverTypes, CountTypes, FlagTypes, PlaceFitsCall, CountersAddUp,
      ModeFits, SendMode, WriteIsAccepted, WriteIsClosed, SyncIsStored, ReadIsGenuine, Cards, Modes,
      Registers, ReturnPlaces, At, ReadPlaces, WritePlaces, Places, InitPlaces
<1>1. CASE disk_initialize \/ disk_poll
BY <1>1 DEF disk_initialize, Begin, send_cmd, disk_poll
<1>2. CASE disk_read
BY <1>2 DEF disk_read, Begin, send_cmd, NotReady, Return, sendVars
<1>3. CASE disk_write
BY <1>3 DEF disk_write, Begin, send_cmd, NotReady, Return, sendVars
<1>4. CASE disk_ioctl
  <2>1. PICK op \in Ioctls : Begin(op, 0) /\ IoctlDoes(op)
    BY <1>4, IoctlCases
  <2> QED BY <2>1 DEF IoctlDoes, Begin, send_cmd, Waits, AtOnce, Return, sendVars, Powers, Registers, Ioctls
<1>5. CASE SelectReady
BY <1>5 DEF SelectReady
<1>6. CASE SelectTimeout
BY <1>6 DEF SelectTimeout
<1>7. CASE Polled \/ Synced \/ Register \/ RegisterValue
BY <1>7 DEF Polled, Return, sendVars, Synced, LineFF, Register, RegisterValue
<1>8. CASE Cmd0 \/ Cmd8 \/ Type
BY <1>8 DEF Cmd0, send_cmd, GiveUp, GoOn, initRest, sendVars, Cmd8, Type
<1>9. CASE Loop
BY <1>9 DEF Loop, InitCommand, send_cmd, GiveUp, GoOn, initRest, sendVars
<1>10. CASE Looped \/ Last
BY <1>10 DEF Looped, send_cmd, GiveUp, GoOn, initRest, sendVars, Last
<1>11. CASE Finish \/ PowerOff
BY <1>11 DEF Finish, Return, sendVars, PowerOff
<1>12. CASE Reading \/ TokenFound \/ TokenFails \/ Stopped
BY <1>12 DEF Reading, Return, dataRest, sendVars, TokenFound, TokenFails, Fails, send_cmd, Stopped
<1>13. CASE Block
BY <1>13 DEF Block, Return, send_cmd, dataRest, sendVars
<1>14. CASE Announced \/ Writing \/ SendFails
BY <1>14 DEF Announced, send_cmd, dataRest, Writing, Return, SendFails, Fails, sendVars
<1>15. CASE SendBlock
BY <1>15 DEF SendBlock, Return, dataRest
<1>16. CASE StopWrite
  <2>1. pc = "stop" /\ call.op = "write" /\ UNCHANGED <<call, done>>
    BY <1>16 DEF StopWrite, dataRest
  <2>2. res' = "OK" => done = call.count
    BY <1>16, <2>1 DEF StopWrite, Return
  <2>3. res' = "OK" => card'.mode = "cmd"
    <3>1. card.mode \in {"cmd", "wrm"}
      BY <2>1
    <3>2. res' = "OK" => card' = IF card.mode = "wrm"
                                 THEN [card EXCEPT !.mode = "cmd", !.busy = TRUE] ELSE card
      BY <1>16 DEF StopWrite, Return
    <3> QED BY <3>1, <3>2
  <2> QED BY <2>1, <2>2, <2>3
<1>17. CASE Tick1 \/ Tick2 \/ CardDone
BY <1>17 DEF Tick1, driverVars, Tick2, CardDone
<1>18. CASE Swap
BY <1>18 DEF Swap, Inserted, driverVars
<1>19. CASE UNCHANGED mmcVars
BY <1>19 DEF mmcVars, driverVars
<1> QED BY <1>1, <1>2, <1>3, <1>4, <1>5, <1>6, <1>7, <1>8, <1>9, <1>10, <1>11, <1>12, <1>13, <1>14,
     <1>15, <1>16, <1>17, <1>18, <1>19 DEF MmcNext, Work

(* A card starts a transfer only on a command, and only when it is ready:  *)
(* then its type is known.                                                 *)
LEMMA UnitStep ==
  ASSUME MmcInv, [MmcNext]_mmcVars
  PROVE  card'.mode # card.mode /\ card'.mode \notin {"cmd", "reg"}
           => (CardType = 12 <=> card.kind = "SDHC")
<1> USE MmcAssumption DEF MmcInv, Cards, Modes
<1>1. CASE disk_initialize \/ disk_poll \/ disk_read \/ disk_write
BY <1>1 DEF disk_initialize, Begin, send_cmd, disk_poll, disk_read, NotReady, Return, sendVars,
     disk_write
<1>2. CASE disk_ioctl
BY <1>2, IoctlCases DEF IoctlDoes, Begin, send_cmd, Waits, AtOnce, Return, sendVars, Powers,
     Registers, Ioctls
<1>3. CASE SelectReady
  <2>1. PICK r \in Replies(cmd, card) : card' = r[2]
    BY <1>3 DEF SelectReady
  <2>2. r[2].mode \notin {card.mode, "cmd", "reg"} =>
          cmd \in {"CMD17", "CMD18", "CMD24", "CMD25"} /\ card.phase = "ready"
    BY <2>1, ReplyFacts DEF DriverTypes
  <2>3. cmd \in {"CMD17", "CMD18", "CMD24", "CMD25"} /\ card.phase = "ready" =>
          (CardType = 12 <=> card.kind = "SDHC")
    BY <1>3 DEF SelectReady, DataSends, NotInitialised, UnitIsKnown, Unit, At, InitPlaces
  <2> QED BY <2>1, <2>2, <2>3
<1>4. CASE SelectTimeout \/ Polled \/ Synced \/ Register \/ RegisterValue
BY <1>4 DEF SelectTimeout, Polled, Return, sendVars, Synced, LineFF, Register, RegisterValue
<1>5. CASE Cmd0 \/ Cmd8 \/ Type \/ Loop \/ Looped \/ Last \/ Finish \/ PowerOff
BY <1>5 DEF Cmd0, send_cmd, GiveUp, GoOn, initRest, sendVars, Cmd8, Type, Loop, InitCommand, Looped,
     Last, Finish, Return, PowerOff
<1>6. CASE Reading \/ TokenFound \/ TokenFails \/ Block \/ Stopped
BY <1>6 DEF Reading, Return, dataRest, sendVars, TokenFound, TokenFails, Fails, send_cmd, Block,
     Stopped
<1>7. CASE Announced \/ Writing \/ SendBlock \/ SendFails \/ StopWrite
BY <1>7 DEF Announced, send_cmd, dataRest, Writing, Return, SendBlock, SendFails, Fails, sendVars,
     StopWrite
<1>8. CASE Tick1 \/ Tick2 \/ CardDone
BY <1>8 DEF Tick1, driverVars, Tick2, CardDone
<1>9. CASE Swap
BY <1>9 DEF Swap, Inserted, driverVars
<1>10. CASE UNCHANGED mmcVars
BY <1>10 DEF mmcVars, driverVars
<1> QED BY <1>1, <1>2, <1>3, <1>4, <1>5, <1>6, <1>7, <1>8, <1>9, <1>10 DEF MmcNext, Work

-----------------------------------------------------------------------------
LEMMA MmcInitial == MmcInit => MmcInv
<1> SUFFICES ASSUME MmcInit PROVE MmcInv
  OBVIOUS
<1> USE DEF MmcInit
<1>1. /\ card \in Cards /\ card.phase = "native" /\ card.mode = "cmd" /\ ~card.busy
      /\ call \in [op : Ops, count : 0 .. MAX_COUNT] /\ call.op = "init" /\ call.count = 0
  <2>1. PICK k \in Kinds : card = Inserted(k)
    OBVIOUS
  <2>2. card \in Cards /\ card.phase = "native" /\ card.mode = "cmd" /\ ~card.busy
    BY <2>1 DEF Inserted, Cards, Modes
  <2> QED BY <2>2, MmcAssumption DEF Ops
<1>2. DriverTypes /\ FlagTypes /\ TimerTypes /\ CountTypes
  BY <1>1, MmcAssumption DEF DriverTypes, FlagTypes, TimerTypes, CountTypes, Places, Results,
     Commands, AppCommands, Resps
<1>3. At = "idle" /\ pc # "select"
  BY DEF At
<1>4. PlaceFitsCall /\ InitSends /\ DataSends /\ CountersAddUp /\ ModeFits
  BY <1>1, <1>3 DEF PlaceFitsCall, InitSends, DataSends, CountersAddUp, ModeFits, InitPlaces,
     ReadPlaces, WritePlaces
<1>5. TypeIsLearnt /\ UnitIsKnown /\ NotInitialised
  BY <1>1, <1>3 DEF TypeIsLearnt, UnitIsKnown, NotInitialised
<1>6. WriteIsAccepted /\ WriteIsClosed /\ SyncIsStored /\ ReadIsGenuine
  BY <1>1 DEF WriteIsAccepted, WriteIsClosed, SyncIsStored, ReadIsGenuine
<1> QED
  BY <1>1, <1>2, <1>4, <1>5, <1>6 DEF MmcInv

(* The inductive invariant holds in every state of the driver, whatever    *)
(* the card and the user do (mmc.c:122-601).                               *)
THEOREM MmcAlways == MmcSpec => []MmcInv
<1>1. MmcInv /\ [MmcNext]_mmcVars => MmcInv'
  BY DriverTypesStep, FlagTypesStep, CountTypesStep, CardTypesStep, PlaceStep, SendsStep,
     DataSendsStep, CountersStep, ModeStep, LearntStep, KnownStep, ReportsStep DEF MmcInv
<1> QED
  BY <1>1, MmcInitial, PTL DEF MmcSpec

(* A write the driver reports as good was accepted block for block and is  *)
(* closed, a good CTRL_SYNC finds the card done with storing, and no       *)
(* variable leaves its range (mmc.c:253-280,498-530,578-582).              *)
THEOREM WriteHonest == MmcSpec => []WriteIsHonest
<1>1. MmcInv => WriteIsHonest
  <2>1. MmcInv => MmcTypeOK
    BY DEF MmcInv, MmcTypeOK, DriverTypes, FlagTypes, TimerTypes, CountTypes, Cards, Modes, Resps,
       Results, Ops, Places, InitPlaces, ReadPlaces, WritePlaces
  <2> QED BY <2>1 DEF MmcInv, WriteIsHonest
<1> QED
  BY <1>1, MmcAlways, PTL

(* A read the driver reports as good got every block from the transfer it  *)
(* opened itself, never from one left over by a lost STOP_TRANSMISSION; of *)
(* a pulled card at most the last one is not genuine (mmc.c:205-218,       *)
(* 472-488).                                                               *)
THEOREM ReadGenuine == MmcSpec => []ReadIsGenuine
<1>1. MmcInv => ReadIsGenuine
  BY DEF MmcInv
<1> QED
  BY <1>1, MmcAlways, PTL

(* No card executes a read or a write with an address in the wrong unit,   *)
(* also after swaps, failed and repeated initialisations (mmc.c:400,428,   *)
(* 470,509).                                                               *)
THEOREM UnitFits == MmcSpec => AddressUnitFits
<1> DEFINE Fits == card'.mode # card.mode /\ card'.mode \notin {"cmd", "reg"}
                     => (CardType = 12 <=> card.kind = "SDHC")
<1>1. MmcInv /\ [MmcNext]_mmcVars => [Fits]_mmcVars
  BY UnitStep
<1>2. MmcSpec => [][Fits]_mmcVars
  BY <1>1, MmcAlways, PTL DEF MmcSpec
<1> QED
  BY <1>2 DEF AddressUnitFits
=============================================================================
