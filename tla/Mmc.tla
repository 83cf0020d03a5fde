-------------------------------- MODULE Mmc --------------------------------
(***************************************************************************)
(* The card driver of the firmware, mmc.c: disk_initialize, disk_poll,     *)
(* disk_read, disk_write and disk_ioctl over an SPI bus with a card that   *)
(* can be pulled, swapped or not answer at any time.                       *)
(*                                                                         *)
(* A byte is abstracted to what the driver tells apart: a reply is "ok"    *)
(* (0), "idle" (1), "err" (2..127) or "none" (bit 7 set); a line reads FF  *)
(* or not.  A polling loop that goes round once more is a stuttering step. *)
(* The two 100 Hz timers count down by themselves.                         *)
(***************************************************************************)
EXTENDS Integers

CONSTANTS
  READY_TICKS,  \* Timer2 in wait_ready (50)
  TOKEN_TICKS,  \* Timer1 in rcvr_datablock (10)
  INIT_TICKS,   \* Timer1 in disk_initialize (100)
  MAX_COUNT     \* largest sector count of a call

ASSUME MmcAssumption ==
  /\ READY_TICKS \in Nat \ {0} /\ TOKEN_TICKS \in Nat \ {0}
  /\ INIT_TICKS \in Nat \ {0} /\ MAX_COUNT \in Nat \ {0}

VARIABLES
  pc,        \* where the driver is
  call,      \* the call in progress, or the last one: [op, count]
  res,       \* its result
  count, ty, \* locals of disk_read, disk_write and of disk_initialize
  cmd, acmd, \* send_cmd: the command being sent, the ACMD to send after CMD55
  then,      \* send_cmd: where its caller goes on
  resp,      \* send_cmd: its result
  noinit, CardType,   \* Stat & STA_NOINIT, CardType
  Timer1, Timer2,
  card,      \* the card: [kind, phase, mode, busy, mine], the last a history:
             \* the transfer it is in was opened by a command of this call
  done,      \* history: blocks delivered or accepted in a transfer of this call
  pulled     \* history: the card was pulled or swapped during this call

driverVars == <<pc, call, res, count, ty, cmd, acmd, then, resp, noinit, CardType>>
mmcVars == <<driverVars, Timer1, Timer2, card, done, pulled>>

Kinds == {"none", "MMC", "SD1", "SD2", "SDHC"}
AppCommands == {"ACMD41", "ACMD41H", "ACMD23", "ACMD13"}
Commands == {"CMD0", "CMD1", "CMD8", "CMD9", "CMD10", "CMD12", "CMD16", "CMD17", "CMD18",
             "CMD24", "CMD25", "CMD55", "CMD58"} \cup AppCommands

-----------------------------------------------------------------------------
(* The card, as the driver expects it from the SD specification.           *)
Inserted(k) == [kind |-> k, phase |-> "native", mode |-> "cmd", busy |-> FALSE, mine |-> FALSE]

Open == [CMD17 |-> "rd", CMD18 |-> "rdm", CMD24 |-> "wr", CMD25 |-> "wrm",
         CMD9 |-> "reg", CMD10 |-> "reg", ACMD13 |-> "reg"]

(* Replies of a card in SPI mode that expects a command, with its new state.*)
Phase(c) == IF c.phase = "idle" THEN "idle" ELSE "ok"
Answers(m, c) ==
  CASE m = "CMD8" /\ c.kind \in {"SD2", "SDHC"} -> {<<Phase(c), c>>}
    [] m = "CMD55" /\ c.kind # "MMC" -> {<<Phase(c), c>>}
    [] m = "ACMD23" /\ c.kind # "MMC" -> {<<Phase(c), c>>}
    [] m = "CMD58" -> {<<Phase(c), c>>}
    [] \/ m = "ACMD41" /\ c.kind \in {"SD1", "SD2"}
       \/ m = "ACMD41H" /\ c.kind \in {"SD1", "SD2", "SDHC"}
       \/ m = "CMD1" /\ c.kind = "MMC" ->
         (IF c.phase = "idle" THEN {<<"idle", c>>} ELSE {})
         \cup {<<"ok", [c EXCEPT !.phase = "ready"]>>}
    [] m = "CMD16" /\ c.phase = "ready" -> {<<"ok", c>>}
    [] m \in DOMAIN Open /\ c.phase = "ready" -> {<<"ok", [c EXCEPT !.mode = Open[m], !.mine = TRUE]>>}
    [] OTHER -> {<<"err", c>>}

(* Any reply may get lost, and so may the command itself.  A single block  *)
(* that the driver did not fetch ends with the next command, or refuses it.*)
(* A card whose CMD12 got lost goes on streaming and refuses the others; a *)
(* byte of its stream that would pass for a good reply is not modelled.    *)
Replies(m, c) ==
  LET exec == IF c.kind = "none" THEN {}
              ELSE IF m = "CMD0" THEN {<<"idle", [Inserted(c.kind) EXCEPT !.phase = "idle"]>>}
              ELSE IF c.phase = "native" THEN {}
              ELSE IF c.mode = "cmd" THEN Answers(m, c)
              ELSE IF m = "CMD12" /\ c.mode = "rdm" THEN {<<"ok", [c EXCEPT !.mode = "cmd"]>>}
              ELSE {<<"err", c>>} \cup (IF c.mode \in {"rd", "reg"}
                                       THEN Answers(m, [c EXCEPT !.mode = "cmd"]) ELSE {})
  IN exec \cup {<<"none", c>>} \cup {<<"none", x[2]>> : x \in exec}

(* What the data line may show when a byte is clocked in.                  *)
LineFF == ~card.busy
LineLow == card.busy \/ card.mode \in {"rd", "rdm", "reg"}

-----------------------------------------------------------------------------
MmcInit ==
  /\ pc = "idle" /\ call = [op |-> "init", count |-> 0] /\ res = "NONE"
  /\ count = 0 /\ ty = 0 /\ cmd = "CMD0" /\ acmd = "none" /\ then = "idle"
  /\ resp = "none" /\ noinit = TRUE /\ CardType = 0
  /\ Timer1 = 0 /\ Timer2 = 0
  /\ card \in {Inserted(k) : k \in Kinds} /\ done = 0 /\ pulled = FALSE

(* send_cmd: select the card and wait for it with Timer2 running.          *)
send_cmd(c, label) ==
  /\ pc' = "select" /\ then' = label /\ Timer2' = READY_TICKS
  /\ cmd' = IF c \in AppCommands THEN "CMD55" ELSE c
  /\ acmd' = IF c \in AppCommands THEN c ELSE "none"

sendVars == <<cmd, acmd, then, Timer2>>

SelectReady ==
  /\ pc = "select" /\ LineFF
  /\ \E r \in Replies(cmd, card) :
       /\ resp' = r[1] /\ card' = r[2]
       /\ IF acmd # "none" /\ r[1] \in {"ok", "idle"}
          THEN cmd' = acmd /\ acmd' = "none" /\ Timer2' = READY_TICKS /\ UNCHANGED pc
          ELSE pc' = then /\ UNCHANGED <<cmd, acmd, Timer2>>
  /\ UNCHANGED <<call, res, count, ty, then, noinit, CardType, Timer1, done, pulled>>

SelectRestart ==  \* mutant: wait_ready restarts its timer on every turn
  /\ pc = "select" /\ LineLow /\ Timer2 = 0
  /\ Timer2' = READY_TICKS
  /\ UNCHANGED <<driverVars, Timer1, card, done, pulled>>

SelectTimeout ==
  /\ pc = "select" /\ LineLow /\ Timer2 = 0
  /\ resp' = "none" /\ pc' = then
  /\ UNCHANGED <<call, res, count, ty, cmd, acmd, then, noinit, CardType,
                 Timer1, Timer2, card, done, pulled>>

Return(r) == pc' = "idle" /\ res' = r

-----------------------------------------------------------------------------
(* Calls: from philes_mount, the slave() loop and the file system.         *)
Begin(op, n) ==
  /\ pc = "idle" /\ call' = [op |-> op, count |-> n] /\ count' = n
  /\ done' = 0 /\ pulled' = FALSE /\ card' = [card EXCEPT !.mine = FALSE]
  /\ UNCHANGED <<ty, resp, noinit, CardType, Timer1>>

disk_initialize == Begin("init", 0) /\ send_cmd("CMD0", "cmd0") /\ UNCHANGED res
disk_poll == Begin("poll", 0) /\ send_cmd("CMD58", "polled") /\ UNCHANGED res

NotReady == Return("NOTRDY") /\ UNCHANGED sendVars

disk_read ==
  \E n \in 1 .. MAX_COUNT :
    /\ Begin("read", n)
    /\ IF noinit THEN NotReady
       ELSE send_cmd(IF n = 1 THEN "CMD17" ELSE "CMD18", "reading") /\ UNCHANGED res

(* A multiple block write on an SD card announces the count first.         *)
disk_write ==
  \E n \in 1 .. MAX_COUNT :
    /\ Begin("write", n)
    /\ IF noinit THEN NotReady
       ELSE /\ IF n = 1 THEN send_cmd("CMD24", "writing")
               ELSE IF CardType \in {2, 4, 12} THEN send_cmd("ACMD23", "announced")
               ELSE send_cmd("CMD25", "writing")
            /\ UNCHANGED res

(* disk_ioctl, _USE_IOCTL 1.  Registers are asked for with CMD9, CMD10 or  *)
(* ACMD13; the erase block of an SD card of version 2 is in its status.    *)
(* "csd": also the sector count; "known": sector size and card type.       *)
Powers == {"power_off", "power_on", "power_bad"}
Registers == {"block_size", "csd", "cid", "sdstat"}
Ioctls == Powers \cup Registers \cup {"sync", "known", "ocr", "other"}
RegisterCommand(op) ==
  IF op = "sdstat" \/ (op = "block_size" /\ CardType \in {4, 12}) THEN "ACMD13"
  ELSE IF op = "cid" THEN "CMD10" ELSE "CMD9"
Waits(label) == pc' = label /\ Timer2' = READY_TICKS /\ UNCHANGED <<res, cmd, acmd, then>>
AtOnce(r) == Return(r) /\ UNCHANGED sendVars
disk_ioctl ==
  \E op \in Ioctls :
    /\ Begin(op, 0)
    /\ CASE op = "power_off" -> Waits("off")
         [] op = "power_on" -> AtOnce("OK")
         [] op = "power_bad" -> AtOnce("PARERR")
         [] op \notin Powers /\ noinit -> AtOnce("NOTRDY")
         [] op = "sync" /\ ~noinit -> Waits("sync")
         [] op \in Registers /\ ~noinit -> send_cmd(RegisterCommand(op), "register") /\ UNCHANGED res
         [] op = "ocr" /\ ~noinit -> send_cmd("CMD58", "polled") /\ UNCHANGED res
         [] op = "known" /\ ~noinit -> AtOnce("OK")
         [] op = "other" /\ ~noinit -> AtOnce("PARERR")

Synced ==
  /\ pc = "sync"
  /\ \/ LineFF /\ Return("OK")
     \/ LineLow /\ Timer2 = 0 /\ Return("ERROR")
  /\ UNCHANGED <<call, count, ty, resp, noinit, CardType, Timer1, card, done, pulled, sendVars>>

(* rcvr_datablock with less than 512 bytes starts no dma: the block is     *)
(* reported as received and stays in the card.                             *)
Register ==
  /\ pc = "register"
  /\ IF resp = "ok" THEN pc' = "value" /\ Timer1' = TOKEN_TICKS /\ UNCHANGED res
     ELSE Return("ERROR") /\ UNCHANGED Timer1
  /\ UNCHANGED <<call, count, ty, resp, noinit, CardType, card, done, pulled, sendVars>>
RegisterValue ==
  /\ pc = "value"
  /\ \/ card.mode = "reg" /\ Return("OK")
     \/ (LineLow \/ Timer1 = 0) /\ Return("ERROR")
  /\ UNCHANGED <<call, count, ty, resp, noinit, CardType, Timer1, card, done, pulled, sendVars>>

(* disk_poll, and MMC_GET_OCR.                                             *)
Polled ==
  /\ pc = "polled"
  /\ Return(IF resp = "ok" THEN "OK" ELSE IF call.op = "poll" THEN "NOTRDY" ELSE "ERROR")
  /\ UNCHANGED <<call, count, ty, resp, noinit, CardType, Timer1, card, done,
                 pulled, sendVars>>

-----------------------------------------------------------------------------
(* disk_initialize after each reply.                                       *)
initRest == <<call, res, count, resp, noinit, CardType, card, done, pulled>>
GoOn(label) == pc' = label /\ UNCHANGED sendVars
GiveUp == GoOn("finish") /\ ty' = 0

Cmd0 ==
  /\ pc = "cmd0"
  /\ IF resp = "idle" THEN send_cmd("CMD8", "cmd8") /\ Timer1' = INIT_TICKS /\ UNCHANGED ty
     ELSE GiveUp /\ UNCHANGED Timer1
  /\ UNCHANGED initRest

(* The R7 reply's trailing bytes are good if they come from such a card.   *)
Cmd8 ==
  /\ pc = "cmd8"
  /\ IF resp # "idle" THEN send_cmd("ACMD41", "type") /\ UNCHANGED ty
     ELSE IF card.kind \in {"SD2", "SDHC"} /\ card.phase # "native"
     THEN GoOn("loop") /\ ty' = 4
     ELSE GiveUp
  /\ UNCHANGED <<initRest, Timer1>>

Type ==
  /\ pc = "type" /\ GoOn("loop") /\ ty' = IF resp \in {"ok", "idle"} THEN 2 ELSE 1
  /\ UNCHANGED <<initRest, Timer1>>

(* Wait for leaving the idle state, with a timeout over all attempts.      *)
InitCommand == CASE ty = 4 -> "ACMD41H" [] ty = 2 -> "ACMD41" [] ty = 1 -> "CMD1"
Loop ==
  /\ pc = "loop"
  /\ IF Timer1 > 0 THEN send_cmd(InitCommand, "looped") /\ UNCHANGED ty ELSE GiveUp
  /\ UNCHANGED <<initRest, Timer1>>

Looped ==
  /\ pc = "looped"
  /\ IF resp # "ok" THEN GoOn("loop") /\ UNCHANGED ty
     ELSE IF Timer1 = 0 THEN GiveUp
     ELSE send_cmd(IF ty = 4 THEN "CMD58" ELSE "CMD16", "last") /\ UNCHANGED ty
  /\ UNCHANGED <<initRest, Timer1>>

(* CCS in the OCR tells block addressing; a card gone by now reads as FF.  *)
Last ==
  /\ pc = "last"
  /\ IF resp # "ok" THEN GiveUp
     ELSE /\ GoOn("finish")
          /\ ty' = IF ty = 4 /\ (card.kind = "SDHC" \/ card.phase = "native")
                   THEN 12 ELSE ty
  /\ UNCHANGED <<initRest, Timer1>>

(* A failed initialisation ends with power_off, which waits once more.     *)
FinishKeepsStat ==  \* mutant: a failure does not set STA_NOINIT
  /\ pc = "finish" /\ CardType' = ty /\ noinit' = (noinit /\ ty = 0)
  /\ Return(IF noinit' THEN "NOTRDY" ELSE "OK") /\ UNCHANGED sendVars
  /\ UNCHANGED <<call, count, ty, resp, Timer1, card, done, pulled>>

Finish ==
  /\ pc = "finish" /\ CardType' = ty
  /\ IF ty # 0 THEN Return("OK") /\ noinit' = FALSE /\ UNCHANGED sendVars
     ELSE /\ pc' = "off" /\ Timer2' = READY_TICKS
          /\ UNCHANGED <<res, noinit, cmd, acmd, then>>
  /\ UNCHANGED <<call, count, ty, resp, Timer1, card, done, pulled>>

PowerOff ==
  /\ pc = "off" /\ (LineFF \/ (LineLow /\ Timer2 = 0))
  /\ noinit' = TRUE /\ Return(IF call.op = "init" THEN "NOTRDY" ELSE "OK")
  /\ UNCHANGED <<call, count, ty, resp, CardType, Timer1, card, done, pulled, sendVars>>

-----------------------------------------------------------------------------
(* Reading: rcvr_datablock waits for the token, then the dma unit copies.  *)
dataRest == <<call, ty, resp, noinit, CardType>>
Fails == IF call.count = 1 THEN Return("ERROR") /\ UNCHANGED sendVars
         ELSE /\ IF call.op = "read" THEN send_cmd("CMD12", "stopped")
                 ELSE pc' = "stop" /\ Timer2' = READY_TICKS /\ UNCHANGED <<cmd, acmd, then>>
              /\ UNCHANGED res

ReadingUnchecked ==  \* mutant: the reply to the read command is not looked at
  /\ pc = "reading" /\ pc' = "token" /\ Timer1' = TOKEN_TICKS
  /\ UNCHANGED <<dataRest, res, count, sendVars, card, done, pulled>>

Reading ==
  /\ pc = "reading"
  /\ IF resp = "ok" THEN pc' = "token" /\ Timer1' = TOKEN_TICKS /\ UNCHANGED res
     ELSE Return("ERROR") /\ UNCHANGED Timer1
  /\ UNCHANGED <<dataRest, count, sendVars, card, done, pulled>>

TokenFound ==
  /\ pc = "token" /\ card.mode \in {"rd", "rdm"} /\ pc' = "block"
  /\ UNCHANGED <<dataRest, res, count, sendVars, Timer1, card, done, pulled>>

(* A wrong token, or none in time.                                         *)
TokenFails ==
  /\ pc = "token" /\ (LineLow \/ Timer1 = 0) /\ Fails
  /\ UNCHANGED <<dataRest, count, Timer1, card, done, pulled>>

(* The block is taken as it comes: there is no check of its CRC.           *)
Block ==
  /\ pc = "block"
  /\ LET genuine == card.mode \in {"rd", "rdm"} /\ card.mine IN
     /\ done' = IF genuine THEN done + 1 ELSE done
     /\ card' = IF card.mode = "rd" THEN [card EXCEPT !.mode = "cmd"] ELSE card
  /\ count' = count - 1
  /\ IF call.count = 1 THEN Return("OK") /\ UNCHANGED <<sendVars, Timer1>>
     ELSE IF count' = 0 THEN send_cmd("CMD12", "stopped") /\ UNCHANGED <<res, Timer1>>
     ELSE pc' = "token" /\ Timer1' = TOKEN_TICKS /\ UNCHANGED <<res, sendVars>>
  /\ UNCHANGED <<dataRest, pulled>>

(* The reply to STOP_TRANSMISSION is not looked at.                        *)
Stopped ==
  /\ pc = "stopped" /\ Return(IF count = 0 THEN "OK" ELSE "ERROR")
  /\ UNCHANGED <<dataRest, count, sendVars, Timer1, card, done, pulled>>

-----------------------------------------------------------------------------
(* Writing: xmit_datablock waits for the card, sends and checks the answer.*)
Announced ==
  /\ pc = "announced" /\ send_cmd("CMD25", "writing")
  /\ UNCHANGED <<dataRest, res, count, Timer1, card, done, pulled>>

Writing ==
  /\ pc = "writing"
  /\ IF resp = "ok" THEN pc' = "send" /\ Timer2' = READY_TICKS /\ UNCHANGED res
     ELSE Return("ERROR") /\ UNCHANGED Timer2
  /\ UNCHANGED <<dataRest, count, cmd, acmd, then, Timer1, card, done, pulled>>

SendUnchecked ==  \* mutant: the data response is not looked at
  /\ pc = "send" /\ LineFF
  /\ done' = IF card.mode \in {"wr", "wrm"} THEN done + 1 ELSE done
  /\ count' = count - 1
  /\ IF call.count = 1 THEN Return("OK") ELSE pc' = "stop" /\ UNCHANGED res
  /\ UNCHANGED <<dataRest, sendVars, Timer1, card, pulled>>

(* The card accepts a block, and is then busy storing it.                  *)
SendBlock ==
  /\ pc = "send" /\ LineFF /\ card.mode \in {"wr", "wrm"}
  /\ done' = done + 1 /\ count' = count - 1
  /\ card' = [card EXCEPT !.busy = TRUE, !.mode = IF @ = "wr" THEN "cmd" ELSE @]
  /\ IF call.count = 1 THEN Return("OK") /\ UNCHANGED Timer2
     ELSE pc' = (IF count' = 0 THEN "stop" ELSE "send") /\ Timer2' = READY_TICKS /\ UNCHANGED res
  /\ UNCHANGED <<dataRest, cmd, acmd, then, Timer1, pulled>>

(* A rejected block (a single write is over then), a busy card, no card.   *)
SendFails ==
  /\ pc = "send" /\ Fails
  /\ \/ /\ LineFF
        /\ card' = IF card.mode = "wr" THEN [card EXCEPT !.mode = "cmd"] ELSE card
     \/ LineLow /\ Timer2 = 0 /\ UNCHANGED card
  /\ UNCHANGED <<dataRest, count, Timer1, done, pulled>>

(* The STOP_TRAN token; a card that stays busy turns success into an error.*)
StopWrite ==
  /\ pc = "stop"
  /\ \/ /\ LineFF /\ Return(IF count = 0 THEN "OK" ELSE "ERROR")
        /\ card' = IF card.mode = "wrm" THEN [card EXCEPT !.mode = "cmd", !.busy = TRUE]
                   ELSE card
     \/ LineLow /\ Timer2 = 0 /\ Return("ERROR") /\ UNCHANGED card
  /\ UNCHANGED <<dataRest, count, sendVars, Timer1, done, pulled>>

-----------------------------------------------------------------------------
(* The steps of a call in progress.                                        *)
Work ==
  \/ SelectReady \/ SelectTimeout \/ Polled \/ Synced \/ Register \/ RegisterValue
  \/ Cmd0 \/ Cmd8 \/ Type \/ Loop \/ Looped \/ Last \/ Finish \/ PowerOff
  \/ Reading \/ TokenFound \/ TokenFails \/ Block \/ Stopped
  \/ Announced \/ Writing \/ SendBlock \/ SendFails \/ StopWrite

Tick1 == Timer1 > 0 /\ Timer1' = Timer1 - 1
         /\ UNCHANGED <<driverVars, Timer2, card, done, pulled>>
Tick2 == Timer2 > 0 /\ Timer2' = Timer2 - 1
         /\ UNCHANGED <<driverVars, Timer1, card, done, pulled>>

(* The card finishes storing a block, if it ever does.                     *)
CardDone == card.busy /\ card' = [card EXCEPT !.busy = FALSE]
            /\ UNCHANGED <<driverVars, Timer1, Timer2, done, pulled>>

(* The user pulls the card, or swaps it for another one.                   *)
Swap == \E k \in Kinds :
          /\ card' = Inserted(k) /\ pulled' = TRUE
          /\ UNCHANGED <<driverVars, Timer1, Timer2, done>>

MmcNext == disk_initialize \/ disk_poll \/ disk_read \/ disk_write \/ disk_ioctl \/ Work
           \/ Tick1 \/ Tick2 \/ CardDone \/ Swap

(* The 6502 goes on executing and the timers go on counting.  Nothing is   *)
(* assumed of the card or the user.                                        *)
MmcSpec == MmcInit /\ [][MmcNext]_mmcVars
           /\ WF_mmcVars(Work) /\ WF_mmcVars(Tick1) /\ WF_mmcVars(Tick2)

-----------------------------------------------------------------------------
(* The driver's variables keep their ranges: no block more than asked for is *)
(* moved (mmc.c:392-530).                                                  *)
MmcTypeOK ==
  /\ pc \in {"idle", "select", "polled", "sync", "register", "value", "cmd0", "cmd8", "type", "loop", "looped",
             "last", "finish", "off", "reading", "token", "block", "stopped",
             "announced", "writing", "send", "stop"}
  /\ call.op \in {"init", "poll", "read", "write"} \cup Ioctls /\ call.count \in 0 .. MAX_COUNT
  /\ res \in {"NONE", "OK", "NOTRDY", "ERROR", "PARERR"}
  /\ count \in 0 .. MAX_COUNT /\ done \in 0 .. MAX_COUNT
  /\ ty \in {0, 1, 2, 4, 12} /\ CardType \in {0, 1, 2, 4, 12}
  /\ noinit \in BOOLEAN /\ pulled \in BOOLEAN
  /\ cmd \in Commands /\ acmd \in AppCommands \cup {"none"}
  /\ resp \in {"ok", "idle", "err", "none"}
  /\ Timer1 \in Nat /\ Timer2 \in Nat
  /\ card \in [kind : Kinds, phase : {"native", "idle", "ready"},
               mode : {"cmd", "rd", "rdm", "reg", "wr", "wrm"}, busy : BOOLEAN, mine : BOOLEAN]

(* Every call of the driver returns, whatever the card does: also with a   *)
(* card that stays busy or idle for ever, goes silent half way or is       *)
(* swapped again and again (mmc.c:122-135,205-209,407-426).                *)
EveryCallReturns == (pc # "idle") ~> (pc = "idle")

(* A card never executes a read or write with an address in the wrong      *)
(* unit: CardType says block addressing exactly for the card that takes    *)
(* the command, although Stat and CardType survive a swap (mmc.c:400,428,  *)
(* 470,509).                                                               *)
AddressUnitFits ==
  [][card'.mode # card.mode /\ card'.mode \notin {"cmd", "reg"}
       => (CardType = 12 <=> card.kind = "SDHC")]_mmcVars

(* A write reported as good was accepted by the card block for block, even *)
(* if the card was pulled on the way (mmc.c:274-276,519-524).              *)
WriteIsAccepted ==
  pc = "idle" /\ call.op = "write" /\ res = "OK" => done = call.count

(* After a good write the card is out of the multiple block mode and takes *)
(* commands again (mmc.c:523).                                             *)
WriteIsClosed ==
  pc = "idle" /\ call.op = "write" /\ res = "OK" => card.mode = "cmd"

(* When CTRL_SYNC reports success the card has stored what it accepted,    *)
(* and stays so until the next write (mmc.c:578-582).                      *)
SyncIsStored == pc = "idle" /\ call.op = "sync" /\ res = "OK" => ~card.busy

(* A read reported as good got each of its blocks from the transfer that   *)
(* its own command opened: none comes from the stream of an earlier read   *)
(* whose STOP_TRANSMISSION got lost, although the reply to that one is not *)
(* looked at, and of a card pulled or swapped at any moment at most the    *)
(* last block, which was under way, is not its own: there is no CRC check  *)
(* (mmc.c:205-218,472-488).                                                *)
ReadIsGenuine ==
  pc = "idle" /\ call.op = "read" /\ res = "OK"
    => done = call.count \/ (pulled /\ done = call.count - 1)

(* Writing: what disk_write and CTRL_SYNC report as done, the card has taken *)
(* and finished, and no transfer is left open (mmc.c:253-280,498-530,578). *)
WriteIsHonest == MmcTypeOK /\ WriteIsAccepted /\ WriteIsClosed /\ SyncIsStored
=============================================================================
