------------------------------ MODULE Selector ------------------------------
(***************************************************************************)
(* The on-screen menu and file selector of the firmware (menu.c, osd.c),   *)
(* with the loop that opens what was selected (thrall and blink of         *)
(* slave.c, philes.c), against a joystick that moves at any moment and a   *)
(* card that is pulled, swapped or flaky.                                  *)
(*                                                                         *)
(* The statics of menu.c and the display memory are one record u, so that  *)
(* the functions of menu.c are functions of u.  A file name is its number  *)
(* in the directory of images; the display is its text cells of 16         *)
(* columns, two a line, addressed by the byte offset of their text.        *)
(***************************************************************************)
EXTENDS Integers, FiniteSets, Sequences

CONSTANTS
  PAGESIZE,    \* FSEL_PAGESIZE, items of a page (12)
  NLINES,      \* FSEL_NLINES, lines of a page (6)
  INACTIVITY,  \* dispatches without input until the selector closes
  Cards,       \* cards considered, as the number of images they hold
  Joys,        \* joystick positions considered, sets of keys
  FaultReads,  \* directory reads at which a flaky card may fail
  FaultPages   \* page starts at which opendir may fail

Keys == {"LT", "RT", "UP", "DN", "FIRE"}
ASSUME SelectorAssumption ==
  /\ NLINES \in 1 .. 6 /\ PAGESIZE = 2 * NLINES
  /\ INACTIVITY \in Nat \ {0} /\ Cards \subseteq Nat
  /\ Joys \subseteq SUBSET Keys /\ {} \in Joys
  /\ FaultReads \subseteq Nat \ {0} /\ FaultPages \subseteq 0 .. 255

VARIABLES
  card,    \* images of the card in the slot, None: no card
  ready,   \* the card is initialised since it was inserted
  flaky,   \* accesses to the card may fail
  u,       \* statics of menu.c and the display memory
  osdOut,  \* values this step wrote to OSD_CMD, oldest first
  pc,      \* where thrall() is: mount, open, poll, blink, out
  first,   \* thrall: the name in ptrfile is to be used
  file,    \* the name in ptrfile
  image,   \* the file that slave() serves, None outside slave()
  chosen   \* history: the text under the highlight when it was chosen

selVars == <<card, ready, flaky, u, osdOut, pc, first, file, image, chosen>>

None == -1
Stale == {"stale"}                      \* joy_status 0377: differs from any input
Blank == 0
Header == -1
Placeholder == -2                       \* "xxxxxxxx.xxx"
HOLD == 1
RESTART == 2
RESET == 4
Byte(n) == n % 256

fsel_index2offs(idx) == Byte(33 + (idx \div 2) * 32 + (idx % 2) * 16)
Cells == {fsel_index2offs(i) : i \in 0 .. 255}
ItemCells == {fsel_index2offs(i) : i \in 0 .. PAGESIZE - 1}
HeaderCells == {c \in Cells : c < 32}

-----------------------------------------------------------------------------
(* menu.c, osd.c.                                                          *)
osd_cls(v) ==
  [v EXCEPT !.text = [c \in Cells |-> IF c \in HeaderCells THEN Header ELSE Blank],
            !.inv = HeaderCells, !.lit = None, !.intact = FALSE]

menu_init(v) ==
  LET w == IF v.state = "MENU" THEN v
           ELSE osd_cls([v EXCEPT !.state = "MENU", !.joy_status = Stale])
  IN [w EXCEPT !.menu_x = 1, !.menu_y = 1, !.menu_selected = 255,
               !.osdcmd = @ % 2, !.out = Append(@, w.osdcmd % 2)]

fsel_init(v) ==
  [osd_cls(v) EXCEPT !.pagestart = 0, !.redraw = TRUE, !.joy_status = Stale,
                     !.menu_x = 0, !.menu_y = 0, !.menu_selected = 0]

draw_menu(v) == [v EXCEPT !.lit = v.menu_x + 3 * v.menu_y]

(* Bits are set, written, cleared and written again.                       *)
Pulse(v, bit) == [v EXCEPT !.state = "MENU", !.out = @ \o <<v.osdcmd + bit, v.osdcmd>>]

(* switch_state, in WAITBREAK: SEL_HOLD 1, SEL_RESET 3, SEL_DISK 4,        *)
(* SEL_RESTART 5, SEL_ABOUT 7.                                             *)
switch_state(v) ==
  CASE v.menu_selected = 1 ->
         LET cmd == 1 - v.osdcmd
         IN [v EXCEPT !.osdcmd = cmd, !.out = Append(@, cmd), !.state = "MENU"]
    [] v.menu_selected = 3 -> Pulse(v, RESET)
    [] v.menu_selected = 5 -> Pulse(v, RESTART)
    [] v.menu_selected = 7 -> [osd_cls(v) EXCEPT !.state = "ABOOT"]
    [] v.menu_selected = 4 -> [fsel_init(v) EXCEPT !.state = "FSEL"]
    [] OTHER -> [v EXCEPT !.state = "MENU"]

(* Outcome of the card accesses of a draw_fsel: whether opendir succeeds,  *)
(* and which of the following directory reads fail.                        *)
Dirs == [open : BOOLEAN,
         lost : {{}} \cup {{r} : r \in FaultReads} \cup {r .. 300 : r \in FaultReads}]
NoFault == [open |-> TRUE, lost |-> {}]
DirOutcomes == IF u.state # "FSEL" \/ (ready /\ ~flaky) THEN {NoFault} 
               ELSE {d \in Dirs : d.open \/ u.pagestart \in FaultPages}

(* The page: skip fsel_pagestart images, then show the next ones.    A     *)
(* read fails at the end of the directory or with the card; what fails     *)
(* leaves its cell blank and the place in the directory as it was.         *)
draw_fsel_upto(v, n, d) ==  \* mutant: stops one cell early
  [v EXCEPT !.hasnext = v.pagestart + PAGESIZE < n, !.intact = TRUE,
            !.text = [c \in Cells |->
               IF c \notin ItemCells \/ c = fsel_index2offs(PAGESIZE - 1) THEN @[c]
               ELSE LET i == CHOOSE i \in 0 .. PAGESIZE - 2 : fsel_index2offs(i) = c
                    IN IF v.pagestart + i < n THEN v.pagestart + i + 1 ELSE Blank]]

draw_fsel(v, n, d) ==
  LET bad == {r \in 1 .. v.pagestart : r > n \/ r \in d.lost}
      stop == CHOOSE r \in bad : \A s \in bad : r <= s
      skipped == IF bad = {} THEN v.pagestart ELSE stop - 1
      tried == IF bad = {} THEN v.pagestart ELSE stop
      Shown(i) == LET r == tried + i + 1
                      at == skipped + i + 1
                            - Cardinality(d.lost \cap tried + 1 .. r)
                  IN IF r \in d.lost \/ at > n THEN Blank ELSE at
  IN IF ~d.open THEN [v EXCEPT !.hasnext = TRUE, !.intact = FALSE]
     ELSE [v EXCEPT
             !.pagestart = IF bad = {} THEN @ ELSE 0,
             !.text = [c \in Cells |->
                IF c \notin ItemCells THEN @[c]
                ELSE Shown(CHOOSE i \in 0 .. PAGESIZE - 1 : fsel_index2offs(i) = c)],
             !.inv = @ \ ItemCells,
             !.hasnext = \A i \in 0 .. PAGESIZE - 1 : Shown(i) # Blank,
             !.intact = d.lost = {} /\ bad = {}]

(* fsel_showselection(0), the move, fsel_showselection(1).                 *)
MoveHighlightTo(v, sel) ==
  [v EXCEPT !.menu_selected = sel,
            !.inv = (@ \ {fsel_index2offs(v.menu_selected)}) \cup {fsel_index2offs(sel)}]

-----------------------------------------------------------------------------
(* menu_dispatch.  The four directions of the selector are tried in turn.  *)
FselUp(v) ==
  IF "UP" \notin v.joy_status THEN v
  ELSE IF v.menu_y > 0 THEN [v EXCEPT !.menu_y = @ - 1]
  ELSE IF v.pagestart = 0 THEN v
  ELSE [v EXCEPT !.pagestart = Byte(@ - (PAGESIZE - 1)), !.menu_y = NLINES - 1,
                 !.redraw = TRUE]

FselDownWhole(v) ==  \* mutant: pages do not overlap
  IF "DN" \notin v.joy_status THEN v
  ELSE IF v.menu_y < NLINES - 1 THEN [v EXCEPT !.menu_y = @ + 1]
  ELSE IF ~v.hasnext THEN v
  ELSE [v EXCEPT !.pagestart = Byte(@ + PAGESIZE), !.menu_y = 0, !.redraw = TRUE]

FselDown(v) ==
  IF "DN" \notin v.joy_status THEN v
  ELSE IF v.menu_y < NLINES - 1 THEN [v EXCEPT !.menu_y = @ + 1]
  ELSE IF ~v.hasnext THEN v
  ELSE [v EXCEPT !.pagestart = Byte(@ + PAGESIZE - 1), !.menu_y = 0, !.redraw = TRUE]

(* (menu_x - 1) % 2 is -1 for column 0, and 255 in the byte.               *)
FselLeft(v) ==
  IF "LT" \notin v.joy_status THEN v
  ELSE [v EXCEPT !.menu_x = IF @ = 0 THEN 255 ELSE (@ - 1) % 2]

FselRight(v) ==
  IF "RT" \notin v.joy_status THEN v ELSE [v EXCEPT !.menu_x = (@ + 1) % 2]

Fsel(v, n, d) ==
  LET w == FselRight(FselLeft(FselDown(FselUp(v))))
      x == IF w.redraw THEN draw_fsel([w EXCEPT !.redraw = FALSE], n, d) ELSE w
      y == MoveHighlightTo(x, Byte(x.menu_y * 2 + x.menu_x))
  IN IF "FIRE" \in v.joy_status THEN [y EXCEPT !.state = "WAITBREAK2"] ELSE y

Menu(v) ==
  LET y == IF "UP" \in v.joy_status THEN 0 ELSE IF "DN" \in v.joy_status THEN 2 ELSE 1
      x == IF "LT" \in v.joy_status THEN 0 ELSE IF "RT" \in v.joy_status THEN 2 ELSE 1
      w == draw_menu([v EXCEPT !.menu_x = x, !.menu_y = y])
  IN IF "FIRE" \in v.joy_status
     THEN [w EXCEPT !.state = "WAITBREAK", !.menu_selected = x + 3 * y] ELSE w

Released(v) == "FIRE" \notin v.joy_status

(* The joystick has moved: the arms of the switch.                         *)
Moved(v, n, d) ==
  CASE v.state = "ABOOT" -> IF v.joy_status = {} THEN [v EXCEPT !.state = "ABOOT2"] ELSE v
    [] v.state = "MENU" -> Menu(v)
    [] v.state = "WAITBREAK" -> IF Released(v) THEN switch_state(v) ELSE v
    [] v.state = "WAITBREAK2" -> IF Released(v) THEN menu_init(v) ELSE v
    [] v.state = "ABOOT2" -> IF Released(v) THEN menu_init(v) ELSE v
    [] v.state = "FSEL" -> Fsel(v, n, d)

InactivityNever(v) ==  \* mutant: an abandoned selector stays
  [v EXCEPT !.inactivity = IF @ > 0 THEN @ - 1 ELSE 0]

(* The inactivity counter closes the selector.                             *)
Inactivity(v) ==
  LET left == IF v.inactivity > 0 THEN v.inactivity - 1 ELSE 0
      w == [v EXCEPT !.inactivity = left]
  IN IF left = 0 /\ v.state = "FSEL" THEN menu_init(w) ELSE w

(* JOYSTICK is read twice: it differs from joy_status, and then the value  *)
(* is read again and kept, which may have bounced back.                    *)
menu_dispatch(v, moved, j, n, d) ==
  LET w == Inactivity(v)
  IN IF moved THEN Moved([w EXCEPT !.joy_status = j, !.inactivity = INACTIVITY], n, d)
     ELSE w

(* MENURESULT_DISK: the fire button is released on a file.                 *)
ResultDisk(v, moved, j) == v.state = "WAITBREAK2" /\ moved /\ "FIRE" \notin j

fsel_getselected_index(v) ==  \* mutant: takes the name by column and row
  v.text[fsel_index2offs(Byte(v.menu_y * 2 + (v.menu_x % 2)))]

fsel_getselected(v) == v.text[fsel_index2offs(v.menu_selected)]

menu_busy_text(v) == v  \* mutant: only the text changes

(* menu_busy(2): INSERT CARD, and back to the menu.                        *)
menu_busy2(v) == menu_init(v)

-----------------------------------------------------------------------------
SelInit ==
  /\ card \in Cards \cup {None} /\ ready = FALSE /\ flaky = FALSE
  /\ u = [menu_init([state |-> "INIT", joy_status |-> {}, menu_x |-> 0, menu_y |-> 0,
          menu_selected |-> 0, pagestart |-> 0, redraw |-> FALSE, hasnext |-> FALSE,
          inactivity |-> 0, osdcmd |-> 0, out |-> <<>>,
          text |-> [c \in Cells |-> Blank], inv |-> {}, lit |-> None, intact |-> FALSE])
         EXCEPT !.out = <<>>]
  /\ osdOut = <<0>>
  /\ pc = "mount" /\ first = FALSE
  /\ file = Placeholder /\ image = None /\ chosen = Placeholder

(* The step's writes to OSD_CMD are moved out of the record.               *)
Screen(v) == u' = [v EXCEPT !.out = <<>>] /\ osdOut' = v.out

-----------------------------------------------------------------------------
(* thrall: philes_mount and philes_opendir.                                *)
Works == IF ready' /\ ~flaky THEN {TRUE} ELSE BOOLEAN
Mount ==
  /\ pc = "mount"
  /\ \E up \in IF flaky THEN BOOLEAN ELSE {TRUE} : ready' = (card # None /\ up)
  /\ \E ok \in Works : pc' = IF ready' /\ ok THEN "open" ELSE "out"
  /\ osdOut' = <<>>
  /\ UNCHANGED <<card, flaky, u, first, file, image, chosen>>

(* thrall: philes_nextfile the first time, f_open, fdd_load and slave().   *)
Holds(n) == ready /\ n \in 1 .. card
OpenImageStubborn ==  \* mutant: a name that cannot be opened is kept
  /\ pc = "open"
  /\ file' = IF ~first /\ Holds(1) THEN 1 ELSE file
  /\ pc' = IF Holds(file') THEN "poll" ELSE "out"
  /\ image' = IF Holds(file') THEN file' ELSE None
  /\ chosen' = file' /\ first' = TRUE /\ osdOut' = <<>>
  /\ UNCHANGED <<card, ready, flaky, u>>

OpenImage ==
  /\ pc = "open"
  /\ \E listed, opened \in IF ready /\ ~flaky THEN {TRUE} ELSE BOOLEAN :
       LET take == ~first /\ listed /\ Holds(1)
           ok == opened /\ Holds(file') IN
       /\ file' = IF take THEN 1 ELSE file
       /\ chosen' = IF take THEN 1 ELSE chosen
       /\ first' = ok
       /\ image' = IF ok THEN file' ELSE None
       /\ pc' = IF ok THEN "poll" ELSE "out"
  /\ osdOut' = <<>>
  /\ UNCHANGED <<card, ready, flaky, u>>

(* slave: a card that does not answer ends it, and so does FR_RW_ERROR of  *)
(* a request.  Requests are Slave's concern; here they only take time.     *)
Poll ==
  /\ pc = "poll"
  /\ \/ ready /\ pc' = "blink" /\ UNCHANGED image
     \/ (~ready \/ flaky) /\ pc' = "out" /\ image' = None
  /\ osdOut' = <<>>
  /\ UNCHANGED <<card, ready, flaky, u, first, file, chosen>>

(* History: the text under the highlight, the header's if no item has it.  *)
Highlighted(v) ==
  v.text[CHOOSE c \in v.inv : c \in ItemCells \/ v.inv \cap ItemCells = {}]

(* The joystick may move between any two reads.                            *)
Dispatch(v) ==
  \E moved \in BOOLEAN, j \in Joys, d \in DirOutcomes :
    LET disk == ResultDisk(v, moved, j) IN
    /\ Inactivity(v).joy_status = Stale => moved
    /\ ~moved => j = v.joy_status
    /\ Screen(menu_dispatch(v, moved, j, card, d))
    /\ file' = IF disk THEN fsel_getselected(v) ELSE file
    /\ chosen' = IF disk THEN Highlighted(v) ELSE chosen
    /\ image' = IF disk THEN None ELSE image
    /\ pc' = IF pc = "out" THEN "mount" ELSE IF disk THEN "out" ELSE "poll"

(* slave, no request: blink() and its menu_dispatch.                       *)
Blink ==
  /\ pc = "blink"
  /\ Dispatch(u)
  /\ UNCHANGED <<card, ready, flaky, first>>

(* thrall, after slave() or without a card: menu_busy(2), menu_dispatch(0) *)
(* and the delay.                                                          *)
Out ==
  /\ pc = "out"
  /\ Dispatch(menu_busy2(u))
  /\ UNCHANGED <<card, ready, flaky, first>>

Loop == Mount \/ OpenImage \/ Poll \/ Blink \/ Out

-----------------------------------------------------------------------------
(* The environment.                                                        *)
(* A card is pulled, or one is inserted, which is not initialised yet.     *)
SwapCard ==
  /\ IF card = None THEN card' \in Cards ELSE card' = None
  /\ ready' = FALSE
  /\ u' = [u EXCEPT !.intact = FALSE]
  /\ osdOut' = <<>>
  /\ UNCHANGED <<flaky, pc, first, file, image, chosen>>

BadContact ==
  /\ flaky' = ~flaky
  /\ osdOut' = <<>>
  /\ UNCHANGED <<card, ready, u, pc, first, file, image, chosen>>

SelNext == Loop \/ SwapCard \/ BadContact
SelSpec == SelInit /\ [][SelNext]_selVars

(* The firmware runs: WF(Loop), written for TLC by the fact that Loop is   *)
(* always enabled and that its steps, and no others, change pc.            *)
FairSelSpec == SelSpec /\ []<><<pc' # pc>>_selVars

-----------------------------------------------------------------------------
Items == 0 .. PAGESIZE - 1
Files == {Placeholder, Header, Blank} \cup 1 .. 300

(* Ranges of the statics of menu.c, of the display and of thrall's locals. *)
SelTypeOK ==
  /\ u.state \in {"MENU", "FSEL", "WAITBREAK", "WAITBREAK2", "ABOOT", "ABOOT2"}
  /\ u.joy_status \in Joys \cup {Stale}
  /\ u.menu_x \in {0, 1, 2, 255} /\ u.menu_y \in 0 .. 5
  /\ u.menu_selected \in (0 .. 11) \cup {255} /\ u.pagestart \in 0 .. 255
  /\ u.inactivity \in 0 .. INACTIVITY /\ u.osdcmd \in {0, HOLD} /\ u.out = <<>>
  /\ u.inv \subseteq Cells /\ u.lit \in {None} \cup 0 .. 8
  /\ \A c \in Cells : u.text[c] \in Files
  /\ {file, image, chosen} \subseteq Files
  /\ pc \in {"mount", "open", "poll", "blink", "out"}

Browsing == u.state = "WAITBREAK2" \/ (u.state = "FSEL" /\ u.joy_status # Stale)

(* What the user sees highlighted is what releasing the button acts upon,  *)
(* and nothing else is highlighted: in the menu and on every page of the   *)
(* selector, also when a page could not be read (menu.c:123-138,195-197).  *)
HighlightIsSelection ==
  /\ u.state = "WAITBREAK" => u.lit = u.menu_selected
  /\ Browsing => u.inv \cap ItemCells = {fsel_index2offs(u.menu_selected)} \cap ItemCells

(* A page drawn without a failure shows the images from fsel_pagestart on, *)
(* in order and without a gap, and a next page is offered exactly when it  *)
(* is full (menu.c:310-339).  A page that begins past the end, reachable   *)
(* only by turning a page that could not be read, stays empty.             *)
PageIsExact ==
  Browsing /\ u.intact =>
    /\ \A i \in Items : LET at == u.pagestart + i + 1
                       IN u.text[fsel_index2offs(i)] = IF at <= card THEN at ELSE Blank
    /\ u.hasnext <=> u.pagestart + PAGESIZE <= card

(* The image that is opened is the one under the highlight when the button *)
(* was released, or the first of the card if that one could not be opened, *)
(* however the joystick bounces and the card fails (menu.c:146-153,        *)
(* slave.c:78-87).                                                         *)
OpensTheChosen == [][pc = "open" /\ pc' = "poll" => image' = chosen']_selVars

(* Turning a page up or down keeps one image in sight, so that none is     *)
(* passed over; with at most 245 images: with more, pages that cannot be   *)
(* read lead past byte 255, and "up" goes on from there (menu.c:162-180).  *)
PagesOverlap ==
  [][Browsing /\ u.intact /\ Browsing' /\ u'.intact /\ card' = card =>
       LET top == fsel_index2offs(0)
           bottom == fsel_index2offs(PAGESIZE - 1) IN
       /\ u'.pagestart > u.pagestart => u'.text[top] = u.text[bottom]
       /\ u'.pagestart < u.pagestart => u'.text[bottom] = u.text[top]]_selVars

(* While no image is served, the menu is drawn and follows the joystick    *)
(* but never acts on the computer: menu_busy(2) leaves WAITBREAK before    *)
(* the button can be released (slave.c:97-98, menu.c:91-93).               *)
NoActionWithoutImage ==
  [][pc = "out" => \A i \in 1 .. Len(osdOut') : osdOut'[i] = u.osdcmd]_selVars

(* Nobody touches the joystick any more: no dispatch sees it move, save    *)
(* the one that reads it again after menu_init or fsel_init.               *)
Unmoved ==
  pc \in {"blink", "out"} /\ u'.inactivity = INACTIVITY => u.joy_status = Stale
Untouched ==
  <>[](u.joy_status \in {{}, Stale}) /\ <>[][Unmoved]_selVars

(* A selector nobody touches closes and shows the menu again, with and     *)
(* without a card (menu.c:106-109).                                        *)
SelectorCloses ==
  Untouched => <>[](u.state \in {"MENU", "ABOOT", "ABOOT2"})

(* Once a card with an image stays in the slot and works, an image is      *)
(* served again and again, whatever was selected before (slave.c:71-100).  *)
ServesAgain ==
  <>[](card > 0 /\ ~flaky) => []<>(pc = "poll" /\ image \in 1 .. card)

(* The screen tells the truth: the highlight is the selection and the page *)
(* is the directory (menu.c:123-203,310-356).                              *)
ScreenIsTrue == SelTypeOK /\ HighlightIsSelection /\ PageIsExact
=============================================================================
