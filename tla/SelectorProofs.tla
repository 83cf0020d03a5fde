--------------------------- MODULE SelectorProofs ---------------------------
(***************************************************************************)
(* Theorems about the menu and the file selector, for every page size,     *)
(* every set of cards and every joystick.                                  *)
(*                                                                         *)
(* The functions of menu.c are functions of the record u, so the inductive *)
(* invariant is a predicate of such a record and of the card: Consistent.  *)
(* Each function is shown to keep it, and the steps of the loop follow.    *)
(***************************************************************************)
EXTENDS Selector, FiniteSetTheorems, WellFoundedInduction, TLAPS

MenuStates == {"INIT", "MENU", "FSEL", "WAITBREAK", "WAITBREAK2", "ABOOT", "ABOOT2"}
Statics ==
  [state : MenuStates, joy_status : Joys \cup {Stale},
   menu_x : {0, 1, 2, 255}, menu_y : 0 .. 5, menu_selected : (0 .. 11) \cup {255},
   pagestart : 0 .. 255, redraw : BOOLEAN, hasnext : BOOLEAN,
   inactivity : 0 .. INACTIVITY, osdcmd : {0, HOLD}, out : Seq(Int),
   text : [Cells -> Files], inv : SUBSET Cells, lit : {None} \cup 0 .. 8,
   intact : BOOLEAN]

(* The selector is open, and it has taken over from the screen before it.  *)
Selecting(v) == v.state \in {"FSEL", "WAITBREAK2"}
Shows(v) == v.state = "WAITBREAK2" \/ (v.state = "FSEL" /\ v.joy_status # Stale)
SelCell(v) == fsel_index2offs(v.menu_selected)

(* Nothing is highlighted but the header and the item of the selection,    *)
(* and the header cells still hold the header: a selection that has left   *)
(* the page highlights one of them.                                        *)
HeaderKept(v) == \A c \in HeaderCells : v.text[c] = Header
Highlight(v) ==
  /\ v.inv \subseteq HeaderCells \cup ItemCells
  /\ Selecting(v) => /\ v.menu_selected \in Items \cup {255}
                     /\ v.inv \cap ItemCells \subseteq {SelCell(v)}
  /\ Shows(v) => SelCell(v) \in v.inv
  /\ v.state = "WAITBREAK" => v.lit = v.menu_selected

(* The selection is on the page, in its first or second column or just     *)
(* before it, and a fresh selector draws its page first.                   *)
OnPage(v) ==
  v.state = "FSEL" => /\ v.menu_x \in {0, 1, 255} /\ v.menu_y < NLINES
                      /\ v.joy_status = Stale => v.redraw

(* The page drawn without a failure from a card of n images.               *)
ExactPage(v, n) ==
  /\ \A i \in Items : v.text[fsel_index2offs(i)] =
                        IF v.pagestart + i + 1 <= n THEN v.pagestart + i + 1 ELSE Blank
  /\ v.hasnext <=> v.pagestart + PAGESIZE <= n
PageKept(v, n) == Shows(v) /\ v.intact => ExactPage(v, n)

Consistent(v, n) ==
  /\ v \in Statics /\ v.state # "INIT"
  /\ HeaderKept(v) /\ Highlight(v) /\ OnPage(v) /\ PageKept(v, n)

SelInv ==
  /\ card \in Cards \cup {None} /\ ready \in BOOLEAN /\ flaky \in BOOLEAN
  /\ Consistent(u, card) /\ u.out = <<>>
  /\ {file, image} \subseteq Files /\ chosen = file
  /\ pc \in {"mount", "open", "poll", "blink", "out"}

-----------------------------------------------------------------------------
(* The cells of the display (menu.c:348).                                  *)
LEMMA Least ==
  ASSUME NEW S \in SUBSET Nat, S # {}
  PROVE  \E m \in S : \A s \in S : m <= s
<1>1. PICK m \in S : \A s \in S : ~(<<s, m>> \in OpToRel(<, Nat))
  BY WFMin, NatLessThanWellFounded
<1>2. m \in S /\ \A s \in S : ~(s < m)
  BY <1>1 DEF OpToRel
<1> QED BY <1>2

LEMMA Offset ==
  ASSUME NEW i \in 0 .. 255
  PROVE  fsel_index2offs(i) = (33 + 16 * i) % 256
<1>1. i = 2 * (i \div 2) + (i % 2)
  OBVIOUS
<1>2. 33 + (i \div 2) * 32 + (i % 2) * 16 = 33 + 16 * i
  BY <1>1
<1> QED BY <1>2 DEF fsel_index2offs, Byte

LEMMA Layout ==
  /\ Items \subseteq 0 .. 11 /\ PAGESIZE \in 2 .. 12 /\ NLINES \in 1 .. 6
  /\ \A i \in 0 .. 11 : fsel_index2offs(i) = 33 + 16 * i
  /\ fsel_index2offs(255) = 17 /\ 17 \in HeaderCells
  /\ \A i \in (0 .. 11) \cup {255} : fsel_index2offs(i) \in Cells
  /\ \A i \in Items : fsel_index2offs(i) \in ItemCells
  /\ ItemCells \subseteq Cells /\ HeaderCells \subseteq Cells
  /\ HeaderCells \cap ItemCells = {}
<1>1. Items \subseteq 0 .. 11 /\ PAGESIZE \in 2 .. 12 /\ NLINES \in 1 .. 6
  BY SelectorAssumption DEF Items
<1>2. \A i \in 0 .. 11 : fsel_index2offs(i) = 33 + 16 * i
  BY Offset
<1>3. fsel_index2offs(255) = 17
  BY Offset
<1>4. \A i \in (0 .. 11) \cup {255} : fsel_index2offs(i) \in Cells
  BY DEF Cells
<1>5. \A i \in Items : fsel_index2offs(i) \in ItemCells
  BY DEF Items, ItemCells
<1>6. 17 \in HeaderCells
  BY <1>3, <1>4 DEF HeaderCells
<1>7. ItemCells \subseteq Cells
  BY <1>1, <1>4 DEF Items, ItemCells
<1>8. HeaderCells \subseteq Cells /\ HeaderCells \cap ItemCells = {}
  BY <1>1, <1>2 DEF HeaderCells, ItemCells, Items
<1> QED BY <1>1, <1>2, <1>3, <1>4, <1>5, <1>6, <1>7, <1>8

-----------------------------------------------------------------------------
(* The functions of menu.c.                                                *)
LEMMA ClsFacts ==
  ASSUME NEW v \in Statics
  PROVE  LET w == osd_cls(v) IN
         /\ w \in Statics /\ HeaderKept(w) /\ w.inv = HeaderCells /\ ~w.intact
         /\ w.state = v.state /\ w.joy_status = v.joy_status
         /\ w.inactivity = v.inactivity /\ w.osdcmd = v.osdcmd /\ w.out = v.out
<1> DEFINE t == [c \in Cells |-> IF c \in HeaderCells THEN Header ELSE Blank]
<1>1. t \in [Cells -> Files] /\ \A c \in HeaderCells : t[c] = Header
  BY Layout DEF Files
<1> HIDE DEF t
<1>2. osd_cls(v) = [v EXCEPT !.text = t, !.inv = HeaderCells, !.lit = None, !.intact = FALSE]
  BY DEF osd_cls, t
<1>3. HeaderCells \in SUBSET Cells
  BY Layout
<1>4. osd_cls(v) \in Statics
  <2>1. [v EXCEPT !.text = t, !.inv = HeaderCells, !.lit = None, !.intact = FALSE] \in Statics
    BY <1>1, <1>3, ZenonT(120) DEF Statics
  <2> QED BY <1>2, <2>1
<1>5. osd_cls(v).text = t /\ osd_cls(v).inv = HeaderCells /\ osd_cls(v).intact = FALSE
  BY <1>2 DEF Statics
<1>6. HeaderKept(osd_cls(v))
  BY <1>1, <1>5 DEF HeaderKept
<1> QED BY <1>2, <1>4, <1>5, <1>6 DEF Statics

(* The record of a menu that has just been opened.                         *)
LEMMA HomeTyped ==
  ASSUME NEW w \in Statics, NEW o \in Seq(Int), NEW c \in {0, HOLD}, 1 \in 0 .. 5
  PROVE  [w EXCEPT !.menu_x = 1, !.menu_y = 1, !.menu_selected = 255,
                   !.osdcmd = c, !.out = o] \in Statics
BY ZenonT(120) DEF Statics

(* Back to the menu from anywhere (menu.c:84-94).                          *)
LEMMA InitFacts ==
  ASSUME NEW v \in Statics
  PROVE  LET w == menu_init(v) IN
         /\ w \in Statics /\ w.state = "MENU" /\ w.osdcmd = v.osdcmd
         /\ w.out = Append(v.out, v.osdcmd)
         /\ v.state = "MENU" => w.text = v.text /\ w.inv = v.inv
         /\ v.state # "MENU" => HeaderKept(w) /\ w.inv = HeaderCells
         /\ w.inactivity = v.inactivity
<1> DEFINE a == [v EXCEPT !.state = "MENU", !.joy_status = Stale]
           w == IF v.state = "MENU" THEN v ELSE osd_cls(a)
<1>1. a \in Statics
  BY ZenonT(120) DEF Statics, MenuStates
<1>2. /\ w \in Statics /\ w.state = "MENU" /\ w.osdcmd = v.osdcmd /\ w.out = v.out
      /\ v.state = "MENU" => w = v
      /\ v.state # "MENU" => HeaderKept(w) /\ w.inv = HeaderCells
      /\ w.inactivity = v.inactivity
  <2>1. CASE v.state = "MENU"
    BY <2>1
  <2>2. CASE v.state # "MENU"
    <3>1. a.state = "MENU" /\ a.osdcmd = v.osdcmd /\ a.out = v.out /\ a.inactivity = v.inactivity
      BY DEF Statics
    <3>2. w = osd_cls(a)
      BY <2>2
    <3> HIDE DEF a, w
    <3> QED BY <1>1, <2>2, <3>1, <3>2, ClsFacts
  <2> QED BY <2>1, <2>2
<1>3. w.osdcmd % 2 = w.osdcmd
  <2> HIDE DEF w
  <2> QED BY <1>2 DEF Statics, HOLD
<1>4. Append(w.out, w.osdcmd) \in Seq(Int)
  <2> HIDE DEF w
  <2> QED BY <1>2 DEF Statics, HOLD
<1>5. menu_init(v) = [w EXCEPT !.menu_x = 1, !.menu_y = 1, !.menu_selected = 255,
                              !.osdcmd = w.osdcmd, !.out = Append(w.out, w.osdcmd)]
  BY <1>3, ZenonT(60) DEF menu_init
<1> HIDE DEF w
<1>6. menu_init(v) \in Statics
  <2>1. 1 \in 0 .. 5
    OBVIOUS
  <2>2. w.osdcmd \in {0, HOLD}
    BY <1>2 DEF Statics
  <2>3. [w EXCEPT !.menu_x = 1, !.menu_y = 1, !.menu_selected = 255,
                  !.osdcmd = w.osdcmd, !.out = Append(w.out, w.osdcmd)] \in Statics
    BY <1>2, <1>4, <2>1, <2>2, HomeTyped, ZenonT(60)
  <2> QED BY <1>5, <2>3
<1>7. LET i == menu_init(v) IN /\ i.state = w.state /\ i.osdcmd = w.osdcmd /\ i.text = w.text
                               /\ i.inv = w.inv /\ i.inactivity = w.inactivity
                               /\ i.out = Append(w.out, w.osdcmd)
  BY <1>2, <1>5 DEF Statics
<1> QED BY <1>2, <1>6, <1>7 DEF HeaderKept

(* Leaving a screen without drawing.                                       *)
LEMMA SameScreen ==
  ASSUME NEW v, NEW n, Consistent(v, n), NEW w \in Statics,
         w.text = v.text, w.inv = v.inv, w.state \in {"MENU", "ABOOT", "ABOOT2"}
  PROVE  Consistent(w, n)
BY DEF Consistent, HeaderKept, Highlight, OnPage, PageKept, Selecting, Shows

LEMMA InitConsistent ==
  ASSUME NEW v, NEW n, Consistent(v, n)
  PROVE  Consistent(menu_init(v), n)
<1>1. PICK w : w = menu_init(v)
  OBVIOUS
<1>2. /\ w \in Statics /\ w.state = "MENU"
      /\ v.state = "MENU" => w.text = v.text /\ w.inv = v.inv
      /\ v.state # "MENU" => HeaderKept(w) /\ w.inv = HeaderCells
  <2>1. v \in Statics
    BY DEF Consistent
  <2> QED BY <1>1, <2>1, InitFacts
<1>3. CASE v.state = "MENU"
  BY <1>1, <1>2, <1>3, SameScreen
<1>4. CASE v.state # "MENU"
  BY <1>1, <1>2, <1>4 DEF Consistent, Highlight, OnPage, PageKept, Selecting, Shows
<1> QED BY <1>3, <1>4

(* A button released on an item of the menu (menu.c:205-249).              *)
LEMMA SwitchConsistent ==
  ASSUME NEW v, NEW n, Consistent(v, n)
  PROVE  Consistent(switch_state(v), n)
<1>1. v \in Statics
  BY DEF Consistent
<1>2. CASE v.menu_selected = 1
  <2> DEFINE w == [v EXCEPT !.osdcmd = 1 - v.osdcmd, !.out = Append(@, 1 - v.osdcmd),
                            !.state = "MENU"]
  <2>1. 1 - v.osdcmd \in {0, HOLD} /\ Append(v.out, 1 - v.osdcmd) \in Seq(Int)
    BY <1>1 DEF Statics, HOLD
  <2>2. w \in Statics
    BY <1>1, <2>1, ZenonT(120) DEF Statics, MenuStates
  <2>3. w.text = v.text /\ w.inv = v.inv /\ w.state = "MENU"
    BY <1>1 DEF Statics
  <2>4. switch_state(v) = w
    BY <1>2 DEF switch_state
  <2> HIDE DEF w
  <2> QED BY <2>2, <2>3, <2>4, SameScreen
<1>3. ASSUME NEW bit \in {RESET, RESTART}, switch_state(v) = Pulse(v, bit)
      PROVE  Consistent(switch_state(v), n)
  <2> DEFINE w == [v EXCEPT !.state = "MENU", !.out = @ \o <<v.osdcmd + bit, v.osdcmd>>]
  <2>1. v.out \o <<v.osdcmd + bit, v.osdcmd>> \in Seq(Int)
    BY <1>1 DEF Statics, HOLD, RESET, RESTART
  <2>2. w \in Statics
    BY <1>1, <2>1, ZenonT(120) DEF Statics, MenuStates
  <2>3. w.text = v.text /\ w.inv = v.inv /\ w.state = "MENU"
    BY <1>1 DEF Statics
  <2>4. switch_state(v) = w
    BY <1>3 DEF Pulse
  <2> HIDE DEF w
  <2> QED BY <2>2, <2>3, <2>4, SameScreen
<1>4. CASE v.menu_selected = 7
  <2> DEFINE c == osd_cls(v)
             w == [c EXCEPT !.state = "ABOOT"]
  <2>1. c \in Statics /\ HeaderKept(c) /\ c.inv = HeaderCells
    BY <1>1, ClsFacts
  <2>2. switch_state(v) = w
    BY <1>4 DEF switch_state
  <2> HIDE DEF c
  <2>3. w \in Statics /\ w.text = c.text /\ w.inv = c.inv /\ w.state = "ABOOT"
    BY <2>1, ZenonT(120) DEF Statics, MenuStates
  <2> HIDE DEF w
  <2> QED BY <2>1, <2>2, <2>3 DEF Consistent, HeaderKept, Highlight, OnPage, PageKept, Selecting, Shows
<1>5. CASE v.menu_selected = 4
  <2> DEFINE c == osd_cls(v)
             f == [c EXCEPT !.pagestart = 0, !.redraw = TRUE, !.joy_status = Stale,
                            !.menu_x = 0, !.menu_y = 0, !.menu_selected = 0]
             w == [f EXCEPT !.state = "FSEL"]
  <2>1. c \in Statics /\ HeaderKept(c) /\ c.inv = HeaderCells
    BY <1>1, ClsFacts
  <2>2. switch_state(v) = w
    BY <1>5 DEF switch_state, fsel_init
  <2> HIDE DEF c
  <2>3. 0 \in 0 .. 255 /\ 0 \in 0 .. 5 /\ 0 \in (0 .. 11) \cup {255}
    OBVIOUS
  <2>4. f \in Statics
    BY <2>1, <2>3, ZenonT(120) DEF Statics
  <2>5. f.text = c.text /\ f.inv = c.inv /\ f.joy_status = Stale /\ f.redraw = TRUE
        /\ f.menu_x = 0 /\ f.menu_y = 0 /\ f.menu_selected = 0
    BY <2>1 DEF Statics
  <2> HIDE DEF f
  <2>a. w \in Statics /\ w.state = "FSEL"
    BY <2>4, ZenonT(120) DEF Statics, MenuStates
  <2>b. w.text = f.text /\ w.inv = f.inv /\ w.joy_status = f.joy_status /\ w.redraw = f.redraw
        /\ w.menu_x = f.menu_x /\ w.menu_y = f.menu_y /\ w.menu_selected = f.menu_selected
    BY <2>4 DEF Statics
  <2>6. w \in Statics /\ w.state = "FSEL" /\ w.text = c.text /\ w.inv = HeaderCells
        /\ w.joy_status = Stale /\ w.redraw = TRUE
        /\ w.menu_x = 0 /\ w.menu_y = 0 /\ w.menu_selected = 0
    BY <2>1, <2>5, <2>a, <2>b
  <2> HIDE DEF w
  <2>7. 0 \in Items /\ 0 < NLINES
    BY Layout DEF Items
  <2>8. HeaderKept(w) /\ Highlight(w)
    BY <2>1, <2>6, <2>7, Layout DEF HeaderKept, Highlight, Selecting, Shows
  <2>9. OnPage(w) /\ PageKept(w, n)
    BY <2>6, <2>7 DEF OnPage, PageKept, Shows
  <2> QED BY <2>2, <2>6, <2>8, <2>9 DEF Consistent
<1>6. CASE v.menu_selected \notin {1, 3, 4, 5, 7}
  <2> DEFINE w == [v EXCEPT !.state = "MENU"]
  <2>1. switch_state(v) = w
    BY <1>6 DEF switch_state
  <2>2. w \in Statics /\ w.text = v.text /\ w.inv = v.inv /\ w.state = "MENU"
    BY <1>1, ZenonT(120) DEF Statics, MenuStates
  <2> HIDE DEF w
  <2> QED BY <2>1, <2>2, SameScreen
<1>7. /\ v.menu_selected = 3 => switch_state(v) = Pulse(v, RESET)
      /\ v.menu_selected = 5 => switch_state(v) = Pulse(v, RESTART)
  BY DEF switch_state
<1> QED BY <1>2, <1>3, <1>4, <1>5, <1>6, <1>7

(* The menu follows the joystick (menu.c:119-139).                         *)
LEMMA MenuConsistent ==
  ASSUME NEW v, NEW n, Consistent(v, n), v.state = "MENU"
  PROVE  /\ Consistent(Menu(v), n) /\ Menu(v).out = v.out
         /\ Menu(v).state \in {"MENU", "WAITBREAK"}
<1> DEFINE y == IF "UP" \in v.joy_status THEN 0 ELSE IF "DN" \in v.joy_status THEN 2 ELSE 1
           x == IF "LT" \in v.joy_status THEN 0 ELSE IF "RT" \in v.joy_status THEN 2 ELSE 1
           a == [v EXCEPT !.menu_x = x, !.menu_y = y]
           w == [a EXCEPT !.lit = a.menu_x + 3 * a.menu_y]
           f == [w EXCEPT !.state = "WAITBREAK", !.menu_selected = x + 3 * y]
<1>1. v \in Statics
  BY DEF Consistent
<1>2. x \in {0, 1, 2, 255} /\ y \in 0 .. 5 /\ x + 3 * y \in 0 .. 8
      /\ x + 3 * y \in {None} \cup 0 .. 8 /\ x + 3 * y \in (0 .. 11) \cup {255}
  OBVIOUS
<1>3. Menu(v) = IF "FIRE" \in v.joy_status THEN f ELSE w
  BY DEF Menu, draw_menu
<1> HIDE DEF x, y
<1>4. /\ a \in Statics
      /\ a.menu_x = x /\ a.menu_y = y /\ a.text = v.text /\ a.inv = v.inv /\ a.state = "MENU"
      /\ a.out = v.out
  <2>1. a \in Statics
    BY <1>1, <1>2, ZenonT(120) DEF Statics
  <2>2. a.menu_x = x /\ a.menu_y = y /\ a.text = v.text /\ a.inv = v.inv /\ a.state = "MENU"
        /\ a.out = v.out
    BY <1>1 DEF Statics
  <2> QED BY <2>1, <2>2
<1> HIDE DEF a
<1>5. /\ w \in Statics
      /\ w.text = v.text /\ w.inv = v.inv /\ w.state = "MENU" /\ w.lit = x + 3 * y
      /\ w.out = v.out
  <2>1. w \in Statics
    <3>1. a.menu_x + 3 * a.menu_y \in {None} \cup 0 .. 8
      BY <1>2, <1>4
    <3> QED BY <1>4, <3>1, ZenonT(120) DEF Statics
  <2>2. w.text = a.text /\ w.inv = a.inv /\ w.state = a.state /\ w.lit = a.menu_x + 3 * a.menu_y
        /\ w.out = a.out
    BY <1>4 DEF Statics
  <2> QED BY <1>4, <2>1, <2>2
<1> HIDE DEF w
<1>6. /\ f \in Statics
      /\ f.text = v.text /\ f.inv = v.inv /\ f.state = "WAITBREAK"
      /\ f.lit = x + 3 * y /\ f.menu_selected = x + 3 * y /\ f.out = v.out
  <2>1. f \in Statics
    <3>1. w \in Statics /\ x + 3 * y \in (0 .. 11) \cup {255}
      BY <1>2, <1>5
    <3>2. ASSUME NEW k \in (0 .. 11) \cup {255}
          PROVE  [w EXCEPT !.state = "WAITBREAK", !.menu_selected = k] \in Statics
      BY <3>1, ZenonT(120) DEF Statics, MenuStates
    <3> QED BY <3>1, <3>2
  <2>2. f.text = w.text /\ f.inv = w.inv /\ f.state = "WAITBREAK" /\ f.lit = w.lit
        /\ f.menu_selected = x + 3 * y /\ f.out = w.out
    BY <1>5 DEF Statics
  <2> QED BY <1>5, <2>1, <2>2
<1> HIDE DEF f
<1>7. Consistent(f, n)
  BY <1>6 DEF Consistent, HeaderKept, Highlight, OnPage, PageKept, Selecting, Shows
<1>8. Consistent(w, n)
  BY <1>5, SameScreen
<1> QED BY <1>3, <1>5, <1>6, <1>7, <1>8

-----------------------------------------------------------------------------
(* The page (menu.c:310-339).                                              *)
(* Reads that failed before the one that is shown.                         *)
LEMMA LostBefore ==
  ASSUME NEW L, NEW a \in Nat, NEW i \in Nat, a + i + 1 \notin L
  PROVE  Cardinality(L \cap (a + 1 .. a + i + 1)) \in 0 .. i
<1> DEFINE S == L \cap (a + 1 .. a + i + 1)
<1>1. IsFiniteSet(a + 1 .. a + i) /\ Cardinality(a + 1 .. a + i) = i
  <2>1. a + 1 \in Int /\ a + i \in Int
    OBVIOUS
  <2>2. IsFiniteSet(a + 1 .. a + i)
        /\ Cardinality(a + 1 .. a + i) = IF a + 1 > a + i THEN 0 ELSE a + i - (a + 1) + 1
    BY <2>1, FS_Interval
  <2> QED BY <2>2
<1>2. S \subseteq a + 1 .. a + i
  OBVIOUS
<1>3. Cardinality(S) <= i /\ Cardinality(S) \in Nat
  BY <1>1, <1>2, FS_Subset, FS_CardinalityType
<1> QED BY <1>3

LEMMA FullPage ==
  ASSUME NEW p \in 0 .. 255, NEW n \in Int
  PROVE  /\ \A i \in Items : p + i + 1 # Blank
         /\ (\A i \in Items : p + i + 1 <= n) <=> p + PAGESIZE <= n
<1>1. PAGESIZE - 1 \in Items /\ PAGESIZE \in Nat
  BY Layout DEF Items
<1>2. ASSUME \A i \in Items : p + i + 1 <= n
      PROVE  p + PAGESIZE <= n
  <2>1. p + (PAGESIZE - 1) + 1 <= n
    BY <1>1, <1>2
  <2> QED BY <1>1, <2>1
<1>3. ASSUME p + PAGESIZE <= n, NEW i \in Items
      PROVE  p + i + 1 <= n
  BY <1>1, <1>3 DEF Items
<1>4. \A i \in Items : p + i + 1 # Blank
  BY DEF Items, Blank
<1> QED BY <1>2, <1>3, <1>4

(* What drawing keeps, and what a page drawn without a failure shows.      *)
LEMMA DrawFacts ==
  ASSUME NEW v \in Statics, NEW n \in Int, NEW d \in Dirs
  PROVE  LET w == draw_fsel(v, n, d) IN
         /\ w \in Statics
         /\ w.state = v.state /\ w.joy_status = v.joy_status /\ w.out = v.out
         /\ w.menu_x = v.menu_x /\ w.menu_y = v.menu_y /\ w.menu_selected = v.menu_selected
         /\ w.osdcmd = v.osdcmd
         /\ \A c \in HeaderCells : w.text[c] = v.text[c]
         /\ w.inv \subseteq v.inv /\ w.inv \cap HeaderCells = v.inv \cap HeaderCells
         /\ w.intact => ExactPage(w, n) /\ w.pagestart = v.pagestart /\ (v.pagestart = 0 \/ v.pagestart <= n)
<1> DEFINE bad == {r \in 1 .. v.pagestart : r > n \/ r \in d.lost}
           stop == CHOOSE r \in bad : \A s \in bad : r <= s
           skipped == IF bad = {} THEN v.pagestart ELSE stop - 1
           tried == IF bad = {} THEN v.pagestart ELSE stop
           at(i) == skipped + i + 1 - Cardinality(d.lost \cap tried + 1 .. tried + i + 1)
           Shown(i) == IF tried + i + 1 \in d.lost \/ at(i) > n THEN Blank ELSE at(i)
           t == [c \in Cells |-> IF c \notin ItemCells THEN v.text[c]
                   ELSE Shown(CHOOSE i \in 0 .. PAGESIZE - 1 : fsel_index2offs(i) = c)]
           more == \A i \in 0 .. PAGESIZE - 1 : Shown(i) # Blank
           clean == d.lost = {} /\ bad = {}
           shut == [v EXCEPT !.hasnext = TRUE, !.intact = FALSE]
           ps == IF bad = {} THEN v.pagestart ELSE 0
           w == [v EXCEPT !.pagestart = ps, !.text = t, !.inv = @ \ ItemCells,
                          !.hasnext = more, !.intact = clean]
<1>1. draw_fsel(v, n, d) = IF ~d.open THEN shut ELSE w
  BY DEF draw_fsel
<1>2. v.pagestart \in 0 .. 255 /\ v.text \in [Cells -> Files] /\ v.inv \in SUBSET Cells
  BY DEF Statics
<1>3. skipped \in 0 .. 255 /\ tried \in 0 .. 255
  <2>1. CASE bad = {}
    BY <1>2, <2>1
  <2>2. CASE bad # {}
    <3>1. bad \in SUBSET Nat /\ bad \subseteq 1 .. 255
      BY <1>2
    <3>2. stop \in bad
      <4> HIDE DEF bad
      <4> QED BY <2>2, <3>1, Least
    <3> HIDE DEF bad, stop
    <3> QED BY <2>2, <3>1, <3>2
  <2> QED BY <2>1, <2>2
<1> HIDE DEF skipped, tried
<1>4. \A i \in Items : Shown(i) \in Files
  <2> SUFFICES ASSUME NEW i \in Items, Shown(i) # Blank
               PROVE  at(i) \in 1 .. 300
    BY DEF Files
  <2>1. i \in 0 .. 11 /\ tried \in Nat /\ i \in Nat
    BY <1>3, Layout
  <2>2. tried + i + 1 \notin d.lost
    OBVIOUS
  <2>3. Cardinality(d.lost \cap tried + 1 .. tried + i + 1) \in 0 .. i
    BY <2>1, <2>2, LostBefore
  <2> QED BY <1>3, <2>1, <2>3
<1>5. \A i \in Items : t[fsel_index2offs(i)] = Shown(i)
  <2> SUFFICES ASSUME NEW i \in Items
               PROVE  t[fsel_index2offs(i)] = Shown(i)
    OBVIOUS
  <2>1. \A k \in 0 .. PAGESIZE - 1 : fsel_index2offs(k) = fsel_index2offs(i) => k = i
    BY Layout DEF Items
  <2>2. (CHOOSE k \in 0 .. PAGESIZE - 1 : fsel_index2offs(k) = fsel_index2offs(i)) = i
    BY <2>1 DEF Items
  <2>3. fsel_index2offs(i) \in Cells /\ fsel_index2offs(i) \in ItemCells
    BY Layout
  <2> HIDE DEF Shown
  <2>4. t[fsel_index2offs(i)] =
          Shown(CHOOSE k \in 0 .. PAGESIZE - 1 : fsel_index2offs(k) = fsel_index2offs(i))
    BY <2>3
  <2> HIDE DEF t
  <2> QED BY <2>2, <2>4
<1>6. t \in [Cells -> Files] /\ \A c \in HeaderCells : t[c] = v.text[c]
  <2>1. ASSUME NEW c \in ItemCells
        PROVE  t[c] \in Files
    <3>1. PICK i \in Items : c = fsel_index2offs(i)
      BY DEF ItemCells, Items
    <3> HIDE DEF t, Shown
    <3> QED BY <1>4, <1>5, <3>1
  <2>2. \A c \in Cells \ ItemCells : t[c] = v.text[c]
    OBVIOUS
  <2>3. t = [c \in Cells |-> t[c]]
    OBVIOUS
  <2> HIDE DEF t, Shown
  <2> QED BY <1>2, <2>1, <2>2, <2>3, Layout
<1>7. CASE ~d.open
  <2>1. shut \in Statics
    BY ZenonT(120) DEF Statics
  <2>2. draw_fsel(v, n, d) = shut
    BY <1>1, <1>7
  <2> QED BY <2>1, <2>2 DEF Statics
<1>8. CASE d.open
  <2>1. ps \in 0 .. 255 /\ v.inv \ ItemCells \in SUBSET Cells /\ more \in BOOLEAN /\ clean \in BOOLEAN
    BY <1>2
  <2>2. draw_fsel(v, n, d) = w
    BY <1>1, <1>8
  <2>3. clean => /\ ps = v.pagestart /\ (v.pagestart = 0 \/ v.pagestart <= n)
                 /\ \A i \in Items : t[fsel_index2offs(i)] =
                      IF v.pagestart + i + 1 <= n THEN v.pagestart + i + 1 ELSE Blank
                 /\ more <=> v.pagestart + PAGESIZE <= n
    <3> SUFFICES ASSUME clean
                 PROVE  /\ ps = v.pagestart /\ (v.pagestart = 0 \/ v.pagestart <= n)
                        /\ \A i \in Items : t[fsel_index2offs(i)] =
                             IF v.pagestart + i + 1 <= n THEN v.pagestart + i + 1 ELSE Blank
                        /\ more <=> v.pagestart + PAGESIZE <= n
      OBVIOUS
    <3>1. ps = v.pagestart /\ skipped = v.pagestart /\ tried = v.pagestart
      BY DEF skipped, tried
    <3>2. v.pagestart = 0 \/ v.pagestart <= n
      <4>1. v.pagestart # 0 => v.pagestart \in 1 .. v.pagestart
        BY <1>2
      <4>2. v.pagestart \notin bad
        OBVIOUS
      <4> QED BY <1>2, <4>1, <4>2
    <3>3. \A i : Cardinality(d.lost \cap tried + 1 .. tried + i + 1) = 0
      BY FS_EmptySet
    <3>4. \A i \in Items : Shown(i) = IF v.pagestart + i + 1 <= n THEN v.pagestart + i + 1 ELSE Blank
      BY <1>2, <3>1, <3>3, Layout
    <3> HIDE DEF Shown
    <3>5. more <=> v.pagestart + PAGESIZE <= n
      <4>1. PAGESIZE - 1 \in Items /\ Items = 0 .. PAGESIZE - 1 /\ PAGESIZE \in Nat
        BY Layout DEF Items
      <4>2. \A i \in Items : Shown(i) # Blank <=> v.pagestart + i + 1 <= n
        <5> SUFFICES ASSUME NEW i \in Items
                     PROVE  Shown(i) # Blank <=> v.pagestart + i + 1 <= n
          OBVIOUS
        <5>1. v.pagestart + i + 1 # Blank
          BY <1>2, FullPage
        <5> QED BY <3>4, <5>1
      <4>3. more <=> \A i \in Items : v.pagestart + i + 1 <= n
        BY <4>1, <4>2
      <4>4. (\A i \in Items : v.pagestart + i + 1 <= n) <=> v.pagestart + PAGESIZE <= n
        BY <1>2, FullPage
      <4> QED BY <4>3, <4>4
    <3> HIDE DEF ps, t, more
    <3> QED BY <1>5, <3>1, <3>2, <3>4, <3>5
  <2> HIDE DEF ps, t, more, clean
  <2>4. w \in Statics
    BY <1>6, <2>1, ZenonT(120) DEF Statics
  <2>5. /\ w.state = v.state /\ w.joy_status = v.joy_status /\ w.out = v.out
        /\ w.menu_x = v.menu_x /\ w.menu_y = v.menu_y /\ w.menu_selected = v.menu_selected
        /\ w.osdcmd = v.osdcmd /\ w.pagestart = ps /\ w.text = t /\ w.inv = v.inv \ ItemCells
    BY DEF Statics
  <2>6. w.hasnext = more /\ w.intact = clean
    BY DEF Statics
  <2> HIDE DEF w
  <2>7. w.intact => ExactPage(w, n) /\ w.pagestart = v.pagestart /\ (v.pagestart = 0 \/ v.pagestart <= n)
    BY <2>3, <2>5, <2>6 DEF ExactPage
  <2> QED BY <1>6, <2>2, <2>4, <2>5, <2>7, Layout
<1> QED BY <1>7, <1>8

-----------------------------------------------------------------------------
(* The four directions (menu.c:155-193) move the selection, and turn the   *)
(* page only together with a redraw.                                       *)
Turned(v, w) ==
  /\ w \in Statics /\ w.menu_x \in {0, 1, 255} /\ w.menu_y < NLINES
  /\ w.state = v.state /\ w.joy_status = v.joy_status /\ w.menu_selected = v.menu_selected
  /\ w.text = v.text /\ w.inv = v.inv /\ w.hasnext = v.hasnext /\ w.intact = v.intact
  /\ w.out = v.out /\ w.osdcmd = v.osdcmd
  /\ v.redraw => w.redraw
  /\ w.redraw \/ w.pagestart = v.pagestart

LEMMA UpTurns ==
  ASSUME NEW v \in Statics, v.menu_x \in {0, 1, 255}, v.menu_y < NLINES
  PROVE  Turned(v, FselUp(v))
<1> DEFINE a == [v EXCEPT !.menu_y = @ - 1]
           b == [v EXCEPT !.pagestart = Byte(@ - (PAGESIZE - 1)), !.menu_y = NLINES - 1,
                          !.redraw = TRUE]
<1>1. FselUp(v) = v \/ (FselUp(v) = a /\ v.menu_y > 0) \/ FselUp(v) = b
  BY DEF FselUp
<1>2. v.menu_y \in 0 .. 5 /\ v.pagestart \in 0 .. 255
  BY DEF Statics
<1>3. ASSUME v.menu_y > 0
      PROVE  Turned(v, a)
  <2>1. v.menu_y - 1 \in 0 .. 5 /\ v.menu_y - 1 < NLINES
    BY <1>2, <1>3, Layout
  <2>2. a \in Statics
    BY <2>1, ZenonT(120) DEF Statics
  <2> QED BY <2>1, <2>2, ZenonT(60) DEF Turned, Statics
<1>4. Turned(v, b)
  <2> DEFINE p == Byte(v.pagestart - (PAGESIZE - 1))
  <2>1. p \in 0 .. 255 /\ NLINES - 1 \in 0 .. 5 /\ NLINES - 1 < NLINES
    BY <1>2, Layout DEF Byte
  <2> HIDE DEF p
  <2>2. [v EXCEPT !.pagestart = p, !.menu_y = NLINES - 1, !.redraw = TRUE] \in Statics
    BY <2>1, ZenonT(120) DEF Statics
  <2>3. b = [v EXCEPT !.pagestart = p, !.menu_y = NLINES - 1, !.redraw = TRUE]
    BY DEF p
  <2> QED BY <2>1, <2>2, <2>3 DEF Turned, Statics
<1>5. Turned(v, v)
  BY DEF Turned
<1> HIDE DEF a, b
<1> QED BY <1>1, <1>3, <1>4, <1>5

LEMMA DownTurns ==
  ASSUME NEW v \in Statics, v.menu_x \in {0, 1, 255}, v.menu_y < NLINES
  PROVE  Turned(v, FselDown(v))
<1> DEFINE a == [v EXCEPT !.menu_y = @ + 1]
           b == [v EXCEPT !.pagestart = Byte(@ + PAGESIZE - 1), !.menu_y = 0, !.redraw = TRUE]
<1>1. FselDown(v) = v \/ (FselDown(v) = a /\ v.menu_y < NLINES - 1) \/ FselDown(v) = b
  BY DEF FselDown
<1>2. v.menu_y \in 0 .. 5 /\ v.pagestart \in 0 .. 255
  BY DEF Statics
<1>3. ASSUME v.menu_y < NLINES - 1
      PROVE  Turned(v, a)
  <2>1. v.menu_y + 1 \in 0 .. 5 /\ v.menu_y + 1 < NLINES
    BY <1>2, <1>3, Layout
  <2>2. a \in Statics
    BY <2>1, ZenonT(120) DEF Statics
  <2> QED BY <2>1, <2>2, ZenonT(60) DEF Turned, Statics
<1>4. Turned(v, b)
  <2> DEFINE p == Byte(v.pagestart + PAGESIZE - 1)
  <2>1. p \in 0 .. 255 /\ 0 \in 0 .. 5 /\ 0 < NLINES
    BY <1>2, Layout DEF Byte
  <2> HIDE DEF p
  <2>2. [v EXCEPT !.pagestart = p, !.menu_y = 0, !.redraw = TRUE] \in Statics
    BY <2>1, ZenonT(120) DEF Statics
  <2>3. b = [v EXCEPT !.pagestart = p, !.menu_y = 0, !.redraw = TRUE]
    BY DEF p
  <2> QED BY <2>1, <2>2, <2>3 DEF Turned, Statics
<1>5. Turned(v, v)
  BY DEF Turned
<1> HIDE DEF a, b
<1> QED BY <1>1, <1>3, <1>4, <1>5

LEMMA SideTurns ==
  ASSUME NEW v \in Statics, v.menu_x \in {0, 1, 255}, v.menu_y < NLINES
  PROVE  /\ Turned(v, FselLeft(v)) /\ FselLeft(v).pagestart = v.pagestart
         /\ Turned(v, FselRight(v)) /\ FselRight(v).pagestart = v.pagestart
<1>1. ASSUME NEW x \in {0, 1, 255}
      PROVE  /\ Turned(v, [v EXCEPT !.menu_x = x])
             /\ [v EXCEPT !.menu_x = x].pagestart = v.pagestart
  <2>1. x \in {0, 1, 2, 255}
    BY <1>1
  <2>2. [v EXCEPT !.menu_x = x] \in Statics
    BY <2>1, ZenonT(120) DEF Statics
  <2> QED BY <1>1, <2>2, ZenonT(60) DEF Turned, Statics
<1>2. Turned(v, v)
  BY DEF Turned
<1>3. (IF v.menu_x = 0 THEN 255 ELSE (v.menu_x - 1) % 2) \in {0, 1, 255}
      /\ (v.menu_x + 1) % 2 \in {0, 1, 255}
  OBVIOUS
<1>4. Turned(v, FselLeft(v)) /\ FselLeft(v).pagestart = v.pagestart
  BY <1>1, <1>2, <1>3 DEF FselLeft
<1>5. Turned(v, FselRight(v)) /\ FselRight(v).pagestart = v.pagestart
  BY <1>1, <1>2, <1>3 DEF FselRight
<1> QED BY <1>4, <1>5

Directed(v) == FselRight(FselLeft(FselDown(FselUp(v))))
LEMMA Turns ==
  ASSUME NEW v \in Statics, v.menu_x \in {0, 1, 255}, v.menu_y < NLINES
  PROVE  Turned(v, Directed(v)) /\ Directed(v).pagestart = FselDown(FselUp(v)).pagestart
<1> DEFINE a == FselUp(v)
           b == FselDown(a)
           c == FselLeft(b)
<1>1. Turned(v, a)
  BY UpTurns
<1> HIDE DEF a
<1>2. Turned(a, b)
  BY <1>1, DownTurns DEF Turned
<1> HIDE DEF b
<1>3. Turned(b, c) /\ c.pagestart = b.pagestart
  BY <1>2, SideTurns DEF Turned
<1> HIDE DEF c
<1>4. Turned(c, FselRight(c)) /\ FselRight(c).pagestart = c.pagestart
  BY <1>3, SideTurns DEF Turned
<1>5. Directed(v) = FselRight(c) /\ b = FselDown(FselUp(v))
  BY DEF Directed, a, b, c
<1>6. Turned(v, b)
  BY <1>1, <1>2 DEF Turned
<1>7. Turned(v, c)
  BY <1>3, <1>6 DEF Turned
<1>8. Turned(v, FselRight(c))
  BY <1>4, <1>7 DEF Turned
<1> QED BY <1>3, <1>4, <1>5, <1>8

-----------------------------------------------------------------------------
(* The selector with the joystick just read: the state it may be in.       *)
Opened(v, n) ==
  /\ v \in Statics /\ v.state = "FSEL" /\ v.joy_status # Stale
  /\ HeaderKept(v) /\ v.inv \subseteq HeaderCells \cup ItemCells
  /\ v.inv \cap ItemCells \subseteq {SelCell(v)} /\ v.menu_selected \in Items \cup {255}
  /\ v.menu_x \in {0, 1, 255} /\ v.menu_y < NLINES
  /\ ~v.redraw /\ v.intact => ExactPage(v, n)

(* The selection is on the page or is the byte 255 (menu.c:195).           *)
LEMMA SelectionOnPage ==
  ASSUME NEW x \in {0, 1, 255}, NEW y \in 0 .. 5, y < NLINES
  PROVE  Byte(y * 2 + x) \in Items \cup {255} /\ Byte(y * 2 + x) \in (0 .. 11) \cup {255}
<1>1. CASE x # 255
  BY <1>1, SelectorAssumption DEF Byte, Items
<1>2. CASE x = 255 /\ y = 0
  BY <1>2 DEF Byte
<1>3. CASE x = 255 /\ y # 0
  <2>1. (y * 2 + 255) % 256 = y * 2 - 1
    BY <1>3
  <2> QED BY <1>3, <2>1, SelectorAssumption DEF Byte, Items
<1> QED BY <1>1, <1>2, <1>3

Drawn(v, n, d) ==
  LET w == Directed(v)
  IN IF w.redraw THEN draw_fsel([w EXCEPT !.redraw = FALSE], n, d) ELSE w

LEMMA DrawnFacts ==
  ASSUME NEW v, NEW n \in Int, NEW d \in Dirs, Opened(v, n)
  PROVE  LET x == Drawn(v, n, d) IN
         /\ x \in Statics /\ x.state = "FSEL" /\ x.joy_status = v.joy_status
         /\ x.out = v.out /\ x.osdcmd = v.osdcmd
         /\ HeaderKept(x) /\ x.inv \subseteq HeaderCells \cup ItemCells
         /\ x.inv \cap ItemCells \subseteq {SelCell(x)} /\ x.menu_selected \in Items \cup {255}
         /\ x.menu_x \in {0, 1, 255} /\ x.menu_y < NLINES
         /\ x.intact => ExactPage(x, n)
         /\ x.intact => /\ x.pagestart = Directed(v).pagestart
                        /\ x.pagestart # v.pagestart => x.pagestart = 0 \/ x.pagestart <= n
<1> DEFINE w == Directed(v)
           a == [w EXCEPT !.redraw = FALSE]
           x == draw_fsel(a, n, d)
<1>1. v \in Statics /\ Turned(v, w)
  BY Turns DEF Opened
<1> HIDE DEF w
<1>2. CASE ~w.redraw
  <2>1. Drawn(v, n, d) = w
    BY <1>2 DEF Drawn, w
  <2>2. w.pagestart = v.pagestart /\ ~v.redraw
    BY <1>1, <1>2 DEF Turned
  <2>3. w.intact => ExactPage(w, n)
    BY <1>1, <2>2 DEF Opened, Turned, ExactPage
  <2> QED BY <1>1, <2>1, <2>2, <2>3 DEF Opened, Turned, HeaderKept, SelCell, w
<1>3. CASE w.redraw
  <2>1. Drawn(v, n, d) = x
    BY <1>3 DEF Drawn, w
  <2>2. a \in Statics
    <3>1. w \in Statics
      BY <1>1 DEF Turned
    <3> QED BY <3>1, ZenonT(60) DEF Statics
  <2>3. /\ a.state = w.state /\ a.joy_status = w.joy_status /\ a.out = w.out
        /\ a.menu_x = w.menu_x /\ a.menu_y = w.menu_y /\ a.menu_selected = w.menu_selected
        /\ a.osdcmd = w.osdcmd /\ a.text = w.text /\ a.inv = w.inv /\ a.pagestart = w.pagestart
    <3>1. w \in Statics
      BY <1>1 DEF Turned
    <3> QED BY <3>1 DEF Statics
  <2> HIDE DEF a
  <2>4. /\ x \in Statics
        /\ x.state = a.state /\ x.joy_status = a.joy_status /\ x.out = a.out
        /\ x.menu_x = a.menu_x /\ x.menu_y = a.menu_y /\ x.menu_selected = a.menu_selected
        /\ x.osdcmd = a.osdcmd
        /\ \A c \in HeaderCells : x.text[c] = a.text[c]
        /\ x.inv \subseteq a.inv /\ x.inv \cap HeaderCells = a.inv \cap HeaderCells
        /\ x.intact => ExactPage(x, n) /\ x.pagestart = a.pagestart /\ (a.pagestart = 0 \/ a.pagestart <= n)
    BY <2>2, DrawFacts
  <2> HIDE DEF x
  <2>5. x.state = "FSEL" /\ x.joy_status = v.joy_status /\ x.out = v.out /\ x.osdcmd = v.osdcmd
        /\ x.menu_selected = v.menu_selected /\ x.inv \subseteq v.inv
        /\ x.menu_x \in {0, 1, 255} /\ x.menu_y < NLINES
        /\ \A c \in HeaderCells : x.text[c] = v.text[c]
    BY <1>1, <2>3, <2>4 DEF Turned, Opened
  <2>6. HeaderKept(x) /\ x.inv \subseteq HeaderCells \cup ItemCells
        /\ x.inv \cap ItemCells \subseteq {SelCell(x)} /\ x.menu_selected \in Items \cup {255}
    BY <2>5 DEF Opened, HeaderKept, SelCell
  <2>7. x.intact => /\ x.pagestart = Directed(v).pagestart
                    /\ x.pagestart = 0 \/ x.pagestart <= n
    BY <2>3, <2>4 DEF w
  <2>8. x.intact => ExactPage(x, n)
    BY <2>4
  <2>9. x \in Statics
    BY <2>4
  <2> QED BY <2>1, <2>5, <2>6, <2>7, <2>8, <2>9
<1> QED BY <1>2, <1>3

(* A move of the joystick in the selector (menu.c:155-203).                *)
LEMMA FselFacts ==
  ASSUME NEW v, NEW n \in Int, NEW d \in Dirs, Opened(v, n)
  PROVE  LET f == Fsel(v, n, d) IN
         /\ Consistent(f, n) /\ f.out = v.out /\ f.osdcmd = v.osdcmd
         /\ Shows(f)
         /\ f.intact => /\ f.pagestart = Directed(v).pagestart
                        /\ f.pagestart # v.pagestart => f.pagestart = 0 \/ f.pagestart <= n
<1> DEFINE x == Drawn(v, n, d)
           sel == Byte(x.menu_y * 2 + x.menu_x)
           inv == (x.inv \ {fsel_index2offs(x.menu_selected)}) \cup {fsel_index2offs(sel)}
           y == [x EXCEPT !.menu_selected = sel, !.inv = inv]
           f == [y EXCEPT !.state = "WAITBREAK2"]
<1>1. Fsel(v, n, d) = IF "FIRE" \in v.joy_status THEN f ELSE y
  BY DEF Fsel, Drawn, Directed, MoveHighlightTo
<1>2. /\ x \in Statics /\ x.state = "FSEL" /\ x.joy_status = v.joy_status
      /\ x.out = v.out /\ x.osdcmd = v.osdcmd
      /\ HeaderKept(x) /\ x.inv \subseteq HeaderCells \cup ItemCells
      /\ x.inv \cap ItemCells \subseteq {SelCell(x)} /\ x.menu_selected \in Items \cup {255}
      /\ x.menu_x \in {0, 1, 255} /\ x.menu_y < NLINES
      /\ x.intact => ExactPage(x, n)
      /\ x.intact => /\ x.pagestart = Directed(v).pagestart
                     /\ x.pagestart # v.pagestart => x.pagestart = 0 \/ x.pagestart <= n
  BY DrawnFacts
<1>3. v.joy_status # Stale
  BY DEF Opened
<1> HIDE DEF x
<1>4. x.menu_y \in 0 .. 5 /\ x.inv \subseteq Cells
  BY <1>2 DEF Statics
<1>5. sel \in Items \cup {255} /\ sel \in (0 .. 11) \cup {255}
  BY <1>2, <1>4, SelectionOnPage
<1> HIDE DEF sel
<1>6. /\ fsel_index2offs(sel) \in HeaderCells \cup ItemCells
      /\ fsel_index2offs(sel) \in Cells
  BY <1>5, Layout
<1>7. /\ inv \subseteq Cells /\ inv \subseteq HeaderCells \cup ItemCells
      /\ inv \cap ItemCells \subseteq {fsel_index2offs(sel)} /\ fsel_index2offs(sel) \in inv
  BY <1>2, <1>4, <1>6, SMTT(30) DEF SelCell
<1> HIDE DEF inv
<1>8. y \in Statics
  <2>1. x \in Statics /\ inv \in SUBSET Cells
    BY <1>2, <1>7
  <2>2. ASSUME NEW k \in (0 .. 11) \cup {255}, NEW c \in SUBSET Cells
        PROVE  [x EXCEPT !.menu_selected = k, !.inv = c] \in Statics
    BY <2>1, ZenonT(120) DEF Statics
  <2> QED BY <1>5, <2>1, <2>2
<1>9. /\ y.menu_selected = sel /\ y.inv = inv /\ y.text = x.text /\ y.state = x.state
      /\ y.joy_status = x.joy_status /\ y.menu_x = x.menu_x /\ y.menu_y = x.menu_y
      /\ y.out = x.out /\ y.osdcmd = x.osdcmd /\ y.intact = x.intact
      /\ y.pagestart = x.pagestart /\ y.hasnext = x.hasnext
  <2>1. x \in Statics
    BY <1>2
  <2> QED BY <2>1 DEF Statics
<1> HIDE DEF y
<1>10. f \in Statics /\ f.state = "WAITBREAK2"
  BY <1>8, ZenonT(120) DEF Statics, MenuStates
<1>11. /\ f.menu_selected = y.menu_selected /\ f.inv = y.inv /\ f.text = y.text
       /\ f.out = y.out /\ f.osdcmd = y.osdcmd /\ f.intact = y.intact
       /\ f.pagestart = y.pagestart /\ f.hasnext = y.hasnext
  BY <1>8 DEF Statics
<1> HIDE DEF f
<1>12. /\ Consistent(y, n) /\ y.out = v.out /\ y.osdcmd = v.osdcmd /\ Shows(y)
       /\ y.intact => /\ y.pagestart = Directed(v).pagestart
                      /\ y.pagestart # v.pagestart => y.pagestart = 0 \/ y.pagestart <= n
  <2>1. HeaderKept(y) /\ Highlight(y) /\ Shows(y)
    BY <1>2, <1>3, <1>5, <1>7, <1>9 DEF HeaderKept, Highlight, Selecting, Shows, SelCell
  <2>2. OnPage(y) /\ PageKept(y, n)
    BY <1>2, <1>3, <1>9 DEF OnPage, PageKept, ExactPage
  <2> QED BY <1>2, <1>8, <1>9, <2>1, <2>2 DEF Consistent
<1>13. /\ Consistent(f, n) /\ f.out = v.out /\ f.osdcmd = v.osdcmd /\ Shows(f)
       /\ f.intact => /\ f.pagestart = Directed(v).pagestart
                      /\ f.pagestart # v.pagestart => f.pagestart = 0 \/ f.pagestart <= n
  <2>1. HeaderKept(f) /\ Highlight(f) /\ Shows(f)
    BY <1>2, <1>5, <1>7, <1>9, <1>10, <1>11 DEF HeaderKept, Highlight, Selecting, Shows, SelCell
  <2>2. OnPage(f) /\ PageKept(f, n)
    BY <1>2, <1>9, <1>10, <1>11 DEF OnPage, PageKept, ExactPage
  <2> QED BY <1>2, <1>9, <1>10, <1>11, <2>1, <2>2 DEF Consistent
<1> QED BY <1>1, <1>12, <1>13

-----------------------------------------------------------------------------
(* menu_dispatch (menu.c:96-203).                                          *)
(* The joystick matters to what is on the screen only in the selector.     *)
LEMMA ReadJoystick ==
  ASSUME NEW w, NEW n, Consistent(w, n), NEW j \in Joys
  PROVE  LET v == [w EXCEPT !.joy_status = j, !.inactivity = INACTIVITY] IN
         /\ w.state # "FSEL" => Consistent(v, n)
         /\ w.state = "FSEL" => Opened(v, n)
         /\ v \in Statics /\ v.state = w.state /\ v.joy_status = j /\ v.out = w.out
         /\ v.text = w.text /\ v.inv = w.inv /\ v.intact = w.intact
         /\ v.pagestart = w.pagestart /\ v.hasnext = w.hasnext
<1> DEFINE v == [w EXCEPT !.joy_status = j, !.inactivity = INACTIVITY]
<1>1. w \in Statics
  BY DEF Consistent
<1>2. v \in Statics
  <2>1. INACTIVITY \in 0 .. INACTIVITY /\ j \in Joys \cup {Stale}
    BY SelectorAssumption
  <2> QED BY <1>1, <2>1, ZenonT(120) DEF Statics
<1>3. /\ v.state = w.state /\ v.joy_status = j /\ v.out = w.out
      /\ v.text = w.text /\ v.inv = w.inv /\ v.intact = w.intact /\ v.redraw = w.redraw
      /\ v.pagestart = w.pagestart /\ v.hasnext = w.hasnext /\ v.menu_x = w.menu_x
      /\ v.menu_y = w.menu_y /\ v.menu_selected = w.menu_selected /\ v.lit = w.lit
  BY <1>1 DEF Statics
<1> HIDE DEF v
<1>4. j # Stale
  <2>1. "stale" \notin Keys
    BY DEF Keys
  <2> QED BY <2>1, SelectorAssumption DEF Stale
<1>5. w.state # "FSEL" => Consistent(v, n)
  BY <1>2, <1>3 DEF Consistent, HeaderKept, Highlight, OnPage, PageKept, ExactPage, Selecting, Shows,
     SelCell
<1>6. ASSUME w.state = "FSEL"
      PROVE  Opened(v, n)
  <2>1. ~w.redraw => Shows(w)
    BY <1>6 DEF Consistent, OnPage, Shows
  <2>2. ~v.redraw /\ v.intact => ExactPage(v, n)
    BY <1>3, <2>1 DEF Consistent, PageKept, ExactPage
  <2> QED BY <1>2, <1>3, <1>4, <1>6, <2>2
        DEF Consistent, HeaderKept, Highlight, OnPage, Selecting, SelCell, Opened
<1> QED BY <1>2, <1>3, <1>5, <1>6 DEF v

(* The inactivity counter.                                                 *)
LEMMA IdleFacts ==
  ASSUME NEW v, NEW n, Consistent(v, n)
  PROVE  LET w == Inactivity(v) IN
         /\ Consistent(w, n)
         /\ w.state = "MENU" \/ /\ w.state = v.state /\ w.out = v.out /\ w.text = v.text
                                /\ w.intact = v.intact /\ w.pagestart = v.pagestart
                                /\ w.hasnext = v.hasnext /\ w.joy_status = v.joy_status
         /\ v.state = "MENU" => w.out = v.out
<1> DEFINE left == IF v.inactivity > 0 THEN v.inactivity - 1 ELSE 0
           w == [v EXCEPT !.inactivity = left]
<1>1. v \in Statics /\ left \in 0 .. INACTIVITY
  BY SelectorAssumption DEF Consistent, Statics
<1>2. Inactivity(v) = IF left = 0 /\ v.state = "FSEL" THEN menu_init(w) ELSE w
  BY DEF Inactivity
<1> HIDE DEF left
<1>3. w \in Statics
  BY <1>1, ZenonT(120) DEF Statics
<1>4. /\ w.state = v.state /\ w.joy_status = v.joy_status /\ w.out = v.out
      /\ w.text = v.text /\ w.inv = v.inv /\ w.intact = v.intact /\ w.redraw = v.redraw
      /\ w.pagestart = v.pagestart /\ w.hasnext = v.hasnext /\ w.menu_x = v.menu_x
      /\ w.menu_y = v.menu_y /\ w.menu_selected = v.menu_selected /\ w.lit = v.lit
  BY <1>1 DEF Statics
<1> HIDE DEF w
<1>5. Consistent(w, n)
  BY <1>3, <1>4 DEF Consistent, HeaderKept, Highlight, OnPage, PageKept, ExactPage, Selecting, Shows,
     SelCell
<1>6. Consistent(menu_init(w), n) /\ menu_init(w).state = "MENU"
  BY <1>3, <1>5, InitConsistent, InitFacts
<1> QED BY <1>2, <1>4, <1>5, <1>6

LEMMA MovedFacts ==
  ASSUME NEW w, NEW n \in Int, Consistent(w, n), NEW j \in Joys, NEW d \in Dirs
  PROVE  LET v == [w EXCEPT !.joy_status = j, !.inactivity = INACTIVITY]
             f == Moved(v, n, d) IN
         /\ Consistent(f, n)
         /\ w.state = "MENU" => f.out = w.out /\ ~Shows(f)
         /\ Shows(w) /\ Shows(f) /\ f.intact =>
              \/ f.text = w.text /\ f.pagestart = w.pagestart
              \/ /\ Opened(v, n) /\ f.pagestart = Directed(v).pagestart
                 /\ f.pagestart # w.pagestart => f.pagestart = 0 \/ f.pagestart <= n
<1> DEFINE v == [w EXCEPT !.joy_status = j, !.inactivity = INACTIVITY]
           f == Moved(v, n, d)
<1>1. /\ w.state # "FSEL" => Consistent(v, n)
      /\ w.state = "FSEL" => Opened(v, n)
      /\ v \in Statics /\ v.state = w.state /\ v.joy_status = j /\ v.out = w.out
      /\ v.text = w.text /\ v.inv = w.inv /\ v.intact = w.intact
      /\ v.pagestart = w.pagestart /\ v.hasnext = w.hasnext
  BY ReadJoystick
<1>2. w.state \in MenuStates \ {"INIT"}
  BY DEF Consistent, Statics
<1> SUFFICES /\ Consistent(f, n)
             /\ w.state = "MENU" => f.out = w.out /\ ~Shows(f)
             /\ Shows(w) /\ Shows(f) /\ f.intact =>
                  \/ f.text = w.text /\ f.pagestart = w.pagestart
                  \/ /\ Opened(v, n) /\ f.pagestart = Directed(v).pagestart
                     /\ f.pagestart # w.pagestart => f.pagestart = 0 \/ f.pagestart <= n
  OBVIOUS
<1> HIDE DEF v
<1>3. CASE w.state = "MENU"
  <2>1. f = Menu(v)
    BY <1>1, <1>3 DEF Moved
  <2> HIDE DEF f
  <2> QED BY <1>1, <1>3, <2>1, MenuConsistent DEF Shows
<1>4. CASE w.state = "FSEL"
  <2>1. f = Fsel(v, n, d)
    BY <1>1, <1>4 DEF Moved
  <2> HIDE DEF f
  <2>2. /\ Consistent(f, n)
        /\ f.intact => /\ f.pagestart = Directed(v).pagestart
                       /\ f.pagestart # v.pagestart => f.pagestart = 0 \/ f.pagestart <= n
    BY <1>1, <1>4, <2>1, FselFacts
  <2> QED BY <1>1, <1>4, <2>2
<1>5. CASE w.state = "WAITBREAK"
  <2>1. f = switch_state(v) \/ f = v
    BY <1>1, <1>5 DEF Moved
  <2> HIDE DEF f
  <2> QED BY <1>1, <1>5, <2>1, SwitchConsistent DEF Shows
<1>6. CASE w.state \in {"WAITBREAK2", "ABOOT2"}
  <2>1. f = menu_init(v) \/ f = v
    BY <1>1, <1>6 DEF Moved
  <2> HIDE DEF f
  <2> QED BY <1>1, <1>6, <2>1, InitConsistent, InitFacts DEF Shows
<1>7. CASE w.state = "ABOOT"
  <2> DEFINE a == [v EXCEPT !.state = "ABOOT2"]
  <2>1. f = a \/ f = v
    BY <1>1, <1>7 DEF Moved
  <2>2. a \in Statics /\ a.state = "ABOOT2" /\ a.text = v.text /\ a.inv = v.inv
    BY <1>1, ZenonT(120) DEF Statics, MenuStates
  <2> HIDE DEF f, a
  <2> QED BY <1>1, <1>7, <2>1, <2>2, SameScreen DEF Shows
<1> QED BY <1>2, <1>3, <1>4, <1>5, <1>6, <1>7 DEF MenuStates

(* A dispatch keeps the screen consistent; from the menu it writes nothing *)
(* to OSD_CMD; and it goes from page to page as the directions say.        *)
Paged(v, f, n) ==
  Shows(v) /\ Shows(f) /\ f.intact =>
    \/ f.text = v.text /\ f.pagestart = v.pagestart
    \/ \E x \in Statics : /\ Opened(x, n) /\ x.pagestart = v.pagestart /\ x.hasnext = v.hasnext
                          /\ f.pagestart = Directed(x).pagestart
                          /\ f.pagestart # v.pagestart => f.pagestart = 0 \/ f.pagestart <= n

LEMMA DispatchFacts ==
  ASSUME NEW v, NEW n \in Int, Consistent(v, n), NEW moved \in BOOLEAN, NEW j \in Joys,
         NEW d \in Dirs
  PROVE  LET f == menu_dispatch(v, moved, j, n, d) IN
         /\ Consistent(f, n)
         /\ v.state = "MENU" => f.out = v.out /\ ~Shows(f)
         /\ Paged(v, f, n)
<1> DEFINE w == Inactivity(v)
           x == [w EXCEPT !.joy_status = j, !.inactivity = INACTIVITY]
           g == Moved(x, n, d)
           f == menu_dispatch(v, moved, j, n, d)
<1>1. /\ Consistent(w, n)
      /\ w.state = "MENU" \/ /\ w.state = v.state /\ w.out = v.out /\ w.text = v.text
                             /\ w.intact = v.intact /\ w.pagestart = v.pagestart
                             /\ w.hasnext = v.hasnext /\ w.joy_status = v.joy_status
      /\ v.state = "MENU" => w.out = v.out
  BY IdleFacts
<1>2. f = IF moved THEN g ELSE w
  BY DEF menu_dispatch
<1>3. v.state = "MENU" => w.state = "MENU"
  BY <1>1
<1> HIDE DEF w
<1>4. /\ Consistent(g, n)
      /\ w.state = "MENU" => g.out = w.out /\ ~Shows(g)
      /\ Shows(w) /\ Shows(g) /\ g.intact =>
           \/ g.text = w.text /\ g.pagestart = w.pagestart
           \/ /\ Opened(x, n) /\ g.pagestart = Directed(x).pagestart
              /\ g.pagestart # w.pagestart => g.pagestart = 0 \/ g.pagestart <= n
  BY <1>1, MovedFacts
<1>5. x.pagestart = w.pagestart /\ x.hasnext = w.hasnext /\ x \in Statics
  BY <1>1, ReadJoystick
<1> HIDE DEF x, g, f
<1>6. Shows(w) /\ w.state # "MENU" => /\ Shows(v) => w.pagestart = v.pagestart /\ w.text = v.text
                                                       /\ w.hasnext = v.hasnext
  BY <1>1
<1>7. w.state = "MENU" => ~Shows(w)
  BY DEF Shows
<1>8. Shows(v) /\ w.state # "MENU" => Shows(w)
  BY <1>1 DEF Shows
<1>9. Paged(v, g, n)
  BY <1>1, <1>4, <1>5, <1>8 DEF Paged
<1>10. Paged(v, w, n)
  BY <1>1, <1>7 DEF Paged
<1> QED BY <1>1, <1>2, <1>3, <1>4, <1>7, <1>9, <1>10 DEF f

(* The text under the highlight is the name that is opened (menu.c:146).   *)
LEMMA HighlightIsRead ==
  ASSUME NEW v, NEW n, Consistent(v, n), v.state = "WAITBREAK2"
  PROVE  fsel_getselected(v) = Highlighted(v) /\ fsel_getselected(v) \in Files
<1> DEFINE c == SelCell(v)
           Pick(k) == k \in ItemCells \/ v.inv \cap ItemCells = {}
           h == CHOOSE k \in v.inv : Pick(k)
<1>1. /\ v \in Statics /\ c \in v.inv /\ v.inv \subseteq HeaderCells \cup ItemCells
      /\ v.inv \cap ItemCells \subseteq {c} /\ v.menu_selected \in Items \cup {255}
      /\ \A k \in HeaderCells : v.text[k] = Header
  BY DEF Consistent, Highlight, HeaderKept, Selecting, Shows
<1>2. c \in ItemCells \/ c \in HeaderCells
  BY <1>1
<1>3. Pick(c)
  BY <1>1
<1>4. h \in v.inv /\ Pick(h)
  BY <1>1, <1>3
<1>5. Highlighted(v) = v.text[h] /\ fsel_getselected(v) = v.text[c]
  BY DEF Highlighted, fsel_getselected, SelCell
<1>6. v.text[c] \in Files
  BY <1>1 DEF Statics
<1> HIDE DEF c, h
<1>7. CASE c \in ItemCells
  BY <1>1, <1>4, <1>5, <1>6, <1>7
<1>8. CASE c \in HeaderCells /\ c \notin ItemCells
  <2>1. h \in HeaderCells
    BY <1>1, <1>4, <1>8
  <2> QED BY <1>1, <1>5, <1>6, <1>8, <2>1
<1> QED BY <1>2, <1>7, <1>8

LEMMA WrittenOut ==
  ASSUME NEW v, NEW n, Consistent(v, n)
  PROVE  LET w == [v EXCEPT !.out = <<>>] IN
         /\ Consistent(w, n) /\ w.out = <<>> /\ (Shows(w) <=> Shows(v))
         /\ w.text = v.text /\ w.pagestart = v.pagestart /\ w.intact = v.intact
<1> DEFINE w == [v EXCEPT !.out = <<>>]
<1>1. v \in Statics
  BY DEF Consistent
<1>2. w \in Statics
  <2>1. <<>> \in Seq(Int)
    OBVIOUS
  <2> QED BY <1>1, <2>1, ZenonT(120) DEF Statics
<1>3. /\ w.state = v.state /\ w.joy_status = v.joy_status /\ w.out = <<>>
      /\ w.text = v.text /\ w.inv = v.inv /\ w.intact = v.intact /\ w.redraw = v.redraw
      /\ w.pagestart = v.pagestart /\ w.hasnext = v.hasnext /\ w.menu_x = v.menu_x
      /\ w.menu_y = v.menu_y /\ w.menu_selected = v.menu_selected /\ w.lit = v.lit
  BY <1>1 DEF Statics
<1> HIDE DEF w
<1>4. Consistent(w, n)
  BY <1>2, <1>3 DEF Consistent, HeaderKept, Highlight, OnPage, PageKept, ExactPage, Selecting, Shows,
     SelCell
<1> QED BY <1>3, <1>4 DEF Shows, w

-----------------------------------------------------------------------------
(* The loop and its environment.                                           *)
LEMMA OutcomeTypes == DirOutcomes \subseteq Dirs
<1>1. NoFault \in Dirs
  BY DEF NoFault, Dirs
<1> QED BY <1>1 DEF DirOutcomes

LEMMA DispatchStep ==
  ASSUME SelInv, NEW v, Consistent(v, card), Dispatch(v)
  PROVE  /\ Consistent(u', card) /\ u'.out = <<>>
         /\ {file', image'} \subseteq Files /\ chosen' = file'
         /\ v.state = "MENU" => osdOut' = v.out /\ ~Shows(u')
         /\ Paged(v, u', card)
<1>1. card \in Int /\ None \in Files
  <2>1. card \in Cards \cup {None}
    BY DEF SelInv
  <2>2. card \in Int
    BY <2>1, SelectorAssumption DEF None
  <2>3. None = Header
    BY DEF None, Header
  <2> QED BY <2>2, <2>3 DEF Files
<1>2. PICK moved \in BOOLEAN, j \in Joys, d \in DirOutcomes :
        /\ Screen(menu_dispatch(v, moved, j, card, d))
        /\ file' = IF ResultDisk(v, moved, j) THEN fsel_getselected(v) ELSE file
        /\ chosen' = IF ResultDisk(v, moved, j) THEN Highlighted(v) ELSE chosen
        /\ image' = IF ResultDisk(v, moved, j) THEN None ELSE image
  BY DEF Dispatch
<1> DEFINE f == menu_dispatch(v, moved, j, card, d)
<1>3. d \in Dirs
  BY OutcomeTypes
<1>4. /\ Consistent(f, card)
      /\ v.state = "MENU" => f.out = v.out /\ ~Shows(f)
      /\ Paged(v, f, card)
  BY <1>1, <1>3, DispatchFacts
<1>5. u' = [f EXCEPT !.out = <<>>] /\ osdOut' = f.out
  BY <1>2 DEF Screen
<1> HIDE DEF f
<1>6. /\ Consistent(u', card) /\ u'.out = <<>> /\ (Shows(u') <=> Shows(f))
      /\ u'.text = f.text /\ u'.pagestart = f.pagestart /\ u'.intact = f.intact
  BY <1>4, <1>5, WrittenOut
<1>7. Paged(v, u', card)
  BY <1>4, <1>6 DEF Paged
<1>8. {file', image'} \subseteq Files /\ chosen' = file'
  <2>1. CASE ResultDisk(v, moved, j)
    <3>1. fsel_getselected(v) = Highlighted(v) /\ fsel_getselected(v) \in Files
      BY <2>1, HighlightIsRead DEF ResultDisk
    <3> QED BY <1>1, <1>2, <2>1, <3>1
  <2>2. CASE ~ResultDisk(v, moved, j)
    BY <1>2, <2>2 DEF SelInv
  <2> QED BY <2>1, <2>2
<1> QED BY <1>4, <1>5, <1>6, <1>7, <1>8

LEMMA SelInitial == SelInit => SelInv
<1> SUFFICES ASSUME SelInit
             PROVE  SelInv
  OBVIOUS
<1> DEFINE r == [state |-> "INIT", joy_status |-> {}, menu_x |-> 0, menu_y |-> 0,
          menu_selected |-> 0, pagestart |-> 0, redraw |-> FALSE, hasnext |-> FALSE,
          inactivity |-> 0, osdcmd |-> 0, out |-> <<>>,
          text |-> [c \in Cells |-> Blank], inv |-> {}, lit |-> None, intact |-> FALSE]
           m == menu_init(r)
<1>1. r \in Statics
  <2>1. 0 \in 0 .. 5 /\ 0 \in 0 .. 11 /\ 0 \in 0 .. 255 /\ 0 \in 0 .. INACTIVITY /\ {} \in Joys
        /\ <<>> \in Seq(Int)
    BY SelectorAssumption
  <2>2. [c \in Cells |-> Blank] \in [Cells -> Files]
    BY DEF Files
  <2> QED BY <2>1, <2>2 DEF Statics, MenuStates
<1>2. r.state # "MENU"
  OBVIOUS
<1>3. u = [m EXCEPT !.out = <<>>]
  BY DEF SelInit
<1> HIDE DEF r
<1>4. m \in Statics /\ m.state = "MENU" /\ HeaderKept(m) /\ m.inv = HeaderCells
  BY <1>1, <1>2, InitFacts
<1> HIDE DEF m
<1>5. Consistent(m, card)
  BY <1>4 DEF Consistent, Highlight, OnPage, PageKept, Selecting, Shows
<1>6. Consistent(u, card) /\ u.out = <<>>
  BY <1>3, <1>5, WrittenOut
<1>7. {file, image} \subseteq Files /\ chosen = file
  BY DEF SelInit, Files, None, Header
<1> QED BY <1>6, <1>7 DEF SelInit, SelInv

LEMMA SelStep == SelInv /\ [SelNext]_selVars => SelInv'
<1> SUFFICES ASSUME SelInv, [SelNext]_selVars
             PROVE  SelInv'
  OBVIOUS
<1>1. CASE UNCHANGED selVars
  BY <1>1 DEF SelInv, selVars
<1>2. CASE Mount \/ Poll
  <2>1. image' \in {image, None} /\ None \in Files
    BY <1>2 DEF Mount, Poll, Files, None, Header
  <2> QED BY <1>2, <2>1 DEF Mount, Poll, SelInv
<1>3. CASE OpenImage
  <2>1. file' \in {file, 1} /\ chosen' = file' /\ image' \in {file', None}
    BY <1>3 DEF OpenImage, SelInv
  <2>2. 1 \in Files /\ None \in Files
    BY DEF Files, None, Header
  <2>3. UNCHANGED <<card, ready, flaky, u>> /\ pc' \in {"poll", "out"}
    BY <1>3 DEF OpenImage
  <2> QED BY <2>1, <2>2, <2>3 DEF SelInv
<1>4. CASE Blink
  <2>1. Dispatch(u) /\ UNCHANGED <<card, ready, flaky>> /\ pc' \in {"mount", "out", "poll"}
    BY <1>4 DEF Blink, Dispatch
  <2> QED BY <2>1, DispatchStep DEF SelInv
<1>5. CASE Out
  <2>1. Dispatch(menu_init(u)) /\ UNCHANGED <<card, ready, flaky>> /\ pc' \in {"mount", "out", "poll"}
    BY <1>5 DEF Out, Dispatch, menu_busy2
  <2>2. Consistent(menu_init(u), card)
    BY InitConsistent DEF SelInv
  <2> QED BY <2>1, <2>2, DispatchStep DEF SelInv
<1>6. CASE SwapCard
  <2>1. u' = [u EXCEPT !.intact = FALSE] /\ Consistent(u, card) /\ u \in Statics
    BY <1>6 DEF SwapCard, SelInv, Consistent
  <2>2. u' \in Statics
    <3>1. [u EXCEPT !.intact = FALSE] \in Statics
      BY <2>1, ZenonT(120) DEF Statics
    <3> QED BY <2>1, <3>1
  <2>3. /\ u'.state = u.state /\ u'.joy_status = u.joy_status /\ u'.out = u.out
        /\ u'.text = u.text /\ u'.inv = u.inv /\ u'.intact = FALSE /\ u'.redraw = u.redraw
        /\ u'.menu_x = u.menu_x /\ u'.menu_y = u.menu_y
        /\ u'.menu_selected = u.menu_selected /\ u'.lit = u.lit
    BY <2>1 DEF Statics
  <2>4. Consistent(u', card')
    BY <2>1, <2>2, <2>3 DEF Consistent, HeaderKept, Highlight, OnPage, PageKept, Selecting, Shows, SelCell
  <2>5. card' \in Cards \cup {None} /\ ready' \in BOOLEAN /\ UNCHANGED <<flaky, pc, file, image, chosen>>
    BY <1>6 DEF SwapCard
  <2> QED BY <2>3, <2>4, <2>5 DEF SelInv
<1>7. CASE BadContact
  BY <1>7 DEF BadContact, SelInv
<1> QED BY <1>1, <1>2, <1>3, <1>4, <1>5, <1>6, <1>7 DEF SelNext, Loop

LEMMA SelAlways == SelSpec => []SelInv
BY SelInitial, SelStep, PTL DEF SelSpec

-----------------------------------------------------------------------------
(* The highlight is the selection and a page that could be read is the     *)
(* directory, for every page size, card and joystick, also where the       *)
(* column leaves the page as the byte 255 (menu.c:123-203,310-356).        *)
THEOREM ScreenAlwaysTrue == SelSpec => []ScreenIsTrue
<1>1. SelInv => ScreenIsTrue
  <2> SUFFICES ASSUME SelInv
               PROVE  ScreenIsTrue
    OBVIOUS
  <2>1. Consistent(u, card) /\ u \in Statics
    BY DEF SelInv, Consistent
  <2>2. SelTypeOK
    BY <2>1 DEF SelInv, SelTypeOK, Consistent, Statics, MenuStates
  <2>3. HighlightIsSelection
    BY <2>1 DEF Consistent, Highlight, HighlightIsSelection, Browsing, Shows, Selecting, SelCell
  <2>4. PageIsExact
    BY <2>1 DEF Consistent, PageKept, ExactPage, PageIsExact, Browsing, Shows
  <2> QED BY <2>2, <2>3, <2>4 DEF ScreenIsTrue
<1> QED BY <1>1, SelAlways, PTL

(* The image served is the one that was highlighted when the button was    *)
(* released, or the first of the card (menu.c:146-153, slave.c:78-87).     *)
THEOREM ChosenIsOpened == SelSpec => OpensTheChosen
<1>1. SelInv /\ [SelNext]_selVars => [pc = "open" /\ pc' = "poll" => image' = chosen']_selVars
  <2> SUFFICES ASSUME SelInv, SelNext, pc = "open", pc' = "poll"
               PROVE  image' = chosen'
    OBVIOUS
  <2>1. OpenImage
    BY DEF SelNext, Loop, Mount, Poll, Blink, Out, SwapCard, BadContact
  <2> QED BY <2>1 DEF OpenImage, SelInv
<1> QED BY <1>1, SelAlways, PTL DEF SelSpec, OpensTheChosen

(* While no image is served the menu changes no bit of OSD_CMD             *)
(* (slave.c:97-98, menu.c:84-94).                                          *)
THEOREM NoActionWithout == SelSpec => NoActionWithoutImage
<1>1. SelInv /\ [SelNext]_selVars =>
        [pc = "out" => \A i \in 1 .. Len(osdOut') : osdOut'[i] = u.osdcmd]_selVars
  <2> SUFFICES ASSUME SelInv, SelNext, pc = "out"
               PROVE  \A i \in 1 .. Len(osdOut') : osdOut'[i] = u.osdcmd
    OBVIOUS
  <2>1. CASE Out
    <3>1. Consistent(menu_init(u), card) /\ menu_init(u).state = "MENU"
          /\ menu_init(u).out = Append(u.out, u.osdcmd)
      BY InitConsistent, InitFacts DEF SelInv, Consistent
    <3>2. Dispatch(menu_init(u))
      BY <2>1 DEF Out, menu_busy2
    <3>3. osdOut' = Append(u.out, u.osdcmd) /\ u.out = <<>>
      BY <3>1, <3>2, DispatchStep DEF SelInv
    <3> QED BY <3>3
  <2>2. CASE SwapCard \/ BadContact
    BY <2>2 DEF SwapCard, BadContact
  <2> QED BY <2>1, <2>2 DEF SelNext, Loop, Mount, OpenImage, Poll, Blink
<1> QED BY <1>1, SelAlways, PTL DEF SelSpec, NoActionWithoutImage

-----------------------------------------------------------------------------
(* Where the page starts after up and down have been tried in turn.        *)
LEMMA TurnedPage ==
  ASSUME NEW v \in Statics, v.menu_x \in {0, 1, 255}, v.menu_y < NLINES
  PROVE  LET p == Directed(v).pagestart IN
         \/ p = v.pagestart
         \/ p = Byte(v.pagestart - (PAGESIZE - 1)) /\ v.pagestart # 0
         \/ p = Byte(v.pagestart + PAGESIZE - 1) /\ v.hasnext
<1> DEFINE a == FselUp(v)
           b == FselDown(a)
<1>1. a \in Statics /\ a.hasnext = v.hasnext /\ a.menu_x \in {0, 1, 255} /\ a.menu_y < NLINES
  BY UpTurns DEF Turned
<1>2. \/ a.pagestart = v.pagestart
      \/ a.pagestart = Byte(v.pagestart - (PAGESIZE - 1)) /\ v.pagestart # 0
  BY DEF FselUp, Statics
<1> HIDE DEF a
<1>3. b.pagestart = a.pagestart \/ (b.pagestart = Byte(a.pagestart + PAGESIZE - 1) /\ a.hasnext)
  BY <1>1 DEF FselDown, Statics
<1>4. Directed(v).pagestart = b.pagestart
  BY Turns DEF a
<1> HIDE DEF b
<1>5. Byte(Byte(v.pagestart - (PAGESIZE - 1)) + PAGESIZE - 1) = v.pagestart
  <2>1. ASSUME NEW q \in 0 .. 255, NEW k \in 1 .. 11
        PROVE  (((q - k) % 256) + k) % 256 = q
    <3>1. CASE q >= k
      BY <3>1
    <3>2. CASE q < k
      BY <3>2
    <3> QED BY <3>1, <3>2
  <2>2. v.pagestart \in 0 .. 255 /\ PAGESIZE - 1 \in 1 .. 11
    BY Layout DEF Statics
  <2>3. Byte(v.pagestart - (PAGESIZE - 1)) + PAGESIZE - 1
          = Byte(v.pagestart - (PAGESIZE - 1)) + (PAGESIZE - 1)
    BY <2>2 DEF Byte
  <2> QED BY <2>1, <2>2, <2>3 DEF Byte
<1> QED BY <1>1, <1>2, <1>3, <1>4, <1>5

(* Up to 245 images no page that is drawn whole has wrapped around.        *)
LEMMA NoWrap ==
  ASSUME NEW p \in 0 .. 255, NEW q \in 0 .. 255, NEW n \in -1 .. 245, NEW more,
         PAGESIZE \in 2 .. 12, more => p + PAGESIZE <= n, q = 0 \/ q <= n,
         \/ q = Byte(p - (PAGESIZE - 1)) /\ p # 0
         \/ q = Byte(p + PAGESIZE - 1) /\ more
  PROVE  q = p - (PAGESIZE - 1) \/ q = p + (PAGESIZE - 1)
<1>0. ASSUME NEW m \in 0 .. 511
      PROVE  (m < 256 => m % 256 = m) /\ (m >= 256 => m % 256 = m - 256)
  OBVIOUS
<1>1. CASE q = Byte(p - (PAGESIZE - 1)) /\ p # 0
  <2>1. CASE p >= PAGESIZE - 1
    <3>1. p - (PAGESIZE - 1) \in 0 .. 511 /\ p - (PAGESIZE - 1) < 256
      BY <2>1
    <3> QED BY <1>0, <1>1, <3>1 DEF Byte
  <2>2. CASE p < PAGESIZE - 1
    <3>1. q = p - (PAGESIZE - 1) + 256
      BY <1>1, <2>2, SMTT(30) DEF Byte
    <3> QED BY <1>1, <3>1
  <2> QED BY <2>1, <2>2
<1>2. CASE q = Byte(p + PAGESIZE - 1) /\ more
  <2>1. p + PAGESIZE - 1 \in 0 .. 511 /\ p + PAGESIZE - 1 < 256
    BY <1>2
  <2>2. q = p + PAGESIZE - 1
    BY <1>0, <1>2, <2>1 DEF Byte
  <2> QED BY <2>2
<1> QED BY <1>1, <1>2

(* A page that differs was drawn after one of the directions.              *)
LEMMA PageMoved ==
  ASSUME NEW v, NEW f, NEW n, Paged(v, f, n), Shows(v), Shows(f), f.intact,
         f.pagestart # v.pagestart
  PROVE  \E x \in Statics :
           /\ Opened(x, n) /\ x.pagestart = v.pagestart /\ x.hasnext = v.hasnext
           /\ f.pagestart = Directed(x).pagestart
           /\ f.pagestart = 0 \/ f.pagestart <= n
<1>1. PICK x \in Statics :
        /\ Opened(x, n) /\ x.pagestart = v.pagestart /\ x.hasnext = v.hasnext
        /\ f.pagestart = Directed(x).pagestart
        /\ f.pagestart # v.pagestart => f.pagestart = 0 \/ f.pagestart <= n
  BY DEF Paged
<1>2. f.pagestart = 0 \/ f.pagestart <= n
  BY <1>1
<1> QED BY <1>1, <1>2

(* Turning a page keeps one image in sight.  With more than 245 images     *)
(* this fails: pages that cannot be read always offer a next one and lead  *)
(* past byte 255 to a page in 1..10, from which up wraps back to a page    *)
(* near the end (menu.c:162-180).                                          *)
THEOREM PagesAlwaysOverlap ==
  ASSUME Cards \subseteq 0 .. 245
  PROVE  SelSpec => PagesOverlap
<1> DEFINE top == fsel_index2offs(0)
           bottom == fsel_index2offs(PAGESIZE - 1)
           Overlap == Browsing /\ u.intact /\ Browsing' /\ u'.intact /\ card' = card =>
                        /\ u'.pagestart > u.pagestart => u'.text[top] = u.text[bottom]
                        /\ u'.pagestart < u.pagestart => u'.text[bottom] = u.text[top]
<1>1. SelInv /\ [SelNext]_selVars => [Overlap]_selVars
  <2> SUFFICES ASSUME SelInv, SelNext, Shows(u), u.intact, Shows(u'), u'.intact, card' = card,
                      u'.pagestart # u.pagestart
               PROVE  /\ u'.pagestart > u.pagestart => u'.text[top] = u.text[bottom]
                      /\ u'.pagestart < u.pagestart => u'.text[bottom] = u.text[top]
    <3>1. SelInv /\ SelNext => u.pagestart \in 0 .. 255 /\ u'.pagestart \in 0 .. 255
      BY SelStep DEF SelInv, Consistent, Statics
    <3> QED BY <3>1 DEF Browsing, Shows
  <2>1. Consistent(u, card) /\ SelInv'
    BY SelStep DEF SelInv
  <2>2. Consistent(u', card)
    BY <2>1 DEF SelInv
  <2>3. ExactPage(u, card) /\ ExactPage(u', card)
    BY <2>1, <2>2 DEF Consistent, PageKept
  <2>4. u.pagestart \in 0 .. 255 /\ u'.pagestart \in 0 .. 255 /\ card \in -1 .. 245
    BY <2>1, <2>2 DEF Consistent, Statics, SelInv, None
  <2>5. Blink
    <3>1. CASE Out
      <4>1. Consistent(menu_init(u), card) /\ menu_init(u).state = "MENU"
        BY <2>1, InitConsistent, InitFacts DEF Consistent
      <4> QED BY <3>1, <4>1, DispatchStep DEF Out, menu_busy2
    <3>2. u' # u /\ u'.intact # FALSE
      OBVIOUS
    <3>3. ~SwapCard
      <4>1. u \in Statics
        BY <2>1 DEF Consistent
      <4>2. [u EXCEPT !.intact = FALSE].intact = FALSE
        BY <4>1 DEF Statics
      <4> QED BY <4>2 DEF SwapCard
    <3> QED BY <3>1, <3>2, <3>3 DEF SelNext, Loop, Mount, OpenImage, Poll, BadContact
  <2>6. Paged(u, u', card)
    BY <2>1, <2>5, DispatchStep DEF Blink
  <2>7. PICK x \in Statics :
          /\ Opened(x, card) /\ x.pagestart = u.pagestart /\ x.hasnext = u.hasnext
          /\ u'.pagestart = Directed(x).pagestart
          /\ u'.pagestart = 0 \/ u'.pagestart <= card
    BY <2>6, PageMoved
  <2>8. \/ u'.pagestart = Byte(u.pagestart - (PAGESIZE - 1)) /\ u.pagestart # 0
        \/ u'.pagestart = Byte(u.pagestart + PAGESIZE - 1) /\ u.hasnext
    BY <2>7, TurnedPage DEF Opened
  <2>9. PAGESIZE \in 2 .. 12 /\ 0 \in Items /\ PAGESIZE - 1 \in Items
    BY Layout DEF Items
  <2>10. u.hasnext => u.pagestart + PAGESIZE <= card
    BY <2>3, SMTT(40) DEF ExactPage
  <2>11. u'.pagestart = u.pagestart - (PAGESIZE - 1) \/ u'.pagestart = u.pagestart + (PAGESIZE - 1)
    BY <2>4, <2>7, <2>8, <2>9, <2>10, NoWrap, ZenonT(60)
  <2>12. /\ u.text[top] = IF u.pagestart + 0 + 1 <= card THEN u.pagestart + 0 + 1 ELSE Blank
         /\ u'.text[top] = IF u'.pagestart + 0 + 1 <= card THEN u'.pagestart + 0 + 1 ELSE Blank
         /\ u.text[bottom] = IF u.pagestart + (PAGESIZE - 1) + 1 <= card
                             THEN u.pagestart + (PAGESIZE - 1) + 1 ELSE Blank
         /\ u'.text[bottom] = IF u'.pagestart + (PAGESIZE - 1) + 1 <= card
                              THEN u'.pagestart + (PAGESIZE - 1) + 1 ELSE Blank
    BY <2>3, <2>9 DEF ExactPage
  <2> HIDE DEF top, bottom
  <2>13. ASSUME u'.pagestart > u.pagestart
         PROVE  u'.text[top] = u.text[bottom]
    <3>1. u'.pagestart = u.pagestart + (PAGESIZE - 1)
      BY <2>4, <2>9, <2>11, <2>13, SMTT(30)
    <3>2. u'.pagestart + 0 + 1 = u.pagestart + (PAGESIZE - 1) + 1
      BY <2>4, <2>9, <3>1
    <3> QED BY <2>12, <3>2
  <2>14. ASSUME u'.pagestart < u.pagestart
         PROVE  u'.text[bottom] = u.text[top]
    <3>1. u'.pagestart = u.pagestart - (PAGESIZE - 1)
      BY <2>4, <2>9, <2>11, <2>14, SMTT(30)
    <3>2. u'.pagestart + (PAGESIZE - 1) + 1 = u.pagestart + 0 + 1
      BY <2>4, <2>9, <3>1
    <3> QED BY <2>12, <3>2
  <2> QED BY <2>13, <2>14
<1>2. SelSpec => [][Overlap]_selVars
  BY <1>1, SelAlways, PTL DEF SelSpec
<1> QED BY <1>2 DEF PagesOverlap
=============================================================================
