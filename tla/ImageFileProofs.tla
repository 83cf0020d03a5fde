-------------------------- MODULE ImageFileProofs --------------------------
(***************************************************************************)
(* Theorems about ImageFile: fdd_readsector and fdd_writesector over       *)
(* f_lseek and f_read_or_wr exchange exactly the units of the floppy       *)
(* sector with their own places on the card (tff.c:904-986,1154-1224).     *)
(*                                                                         *)
(* FileInv ties the file object to the chain: while units are left, the    *)
(* object stands on a known sector of a known cluster, the units exchanged *)
(* so far are the first ones of the request, each in its place, and        *)
(* f_lseek has come as far as it says.  Fields of the untyped card record  *)
(* and of the FIL are named by operators, so that the provers can be told  *)
(* their types one at a time.                                              *)
(***************************************************************************)
EXTENDS ImageFile, TLAPS

(* The image file on card c.                                               *)
Spc(c) == c.sects_clust
Size(c) == c.fsize
Links(c) == Len(c.chain)
Link(c, k) == c.chain[k + 1]

Fil == [err : BOOLEAN, fptr : Nat, sect_clust : 0 .. 255, curr_clust : Nat, curr_sect : Nat]
Request == [op : {"rd", "wr"}, at : 0 .. ADDRESSES - 1]
FilInRange(c, f) == f \in Fil /\ f.fptr <= Size(c)
Aligned(w) == w \in Request /\ w.at % SECT = 0
FileRanges ==
  /\ fs \in Cards /\ winsect \in Nat /\ FilInRange(fs, fp)
  /\ pc \in {"idle", "skip", "start", "xfer"}
  /\ clust \in Nat /\ ofs \in Nat /\ btr \in 0 .. FDD_SECTOR
  /\ Aligned(want)
  /\ fault \in BOOLEAN /\ ret \in {"NONE", "OK", "RW_ERROR"}

(* Sector j of the cluster with index k: its number in the file, and on    *)
(* the card.                                                               *)
ClusterUnits(c) == Spc(c) * SECT
Index(c, k, j) == k * Spc(c) + j
CardSector(c, k, j) == DATABASE + (Link(c, k) - 2) * Spc(c) + j

(* The file object f has last touched that sector.  Its place on the card  *)
(* is not needed at the end of a cluster, and is not known there when the  *)
(* chain ended in f_lseek.                                                 *)
Touched(c, f, k, j) ==
  /\ f.curr_clust = Link(c, k)
  /\ f.sect_clust = Spc(c) - j
  /\ f.sect_clust # 1 => f.curr_sect = CardSector(c, k, j)
  /\ Index(c, k, j) * SECT < f.fptr /\ f.fptr <= (Index(c, k, j) + 1) * SECT
Stands(c, f) ==
  IF f.fptr = 0 THEN f.sect_clust = 1
  ELSE \E k \in 0 .. Links(c) - 1 :
         \E j \in 0 .. Spc(c) - 1 : Touched(c, f, k, j)

(* Where request w begins in the file and how many units it has there.     *)
From(c, w) == Least(w.at, Size(c))
Total(c, w) == Least(FDD_SECTOR, Size(c) - From(c, w))

(* f_lseek has skipped k clusters, or it met the end of a chain that is    *)
(* too short, and nothing will be exchanged.                               *)
Skipped(c, p, cl) ==
  \E k \in 0 .. Links(c) - 1 : p = k * ClusterUnits(c) /\ cl = Link(c, k)
Short(c, f) ==
  /\ f.fptr = Links(c) * ClusterUnits(c) /\ f.fptr < Size(c) /\ f.sect_clust = 1
  /\ Links(c) = 0 \/ c.tail = 0

(* The operation a unit is exchanged with, and the exchanges of the first  *)
(* n units of the request.                                                 *)
OpOf(c, w, u) == IF u \div SECT < Size(c) \div SECT THEN w.op ELSE "rd"
Located(c, u) == u < Size(c) /\ u \div ClusterUnits(c) < Links(c)
PlaceOf(c, u, i, op) ==
  [buf |-> i, op |-> op, at |-> u % SECT,
   sect |-> CardSector(c, u \div ClusterUnits(c), (u % ClusterUnits(c)) \div SECT)]
Exact(c, w, n) == {PlaceOf(c, w.at + i, i, OpOf(c, w, w.at + i)) : i \in 0 .. n - 1}
Placed(c, w, n) == \A i \in 0 .. n - 1 : Located(c, w.at + i)

Seeking ==
  pc = "skip" => /\ ofs > 0 /\ fp.fptr + ofs = From(fs, want)
                 /\ Skipped(fs, fp.fptr, clust)
Prepared ==
  /\ pc # "idle" => ~fp.err
  /\ pc \in {"skip", "start"} => moved = {}
  /\ pc \in {"start", "xfer"} => Stands(fs, fp)
  /\ pc = "start" => fp.fptr = From(fs, want) \/ Short(fs, fp)
Transferring ==
  pc = "xfer" =>
    \/ Short(fs, fp) /\ btr > 0 /\ moved = {}
    \/ /\ fp.fptr + btr = From(fs, want) + Total(fs, want) /\ btr <= Total(fs, want)
       /\ btr > 0 => fp.fptr % SECT = 0
       /\ moved = Exact(fs, want, Total(fs, want) - btr)
       /\ Placed(fs, want, Total(fs, want) - btr)

(* What is left when the request is over.                                  *)
Finished ==
  pc = "idle" =>
    /\ \E n \in 0 .. Total(fs, want) :
         /\ moved = Exact(fs, want, n) /\ Placed(fs, want, n)
         /\ ret = "OK" => n = Total(fs, want)
    /\ ret = "RW_ERROR" => fault \/ Links(fs) * ClusterUnits(fs) < Size(fs)

FileInv == FileRanges /\ Seeking /\ Prepared /\ Transferring /\ Finished

-----------------------------------------------------------------------------
(* Division by d is unique.                                                *)
LEMMA DivMod ==
  ASSUME NEW d \in Nat \ {0}, NEW q \in Nat, NEW r \in 0 .. d - 1
  PROVE  (q * d + r) \div d = q /\ (q * d + r) % d = r
<1> DEFINE x == q * d + r
           y == x \div d
           z == x % d
<1>1. x \in Nat /\ y \in Int /\ z \in 0 .. d - 1 /\ x = y * d + z
  OBVIOUS
<1> HIDE DEF x, y, z
<1>2. (q - y) * d = z - r
  BY <1>1 DEF x
<1>3. ASSUME NEW e \in Int, NEW w \in Int, e * d = w, w < d, w > -d
      PROVE  e = 0
  <2>1. CASE e >= 1
    <3>1. e * d >= d
      BY <2>1
    <3> QED BY <1>3, <3>1
  <2>2. CASE e <= -1
    <3>1. e * d <= -d
      BY <2>2
    <3> QED BY <1>3, <3>1
  <2> QED BY <2>1, <2>2
<1>4. q - y = 0
  BY <1>1, <1>2, <1>3
<1>5. y = q /\ z = r
  BY <1>1, <1>4, <1>2
<1> QED BY <1>5 DEF x, y, z

LEMMA Divided ==
  ASSUME NEW d \in Nat \ {0}, NEW u \in Nat
  PROVE  u \div d \in Nat /\ u % d \in 0 .. d - 1 /\ u = (u \div d) * d + (u % d)
<1> DEFINE y == u \div d
           z == u % d
<1>1. y \in Int /\ z \in 0 .. d - 1 /\ u = y * d + z
  OBVIOUS
<1> HIDE DEF y, z
<1>2. y >= 0
  <2>1. CASE y <= -1
    <3>1. y * d <= -d
      BY <1>1, <2>1
    <3> QED BY <1>1, <3>1
  <2> QED BY <1>1, <2>1
<1>3. y \in Nat
  BY <1>1, <1>2
<1> QED BY <1>1, <1>3 DEF y, z

LEMMA Multiple ==
  ASSUME NEW d \in Nat \ {0}, NEW u \in Nat, u % d = 0
  PROVE  \E q \in Nat : u = q * d
<1>1. u \div d \in Nat /\ u = (u \div d) * d + 0
  BY Divided
<1>2. PICK q \in Nat : q = u \div d
  BY <1>1
<1>3. u = q * d
  BY <1>1, <1>2
<1> QED BY <1>3

LEMMA Product ==
  ASSUME NEW a \in Int, NEW b \in Int
  PROVE  a * b \in Int /\ (a > 0 /\ b > 0 => a * b > 0) /\ (a >= 0 /\ b >= 0 => a * b >= 0)
OBVIOUS

LEMMA Monotone ==
  ASSUME NEW d \in Nat \ {0}, NEW a \in Int, NEW b \in Int
  PROVE  (a < b <=> a * d < b * d) /\ (a <= b <=> a * d <= b * d)
OBVIOUS

(* Unit u of a file with clusters of sc sectors of d units is unit a of    *)
(* sector j of cluster k.                                                  *)
Splits(d, sc, k, j, a, u) ==
  /\ u \in Nat /\ u \div (sc * d) = k /\ (u % (sc * d)) \div d = j
  /\ u \div d = k * sc + j /\ u % d = a
LEMMA SplitUnit ==
  ASSUME NEW d \in Nat \ {0}, NEW sc \in Nat \ {0}, NEW k \in Nat, NEW j \in 0 .. sc - 1,
         NEW a \in 0 .. d - 1
  PROVE  Splits(d, sc, k, j, a, (k * sc + j) * d + a)
<1> DEFINE u == (k * sc + j) * d + a
<1>1. k * sc + j \in Nat /\ sc * d \in Nat \ {0} /\ j * d \in Nat
  OBVIOUS
<1>2. u \div d = k * sc + j /\ u % d = a
  BY <1>1, DivMod
<1>3. j * d + a \in 0 .. sc * d - 1
  <2>1. j * d <= (sc - 1) * d
    BY Monotone
  <2>2. (sc - 1) * d = sc * d - d
    OBVIOUS
  <2> QED BY <1>1, <2>1, <2>2
<1>4. u = k * (sc * d) + (j * d + a)
  OBVIOUS
<1>5. u \div (sc * d) = k /\ u % (sc * d) = j * d + a
  BY <1>1, <1>3, <1>4, DivMod
<1>6. (j * d + a) \div d = j
  BY DivMod
<1>7. u \in Nat
  BY <1>1, <1>3, <1>4
<1> QED BY <1>2, <1>5, <1>6, <1>7 DEF Splits

(* calc_offset is the start of a card sector (fddimage.c).                 *)
LEMMA OffsetAligned ==
  ASSUME NEW n \in Int
  PROVE  (n * FDD_SECTOR) % ADDRESSES \in 0 .. ADDRESSES - 1
         /\ ((n * FDD_SECTOR) % ADDRESSES) % SECT = 0
<1> DEFINE f == FDD_SECTOR \div SECT
           a == ADDRESSES \div SECT
           x == n * FDD_SECTOR
           q == x \div ADDRESSES
           m == x % ADDRESSES
<1>1. SECT \in Nat \ {0} /\ FDD_SECTOR \in Nat /\ ADDRESSES \in Nat \ {0}
  BY ImageFileAssumption
<1>2. f \in Nat /\ a \in Nat /\ FDD_SECTOR = f * SECT /\ ADDRESSES = a * SECT
  BY <1>1, Divided, ImageFileAssumption
<1>3. x \in Int /\ q \in Int /\ m \in 0 .. ADDRESSES - 1 /\ x = q * ADDRESSES + m
  BY <1>1
<1> HIDE DEF f, a, q, m
<1>4. m = (n * f - q * a) * SECT
  BY <1>1, <1>2, <1>3
<1>5. n * f - q * a \in Nat
  <2> DEFINE e == n * f - q * a
  <2>1. e \in Int
    BY <1>2, <1>3
  <2> HIDE DEF e
  <2>2. CASE e <= -1
    <3>1. e * SECT <= -SECT
      BY <1>1, <2>1, <2>2
    <3> QED BY <1>1, <1>3, <1>4, <3>1 DEF e
  <2> QED BY <2>1, <2>2 DEF e
<1>6. m % SECT = 0
  <2>1. m = (n * f - q * a) * SECT + 0
    BY <1>3, <1>4
  <2> QED BY <1>1, <1>5, <2>1, DivMod
<1> QED BY <1>3, <1>6 DEF m

-----------------------------------------------------------------------------
(* The card's file.                                                        *)
LEMMA Constants ==
  /\ SECT \in Nat \ {0} /\ FDD_SECTOR \in Nat \ {0} /\ DATABASE \in Nat /\ ADDRESSES \in Nat \ {0}
BY ImageFileAssumption

LEMMA CardFile ==
  ASSUME NEW c \in Cards
  PROVE  /\ Spc(c) \in 1 .. 255 /\ Size(c) \in Nat /\ Links(c) \in Nat
         /\ ClusterUnits(c) \in Nat \ {0}
<1>1. Spc(c) \in 1 .. 255
  BY ImageFileAssumption DEF Spc
<1>2. Size(c) \in Nat
  BY ImageFileAssumption DEF Size
<1>3. Links(c) \in Nat
  <2>1. c.chain \in Seq(2 .. c.max_clust - 1)
    BY ImageFileAssumption
  <2> QED BY <2>1 DEF Links
<1>4. ClusterUnits(c) \in Nat \ {0}
  <2>1. Spc(c) \in Int /\ SECT \in Int /\ Spc(c) > 0 /\ SECT > 0
    BY <1>1, Constants
  <2>2. ClusterUnits(c) \in Int /\ ClusterUnits(c) > 0
    BY <2>1, Product DEF ClusterUnits
  <2> QED BY <2>2
<1> QED BY <1>1, <1>2, <1>3, <1>4

LEMMA ChainValid ==
  ASSUME NEW c \in Cards, NEW k \in 0 .. Links(c) - 1
  PROVE  Link(c, k) \in Nat /\ Link(c, k) >= 2 /\ Link(c, k) < c.max_clust /\ c.max_clust \in Nat
<1>1. c.chain \in Seq(2 .. c.max_clust - 1) /\ c.max_clust \in Nat
  BY ImageFileAssumption
<1>2. ASSUME NEW m \in Nat, NEW s \in Seq(2 .. m - 1), NEW q \in 0 .. Len(s) - 1
      PROVE  s[q + 1] \in 2 .. m - 1
  BY <1>2
<1>3. Link(c, k) \in 2 .. c.max_clust - 1
  BY <1>1, <1>2 DEF Link, Links
<1>4. ASSUME NEW m \in Nat, NEW x \in 2 .. m - 1
      PROVE  x \in Nat /\ x >= 2 /\ x < m
  BY <1>4
<1>5. c.max_clust \in Nat
  BY <1>1
<1> QED BY <1>3, <1>4, <1>5

(* Following the chain from its cluster of index k.                        *)
LEMMA Follow ==
  ASSUME fs \in Cards, NEW k \in 0 .. Links(fs) - 1
  PROVE  /\ ValidCluster(Link(fs, k))
         /\ clust2sect(Link(fs, k)) = CardSector(fs, k, 0)
         /\ CardSector(fs, k, 0) \in Nat
         /\ FatEntry(Link(fs, k)) = IF k + 1 = Links(fs) THEN fs.tail ELSE Link(fs, k + 1)
<1>1. Link(fs, k) \in Nat /\ Link(fs, k) >= 2 /\ Link(fs, k) < fs.max_clust /\ fs.max_clust \in Nat
  BY ChainValid
<1>2. ValidCluster(Link(fs, k))
  BY <1>1 DEF ValidCluster
<1>3. clust2sect(Link(fs, k)) = CardSector(fs, k, 0) /\ CardSector(fs, k, 0) \in Nat
  <2>0. Link(fs, k) - 2 \in Int /\ Spc(fs) \in Int /\ Link(fs, k) - 2 >= 0 /\ Spc(fs) >= 0
    BY <1>1, CardFile
  <2>1. (Link(fs, k) - 2) * Spc(fs) \in Int /\ (Link(fs, k) - 2) * Spc(fs) >= 0
    BY <2>0, Product
  <2>2. Link(fs, k) - 2 \in 0 .. fs.max_clust - 3
    BY <1>1
  <2>3. clust2sect(Link(fs, k)) = (Link(fs, k) - 2) * Spc(fs) + DATABASE
    BY <2>2 DEF clust2sect, Spc
  <2>4. ASSUME NEW x \in Int, x >= 0, NEW y \in Nat
        PROVE  x + y = y + x + 0 /\ y + x + 0 \in Nat
    BY <2>4
  <2> QED BY <2>1, <2>3, <2>4, Constants DEF CardSector
<1>4. FatEntry(Link(fs, k)) = IF k + 1 = Links(fs) THEN fs.tail ELSE Link(fs, k + 1)
  <2>1. \A i, j \in 1 .. Len(fs.chain) : fs.chain[i] = fs.chain[j] => i = j
    BY ImageFileAssumption
  <2>2. k + 1 \in 1 .. Len(fs.chain)
    BY CardFile DEF Links
  <2>3. (CHOOSE i \in 1 .. Len(fs.chain) : fs.chain[i] = fs.chain[k + 1]) = k + 1
    BY <2>1, <2>2
  <2> QED BY <2>2, <2>3 DEF FatEntry, Links, Link
<1> QED BY <1>2, <1>3, <1>4

(* The place of a unit, from the sector it lies in.                        *)
LEMMA UnitPlace ==
  ASSUME NEW c \in Cards, NEW k \in 0 .. Links(c) - 1, NEW j \in 0 .. Spc(c) - 1,
         NEW a \in 0 .. SECT - 1, NEW u, u = Index(c, k, j) * SECT + a, u < Size(c),
         NEW i, NEW op
  PROVE  /\ Located(c, u) /\ u \div SECT = Index(c, k, j)
         /\ PlaceOf(c, u, i, op) = [buf |-> i, op |-> op, at |-> a, sect |-> CardSector(c, k, j)]
<1>1. /\ Spc(c) \in Nat \ {0} /\ SECT \in Nat \ {0} /\ k \in Nat /\ k < Links(c)
  BY CardFile, Constants
<1>2. /\ u \div (Spc(c) * SECT) = k /\ (u % (Spc(c) * SECT)) \div SECT = j
      /\ u \div SECT = Index(c, k, j) /\ u % SECT = a
  <2>1. u = (k * Spc(c) + j) * SECT + a
    BY DEF Index
  <2>2. Splits(SECT, Spc(c), k, j, a, u)
    BY <1>1, <2>1, SplitUnit
  <2> QED BY <2>2 DEF Splits, Index
<1>3. Located(c, u)
  BY <1>1, <1>2 DEF Located, ClusterUnits
<1> QED BY <1>2, <1>3 DEF PlaceOf, ClusterUnits

(* A run of n units from the start of sector j of cluster k, in the buffer *)
(* from B on: each goes to its place.                                      *)
RunUnit(c, k, j, B, op, i) ==
  [buf |-> B + i, sect |-> CardSector(c, k, j) + i \div SECT, at |-> i % SECT, op |-> op]
RunFits(c, k, j, at, B, n) ==
  at + B = Index(c, k, j) * SECT /\ n <= (Spc(c) - j) * SECT /\ at + B + n <= Size(c)
LEMMA RunPlace ==
  ASSUME NEW c \in Cards, NEW k \in 0 .. Links(c) - 1, NEW j \in 0 .. Spc(c) - 1,
         NEW at \in Nat, NEW B \in Nat, NEW n \in Nat, NEW op, RunFits(c, k, j, at, B, n),
         NEW i \in 0 .. n - 1
  PROVE  /\ RunUnit(c, k, j, B, op, i) = PlaceOf(c, at + (B + i), B + i, op)
         /\ Located(c, at + (B + i))
         /\ (at + (B + i)) \div SECT = Index(c, k, j) + i \div SECT
<1> USE DEF RunFits
<1> DEFINE q == i \div SECT
           a == i % SECT
           u == at + (B + i)
<1>1. q \in Nat /\ a \in 0 .. SECT - 1 /\ i = q * SECT + a
  <2>1. i \in Nat /\ SECT \in Nat \ {0}
    BY Constants
  <2> QED BY <2>1, Divided
<1>2. Spc(c) \in Nat /\ Index(c, k, j) \in Nat /\ SECT \in Nat \ {0} /\ Size(c) \in Nat
  <2>1. k \in Nat /\ Spc(c) \in Nat
    BY CardFile
  <2>2. k * Spc(c) \in Nat
    BY <2>1
  <2> QED BY <2>1, <2>2, Constants, CardFile DEF Index
<1> HIDE DEF q, a
<1>3. q < Spc(c) - j
  <2>1. q * SECT < (Spc(c) - j) * SECT
    <3>1. q * SECT \in Nat /\ (Spc(c) - j) * SECT \in Int
      BY <1>1, <1>2
    <3> QED BY <1>1, <1>2, <3>1
  <2>2. Spc(c) - j \in Int /\ q \in Int
    BY <1>1, <1>2
  <2> QED BY <1>2, <2>1, <2>2, Monotone
<1>4. j + q \in 0 .. Spc(c) - 1
  BY <1>1, <1>2, <1>3
<1>5. Index(c, k, j + q) = Index(c, k, j) + q
  <2>1. k * Spc(c) \in Int
    BY <1>2, CardFile, Product
  <2> QED BY <1>1, <2>1 DEF Index
<1>6. u = Index(c, k, j + q) * SECT + a
  <2>1. (Index(c, k, j) + q) * SECT = Index(c, k, j) * SECT + q * SECT
    BY <1>1, <1>2
  <2>2. Index(c, k, j) * SECT \in Int /\ q * SECT \in Int
    BY <1>1, <1>2, Product
  <2> QED BY <1>1, <1>5, <2>1, <2>2
<1>7. u < Size(c)
  BY <1>2
<1>8. /\ Located(c, u) /\ u \div SECT = Index(c, k, j + q)
      /\ PlaceOf(c, u, B + i, op)
           = [buf |-> B + i, op |-> op, at |-> a, sect |-> CardSector(c, k, j + q)]
  BY <1>1, <1>4, <1>6, <1>7, UnitPlace
<1>9. CardSector(c, k, j + q) = CardSector(c, k, j) + q
  <2>1. Link(c, k) \in Int /\ Spc(c) \in Int
    BY ChainValid, CardFile
  <2>2. (Link(c, k) - 2) * Spc(c) \in Int /\ DATABASE \in Int
    BY <2>1, Product, Constants
  <2> QED BY <1>1, <2>2 DEF CardSector
<1>10. [buf |-> B + i, sect |-> CardSector(c, k, j) + q, at |-> a, op |-> op]
         = [buf |-> B + i, op |-> op, at |-> a, sect |-> CardSector(c, k, j + q)]
  BY <1>9
<1> QED BY <1>5, <1>8, <1>10 DEF q, a, RunUnit

(* After the run the first B + n units of the request are in place.        *)
RunOps(c, w, B, n, op) == \A i \in 0 .. n - 1 : OpOf(c, w, w.at + (B + i)) = op
LEMMA RunExact ==
  ASSUME NEW c \in Cards, NEW k \in 0 .. Links(c) - 1, NEW j \in 0 .. Spc(c) - 1,
         NEW w \in Request, NEW B \in Nat, NEW n \in Nat, NEW op,
         RunFits(c, k, j, w.at, B, n), RunOps(c, w, B, n, op),
         Placed(c, w, B)
  PROVE  /\ Exact(c, w, B) \cup {RunUnit(c, k, j, B, op, i) : i \in 0 .. n - 1}
              = Exact(c, w, B + n)
         /\ Placed(c, w, B + n)
<1> DEFINE Rec(i) == RunUnit(c, k, j, B, op, i)
           P(i) == PlaceOf(c, w.at + i, i, OpOf(c, w, w.at + i))
<1>1. ASSUME NEW i \in 0 .. n - 1
      PROVE  Rec(i) = P(B + i) /\ Located(c, w.at + (B + i))
  <2>1. PICK at \in Nat : at = w.at /\ RunFits(c, k, j, at, B, n)
    BY DEF Request
  <2>2. /\ RunUnit(c, k, j, B, op, i) = PlaceOf(c, at + (B + i), B + i, op)
        /\ Located(c, at + (B + i))
    BY <2>1, RunPlace
  <2>3. OpOf(c, w, w.at + (B + i)) = op
    BY DEF RunOps
  <2> QED BY <2>1, <2>2, <2>3
<1> HIDE DEF Rec, P
<1>2. \A i \in 0 .. B + n - 1 : i \in 0 .. B - 1 \/ (i - B \in 0 .. n - 1 /\ B + (i - B) = i)
  OBVIOUS
<1>3. \A i \in 0 .. n - 1 : B + i \in 0 .. B + n - 1
  OBVIOUS
<1>4. \A i \in 0 .. B - 1 : i \in 0 .. B + n - 1
  OBVIOUS
<1>5. {P(i) : i \in 0 .. B - 1} \cup {Rec(i) : i \in 0 .. n - 1} = {P(i) : i \in 0 .. B + n - 1}
  <2>1. ASSUME NEW x \in {P(i) : i \in 0 .. B - 1} \cup {Rec(i) : i \in 0 .. n - 1}
        PROVE  x \in {P(i) : i \in 0 .. B + n - 1}
    BY <1>1, <1>3, <1>4
  <2>2. ASSUME NEW x \in {P(i) : i \in 0 .. B + n - 1}
        PROVE  x \in {P(i) : i \in 0 .. B - 1} \cup {Rec(i) : i \in 0 .. n - 1}
    <3>1. PICK i \in 0 .. B + n - 1 : x = P(i)
      OBVIOUS
    <3>2. CASE i \in 0 .. B - 1
      BY <3>1, <3>2
    <3>3. CASE i - B \in 0 .. n - 1 /\ B + (i - B) = i
      <4>1. Rec(i - B) = P(i)
        BY <1>1, <3>3
      <4> QED BY <3>1, <3>3, <4>1
    <3> QED BY <1>2, <3>2, <3>3
  <2> QED BY <2>1, <2>2
<1>6. Placed(c, w, B + n)
  BY <1>1, <1>2 DEF Placed
<1>7. Exact(c, w, B) = {P(i) : i \in 0 .. B - 1} /\ Exact(c, w, B + n) = {P(i) : i \in 0 .. B + n - 1}
  BY DEF Exact, P
<1>8. {RunUnit(c, k, j, B, op, i) : i \in 0 .. n - 1} = {Rec(i) : i \in 0 .. n - 1}
  BY DEF Rec
<1> QED BY <1>5, <1>6, <1>7, <1>8

(* Whole sectors before the end of the file, and what is left after them.  *)
LEMMA FullBefore ==
  ASSUME NEW d \in Nat \ {0}, NEW m \in Nat, NEW q \in Nat, NEW S \in Nat, (m + q) * d <= S,
         NEW i \in 0 .. q * d - 1
  PROVE  (m * d + i) \div d < S \div d
<1> DEFINE e == i \div d
           r == i % d
<1>1. e \in Nat /\ r \in 0 .. d - 1 /\ i = e * d + r
  <2>1. i \in Nat
    OBVIOUS
  <2> QED BY <2>1, Divided
<1>2. S \div d \in Nat /\ S % d \in 0 .. d - 1 /\ S = (S \div d) * d + (S % d)
  BY Divided
<1> HIDE DEF e, r
<1>3. e < q
  <2>1. e * d < q * d
    <3>1. e * d \in Nat /\ q * d \in Nat
      BY <1>1
    <3> QED BY <1>1, <3>1
  <2> QED BY <1>1, <2>1, Monotone
<1>4. (m * d + i) \div d = m + e
  <2>1. m * d + i = (m + e) * d + r
    BY <1>1
  <2>2. m + e \in Nat
    BY <1>1
  <2> QED BY <1>1, <2>1, <2>2, DivMod
<1>5. m + q <= S \div d
  <2>1. PICK t \in Nat : t = S \div d
    BY <1>2
  <2>2. (m + q) * d < (t + 1) * d
    <3>1. (t + 1) * d = t * d + d /\ t * d \in Nat /\ (m + q) * d \in Nat
      BY <2>1
    <3> QED BY <1>2, <2>1, <3>1
  <2>3. m + q < t + 1
    BY <2>2, Monotone
  <2> QED BY <2>1, <2>3
<1> QED BY <1>1, <1>2, <1>3, <1>4, <1>5

LEMMA PartAfter ==
  ASSUME NEW d \in Nat \ {0}, NEW m \in Nat, NEW r \in 0 .. d - 1, NEW i \in 0 .. r - 1
  PROVE  ~((m * d + i) \div d < (m * d + r) \div d)
<1>1. i \in 0 .. d - 1
  OBVIOUS
<1>2. (m * d + i) \div d = m /\ (m * d + r) \div d = m
  BY <1>1, DivMod
<1> QED BY <1>2

(* Sectors and clusters in a row.                                          *)
LEMMA Indices ==
  ASSUME NEW c \in Cards, NEW k \in Nat, NEW j \in Nat, NEW e \in Nat
  PROVE  /\ Index(c, k, j) \in Nat /\ Index(c, k, j + e) = Index(c, k, j) + e
         /\ Index(c, k, j) * SECT \in Nat
         /\ (Index(c, k, j) + e) * SECT = Index(c, k, j) * SECT + e * SECT
         /\ Index(c, k, 0) * SECT = k * ClusterUnits(c)
         /\ (Index(c, k, Spc(c) - 1) + 1) * SECT = (k + 1) * ClusterUnits(c)
         /\ e * SECT \in Nat /\ k * ClusterUnits(c) \in Nat
         /\ (k + 1) * ClusterUnits(c) = k * ClusterUnits(c) + ClusterUnits(c)
<1>1. PICK sc \in Nat \ {0} : sc = Spc(c)
  BY CardFile
<1>2. SECT \in Nat \ {0}
  BY Constants
<1>3. k * sc \in Nat /\ (k * sc) * SECT = k * (sc * SECT) /\ (k * sc + j) * SECT \in Nat
  BY <1>2
<1>4. (k * sc + (sc - 1) + 1) * SECT = (k + 1) * (sc * SECT)
  BY <1>2
<1>5. (k * sc + j + e) * SECT = (k * sc + j) * SECT + e * SECT /\ e * SECT \in Nat
  BY <1>2
<1>6. (k + 1) * (sc * SECT) = k * (sc * SECT) + sc * SECT /\ k * (sc * SECT) \in Nat
  BY <1>2
<1>7. Index(c, k, j) = k * sc + j /\ Index(c, k, j + e) = k * sc + (j + e)
      /\ Index(c, k, 0) = k * sc + 0 /\ Index(c, k, Spc(c) - 1) = k * sc + (sc - 1)
      /\ ClusterUnits(c) = sc * SECT
  BY <1>1 DEF Index, ClusterUnits
<1> HIDE DEF Index, ClusterUnits
<1>8. k * sc + 0 = k * sc /\ k * sc + j \in Nat /\ k * sc + (j + e) = (k * sc + j) + e
  BY <1>3
<1> QED BY <1>3, <1>4, <1>5, <1>6, <1>7, <1>8

LEMMA IndexUnits ==
  ASSUME NEW c \in Cards, NEW k \in Nat, NEW j \in Nat
  PROVE  /\ Index(c, k, j) \in Nat /\ Index(c, k, j) * SECT \in Nat
         /\ (Index(c, k, j) + 1) * SECT = Index(c, k, j) * SECT + SECT
<1>1. SECT \in Nat
  BY Constants
<1>2. PICK x \in Nat : x = Index(c, k, j)
  <2>1. 0 \in Nat
    OBVIOUS
  <2> QED BY <2>1, Indices
<1>3. x * SECT \in Nat /\ (x + 1) * SECT = x * SECT + SECT
  BY <1>1
<1> QED BY <1>2, <1>3

(* On a sector boundary the whole of the last sector is behind.            *)
LEMMA Boundary ==
  ASSUME NEW d \in Nat \ {0}, NEW m \in Nat, NEW p \in Nat, p % d = 0,
         m * d < p, p <= (m + 1) * d
  PROVE  p = (m + 1) * d
<1>1. PICK t \in Nat : p = t * d
  BY Multiple
<1>2. m < t /\ t <= m + 1
  BY <1>1, Monotone
<1>3. t = m + 1
  BY <1>2
<1> QED BY <1>1, <1>3

-----------------------------------------------------------------------------
(* A request that has units left: where it stands.                         *)
Pending(c, w, f, n) ==
  /\ f.fptr + n = From(c, w) + Total(c, w) /\ n <= Total(c, w) /\ n > 0
  /\ f.fptr % SECT = 0
LEMMA RequestPlace ==
  ASSUME NEW c \in Cards, NEW w \in Request, NEW f \in Fil, NEW n \in Nat, Pending(c, w, f, n)
  PROVE  /\ From(c, w) = w.at /\ Total(c, w) \in Nat /\ w.at \in Nat
         /\ f.fptr = w.at + (Total(c, w) - n) /\ Total(c, w) - n \in Nat
         /\ f.fptr + n <= Size(c) /\ Total(c, w) <= FDD_SECTOR
         /\ Total(c, w) = FDD_SECTOR \/ f.fptr + n = Size(c)
<1>1. Size(c) \in Nat /\ FDD_SECTOR \in Nat /\ w.at \in Nat /\ f.fptr \in Nat
  BY CardFile, Constants DEF Request, Fil
<1>2. From(c, w) = IF w.at < Size(c) THEN w.at ELSE Size(c)
  BY DEF From, Least
<1>3. Total(c, w) = IF FDD_SECTOR < Size(c) - From(c, w) THEN FDD_SECTOR ELSE Size(c) - From(c, w)
  BY DEF Total, Least
<1> QED BY <1>1, <1>2, <1>3 DEF Pending

(* Exchanging e whole sectors, of those the cluster has left.              *)
AtSector(c, w, f, n, k, j, B) ==
  /\ Pending(c, w, f, n) /\ f.fptr = Index(c, k, j) * SECT /\ B = Total(c, w) - n
  /\ Placed(c, w, B)
SectorsFit(c, n, j, e) == e <= Spc(c) - j /\ e * SECT <= n
RunDone(c, w, k, j, B, op, n) ==
  /\ Exact(c, w, B) \cup {RunUnit(c, k, j, B, op, i) : i \in 0 .. n - 1} = Exact(c, w, B + n)
  /\ Placed(c, w, B + n)
LEMMA DirectRun ==
  ASSUME NEW c \in Cards, NEW w \in Request, NEW f \in Fil, NEW n \in Nat,
         NEW k \in 0 .. Links(c) - 1, NEW j \in 0 .. Spc(c) - 1, NEW e \in Nat, NEW B \in Nat,
         AtSector(c, w, f, n, k, j, B), SectorsFit(c, n, j, e)
  PROVE  RunDone(c, w, k, j, B, w.op, e * SECT)
<1>0. /\ Pending(c, w, f, n) /\ f.fptr = Index(c, k, j) * SECT /\ B = Total(c, w) - n
      /\ Placed(c, w, B) /\ e <= Spc(c) - j /\ e * SECT <= n
  BY DEF AtSector, SectorsFit
<1>1. SECT \in Nat \ {0} /\ Size(c) \in Nat /\ Spc(c) \in Nat /\ k \in Nat /\ j \in Nat
  BY Constants, CardFile
<1>2. /\ w.at \in Nat /\ w.at + B = Index(c, k, j) * SECT /\ w.at + B + n <= Size(c)
  BY <1>0, RequestPlace
<1>3. e * SECT \in Nat /\ Index(c, k, j) \in Nat
      /\ (Index(c, k, j) + e) * SECT = Index(c, k, j) * SECT + e * SECT
  BY <1>1, Indices
<1>4. e * SECT <= (Spc(c) - j) * SECT
  BY <1>0, <1>1, Monotone
<1>5. RunFits(c, k, j, w.at, B, e * SECT)
  <2>1. PICK r \in Nat : r = e * SECT
    BY <1>3
  <2>2. w.at + B + r <= Size(c)
    BY <1>0, <1>1, <1>2, <2>1
  <2> QED BY <1>2, <1>4, <2>1, <2>2 DEF RunFits
<1>6. ASSUME NEW i \in 0 .. e * SECT - 1
      PROVE  OpOf(c, w, w.at + (B + i)) = w.op
  <2>1. w.at + (B + i) = Index(c, k, j) * SECT + i
    BY <1>2, <1>3
  <2>2. (Index(c, k, j) + e) * SECT <= Size(c)
    BY <1>0, <1>1, <1>2, <1>3
  <2>3. (Index(c, k, j) * SECT + i) \div SECT < Size(c) \div SECT
    BY <1>1, <1>3, <2>2, FullBefore
  <2> QED BY <2>1, <2>3 DEF OpOf
<1>7. RunOps(c, w, B, e * SECT, w.op)
  BY <1>6 DEF RunOps
<1> QED BY <1>0, <1>3, <1>5, <1>7, RunExact DEF RunDone

(* The part of a sector that an odd-sized file has at its end.             *)
LEMMA CopyRun ==
  ASSUME NEW c \in Cards, NEW w \in Request, NEW f \in Fil, NEW n \in Nat,
         NEW k \in 0 .. Links(c) - 1, NEW j \in 0 .. Spc(c) - 1, NEW B \in Nat,
         Aligned(w), n < SECT, AtSector(c, w, f, n, k, j, B)
  PROVE  RunDone(c, w, k, j, B, "rd", n)
<1>0. /\ Pending(c, w, f, n) /\ f.fptr = Index(c, k, j) * SECT /\ B = Total(c, w) - n
      /\ Placed(c, w, B) /\ w.at % SECT = 0
  BY DEF AtSector, Aligned
<1>1. /\ SECT \in Nat \ {0} /\ Size(c) \in Nat /\ Spc(c) \in Nat /\ k \in Nat /\ j \in Nat
      /\ FDD_SECTOR \in Nat
  BY Constants, CardFile
<1>2. /\ w.at \in Nat /\ w.at + B = Index(c, k, j) * SECT /\ w.at + B + n <= Size(c)
      /\ f.fptr + n = From(c, w) + Total(c, w) /\ From(c, w) = w.at /\ n > 0
  BY <1>0, RequestPlace DEF Pending
<1>3. Index(c, k, j) \in Nat /\ Index(c, k, j) * SECT \in Nat
  BY <1>1, Indices
<1>4. Total(c, w) # FDD_SECTOR
  <2> SUFFICES ASSUME Total(c, w) = FDD_SECTOR PROVE FALSE
    OBVIOUS
  <2>1. PICK a \in Nat : w.at = a * SECT
    <3>1. PICK at \in Nat : at = w.at /\ at % SECT = 0
      BY <1>0, <1>2
    <3> QED BY <1>1, <3>1, Multiple
  <2>2. PICK b \in Nat : FDD_SECTOR = b * SECT
    <3>1. FDD_SECTOR % SECT = 0
      BY ImageFileAssumption
    <3> QED BY <1>1, <3>1, Multiple
  <2>3. PICK m \in Nat : m = Index(c, k, j)
    BY <1>3
  <2>4. n = (a + b - m) * SECT
    BY <1>0, <1>1, <1>2, <2>1, <2>2, <2>3
  <2>5. 0 * SECT < (a + b - m) * SECT /\ (a + b - m) * SECT < 1 * SECT
    BY <1>1, <1>2, <2>4
  <2>6. 0 < a + b - m /\ a + b - m < 1
    BY <1>1, <2>5, Monotone
  <2> QED BY <2>6
<1>5. Size(c) = Index(c, k, j) * SECT + n
  BY <1>0, <1>4, RequestPlace
<1>6. n <= (Spc(c) - j) * SECT
  <2>1. 1 * SECT <= (Spc(c) - j) * SECT
    BY <1>1, Monotone
  <2>2. (Spc(c) - j) * SECT \in Int
    BY <1>1, Product
  <2> QED BY <1>1, <2>1, <2>2
<1>7. RunFits(c, k, j, w.at, B, n)
  BY <1>2, <1>6 DEF RunFits
<1>8. ASSUME NEW i \in 0 .. n - 1
      PROVE  OpOf(c, w, w.at + (B + i)) = "rd"
  <2>1. w.at + (B + i) = Index(c, k, j) * SECT + i
    BY <1>2, <1>3
  <2>2. n \in 0 .. SECT - 1
    BY <1>1
  <2>3. ~((Index(c, k, j) * SECT + i) \div SECT < (Index(c, k, j) * SECT + n) \div SECT)
    BY <1>1, <1>3, <2>2, PartAfter
  <2> QED BY <1>5, <2>1, <2>3 DEF OpOf
<1>9. RunOps(c, w, B, n, "rd")
  BY <1>8 DEF RunOps
<1> QED BY <1>0, <1>7, <1>9, RunExact DEF RunDone

-----------------------------------------------------------------------------
LEMMA Bounds ==
  ASSUME NEW c \in Cards, NEW w \in Request
  PROVE  /\ From(c, w) \in Nat /\ From(c, w) <= Size(c) /\ Total(c, w) \in 0 .. FDD_SECTOR
         /\ From(c, w) + Total(c, w) <= Size(c)
         /\ Total(c, w) = Least(FDD_SECTOR, Size(c) - From(c, w))
         /\ From(c, w) < Size(c) => From(c, w) = w.at
<1>1. Size(c) \in Nat /\ FDD_SECTOR \in Nat /\ w.at \in Nat
  BY CardFile, Constants DEF Request
<1>2. From(c, w) = IF w.at < Size(c) THEN w.at ELSE Size(c)
  BY DEF From, Least
<1>3. Total(c, w) = IF FDD_SECTOR < Size(c) - From(c, w) THEN FDD_SECTOR ELSE Size(c) - From(c, w)
  BY DEF Total, Least
<1> QED BY <1>1, <1>2, <1>3 DEF Least

LEMMA NothingMoved ==
  ASSUME NEW c, NEW w
  PROVE  Exact(c, w, 0) = {} /\ Placed(c, w, 0)
<1>1. 0 .. 0 - 1 = {}
  OBVIOUS
<1> QED BY <1>1 DEF Exact, Placed

LEMMA FirstCluster ==
  ASSUME fs \in Cards
  PROVE  /\ Links(fs) = 0 => OrgClust = 0
         /\ Links(fs) > 0 => OrgClust = Link(fs, 0)
<1>1. fs.chain \in Seq(2 .. fs.max_clust - 1)
  BY ImageFileAssumption
<1>2. ASSUME NEW S, NEW s \in Seq(S)
      PROVE  (Len(s) = 0 => s = <<>>) /\ (Len(s) > 0 => s # <<>>)
  BY <1>2
<1>3. (Links(fs) = 0 => fs.chain = <<>>) /\ (Links(fs) > 0 => fs.chain # <<>>)
  BY <1>1, <1>2 DEF Links
<1>4. 0 + 1 = 1
  OBVIOUS
<1> QED BY <1>3, <1>4 DEF OrgClust, Link

LEMMA ClusterSize == CSize = ClusterUnits(fs)
BY DEF CSize, ClusterUnits, Spc

(* What the chain leads to after the cluster with index k.                 *)
LEMMA ChainNext ==
  ASSUME fs \in Cards, NEW k \in 0 .. Links(fs) - 1, NEW ok \in BOOLEAN,
         NEW c, c = get_cluster(Link(fs, k), ok)
  PROVE  /\ ValidCluster(c) => k + 1 \in 0 .. Links(fs) - 1 /\ c = Link(fs, k + 1)
         /\ c = 0 => k + 1 = Links(fs) /\ fs.tail = 0
         /\ ~ValidCluster(c) => k + 1 = Links(fs) \/ ~Reads(winsect, FatSector(Link(fs, k)), ok)
         /\ fs.tail = 0 /\ k + 1 = Links(fs) => ~ValidCluster(c)
         /\ c = 1 \/ c >= fs.max_clust => ~ValidCluster(c)
<1>1. /\ ValidCluster(Link(fs, k)) /\ Links(fs) \in Nat
      /\ FatEntry(Link(fs, k)) = IF k + 1 = Links(fs) THEN fs.tail ELSE Link(fs, k + 1)
  BY Follow, CardFile
<1>2. fs.max_clust \in Nat /\ fs.tail \in {0, fs.max_clust}
  BY ImageFileAssumption
<1>3. k + 1 # Links(fs) => k + 1 \in 0 .. Links(fs) - 1
  BY <1>1
<1>4. k + 1 # Links(fs) => /\ Link(fs, k + 1) \in Nat /\ Link(fs, k + 1) >= 2
                           /\ ValidCluster(Link(fs, k + 1))
  BY <1>3, ChainValid, Follow
<1>5. ~ValidCluster(fs.tail) /\ ~ValidCluster(1) /\ fs.tail \in Nat
  BY <1>2 DEF ValidCluster
<1>6. \/ Reads(winsect, FatSector(Link(fs, k)), ok) /\ c = FatEntry(Link(fs, k))
      \/ ~Reads(winsect, FatSector(Link(fs, k)), ok) /\ c = 1
  BY <1>1 DEF get_cluster
<1>7. c \in Nat
  BY <1>1, <1>4, <1>5, <1>6
<1>8. c = 1 \/ c >= fs.max_clust => ~ValidCluster(c)
  BY <1>2, <1>7 DEF ValidCluster
<1> QED BY <1>1, <1>3, <1>4, <1>5, <1>6, <1>8

(* The assignments to the fields of a FIL.                                 *)
LEMMA FilFields ==
  ASSUME NEW f \in Fil
  PROVE  /\ \A p \in Nat : [f EXCEPT !.fptr = p] \in Fil
         /\ \A e \in BOOLEAN : [f EXCEPT !.err = e] \in Fil
         /\ \A cl \in Nat : [f EXCEPT !.curr_clust = cl] \in Fil
         /\ \A n \in 0 .. 255 : [f EXCEPT !.sect_clust = n] \in Fil
         /\ \A s \in Nat : [f EXCEPT !.curr_sect = s] \in Fil
BY ZenonT(60) DEF Fil

LEMMA FilRestarts ==
  ASSUME NEW f \in Fil
  PROVE  LET g == [f EXCEPT !.fptr = 0, !.sect_clust = 1]
             h == [f EXCEPT !.err = FALSE, !.fptr = 0, !.sect_clust = 1] IN
         /\ g \in Fil /\ g.fptr = 0 /\ g.sect_clust = 1 /\ g.err = f.err
         /\ h \in Fil /\ h.fptr = 0
<1>1. 0 \in Nat /\ 1 \in 0 .. 255
  OBVIOUS
<1>2. [[f EXCEPT !.fptr = 0] EXCEPT !.sect_clust = 1] \in Fil
  BY <1>1, FilFields, ZenonT(60)
<1>3. [[[f EXCEPT !.err = FALSE] EXCEPT !.fptr = 0] EXCEPT !.sect_clust = 1] \in Fil
  BY <1>1, FilFields, ZenonT(60)
<1> QED BY <1>2, <1>3 DEF Fil

FilAt(f, cl, s, n, p) ==
  [f EXCEPT !.curr_clust = cl, !.curr_sect = s, !.sect_clust = n, !.fptr = p]
FilOn(f, cl, p) == [f EXCEPT !.curr_clust = cl, !.fptr = p]
FilLost(f, cl) == [f EXCEPT !.err = TRUE, !.curr_clust = cl]
FilHas(g, f, p, n, cl, s) ==
  /\ g \in Fil /\ g.fptr = p /\ g.sect_clust = n /\ g.curr_clust = cl /\ g.curr_sect = s
  /\ g.err = f.err
LEMMA FilPlaced ==
  ASSUME NEW f \in Fil, NEW p \in Nat, NEW n \in 0 .. 255, NEW cl \in Nat, NEW s \in Nat
  PROVE  FilHas(FilAt(f, cl, s, n, p), f, p, n, cl, s)
<1>1. [[[[f EXCEPT !.curr_clust = cl] EXCEPT !.curr_sect = s] EXCEPT !.sect_clust = n]
         EXCEPT !.fptr = p] \in Fil
  BY FilFields, ZenonT(60)
<1> QED BY <1>1 DEF Fil, FilAt, FilHas

LEMMA FilSkipped ==
  ASSUME NEW f \in Fil, NEW p \in Nat, NEW cl \in Nat
  PROVE  LET h == FilOn(f, cl, p) IN h \in Fil /\ h.fptr = p /\ h.err = f.err
<1>1. [[f EXCEPT !.curr_clust = cl] EXCEPT !.fptr = p] \in Fil
  BY FilFields, ZenonT(60)
<1> QED BY <1>1 DEF Fil, FilOn

LEMMA FilGone ==
  ASSUME NEW f \in Fil, NEW cl \in Nat
  PROVE  LET e == FilLost(f, cl) IN e \in Fil /\ e.fptr = f.fptr
<1>1. [[f EXCEPT !.err = TRUE] EXCEPT !.curr_clust = cl] \in Fil
  BY FilFields, ZenonT(60)
<1> QED BY <1>1 DEF Fil, FilLost

FilRun(f, p, n, s) == [f EXCEPT !.fptr = p, !.sect_clust = n, !.curr_sect = s]
FilCut(f, n, s) == [f EXCEPT !.err = TRUE, !.sect_clust = n, !.curr_sect = s]
FilEnd(f, n) == [f EXCEPT !.err = TRUE, !.sect_clust = n]
FilBad(f) == [f EXCEPT !.err = TRUE]
FilPast(f, p) == [f EXCEPT !.fptr = p]
LEMMA FilMoved ==
  ASSUME NEW f \in Fil, NEW p \in Nat, NEW n \in 0 .. 255, NEW s \in Nat
  PROVE  FilHas(FilRun(f, p, n, s), f, p, n, f.curr_clust, s)
<1>1. [[[f EXCEPT !.fptr = p] EXCEPT !.sect_clust = n] EXCEPT !.curr_sect = s] \in Fil
  BY FilFields, ZenonT(60)
<1> QED BY <1>1 DEF Fil, FilRun, FilHas

LEMMA FilCopied ==
  ASSUME NEW f \in Fil, NEW p \in Nat
  PROVE  FilHas(FilPast(f, p), f, p, f.sect_clust, f.curr_clust, f.curr_sect)
<1>1. [f EXCEPT !.fptr = p] \in Fil
  BY FilFields
<1> QED BY <1>1 DEF Fil, FilPast, FilHas

LEMMA FilFailed ==
  ASSUME NEW f \in Fil, NEW n \in 0 .. 255, NEW s \in Nat
  PROVE  /\ FilCut(f, n, s) \in Fil /\ FilCut(f, n, s).fptr = f.fptr
         /\ FilEnd(f, n) \in Fil /\ FilEnd(f, n).fptr = f.fptr
         /\ FilBad(f) \in Fil /\ FilBad(f).fptr = f.fptr
<1>2. [[[f EXCEPT !.err = TRUE] EXCEPT !.sect_clust = n] EXCEPT !.curr_sect = s] \in Fil
  BY FilFields, ZenonT(60)
<1>3. [[f EXCEPT !.err = TRUE] EXCEPT !.sect_clust = n] \in Fil
  BY FilFields, ZenonT(60)
<1>4. [f EXCEPT !.err = TRUE] \in Fil
  BY FilFields
<1> QED BY <1>2, <1>3, <1>4 DEF Fil, FilCut, FilEnd, FilBad

FilNew(f, cl, s, n) == [f EXCEPT !.curr_clust = cl, !.curr_sect = s, !.sect_clust = n]
FilNext(f, s, n) == [f EXCEPT !.curr_sect = s, !.sect_clust = n]
LEMMA FilTurned ==
  ASSUME NEW f \in Fil, NEW n \in 0 .. 255, NEW cl \in Nat, NEW s \in Nat
  PROVE  FilHas(FilNew(f, cl, s, n), f, f.fptr, n, cl, s)
<1>1. [[[f EXCEPT !.curr_clust = cl] EXCEPT !.curr_sect = s] EXCEPT !.sect_clust = n] \in Fil
  BY FilFields, ZenonT(60)
<1> QED BY <1>1 DEF Fil, FilNew, FilHas

LEMMA FilStepped ==
  ASSUME NEW f \in Fil, NEW n \in 0 .. 255, NEW s \in Nat
  PROVE  FilHas(FilNext(f, s, n), f, f.fptr, n, f.curr_clust, s)
<1>1. [[f EXCEPT !.curr_sect = s] EXCEPT !.sect_clust = n] \in Fil
  BY FilFields
<1> QED BY <1>1 DEF Fil, FilNext, FilHas

LEMMA FileInitial == FileInit => FileInv
<1> SUFFICES ASSUME FileInit PROVE FileInv
  OBVIOUS
<1>1. FileRanges
  <2>1. 0 \in 0 .. ADDRESSES - 1 /\ 0 % SECT = 0 /\ 0 \in 0 .. FDD_SECTOR
    BY Constants
  <2>2. want \in Request /\ want.at = 0
    BY <2>1 DEF FileInit, Request
  <2>3. fp \in Fil /\ fp.fptr = 0
    BY DEF FileInit, Fil
  <2>4. fs \in Cards /\ Size(fs) \in Nat
    BY CardFile DEF FileInit
  <2>6. Aligned(want) /\ FilInRange(fs, fp)
    BY <2>1, <2>2, <2>3, <2>4 DEF Aligned, FilInRange
  <2>5. winsect = 0 /\ pc = "idle" /\ clust = 0 /\ ofs = 0 /\ btr = 0 /\ fault = FALSE /\ ret = "NONE"
    BY DEF FileInit
  <2> QED BY <2>1, <2>4, <2>5, <2>6 DEF FileRanges
<1>2. moved = Exact(fs, want, 0) /\ Placed(fs, want, 0) /\ 0 \in 0 .. Total(fs, want)
  BY <1>1, NothingMoved, Bounds DEF FileInit, FileRanges, Aligned
<1>3. pc = "idle" /\ ret = "NONE"
  BY DEF FileInit
<1> QED BY <1>1, <1>2, <1>3 DEF FileInv, Seeking, Prepared, Transferring, Finished

(* fddimage.c begins a request.                                            *)
LEMMA CallStep ==
  ASSUME FileInv, Call
  PROVE  FileInv'
<1>1. PICK op \in {"rd", "wr"}, side \in {0, 1}, track \in Tracks, sector \in Sectors :
        LET at == calc_offset(side, track, sector) IN
        /\ pc = "idle" /\ ~fp.err
        /\ want' = [op |-> op, at |-> at] /\ moved' = {} /\ fault' = FALSE
        /\ ofs' = Least(at, fs.fsize)
        /\ fp' = [fp EXCEPT !.fptr = 0, !.sect_clust = 1]
        /\ clust' = OrgClust
        /\ pc' = IF ofs' # 0 /\ OrgClust # 0 THEN "skip" ELSE "start"
        /\ UNCHANGED <<fs, winsect, btr, ret>>
  BY DEF Call
<1> DEFINE at == calc_offset(side, track, sector)
<1>2. at \in 0 .. ADDRESSES - 1 /\ at % SECT = 0
  <2>1. side \in Int /\ track \in Int /\ sector \in Int /\ NSECTORS \in Int
    BY ImageFileAssumption
  <2>2. (2 * track + (1 - side)) * NSECTORS + sector - 1 \in Int
    BY <2>1, Product
  <2> QED BY <2>2, OffsetAligned DEF calc_offset
<1> HIDE DEF at
<1>3. want' \in Request /\ want'.at = at
  BY <1>1, <1>2 DEF Request, at
<1>4. fp' \in Fil /\ fp'.fptr = 0 /\ fp'.sect_clust = 1 /\ fp'.err = FALSE
  <2>1. fp \in Fil /\ fp.err = FALSE
    BY <1>1 DEF FileInv, FileRanges, FilInRange, Fil
  <2>2. fp' = [fp EXCEPT !.fptr = 0, !.sect_clust = 1]
    BY <1>1
  <2> QED BY <2>1, <2>2, FilRestarts
<1>5. fs \in Cards /\ fs' = fs /\ moved' = {} /\ Size(fs) \in Nat /\ ofs' = From(fs', want')
  BY <1>1, <1>3, CardFile DEF FileInv, FileRanges, From, Size, at
<1>6. From(fs', want') \in Nat /\ From(fs', want') <= Size(fs')
  BY <1>3, <1>5, Bounds
<1>7. Links(fs) \in Nat /\ (Links(fs) > 0 => Link(fs, 0) \in Nat /\ Link(fs, 0) >= 2)
  BY <1>5, CardFile, ChainValid
<1>8. clust' = OrgClust /\ OrgClust \in Nat /\ (OrgClust # 0 <=> Links(fs) > 0)
  BY <1>1, <1>5, <1>7, FirstCluster
<1>9. FileRanges'
  <2>1. winsect' \in Nat /\ btr' \in 0 .. FDD_SECTOR /\ ret' \in {"NONE", "OK", "RW_ERROR"}
        /\ fault' = FALSE /\ pc' \in {"skip", "start"}
    BY <1>1 DEF FileInv, FileRanges
  <2>2. Aligned(want') /\ FilInRange(fs', fp')
    BY <1>2, <1>3, <1>4, <1>5 DEF Aligned, FilInRange
  <2> QED BY <1>5, <1>6, <1>8, <2>1, <2>2 DEF FileRanges
<1>10. Stands(fs', fp')
  BY <1>4 DEF Stands
<1>11. CASE pc' = "skip"
  <2>1. ofs' # 0 /\ OrgClust # 0
    BY <1>1, <1>11
  <2>2. 0 \in 0 .. Links(fs) - 1 /\ clust' = Link(fs, 0) /\ 0 = 0 * ClusterUnits(fs)
    BY <1>5, <1>7, <1>8, <2>1, FirstCluster, CardFile
  <2>3. Skipped(fs', fp'.fptr, clust')
    BY <1>4, <1>5, <2>2 DEF Skipped
  <2> QED BY <1>4, <1>5, <1>6, <1>9, <1>11, <2>1, <2>3
          DEF FileInv, Seeking, Prepared, Transferring, Finished
<1>12. CASE pc' = "start"
  <2>1. fp'.fptr = From(fs', want') \/ Short(fs', fp')
    <3>1. CASE ofs' = 0
      BY <1>4, <1>5, <3>1
    <3>2. CASE ofs' # 0
      <4>1. OrgClust = 0
        BY <1>1, <1>12, <3>2
      <4>2. Links(fs) = 0 /\ 0 = 0 * ClusterUnits(fs) /\ Size(fs) > 0
        BY <1>5, <1>6, <1>7, <1>8, <3>2, <4>1, CardFile
      <4> QED BY <1>4, <1>5, <4>2 DEF Short
    <3> QED BY <3>1, <3>2
  <2> QED BY <1>4, <1>5, <1>9, <1>10, <1>12, <2>1
          DEF FileInv, Seeking, Prepared, Transferring, Finished
<1> QED BY <1>1, <1>11, <1>12

(* f_lseek stops o units into its cluster, or at the end of the chain.     *)
LEMMA PositionStands ==
  ASSUME fs \in Cards, fp \in Fil, NEW k \in 0 .. Links(fs) - 1, clust = Link(fs, k),
         fp.fptr = k * ClusterUnits(fs), NEW o \in 1 .. ClusterUnits(fs), NEW c,
         c = clust \/ (c = 0 /\ o = ClusterUnits(fs)), Position(c, o)
  PROVE  /\ fp' \in Fil /\ Stands(fs, fp') /\ fp'.fptr = fp.fptr + o /\ fp'.err = fp.err
         /\ pc' = "start" /\ (o = ClusterUnits(fs) => fp'.sect_clust = 1)
<1> DEFINE j == (o - 1) \div SECT
           r == (o - 1) % SECT
           csect == j % 256
<1>1. /\ SECT \in Nat \ {0} /\ Spc(fs) \in 1 .. 255 /\ ClusterUnits(fs) = Spc(fs) * SECT
      /\ ClusterUnits(fs) \in Nat \ {0}
  BY Constants, CardFile DEF ClusterUnits
<1>2. j \in Nat /\ r \in 0 .. SECT - 1 /\ o - 1 = j * SECT + r
  <2>1. o - 1 \in Nat
    BY <1>1
  <2> QED BY <1>1, <2>1, Divided
<1> HIDE DEF j, r
<1>3. j < Spc(fs)
  <2>1. j * SECT \in Int
    BY <1>1, <1>2, Product
  <2>2. j * SECT < Spc(fs) * SECT
    BY <1>1, <1>2, <2>1
  <2> QED BY <1>1, <1>2, <2>2, Monotone
<1>4. csect = j /\ (Spc(fs) - csect) % 256 = Spc(fs) - j /\ Spc(fs) - j \in 0 .. 255
  <2>1. ASSUME NEW x \in Nat, NEW y \in 1 .. 255, x < y
        PROVE  x % 256 = x /\ (y - x) % 256 = y - x /\ y - x \in 0 .. 255
    BY <2>1
  <2> QED BY <1>1, <1>2, <1>3, <2>1, ZenonT(60)
<1> HIDE DEF csect
<1>5. o = ClusterUnits(fs) => j = Spc(fs) - 1
  <2> SUFFICES ASSUME o = ClusterUnits(fs) PROVE j = Spc(fs) - 1
    OBVIOUS
  <2>1. PICK sc \in 1 .. 255 : sc = Spc(fs)
    BY <1>1
  <2>2. (sc - 1) * SECT + (SECT - 1) = sc * SECT - 1 /\ sc * SECT \in Nat
    BY <1>1
  <2>3. ((sc - 1) * SECT + (SECT - 1)) \div SECT = sc - 1
    <3>1. sc - 1 \in Nat /\ SECT - 1 \in 0 .. SECT - 1
      BY <1>1
    <3> QED BY <1>1, <3>1, DivMod
  <2>4. o - 1 = sc * SECT - 1
    BY <1>1, <2>1
  <2> QED BY <2>1, <2>2, <2>3, <2>4 DEF j
<1>6. /\ k \in Nat /\ Link(fs, k) \in Nat /\ clust2sect(Link(fs, k)) = CardSector(fs, k, 0)
      /\ CardSector(fs, k, 0) \in Nat
  BY Follow, ChainValid, CardFile
<1>7. CardSector(fs, k, 0) + j = CardSector(fs, k, j)
  <2>1. (Link(fs, k) - 2) * Spc(fs) \in Int /\ DATABASE \in Int
    BY <1>1, <1>6, Product, Constants
  <2> QED BY <1>2, <2>1 DEF CardSector
<1>8. PICK s \in Nat : s = clust2sect(c) + csect /\ (c = clust => s = CardSector(fs, k, j))
  <2>1. CASE c = clust
    BY <1>2, <1>4, <1>6, <1>7, <2>1
  <2>2. CASE c = 0 /\ c # clust
    <3>1. clust2sect(c) = 0
      <4>1. fs.max_clust \in Nat
        BY ImageFileAssumption
      <4> QED BY <2>2, <4>1 DEF clust2sect
    <3> QED BY <1>2, <1>4, <2>2, <3>1
  <2> QED BY <2>1, <2>2
<1>9. PICK p \in Nat : p = fp.fptr + o
  BY <1>1 DEF Fil
<1>10. /\ fp' = [fp EXCEPT !.curr_clust = clust, !.curr_sect = s, !.sect_clust = Spc(fs) - j,
                           !.fptr = p]
       /\ pc' = "start"
  <2>1. fs.sects_clust = Spc(fs)
    BY DEF Spc
  <2> QED BY <1>4, <1>8, <1>9, <2>1, ZenonT(60) DEF Position, csect, j
<1>11. /\ fp' \in Fil /\ fp'.fptr = p /\ fp'.sect_clust = Spc(fs) - j /\ fp'.err = fp.err
       /\ fp'.curr_clust = Link(fs, k) /\ fp'.curr_sect = s
  <2>1. PICK n \in 0 .. 255 : n = Spc(fs) - j
    BY <1>4
  <2>2. PICK cl \in Nat : cl = Link(fs, k)
    BY <1>6
  <2>3. fp' = FilAt(fp, cl, s, n, p)
    BY <1>10, <2>1, <2>2 DEF FilAt
  <2>4. /\ fp' \in Fil /\ fp'.fptr = p /\ fp'.sect_clust = n /\ fp'.curr_clust = cl
        /\ fp'.curr_sect = s /\ fp'.err = fp.err
    <3>1. FilHas(FilAt(fp, cl, s, n, p), fp, p, n, cl, s)
      BY FilPlaced
    <3> QED BY <2>3, <3>1 DEF FilHas
  <2> QED BY <2>1, <2>2, <2>4
<1>12. Index(fs, k, j) * SECT < p /\ p <= (Index(fs, k, j) + 1) * SECT
  <2>1. /\ Index(fs, k, 0 + j) = Index(fs, k, 0) + j
        /\ (Index(fs, k, 0) + j) * SECT = Index(fs, k, 0) * SECT + j * SECT
        /\ Index(fs, k, 0) * SECT = k * ClusterUnits(fs) /\ k * ClusterUnits(fs) \in Nat
        /\ j * SECT \in Nat
    BY <1>2, <1>6, Indices
  <2>2. (Index(fs, k, j) + 1) * SECT = Index(fs, k, j) * SECT + 1 * SECT
    BY <1>2, <1>6, Indices
  <2>3. Index(fs, k, j) * SECT = k * ClusterUnits(fs) + j * SECT
    BY <1>2, <2>1
  <2> QED BY <1>1, <1>2, <1>9, <2>1, <2>2, <2>3
<1>13. Touched(fs, fp', k, j)
  BY <1>1, <1>2, <1>3, <1>5, <1>8, <1>11, <1>12 DEF Touched
<1>14. p # 0 /\ j \in 0 .. Spc(fs) - 1
  BY <1>1, <1>2, <1>3, <1>9 DEF Fil
<1>15. Stands(fs, fp')
  BY <1>11, <1>13, <1>14 DEF Stands
<1> QED BY <1>1, <1>5, <1>9, <1>10, <1>11, <1>15

LEMMA SeekDoneStep ==
  ASSUME FileInv, SeekDone
  PROVE  FileInv'
<1>1. /\ pc = "skip" /\ ofs <= ClusterUnits(fs) /\ Position(clust, ofs)
      /\ UNCHANGED <<fs, winsect, clust, ofs, btr, want, moved, fault, ret>>
  BY ClusterSize DEF SeekDone
<1>2. fs \in Cards /\ fp \in Fil /\ want \in Request /\ ofs \in Nat /\ ofs > 0
      /\ fp.fptr + ofs = From(fs, want) /\ Skipped(fs, fp.fptr, clust) /\ fp.err = FALSE
      /\ moved = {}
  BY <1>1 DEF FileInv, FileRanges, FilInRange, Aligned, Seeking, Prepared, Fil
<1>3. ClusterUnits(fs) \in Nat /\ ofs \in 1 .. ClusterUnits(fs)
  BY <1>1, <1>2, CardFile
<1>4. PICK k \in 0 .. Links(fs) - 1 : fp.fptr = k * ClusterUnits(fs) /\ clust = Link(fs, k)
  BY <1>2 DEF Skipped
<1>5. /\ fp' \in Fil /\ Stands(fs, fp') /\ fp'.fptr = From(fs, want) /\ fp'.err = FALSE
      /\ pc' = "start"
  BY <1>1, <1>2, <1>3, <1>4, PositionStands
<1>6. FilInRange(fs', fp')
  BY <1>1, <1>2, <1>5, Bounds DEF FilInRange
<1>7. FileRanges'
  BY <1>1, <1>5, <1>6 DEF FileInv, FileRanges
<1> QED BY <1>1, <1>2, <1>5, <1>7
        DEF FileInv, Seeking, Prepared, Transferring, Finished

LEMMA SkipClusterStep ==
  ASSUME FileInv, SkipCluster
  PROVE  FileInv'
<1>1. PICK ok \in BOOLEAN :
        LET c == get_cluster(clust, ok) IN
        /\ pc = "skip" /\ ofs > CSize
        /\ fetch_cluster(clust, ok)
        /\ \/ /\ c = 0
              /\ Position(0, CSize)
              /\ UNCHANGED <<clust, ofs, ret>>
           \/ /\ c = 1 \/ c >= fs.max_clust
              /\ Return("RW_ERROR")
              /\ fp' = [fp EXCEPT !.err = TRUE, !.curr_clust = clust]
              /\ UNCHANGED <<clust, ofs>>
           \/ /\ ValidCluster(c)
              /\ fp' = [fp EXCEPT !.curr_clust = clust, !.fptr = fp.fptr + CSize]
              /\ clust' = c /\ ofs' = ofs - CSize
              /\ UNCHANGED <<pc, ret>>
        /\ UNCHANGED <<fs, btr, want, moved>>
  BY DEF SkipCluster
<1>2. PICK c : c = get_cluster(clust, ok)
  OBVIOUS
<1>3. fs \in Cards /\ fp \in Fil /\ want \in Request /\ ofs \in Nat
      /\ fp.fptr + ofs = From(fs, want) /\ Skipped(fs, fp.fptr, clust) /\ fp.err = FALSE
      /\ moved = {} /\ winsect \in Nat /\ fault \in BOOLEAN /\ fp.fptr \in Nat
  BY <1>1 DEF FileInv, FileRanges, FilInRange, Aligned, Seeking, Prepared, Fil
<1>4. PICK k \in 0 .. Links(fs) - 1 : fp.fptr = k * ClusterUnits(fs) /\ clust = Link(fs, k)
  BY <1>3 DEF Skipped
<1>5. PICK cu \in Nat \ {0} : cu = ClusterUnits(fs)
  BY <1>3, CardFile
<1>6. /\ k \in Nat /\ ofs > cu /\ (k + 1) * ClusterUnits(fs) = fp.fptr + cu /\ Links(fs) \in Nat
      /\ From(fs, want) \in Nat /\ From(fs, want) <= Size(fs) /\ Size(fs) \in Nat
  BY <1>1, <1>3, <1>4, <1>5, ClusterSize, Indices, CardFile, Bounds
<1>7. fp.fptr + cu < Size(fs) /\ fp.fptr + cu \in Nat
  BY <1>3, <1>5, <1>6
<1>8. /\ ValidCluster(c) => k + 1 \in 0 .. Links(fs) - 1 /\ c = Link(fs, k + 1)
      /\ c = 0 => k + 1 = Links(fs) /\ fs.tail = 0
      /\ ~ValidCluster(c) => k + 1 = Links(fs) \/ ~Reads(winsect, FatSector(clust), ok)
      /\ c = 1 \/ c >= fs.max_clust => ~ValidCluster(c)
  BY <1>2, <1>3, <1>4, ChainNext
<1>9. winsect' \in Nat /\ fault' \in BOOLEAN
      /\ (~Reads(winsect, FatSector(clust), ok) => fault')
  <2>1. ValidCluster(clust)
    BY <1>3, <1>4, Follow
  <2>2. move_window(winsect, FatSector(clust), ok)
    BY <1>1, <2>1 DEF fetch_cluster
  <2>3. FatSector(clust) \in Nat
    <3>1. clust \in Nat /\ ENTRIES \in Nat \ {0} /\ FATBASE \in Nat
      BY ImageFileAssumption DEF FileInv, FileRanges
    <3>2. clust \div ENTRIES \in Nat
      BY <3>1, Divided
    <3> QED BY <3>1, <3>2 DEF FatSector
  <2> QED BY <1>3, <2>2, <2>3 DEF move_window
<1>10. /\ fs' = fs /\ btr' = btr /\ want' = want /\ moved' = moved /\ pc = "skip"
       /\ btr' \in 0 .. FDD_SECTOR /\ Aligned(want') /\ clust \in Nat /\ ofs \in Nat
       /\ ret \in {"NONE", "OK", "RW_ERROR"}
  BY <1>1 DEF FileInv, FileRanges
<1>11. CASE c = 0 /\ Position(0, CSize) /\ UNCHANGED <<clust, ofs, ret>>
  <2>1. cu \in 1 .. ClusterUnits(fs) /\ Position(c, cu)
    BY <1>5, <1>11, ClusterSize
  <2>2. /\ fp' \in Fil /\ Stands(fs, fp') /\ fp'.fptr = fp.fptr + cu /\ fp'.err = FALSE
        /\ pc' = "start" /\ fp'.sect_clust = 1
    BY <1>3, <1>4, <1>5, <1>11, <2>1, PositionStands
  <2>3. Short(fs', fp')
    BY <1>6, <1>7, <1>8, <1>10, <1>11, <2>2 DEF Short
  <2>4. FilInRange(fs', fp')
    BY <1>6, <1>7, <1>10, <2>2 DEF FilInRange
  <2>5. FileRanges'
    BY <1>3, <1>9, <1>10, <1>11, <2>2, <2>4 DEF FileRanges
  <2> QED BY <1>3, <1>10, <2>2, <2>3, <2>5
          DEF FileInv, Seeking, Prepared, Transferring, Finished
<1>12. CASE /\ c = 1 \/ c >= fs.max_clust
            /\ Return("RW_ERROR")
            /\ fp' = [fp EXCEPT !.err = TRUE, !.curr_clust = clust]
            /\ UNCHANGED <<clust, ofs>>
  <2>1. fp' \in Fil /\ fp'.fptr = fp.fptr
    <3>1. PICK cl \in Nat : cl = clust
      BY <1>10
    <3>2. fp' = FilLost(fp, cl)
      BY <1>12, <3>1 DEF FilLost
    <3> QED BY <1>3, <3>2, FilGone
  <2>2. pc' = "idle" /\ ret' = "RW_ERROR"
    BY <1>12 DEF Return
  <2>3. FilInRange(fs', fp')
    BY <1>5, <1>6, <1>7, <1>10, <2>1, <1>3 DEF FilInRange
  <2>4. FileRanges'
    BY <1>3, <1>9, <1>10, <1>12, <2>2, <2>3 DEF FileRanges
  <2>5. fault' \/ Links(fs') * ClusterUnits(fs') < Size(fs')
    BY <1>6, <1>7, <1>8, <1>9, <1>10, <1>12
  <2>6. moved' = Exact(fs', want', 0) /\ Placed(fs', want', 0) /\ 0 \in 0 .. Total(fs', want')
    BY <1>3, <1>10, NothingMoved, Bounds
  <2> QED BY <2>2, <2>4, <2>5, <2>6
          DEF FileInv, Seeking, Prepared, Transferring, Finished
<1>13. CASE /\ ValidCluster(c)
            /\ fp' = [fp EXCEPT !.curr_clust = clust, !.fptr = fp.fptr + CSize]
            /\ clust' = c /\ ofs' = ofs - CSize
            /\ UNCHANGED <<pc, ret>>
  <2>1. fp' \in Fil /\ fp'.fptr = fp.fptr + cu /\ fp'.err = FALSE
    <3>1. PICK cl \in Nat : cl = clust
      BY <1>10
    <3>2. PICK p \in Nat : p = fp.fptr + cu
      BY <1>7
    <3>3. fp' = FilOn(fp, cl, p)
      BY <1>5, <1>13, <3>1, <3>2, ClusterSize DEF FilOn
    <3>4. LET h == FilOn(fp, cl, p) IN h \in Fil /\ h.fptr = p /\ h.err = fp.err
      BY <1>3, FilSkipped
    <3> QED BY <1>3, <3>2, <3>3, <3>4
  <2>2. /\ ofs' = ofs - cu /\ ofs' \in Nat /\ ofs' > 0 /\ fp'.fptr + ofs' = From(fs', want')
        /\ pc' = "skip"
    BY <1>3, <1>5, <1>6, <1>10, <1>13, <2>1, ClusterSize
  <2>3. k + 1 \in 0 .. Links(fs) - 1 /\ clust' = Link(fs, k + 1) /\ clust' \in Nat
    BY <1>3, <1>8, <1>13, ChainValid
  <2>4. Skipped(fs', fp'.fptr, clust')
    BY <1>6, <1>10, <2>1, <2>3 DEF Skipped
  <2>5. FilInRange(fs', fp')
    BY <1>6, <1>7, <1>10, <2>1 DEF FilInRange
  <2>6. FileRanges'
    BY <1>3, <1>9, <1>10, <1>13, <2>2, <2>3, <2>5 DEF FileRanges
  <2> QED BY <1>3, <1>10, <2>1, <2>2, <2>4, <2>6
          DEF FileInv, Seeking, Prepared, Transferring, Finished
<1> QED BY <1>1, <1>2, <1>11, <1>12, <1>13

LEMMA StartStep ==
  ASSUME FileInv, Start
  PROVE  FileInv'
<1>1. /\ pc = "start" /\ pc' = "xfer" /\ btr' = Least(FDD_SECTOR, Size(fs) - fp.fptr)
      /\ UNCHANGED <<fs, winsect, fp, clust, ofs, want, moved, fault, ret>>
  BY DEF Start, Size
<1>2. /\ fs \in Cards /\ fp \in Fil /\ fp.fptr <= Size(fs) /\ fp.fptr \in Nat /\ Size(fs) \in Nat
      /\ want \in Request /\ want.at % SECT = 0 /\ moved = {} /\ Stands(fs, fp) /\ ~fp.err
      /\ fp.fptr = From(fs, want) \/ Short(fs, fp)
      /\ FDD_SECTOR \in Nat \ {0}
  BY <1>1, Constants, CardFile
     DEF FileInv, FileRanges, FilInRange, Aligned, Prepared, Fil
<1>3. btr' \in 0 .. FDD_SECTOR /\ (fp.fptr < Size(fs) => btr' > 0)
  BY <1>1, <1>2 DEF Least
<1>4. FileRanges'
  BY <1>1, <1>3 DEF FileInv, FileRanges
<1>5. CASE Short(fs, fp)
  <2>1. Short(fs', fp') /\ btr' > 0
    BY <1>1, <1>2, <1>3, <1>5 DEF Short
  <2> QED BY <1>1, <1>2, <1>4, <2>1 DEF FileInv, Seeking, Prepared, Transferring, Finished
<1>6. CASE fp.fptr = From(fs, want)
  <2>1. /\ btr' = Total(fs, want) /\ Total(fs, want) \in Nat
        /\ From(fs, want) < Size(fs) => From(fs, want) = want.at
    BY <1>1, <1>2, <1>6, Bounds
  <2>2. btr' > 0 => fp.fptr % SECT = 0
    <3>1. btr' > 0 => From(fs, want) < Size(fs)
      BY <1>1, <1>2, <1>6 DEF Least
    <3> QED BY <1>2, <1>6, <2>1, <3>1
  <2>3. Total(fs, want) - btr' = 0
    BY <2>1
  <2>4. moved = Exact(fs, want, 0) /\ Placed(fs, want, 0)
    BY <1>2, NothingMoved
  <2> QED BY <1>1, <1>2, <1>4, <1>6, <2>1, <2>2, <2>3, <2>4
          DEF FileInv, Seeking, Prepared, Transferring, Finished
<1> QED BY <1>2, <1>5, <1>6

LEMMA DoneStep ==
  ASSUME FileInv, Done
  PROVE  FileInv'
<1>1. /\ pc = "xfer" /\ btr = 0 /\ pc' = "idle" /\ ret' = "OK"
      /\ UNCHANGED <<fs, winsect, fp, clust, ofs, btr, want, moved, fault>>
  BY DEF Done, Return
<1>2. FileRanges'
  BY <1>1 DEF FileInv, FileRanges
<1>3. PICK n : n = Total(fs, want)
  OBVIOUS
<1>4. n \in Nat /\ n - 0 = n
  BY <1>3, Bounds DEF FileInv, FileRanges, Aligned
<1>5. moved = Exact(fs, want, n) /\ Placed(fs, want, n) /\ n \in 0 .. n
  BY <1>1, <1>3, <1>4 DEF FileInv, Transferring
<1> QED BY <1>1, <1>2, <1>3, <1>5 DEF FileInv, Seeking, Prepared, Transferring, Finished

LEMMA BrowseStep ==
  ASSUME FileInv, Browse
  PROVE  FileInv'
<1>1. PICK s \in DIRBASE .. DATABASE - 1, ok \in BOOLEAN : move_window(winsect, s, ok)
  BY DEF Browse
<1>2. /\ pc = "idle" /\ ~fp.err
      /\ UNCHANGED <<fs, fp, pc, clust, ofs, btr, want, moved, ret>>
  BY DEF Browse
<1>3. winsect \in Nat /\ fault \in BOOLEAN /\ s \in Nat
  BY ImageFileAssumption DEF FileInv, FileRanges
<1>4. winsect' \in Nat /\ fault' \in BOOLEAN /\ (fault => fault')
  BY <1>1, <1>3 DEF move_window
<1>5. FileRanges'
  BY <1>2, <1>4 DEF FileInv, FileRanges
<1> QED BY <1>2, <1>4, <1>5 DEF FileInv, Seeking, Prepared, Transferring, Finished

LEMMA ReopenStep ==
  ASSUME FileInv, Reopen
  PROVE  FileInv'
<1>1. /\ pc = "idle" /\ fs' \in Cards /\ winsect' \in DIRBASE .. DATABASE - 1
      /\ fp' = [fp EXCEPT !.err = FALSE, !.fptr = 0, !.sect_clust = 1]
      /\ moved' = {} /\ fault' = FALSE /\ ret' = "NONE"
      /\ UNCHANGED <<pc, clust, ofs, btr, want>>
  BY DEF Reopen
<1>2. winsect' \in Nat
  BY <1>1, ImageFileAssumption
<1>3. fp' \in Fil /\ fp'.fptr = 0
  <2>1. fp \in Fil
    BY DEF FileInv, FileRanges, FilInRange
  <2> QED BY <1>1, <2>1, FilRestarts
<1>4. FilInRange(fs', fp')
  <2>1. Size(fs') \in Nat
    BY <1>1, CardFile
  <2> QED BY <1>3, <2>1 DEF FilInRange
<1>5. FileRanges'
  BY <1>1, <1>2, <1>4 DEF FileInv, FileRanges
<1>6. moved' = Exact(fs', want', 0) /\ Placed(fs', want', 0) /\ 0 \in 0 .. Total(fs', want')
  BY <1>1, <1>5, NothingMoved, Bounds DEF FileRanges, Aligned
<1> QED BY <1>1, <1>5, <1>6 DEF FileInv, Seeking, Prepared, Transferring, Finished

-----------------------------------------------------------------------------
(* f_read_or_wr is about to exchange sector j of cluster k; f is the file  *)
(* object as it has been turned to that cluster.                           *)
Ready(f, k, j) ==
  /\ pc = "xfer" /\ Pending(fs, want, fp, btr)
  /\ moved = Exact(fs, want, Total(fs, want) - btr)
  /\ Placed(fs, want, Total(fs, want) - btr)
  /\ f \in Fil /\ f.fptr = fp.fptr /\ f.err = FALSE /\ f.curr_clust = Link(fs, k)
  /\ fp.fptr = Index(fs, k, j) * SECT
Frame == fs' = fs /\ clust' = clust /\ ofs' = ofs /\ want' = want /\ winsect' \in Nat

LEMMA SectorOnCard ==
  ASSUME NEW c \in Cards, NEW k \in 0 .. Links(c) - 1, NEW j \in Nat, NEW e \in Nat
  PROVE  CardSector(c, k, j) \in Nat /\ CardSector(c, k, j + e) = CardSector(c, k, j) + e
<1>1. Link(c, k) - 2 \in Int /\ Link(c, k) - 2 >= 0 /\ Spc(c) \in Int /\ Spc(c) >= 0
  BY ChainValid, CardFile
<1>2. PICK x \in Nat : x = (Link(c, k) - 2) * Spc(c)
  BY <1>1, Product
<1>3. DATABASE \in Nat
  BY Constants
<1>4. CardSector(c, k, j) = DATABASE + x + j /\ CardSector(c, k, j + e) = DATABASE + x + (j + e)
  BY <1>2 DEF CardSector
<1> QED BY <1>3, <1>4

(* Where the next unit lies in the buffer.                                 *)
LEMMA BufferPlace == BufferPos = Total(fs, want) - btr
BY DEF BufferPos, Total, From, Size

(* A turn of the loop ends well: btr' units are left.                      *)
LEMMA TurnedWell ==
  ASSUME FileInv, Frame, pc' = "xfer", pc = "xfer", ret' = ret, fault' \in BOOLEAN,
         fp' \in Fil, fp'.err = FALSE, fp'.fptr <= Size(fs), Stands(fs, fp'),
         btr' \in 0 .. FDD_SECTOR,
         fp'.fptr + btr' = From(fs, want) + Total(fs, want), btr' <= Total(fs, want),
         btr' > 0 => fp'.fptr % SECT = 0,
         moved' = Exact(fs, want, Total(fs, want) - btr'), Placed(fs, want, Total(fs, want) - btr')
  PROVE  FileInv'
<1>1. FilInRange(fs', fp')
  BY DEF FilInRange, Frame
<1>2. FileRanges'
  BY <1>1 DEF FileInv, FileRanges, Frame
<1> QED BY <1>2 DEF FileInv, Seeking, Prepared, Transferring, Finished, Frame

(* A turn fails with the first n units exchanged.                          *)
LEMMA TurnedBad ==
  ASSUME FileInv, Frame, Return("RW_ERROR"), btr' = btr,
         fault' \in BOOLEAN, fault' \/ Links(fs) * ClusterUnits(fs) < Size(fs),
         fp' \in Fil, fp'.fptr = fp.fptr,
         NEW n \in 0 .. Total(fs, want), moved' = Exact(fs, want, n), Placed(fs, want, n)
  PROVE  FileInv'
<1>1. FilInRange(fs', fp')
  BY DEF FileInv, FileRanges, FilInRange, Frame
<1>2. pc' = "idle" /\ ret' = "RW_ERROR"
  BY DEF Return
<1>3. FileRanges'
  BY <1>1, <1>2 DEF FileInv, FileRanges, Frame
<1> QED BY <1>2, <1>3 DEF FileInv, Seeking, Prepared, Transferring, Finished, Frame

(* How many whole sectors one turn exchanges.                              *)
LEMMA RunLength ==
  ASSUME NEW d \in Nat \ {0}, NEW n \in Nat, n >= d, NEW left \in Nat \ {0}
  PROVE  \E e \in Nat : /\ e = Least(n \div d, left) /\ e >= 1 /\ e <= left /\ e * d <= n
<1>1. PICK q \in Nat, r \in 0 .. d - 1 : q = n \div d /\ n = q * d + r
  BY Divided
<1>2. q >= 1
  <2>1. CASE q = 0
    <3>1. q * d = 0
      BY <2>1
    <3> QED BY <1>1, <3>1
  <2> QED BY <2>1
<1>3. PICK e \in Nat : e = Least(q, left) /\ e >= 1 /\ e <= left /\ e <= q
  BY <1>2 DEF Least
<1>4. e * d <= q * d
  BY <1>3, Monotone
<1>5. e * d \in Nat /\ q * d \in Nat
  OBVIOUS
<1>6. e * d <= n
  BY <1>1, <1>4, <1>5
<1> QED BY <1>1, <1>3, <1>6

(* Whole sectors, directly between the card and the buffer.                *)
LEMMA DirectStep ==
  ASSUME FileInv, NEW k \in 0 .. Links(fs) - 1, NEW j \in 0 .. Spc(fs) - 1, NEW f, Ready(f, k, j),
         btr >= SECT, NEW left, left = Spc(fs) - j, NEW s, s = CardSector(fs, k, j),
         Direct(f, left, s), Frame
  PROVE  FileInv'
<1>1. /\ fs \in Cards /\ fp \in Fil /\ want \in Request /\ btr \in Nat /\ btr <= FDD_SECTOR
      /\ FDD_SECTOR \in Nat
      /\ fp.fptr \in Nat /\ SECT \in Nat \ {0} /\ Spc(fs) \in 1 .. 255 /\ fault \in BOOLEAN
      /\ Size(fs) \in Nat /\ k \in Nat /\ j \in Nat
  BY Constants, CardFile DEF FileInv, FileRanges, FilInRange, Aligned, Fil
<1>2. /\ pc = "xfer" /\ f \in Fil /\ f.fptr = fp.fptr /\ f.err = FALSE /\ f.curr_clust = Link(fs, k)
      /\ fp.fptr = Index(fs, k, j) * SECT /\ Pending(fs, want, fp, btr)
  BY DEF Ready
<1>10. left \in 1 .. 255 /\ left \in Nat \ {0}
  <2>1. ASSUME NEW x \in 1 .. 255, NEW y \in 0 .. x - 1
        PROVE  x - y \in 1 .. 255 /\ x - y \in Nat \ {0}
    BY <2>1
  <2>2. Spc(fs) \in 1 .. 255
    BY <1>1
  <2> QED BY <2>1, <2>2
<1>3. PICK B \in Nat : B = Total(fs, want) - btr
  BY <1>1, <1>2, RequestPlace
<1>4. /\ moved = Exact(fs, want, B) /\ Placed(fs, want, B) /\ Total(fs, want) = B + btr
      /\ fp.fptr + btr = From(fs, want) + Total(fs, want) /\ fp.fptr + btr <= Size(fs)
      /\ From(fs, want) \in Nat
  <2>1. Total(fs, want) \in Nat /\ fp.fptr + btr <= Size(fs) /\ From(fs, want) \in Nat
    BY <1>1, <1>2, RequestPlace, Bounds
  <2> QED BY <1>1, <1>3, <2>1 DEF Ready, Pending
<1>5. PICK e \in Nat : e = Least(btr \div SECT, left) /\ e >= 1 /\ e <= left /\ e * SECT <= btr
  BY <1>1, <1>10, RunLength
<1>6. ASSUME NEW n \in Nat, n <= e
      PROVE  /\ n * SECT \in Nat /\ n * SECT <= btr
             /\ Exchange(n * SECT, s, want.op) = Exact(fs, want, B + n * SECT)
             /\ Placed(fs, want, B + n * SECT)
  <2>1. n * SECT \in Nat /\ n * SECT <= e * SECT /\ e * SECT \in Nat
    BY <1>1, <1>6, Monotone
  <2>2. n * SECT <= btr
    BY <1>1, <1>5, <2>1
  <2>3. n <= Spc(fs) - j
    BY <1>1, <1>5, <1>6
  <2>4. RunDone(fs, want, k, j, B, want.op, n * SECT)
    <3>1. AtSector(fs, want, fp, btr, k, j, B)
      BY <1>2, <1>3, <1>4 DEF AtSector
    <3>2. SectorsFit(fs, btr, j, n)
      BY <2>2, <2>3 DEF SectorsFit
    <3> QED BY <1>1, <3>1, <3>2, DirectRun
  <2>5. Exchange(n * SECT, s, want.op)
          = moved \cup {RunUnit(fs, k, j, B, want.op, i) : i \in 0 .. n * SECT - 1}
    BY <1>3, BufferPlace DEF Exchange, RunUnit
  <2> QED BY <1>4, <2>1, <2>2, <2>4, <2>5 DEF RunDone
<1>7. s \in Nat /\ CardSector(fs, k, j + (e - 1)) = s + (e - 1)
  <2>1. e - 1 \in Nat
    BY <1>5
  <2> QED BY <1>1, <2>1, SectorOnCard
<1>8. CASE /\ fp' = [f EXCEPT !.fptr = fp.fptr + e * SECT,
                              !.sect_clust = (left - (e - 1)) % 256,
                              !.curr_sect = s + e - 1]
           /\ moved' = Exchange(e * SECT, s, want.op)
           /\ btr' = btr - e * SECT
           /\ UNCHANGED <<pc, ret, fault>>
  <2>1. PICK r \in Nat : r = e * SECT /\ r <= btr
    BY <1>5, <1>6
  <2>2. PICK p \in Nat : p = fp.fptr + r
    BY <1>1
  <2>3. PICK n \in 0 .. 255 : n = (left - (e - 1)) % 256 /\ n = left - (e - 1)
    <3>1. ASSUME NEW x \in 1 .. 255, NEW y \in Nat, y >= 1, y <= x
          PROVE  (x - (y - 1)) % 256 = x - (y - 1) /\ x - (y - 1) \in 0 .. 255
      BY <3>1
    <3> QED BY <1>10, <1>5, <3>1, ZenonT(60)
  <2>4. PICK t \in Nat : t = s + e - 1 /\ t = CardSector(fs, k, j + (e - 1))
    BY <1>5, <1>7
  <2>5. fp' = FilRun(f, p, n, t)
    BY <1>8, <2>1, <2>2, <2>3, <2>4 DEF FilRun
  <2>6. FilHas(FilRun(f, p, n, t), f, p, n, f.curr_clust, t)
    BY <1>2, FilMoved
  <2>7. /\ fp' \in Fil /\ fp'.fptr = p /\ fp'.sect_clust = n /\ fp'.curr_clust = Link(fs, k)
        /\ fp'.curr_sect = t /\ fp'.err = FALSE
    BY <1>2, <2>5, <2>6 DEF FilHas
  <2>8. PICK m \in 0 .. Spc(fs) - 1 : m = j + (e - 1) /\ n = Spc(fs) - m
    BY <1>1, <1>5, <2>3
  <2>9. (Index(fs, k, m) + 1) * SECT = p /\ Index(fs, k, m) * SECT < p /\ p % SECT = 0
    <3>1. PICK x \in Nat : x = Index(fs, k, j) /\ Index(fs, k, m) = x + (e - 1)
      <4>1. PICK y \in Nat : y = e - 1
        BY <1>5
      <4>2. Index(fs, k, j) \in Nat /\ Index(fs, k, j + y) = Index(fs, k, j) + y
        BY <1>1, Indices
      <4> QED BY <2>8, <4>1, <4>2
    <3>2. (x + e) * SECT = x * SECT + e * SECT
      BY <1>1
    <3>3. (x + e) * SECT = p
      BY <1>2, <2>1, <2>2, <3>1, <3>2
    <3>4. (x + (e - 1)) * SECT < (x + e) * SECT
      BY <1>1, Monotone
    <3>5. ((x + e) * SECT + 0) % SECT = 0
      <4>1. x + e \in Nat /\ 0 \in 0 .. SECT - 1
        BY <1>1
      <4> QED BY <1>1, <4>1, DivMod
    <3>6. x + (e - 1) + 1 = x + e /\ p + 0 = p
      OBVIOUS
    <3> QED BY <3>1, <3>3, <3>4, <3>5, <3>6
  <2>10. Touched(fs, fp', k, m)
    BY <2>4, <2>7, <2>8, <2>9 DEF Touched
  <2>11. Stands(fs, fp')
    <3>1. p # 0
      <4>1. Index(fs, k, m) * SECT \in Nat
        <5>1. m \in Nat
          BY <1>1
        <5> QED BY <1>1, <5>1, IndexUnits
      <4> QED BY <2>9, <4>1
    <3> QED BY <2>7, <2>10, <3>1 DEF Stands
  <2>12. btr' = btr - r /\ btr' \in 0 .. FDD_SECTOR /\ btr' <= Total(fs, want)
         /\ p + btr' = From(fs, want) + Total(fs, want) /\ Total(fs, want) - btr' = B + r
         /\ p <= Size(fs)
    <3>1. btr' = btr - r
      BY <1>8, <2>1
    <3>0. Total(fs, want) \in Nat /\ From(fs, want) \in Nat
      BY <1>1, Bounds
    <3>2. PICK T \in Nat, o \in Nat : T = Total(fs, want) /\ o = From(fs, want)
      BY <3>0
    <3> QED BY <1>1, <1>4, <2>1, <2>2, <3>1, <3>2
  <2>13. moved' = Exact(fs, want, B + r) /\ Placed(fs, want, B + r)
    BY <1>6, <1>8, <2>1
  <2> QED BY <1>1, <1>2, <1>8, <2>7, <2>9, <2>11, <2>12, <2>13, TurnedWell, ZenonT(60)
<1>9. CASE /\ fp' = [f EXCEPT !.err = TRUE, !.sect_clust = left, !.curr_sect = s]
           /\ \E n \in 0 .. e - 1 : moved' = Exchange(n * SECT, s, want.op)
           /\ fault' = TRUE
           /\ Return("RW_ERROR") /\ UNCHANGED btr
  <2>1. PICK n \in 0 .. e - 1 : moved' = Exchange(n * SECT, s, want.op)
    BY <1>9
  <2>2. n \in Nat /\ n <= e
    OBVIOUS
  <2>3. PICK r \in Nat : /\ r = n * SECT /\ r <= btr
                         /\ moved' = Exact(fs, want, B + r) /\ Placed(fs, want, B + r)
    BY <1>6, <2>1, <2>2
  <2>4. B + r \in 0 .. Total(fs, want)
    <3>1. r <= btr /\ Total(fs, want) = B + btr
      BY <1>4, <2>3
    <3> QED BY <1>1, <3>1
  <2>5. fp' \in Fil /\ fp'.fptr = fp.fptr
    <3>1. PICK l \in 0 .. 255 : l = left
      BY <1>10
    <3>2. fp' = FilCut(f, l, s)
      BY <1>9, <3>1 DEF FilCut
    <3>3. FilCut(f, l, s) \in Fil /\ FilCut(f, l, s).fptr = f.fptr
      BY <1>2, <1>7, FilFailed
    <3> QED BY <1>2, <3>2, <3>3
  <2> QED BY <1>9, <2>3, <2>4, <2>5, TurnedBad
<1> QED BY <1>5, <1>8, <1>9 DEF Direct

(* The last part of an odd-sized file, copied out of the window.           *)
LEMMA CopyStep ==
  ASSUME FileInv, NEW k \in 0 .. Links(fs) - 1, NEW j \in 0 .. Spc(fs) - 1, NEW f, Ready(f, k, j),
         btr < SECT, NEW s, s = CardSector(fs, k, j), f.curr_sect = s, f.sect_clust = Spc(fs) - j,
         NEW w \in Nat, Copy(f, s, w),
         fs' = fs, clust' = clust, ofs' = ofs, want' = want
  PROVE  FileInv'
<1>1. /\ fs \in Cards /\ fp \in Fil /\ want \in Request /\ want.at % SECT = 0
      /\ btr \in Nat /\ btr <= FDD_SECTOR /\ FDD_SECTOR \in Nat
      /\ fp.fptr \in Nat /\ SECT \in Nat \ {0} /\ Spc(fs) \in 1 .. 255 /\ fault \in BOOLEAN
      /\ Size(fs) \in Nat /\ k \in Nat /\ j \in Nat
  BY Constants, CardFile DEF FileInv, FileRanges, FilInRange, Aligned, Fil
<1>2. /\ pc = "xfer" /\ f \in Fil /\ f.fptr = fp.fptr /\ f.err = FALSE /\ f.curr_clust = Link(fs, k)
      /\ fp.fptr = Index(fs, k, j) * SECT /\ Pending(fs, want, fp, btr)
  BY DEF Ready
<1>3. PICK B \in Nat : B = Total(fs, want) - btr
  BY <1>1, <1>2, RequestPlace
<1>4. /\ moved = Exact(fs, want, B) /\ Placed(fs, want, B) /\ Total(fs, want) = B + btr
      /\ fp.fptr + btr = From(fs, want) + Total(fs, want) /\ fp.fptr + btr <= Size(fs)
      /\ btr > 0
  <2>1. Total(fs, want) \in Nat /\ fp.fptr + btr <= Size(fs)
    BY <1>1, <1>2, RequestPlace
  <2> QED BY <1>1, <1>3, <2>1 DEF Ready, Pending
<1>5. PICK ok \in BOOLEAN :
        LET rcnt == Least(SECT, btr) IN
        /\ move_window(w, s, ok)
        /\ IF Reads(w, s, ok)
           THEN /\ fp' = [f EXCEPT !.fptr = fp.fptr + rcnt]
                /\ moved' = Exchange(rcnt, s, "rd")
                /\ btr' = btr - rcnt
                /\ UNCHANGED <<pc, ret>>
           ELSE /\ Return("RW_ERROR") /\ fp' = [f EXCEPT !.err = TRUE]
                /\ UNCHANGED <<moved, btr>>
  BY DEF Copy
<1>6. Least(SECT, btr) = btr
  BY <1>1 DEF Least
<1>7. s \in Nat
  BY <1>1, SectorOnCard
<1>8. Frame /\ fault' \in BOOLEAN /\ (~Reads(w, s, ok) => fault')
  BY <1>1, <1>5, <1>7 DEF Frame, move_window
<1>9. CASE Reads(w, s, ok)
  <2>1. PICK p \in Nat : p = fp.fptr + btr
    BY <1>1
  <2>2. /\ fp' = FilPast(f, p) /\ moved' = Exchange(btr, s, "rd") /\ btr' = btr - btr
        /\ UNCHANGED <<pc, ret>>
    BY <1>5, <1>6, <1>9, <2>1 DEF FilPast
  <2>3. FilHas(FilPast(f, p), f, p, f.sect_clust, f.curr_clust, f.curr_sect)
    BY <1>2, FilCopied
  <2>4. /\ fp' \in Fil /\ fp'.fptr = p /\ fp'.sect_clust = Spc(fs) - j
        /\ fp'.curr_clust = Link(fs, k) /\ fp'.curr_sect = s /\ fp'.err = FALSE
    BY <1>2, <2>2, <2>3 DEF FilHas
  <2>5. Index(fs, k, j) * SECT < p /\ p <= (Index(fs, k, j) + 1) * SECT /\ p # 0
    <3>1. PICK x \in Nat : x = Index(fs, k, j) * SECT /\ (Index(fs, k, j) + 1) * SECT = x + SECT
      BY <1>1, IndexUnits, SMTT(30)
    <3> QED BY <1>1, <1>2, <1>4, <2>1, <3>1
  <2>6. Touched(fs, fp', k, j)
    BY <2>4, <2>5 DEF Touched
  <2>7. Stands(fs, fp')
    BY <2>4, <2>5, <2>6 DEF Stands
  <2>8. RunDone(fs, want, k, j, B, "rd", btr)
    <3>1. AtSector(fs, want, fp, btr, k, j, B)
      BY <1>2, <1>3, <1>4 DEF AtSector
    <3>2. Aligned(want)
      BY DEF FileInv, FileRanges
    <3> QED BY <1>1, <3>1, <3>2, CopyRun
  <2>9. Exchange(btr, s, "rd") = moved \cup {RunUnit(fs, k, j, B, "rd", i) : i \in 0 .. btr - 1}
    BY <1>3, BufferPlace DEF Exchange, RunUnit
  <2>10. btr' = 0 /\ btr' \in 0 .. FDD_SECTOR /\ btr' <= Total(fs, want)
         /\ p + btr' = From(fs, want) + Total(fs, want) /\ Total(fs, want) - btr' = B + btr
         /\ p <= Size(fs)
    BY <1>1, <1>4, <2>1, <2>2
  <2>11. moved' = Exact(fs, want, B + btr) /\ Placed(fs, want, B + btr)
    BY <1>4, <2>2, <2>8, <2>9 DEF RunDone
  <2>12. btr' > 0 => fp'.fptr % SECT = 0
    BY <2>10
  <2>13. pc' = "xfer" /\ ret' = ret
    BY <1>2, <2>2
  <2> QED BY <1>2, <1>8, <2>4, <2>7, <2>10, <2>11, <2>12, <2>13, TurnedWell
<1>10. CASE ~Reads(w, s, ok)
  <2>1. Return("RW_ERROR") /\ fp' = FilBad(f) /\ moved' = moved /\ btr' = btr
    BY <1>5, <1>10 DEF FilBad
  <2>2. fp' \in Fil /\ fp'.fptr = fp.fptr
    <3>1. 0 \in 0 .. 255
      OBVIOUS
    <3>2. FilBad(f) \in Fil /\ FilBad(f).fptr = f.fptr
      BY <1>2, <1>7, <3>1, FilFailed
    <3> QED BY <1>2, <2>1, <3>2
  <2>3. B \in 0 .. Total(fs, want)
    BY <1>1, <1>4
  <2> QED BY <1>4, <1>8, <1>10, <2>1, <2>2, <2>3, TurnedBad
<1> QED BY <1>9, <1>10

(* What the loop of f_read_or_wr finds when it has units left.             *)
LEMMA InTransfer ==
  ASSUME FileInv, pc = "xfer", btr > 0
  PROVE  /\ fp.fptr < Size(fs) /\ fp.fptr \in Nat /\ fp.err = FALSE
         /\ \/ Short(fs, fp)
            \/ /\ Pending(fs, want, fp, btr)
               /\ moved = Exact(fs, want, Total(fs, want) - btr)
               /\ Placed(fs, want, Total(fs, want) - btr)
         /\ \E n \in 0 .. Total(fs, want) : moved = Exact(fs, want, n) /\ Placed(fs, want, n)
<1>1. /\ fs \in Cards /\ fp \in Fil /\ want \in Request /\ btr \in Nat /\ fp.fptr \in Nat
      /\ Size(fs) \in Nat /\ fp.err = FALSE
  BY CardFile, Constants DEF FileInv, FileRanges, FilInRange, Aligned, Fil, Prepared
<1>2. CASE Short(fs, fp) /\ moved = {}
  <2>1. 0 \in 0 .. Total(fs, want) /\ moved = Exact(fs, want, 0) /\ Placed(fs, want, 0)
    BY <1>1, <1>2, NothingMoved, Bounds
  <2>2. fp.fptr < Size(fs)
    BY <1>2 DEF Short
  <2> QED BY <1>1, <1>2, <2>1, <2>2
<1>3. CASE /\ Pending(fs, want, fp, btr)
           /\ moved = Exact(fs, want, Total(fs, want) - btr)
           /\ Placed(fs, want, Total(fs, want) - btr)
  <2>1. PICK T \in Nat : T = Total(fs, want) /\ T - btr \in Nat /\ fp.fptr + btr <= Size(fs)
    BY <1>1, <1>3, RequestPlace
  <2>2. T - btr \in 0 .. T /\ fp.fptr < Size(fs)
    BY <1>1, <2>1
  <2> QED BY <1>1, <1>3, <2>1, <2>2
<1> QED BY <1>2, <1>3 DEF FileInv, Transferring, Pending

LEMMA XferSectorStep ==
  ASSUME FileInv, XferSector
  PROVE  FileInv'
<1>1. /\ pc = "xfer" /\ btr > 0 /\ fp.fptr % SECT = 0 /\ SectorsLeft # 0
      /\ fs' = fs /\ clust' = clust /\ ofs' = ofs /\ want' = want
  BY DEF XferSector, OnBoundary
<1>2. /\ fs \in Cards /\ fp \in Fil /\ winsect \in Nat /\ fp.fptr \in Nat /\ fp.sect_clust \in 0 .. 255
      /\ SECT \in Nat \ {0} /\ Spc(fs) \in 1 .. 255 /\ Stands(fs, fp) /\ btr \in Nat
      /\ Links(fs) \in Nat
  BY <1>1, CardFile, Constants DEF FileInv, FileRanges, FilInRange, Fil, Prepared
<1>3. fp.sect_clust # 1 /\ (fp.sect_clust # 0 => SectorsLeft = fp.sect_clust - 1)
  <2>1. ASSUME NEW x \in 0 .. 255
        PROVE  (x = 1 => (x + 255) % 256 = 0) /\ (x # 0 => (x + 255) % 256 = x - 1)
    BY <2>1
  <2>2. SectorsLeft = (fp.sect_clust + 255) % 256
    BY DEF SectorsLeft
  <2> QED BY <1>1, <1>2, <2>1, <2>2
<1>4. fp.fptr # 0 /\ ~Short(fs, fp)
  BY <1>2, <1>3 DEF Stands, Short
<1>5. /\ Pending(fs, want, fp, btr) /\ fp.err = FALSE
      /\ moved = Exact(fs, want, Total(fs, want) - btr)
      /\ Placed(fs, want, Total(fs, want) - btr)
  BY <1>1, <1>4, InTransfer
<1>6. PICK k \in 0 .. Links(fs) - 1 : \E i \in 0 .. Spc(fs) - 1 : Touched(fs, fp, k, i)
  BY <1>2, <1>4 DEF Stands
<1>7. PICK i \in 0 .. Spc(fs) - 1 : Touched(fs, fp, k, i)
  BY <1>6
<1>8. /\ fp.curr_clust = Link(fs, k) /\ fp.sect_clust = Spc(fs) - i
      /\ fp.curr_sect = CardSector(fs, k, i)
      /\ Index(fs, k, i) * SECT < fp.fptr /\ fp.fptr <= (Index(fs, k, i) + 1) * SECT
  BY <1>3, <1>7 DEF Touched
<1>9. PICK j \in 0 .. Spc(fs) - 1 : j = i + 1
  <2>1. ASSUME NEW x \in 1 .. 255, NEW y \in 0 .. x - 1, x - y # 1
        PROVE  y + 1 \in 0 .. x - 1
    BY <2>1
  <2>2. Spc(fs) \in 1 .. 255
    BY <1>2
  <2> QED BY <1>3, <1>8, <2>1, <2>2
<1>10. k \in Nat /\ i \in Nat /\ 1 \in Nat /\ Spc(fs) - i # 0
  BY <1>2
<1>11. fp.fptr = Index(fs, k, j) * SECT
  <2>1. Index(fs, k, i) \in Nat /\ Index(fs, k, i + 1) = Index(fs, k, i) + 1
    BY <1>2, <1>10, Indices
  <2>2. fp.fptr = (Index(fs, k, i) + 1) * SECT
    BY <1>1, <1>2, <1>8, <2>1, Boundary
  <2> QED BY <1>9, <2>1, <2>2
<1>12. PICK s \in Nat : s = fp.curr_sect + 1 /\ s = CardSector(fs, k, j)
  <2>1. CardSector(fs, k, i) \in Nat /\ CardSector(fs, k, i + 1) = CardSector(fs, k, i) + 1
    BY <1>2, <1>10, SectorOnCard
  <2> QED BY <1>8, <1>9, <2>1
<1>13. PICK left \in 0 .. 255 : left = SectorsLeft /\ left = Spc(fs) - j
  <2>1. SectorsLeft = (Spc(fs) - i) - 1
    BY <1>3, <1>8, <1>10
  <2>2. ASSUME NEW x \in 1 .. 255, NEW y \in 0 .. x - 1
        PROVE  (x - y) - 1 \in 0 .. 255 /\ (x - y) - 1 = x - (y + 1)
    BY <2>2
  <2>3. Spc(fs) \in 1 .. 255
    BY <1>2
  <2> QED BY <1>9, <2>1, <2>2, <2>3
<1>14. CASE btr >= SECT
  <2>1. Direct(fp, left, s) /\ winsect' = winsect
    BY <1>12, <1>13, <1>14 DEF XferSector
  <2>2. Ready(fp, k, j)
    BY <1>1, <1>2, <1>5, <1>8, <1>11 DEF Ready
  <2>3. Frame
    BY <1>1, <1>2, <2>1 DEF Frame
  <2> QED BY <1>12, <1>13, <1>14, <2>1, <2>2, <2>3, DirectStep
<1>15. CASE btr < SECT
  <2>1. PICK f : f = FilNext(fp, s, left)
    OBVIOUS
  <2>2. Copy(f, s, winsect)
    <3>1. ~(btr >= SECT)
      BY <1>2, <1>15
    <3> QED BY <1>12, <1>13, <2>1, <3>1 DEF XferSector, FilNext
  <2>3. FilHas(FilNext(fp, s, left), fp, fp.fptr, left, fp.curr_clust, s)
    BY <1>2, FilStepped
  <2>4. /\ f \in Fil /\ f.fptr = fp.fptr /\ f.sect_clust = left /\ f.curr_clust = Link(fs, k)
        /\ f.curr_sect = s /\ f.err = FALSE
    BY <1>5, <1>8, <2>1, <2>3 DEF FilHas
  <2>5. Ready(f, k, j)
    BY <1>1, <1>5, <1>11, <2>4 DEF Ready
  <2> QED BY <1>1, <1>2, <1>12, <1>13, <1>15, <2>2, <2>4, <2>5, CopyStep
<1> QED BY <1>2, <1>14, <1>15

(* The cluster behind is used up: what the next one is.                    *)
LEMMA AtClusterEnd ==
  ASSUME FileInv, pc = "xfer", btr > 0, fp.fptr % SECT = 0, SectorsLeft = 0,
         NEW ok \in BOOLEAN, NEW c, c = NextCluster(ok)
  PROVE  /\ ValidCluster(c) => \E q \in 0 .. Links(fs) - 1 :
              c = Link(fs, q) /\ fp.fptr = q * ClusterUnits(fs) /\ ~Short(fs, fp)
         /\ ~ValidCluster(c) => \/ Links(fs) * ClusterUnits(fs) < Size(fs)
                                \/ fp.fptr # 0 /\ ~Reads(winsect, FatSector(fp.curr_clust), ok)
         /\ fp.fptr # 0 => ValidCluster(fp.curr_clust)
<1>1. /\ fs \in Cards /\ fp \in Fil /\ fp.fptr \in Nat /\ fp.sect_clust \in 0 .. 255
      /\ SECT \in Nat \ {0} /\ Spc(fs) \in 1 .. 255 /\ Stands(fs, fp)
      /\ Links(fs) \in Nat /\ ClusterUnits(fs) \in Nat \ {0}
  BY CardFile, Constants DEF FileInv, FileRanges, FilInRange, Fil, Prepared
<1>2. fp.sect_clust = 1
  <2>1. ASSUME NEW x \in 0 .. 255, (x + 255) % 256 = 0
        PROVE  x = 1
    BY <2>1
  <2>2. (fp.sect_clust + 255) % 256 = 0
    BY DEF SectorsLeft
  <2> QED BY <1>1, <2>1, <2>2
<1>3. fp.fptr < Size(fs)
  BY InTransfer
<1>4. PICK cu \in Nat \ {0} : cu = ClusterUnits(fs)
  BY <1>1
<1>5. CASE fp.fptr = 0
  <2>1. c = OrgClust
    BY <1>5 DEF NextCluster
  <2>2. CASE Links(fs) = 0
    <3>1. ~ValidCluster(c)
      BY <1>1, <2>1, <2>2, FirstCluster DEF ValidCluster
    <3>2. Links(fs) * ClusterUnits(fs) = 0
      BY <1>4, <2>2
    <3> QED BY <1>3, <1>5, <3>1, <3>2
  <2>3. CASE Links(fs) > 0
    <3>1. 0 \in 0 .. Links(fs) - 1 /\ c = Link(fs, 0)
      BY <1>1, <2>1, <2>3, FirstCluster
    <3>2. ValidCluster(c)
      BY <1>1, <3>1, Follow
    <3>3. fp.fptr = 0 * ClusterUnits(fs)
      BY <1>4, <1>5
    <3>4. ~Short(fs, fp)
      <4>1. PICK n \in Nat : n = Links(fs) /\ n > 0
        BY <1>1, <2>3
      <4>2. n * cu > 0
        BY <4>1, Product
      <4> QED BY <1>4, <1>5, <4>1, <4>2 DEF Short
    <3> QED BY <1>5, <3>1, <3>2, <3>3, <3>4
  <2> QED BY <1>1, <2>2, <2>3
<1>6. CASE fp.fptr # 0
  <2>1. PICK k \in 0 .. Links(fs) - 1 : \E i \in 0 .. Spc(fs) - 1 : Touched(fs, fp, k, i)
    BY <1>1, <1>6 DEF Stands
  <2>2. PICK i \in 0 .. Spc(fs) - 1 : Touched(fs, fp, k, i)
    BY <2>1
  <2>3. /\ fp.curr_clust = Link(fs, k) /\ fp.sect_clust = Spc(fs) - i
        /\ Index(fs, k, i) * SECT < fp.fptr /\ fp.fptr <= (Index(fs, k, i) + 1) * SECT
    BY <2>2 DEF Touched
  <2>4. i = Spc(fs) - 1 /\ k \in Nat /\ i \in Nat
    <3>1. ASSUME NEW x \in 1 .. 255, NEW y \in 0 .. x - 1, x - y = 1
          PROVE  y = x - 1 /\ y \in Nat
      BY <3>1
    <3>2. Spc(fs) \in 1 .. 255 /\ Spc(fs) - i = 1
      BY <1>1, <1>2, <2>3
    <3> QED BY <1>1, <3>1, <3>2
  <2>5. fp.fptr = (k + 1) * ClusterUnits(fs)
    <3>1. Index(fs, k, i) \in Nat
      BY <1>1, <2>4, IndexUnits
    <3>2. fp.fptr = (Index(fs, k, i) + 1) * SECT
      BY <1>1, <2>3, <3>1, Boundary
    <3>3. (Index(fs, k, Spc(fs) - 1) + 1) * SECT = (k + 1) * ClusterUnits(fs)
      <4>1. 0 \in Nat
        OBVIOUS
      <4> QED BY <1>1, <2>4, <4>1, Indices
    <3> QED BY <2>4, <3>2, <3>3
  <2>6. c = get_cluster(Link(fs, k), ok)
    BY <1>6, <2>3 DEF NextCluster
  <2>7. /\ ValidCluster(c) => k + 1 \in 0 .. Links(fs) - 1 /\ c = Link(fs, k + 1)
        /\ ~ValidCluster(c) => k + 1 = Links(fs) \/ ~Reads(winsect, FatSector(Link(fs, k)), ok)
    BY <1>1, <2>6, ChainNext
  <2>8. ValidCluster(fp.curr_clust)
    BY <1>1, <2>3, Follow
  <2>9. CASE ValidCluster(c)
    <3>1. PICK q \in 0 .. Links(fs) - 1 : q = k + 1 /\ c = Link(fs, q)
      BY <2>7, <2>9
    <3>2. ~Short(fs, fp)
      <4>1. PICK n \in Nat : n = Links(fs) /\ q < n
        BY <1>1
      <4>2. q * cu < n * cu
        BY <4>1, Monotone
      <4>3. fp.fptr = q * cu
        BY <1>4, <2>5, <3>1
      <4> QED BY <1>1, <1>4, <4>1, <4>2, <4>3 DEF Short
    <3> QED BY <2>5, <2>8, <2>9, <3>1, <3>2
  <2>10. CASE ~ValidCluster(c)
    BY <1>3, <1>6, <2>3, <2>5, <2>7, <2>8, <2>10
  <2> QED BY <2>9, <2>10
<1> QED BY <1>5, <1>6

LEMMA XferClusterStep ==
  ASSUME FileInv, XferCluster
  PROVE  FileInv'
<1>1. /\ pc = "xfer" /\ btr > 0 /\ fp.fptr % SECT = 0 /\ SectorsLeft = 0
      /\ fs' = fs /\ clust' = clust /\ ofs' = ofs /\ want' = want
  BY DEF XferCluster, OnBoundary
<1>2. PICK ok \in BOOLEAN :
       LET c == NextCluster(ok)
           s == clust2sect(c)
           f == [fp EXCEPT !.curr_clust = c, !.curr_sect = s,
                           !.sect_clust = fs.sects_clust]
           follows == fp.fptr # 0
           w == IF follows THEN FatSector(fp.curr_clust) ELSE winsect IN
       \/ /\ ~ValidCluster(c)
          /\ Return("RW_ERROR")
          /\ fp' = [fp EXCEPT !.err = TRUE, !.sect_clust = 0]
          /\ IF follows THEN fetch_cluster(fp.curr_clust, ok)
             ELSE UNCHANGED <<winsect, fault>>
          /\ UNCHANGED <<moved, btr>>
       \/ /\ ValidCluster(c) /\ btr >= SECT
          /\ Direct(f, fs.sects_clust, s) /\ winsect' = w
       \/ /\ ValidCluster(c) /\ btr < SECT
          /\ Copy(f, s, w)
  BY DEF XferCluster
<1>3. PICK c : c = NextCluster(ok)
  OBVIOUS
<1>4. /\ ValidCluster(c) => \E q \in 0 .. Links(fs) - 1 :
           c = Link(fs, q) /\ fp.fptr = q * ClusterUnits(fs) /\ ~Short(fs, fp)
      /\ ~ValidCluster(c) => \/ Links(fs) * ClusterUnits(fs) < Size(fs)
                             \/ fp.fptr # 0 /\ ~Reads(winsect, FatSector(fp.curr_clust), ok)
      /\ fp.fptr # 0 => ValidCluster(fp.curr_clust)
  BY <1>1, <1>3, AtClusterEnd
<1>5. /\ fs \in Cards /\ fp \in Fil /\ winsect \in Nat /\ fp.fptr \in Nat /\ fp.curr_clust \in Nat
      /\ SECT \in Nat \ {0} /\ Spc(fs) \in 1 .. 255 /\ btr \in Nat /\ fault \in BOOLEAN
      /\ Links(fs) \in Nat
  BY CardFile, Constants DEF FileInv, FileRanges, FilInRange, Fil
<1>6. FatSector(fp.curr_clust) \in Nat
  <2>1. ENTRIES \in Nat \ {0} /\ FATBASE \in Nat
    BY ImageFileAssumption
  <2>2. fp.curr_clust \div ENTRIES \in Nat
    BY <1>5, <2>1, Divided
  <2> QED BY <2>1, <2>2 DEF FatSector
<1>7. CASE ~ValidCluster(c)
  <2>1. /\ Return("RW_ERROR") /\ fp' = FilEnd(fp, 0) /\ moved' = moved /\ btr' = btr
        /\ IF fp.fptr # 0 THEN fetch_cluster(fp.curr_clust, ok)
           ELSE winsect' = winsect /\ fault' = fault
    BY <1>2, <1>3, <1>7 DEF FilEnd
  <2>2. /\ winsect' \in Nat /\ fault' \in BOOLEAN
        /\ fp.fptr # 0 /\ ~Reads(winsect, FatSector(fp.curr_clust), ok) => fault'
    <3>1. CASE fp.fptr = 0
      BY <1>5, <2>1, <3>1
    <3>2. CASE fp.fptr # 0
      <4>1. move_window(winsect, FatSector(fp.curr_clust), ok)
        BY <1>4, <2>1, <3>2 DEF fetch_cluster
      <4> QED BY <1>5, <1>6, <4>1 DEF move_window
    <3> QED BY <3>1, <3>2
  <2>3. fault' \/ Links(fs) * ClusterUnits(fs) < Size(fs)
    BY <1>4, <1>7, <2>2
  <2>4. PICK n \in 0 .. Total(fs, want) : moved = Exact(fs, want, n) /\ Placed(fs, want, n)
    BY <1>1, InTransfer
  <2>5. fp' \in Fil /\ fp'.fptr = fp.fptr
    <3>1. 0 \in 0 .. 255 /\ 0 \in Nat
      OBVIOUS
    <3>2. FilEnd(fp, 0) \in Fil /\ FilEnd(fp, 0).fptr = fp.fptr
      BY <1>5, <3>1, FilFailed
    <3> QED BY <2>1, <3>2
  <2>6. Frame
    BY <1>1, <2>2 DEF Frame
  <2> QED BY <2>1, <2>2, <2>3, <2>4, <2>5, <2>6, TurnedBad
<1>8. CASE ValidCluster(c)
  <2>1. PICK q \in 0 .. Links(fs) - 1 :
          c = Link(fs, q) /\ fp.fptr = q * ClusterUnits(fs) /\ ~Short(fs, fp)
    BY <1>4, <1>8
  <2>2. /\ Pending(fs, want, fp, btr) /\ fp.err = FALSE
        /\ moved = Exact(fs, want, Total(fs, want) - btr)
        /\ Placed(fs, want, Total(fs, want) - btr)
    BY <1>1, <2>1, InTransfer
  <2>3. 0 \in 0 .. Spc(fs) - 1 /\ Spc(fs) = Spc(fs) - 0 /\ q \in Nat /\ 0 \in Nat
    BY <1>5
  <2>4. fp.fptr = Index(fs, q, 0) * SECT
    BY <1>5, <2>1, <2>3, Indices
  <2>5. PICK s \in Nat : s = clust2sect(c) /\ s = CardSector(fs, q, 0)
    BY <1>5, <2>1, Follow
  <2>6. PICK cl \in Nat : cl = c
    BY <1>5, <2>1, ChainValid
  <2>7. PICK n \in 0 .. 255 : n = Spc(fs)
    BY <1>5
  <2>8. PICK f : f = FilNew(fp, cl, s, n)
    OBVIOUS
  <2>9. FilHas(FilNew(fp, cl, s, n), fp, fp.fptr, n, cl, s)
    BY <1>5, FilTurned
  <2>10. /\ f \in Fil /\ f.fptr = fp.fptr /\ f.sect_clust = n /\ f.curr_clust = Link(fs, q)
         /\ f.curr_sect = s /\ f.err = FALSE
    BY <2>1, <2>2, <2>6, <2>8, <2>9 DEF FilHas
  <2>11. Ready(f, q, 0)
    BY <1>1, <2>2, <2>4, <2>10 DEF Ready
  <2>12. PICK w \in Nat : w = IF fp.fptr # 0 THEN FatSector(fp.curr_clust) ELSE winsect
    BY <1>5, <1>6
  <2>13. /\ f = [fp EXCEPT !.curr_clust = c, !.curr_sect = s, !.sect_clust = fs.sects_clust]
         /\ fs.sects_clust = n
    BY <2>6, <2>7, <2>8 DEF FilNew, Spc
  <2>14. \/ btr >= SECT /\ Direct(f, n, s) /\ winsect' = w
         \/ btr < SECT /\ Copy(f, s, w)
    BY <1>2, <1>3, <1>8, <2>5, <2>12, <2>13
  <2>15. CASE btr >= SECT /\ Direct(f, n, s) /\ winsect' = w
    <3>1. Frame
      BY <1>1, <2>15 DEF Frame
    <3> QED BY <2>3, <2>5, <2>7, <2>11, <2>15, <3>1, DirectStep
  <2>16. CASE btr < SECT /\ Copy(f, s, w)
    BY <1>1, <2>3, <2>5, <2>7, <2>10, <2>11, <2>16, CopyStep
  <2> QED BY <2>14, <2>15, <2>16
<1> QED BY <1>7, <1>8

-----------------------------------------------------------------------------
(* FileInv is inductive.                                                   *)
LEMMA FileStep == FileInv /\ [FileNext]_fileVars => FileInv'
<1> SUFFICES ASSUME FileInv, [FileNext]_fileVars PROVE FileInv'
  OBVIOUS
<1>1. CASE Call
  BY <1>1, CallStep
<1>2. CASE SeekDone
  BY <1>2, SeekDoneStep
<1>3. CASE SkipCluster
  BY <1>3, SkipClusterStep
<1>4. CASE Start
  BY <1>4, StartStep
<1>5. CASE Done
  BY <1>5, DoneStep
<1>6. CASE XferSector
  BY <1>6, XferSectorStep
<1>7. CASE XferCluster
  BY <1>7, XferClusterStep
<1>8. CASE Browse
  BY <1>8, BrowseStep
<1>9. CASE Reopen
  BY <1>9, ReopenStep
<1>10. CASE UNCHANGED fileVars
  <2>1. /\ fs' = fs /\ winsect' = winsect /\ fp' = fp /\ pc' = pc /\ clust' = clust /\ ofs' = ofs
        /\ btr' = btr /\ want' = want /\ moved' = moved /\ fault' = fault /\ ret' = ret
    BY <1>10 DEF fileVars
  <2> QED BY <2>1 DEF FileInv, FileRanges, Seeking, Prepared, Transferring, Finished
<1> QED BY <1>1, <1>2, <1>3, <1>4, <1>5, <1>6, <1>7, <1>8, <1>9, <1>10 DEF FileNext

LEMMA FileAlways == FileSpec => []FileInv
BY FileInitial, FileStep, PTL DEF FileSpec

(* At every moment the exchanges of this request are those of its first n  *)
(* units.                                                                  *)
LEMMA MovedInPlace ==
  ASSUME FileInv
  PROVE  \E n \in 0 .. Total(fs, want) : moved = Exact(fs, want, n) /\ Placed(fs, want, n)
<1>1. /\ fs \in Cards /\ want \in Request /\ btr \in Nat
      /\ pc \in {"idle", "skip", "start", "xfer"}
  BY Constants DEF FileInv, FileRanges, Aligned
<1>2. Total(fs, want) \in Nat /\ 0 \in 0 .. Total(fs, want)
  BY <1>1, Bounds
<1>3. CASE moved = {}
  BY <1>2, <1>3, NothingMoved
<1>4. CASE pc = "idle"
  BY <1>4 DEF FileInv, Finished
<1>5. CASE /\ btr <= Total(fs, want)
           /\ moved = Exact(fs, want, Total(fs, want) - btr)
           /\ Placed(fs, want, Total(fs, want) - btr)
  <2>1. Total(fs, want) - btr \in 0 .. Total(fs, want)
    BY <1>1, <1>2, <1>5
  <2> QED BY <1>5, <2>1
<1> QED BY <1>1, <1>3, <1>4, <1>5 DEF FileInv, Prepared, Transferring

(* The model's reference for the place of a unit is the one used here.     *)
LEMMA SamePlace ==
  ASSUME NEW u, NEW i, NEW op
  PROVE  PlaceOf(fs, u, i, op) = Place(u, i, op) /\ (Located(fs, u) <=> HasPlace(u))
<1>1. CSize = ClusterUnits(fs)
  BY ClusterSize
<1>2. Located(fs, u) <=> HasPlace(u)
  BY <1>1 DEF Located, HasPlace, Size, Links
<1>3. CardSector(fs, u \div CSize, (u % CSize) \div SECT)
        = DATABASE + (fs.chain[u \div CSize + 1] - 2) * fs.sects_clust + (u % CSize) \div SECT
  BY DEF CardSector, Link, Spc
<1>4. PlaceOf(fs, u, i, op)
        = [buf |-> i, op |-> op, at |-> u % SECT,
           sect |-> CardSector(fs, u \div CSize, (u % CSize) \div SECT)]
  BY <1>1 DEF PlaceOf
<1> QED BY <1>2, <1>3, <1>4 DEF Place

(* One exchange of the request, and where it is.                           *)
LEMMA OneMoved ==
  ASSUME FileInv, NEW m \in moved
  PROVE  /\ m.buf \in 0 .. FDD_SECTOR - 1 /\ m.at \in 0 .. SECT - 1
         /\ m.op = "wr" => /\ HasPlace(want.at + m.buf)
                           /\ m = Place(want.at + m.buf, m.buf, "wr")
<1>1. PICK n \in 0 .. Total(fs, want) : moved = Exact(fs, want, n) /\ Placed(fs, want, n)
  BY MovedInPlace
<1>2. PICK i \in 0 .. n - 1 : m = PlaceOf(fs, want.at + i, i, OpOf(fs, want, want.at + i))
  BY <1>1 DEF Exact
<1>3. fs \in Cards /\ want \in Request /\ want.at \in Nat /\ SECT \in Nat \ {0} /\ FDD_SECTOR \in Nat
  BY Constants DEF FileInv, FileRanges, Aligned, Request
<1>4. i \in 0 .. FDD_SECTOR - 1 /\ want.at + i \in Nat
  <2>1. Total(fs, want) \in 0 .. FDD_SECTOR
    BY <1>3, Bounds
  <2> QED BY <1>3, <2>1
<1>5. /\ m.buf = i /\ m.at = (want.at + i) % SECT /\ m.op = OpOf(fs, want, want.at + i)
  BY <1>2 DEF PlaceOf
<1>6. (want.at + i) % SECT \in 0 .. SECT - 1
  BY <1>3, <1>4, Divided
<1>7. HasPlace(want.at + i)
  BY <1>1, SamePlace DEF Placed
<1>8. m = Place(want.at + i, i, m.op)
  BY <1>2, <1>5, SamePlace
<1> QED BY <1>4, <1>5, <1>6, <1>7, <1>8

(* The file object of f_lseek and f_read_or_wr keeps its ranges, the       *)
(* buffer of the floppy sector is not overrun, and f_write_inplace writes  *)
(* the card only where the image file has the unit that the buffer holds:  *)
(* for every card, chain, cluster size and file length, and after any      *)
(* history of failures and reopenings (tff.c:904-986,1154-1224).           *)
THEOREM WritesKeepToFile == FileSpec => []StaysInFile
<1>1. FileInv => StaysInFile
  <2> SUFFICES ASSUME FileInv PROVE StaysInFile
    OBVIOUS
  <2>1. /\ fs \in Cards /\ winsect \in Nat /\ fp \in Fil /\ fp.fptr <= Size(fs)
        /\ pc \in {"idle", "skip", "start", "xfer"}
        /\ clust \in Nat /\ ofs \in Nat /\ btr \in 0 .. FDD_SECTOR
        /\ want \in Request
        /\ fault \in BOOLEAN /\ ret \in {"NONE", "OK", "RW_ERROR"}
    BY DEF FileInv, FileRanges, FilInRange, Aligned
  <2>2. /\ fp.err \in BOOLEAN /\ fp.fptr \in Nat
        /\ fp.sect_clust \in 0 .. 255 /\ fp.curr_clust \in Nat /\ fp.curr_sect \in Nat
    BY <2>1 DEF Fil
  <2>3. fp.fptr \in 0 .. fs.fsize
    BY <2>1, <2>2, CardFile DEF Size
  <2>4. want.op \in {"rd", "wr"} /\ want.at \in 0 .. ADDRESSES - 1
    BY <2>1 DEF Request
  <2>5. \A m \in moved : m.buf \in 0 .. FDD_SECTOR - 1 /\ m.at \in 0 .. SECT - 1
    BY OneMoved
  <2>6. FileTypeOK
    BY <2>1, <2>2, <2>3, <2>4, <2>5 DEF FileTypeOK
  <2>7. WritesStayInFile
    BY OneMoved DEF WritesStayInFile
  <2> QED BY <2>6, <2>7 DEF StaysInFile
<1> QED BY <1>1, FileAlways, PTL

(* A request that returns FR_OK has exchanged every unit of the floppy     *)
(* sector that lies in the file with its own place on the card, and        *)
(* nothing else, however the file is fragmented and wherever cluster and   *)
(* sector borders fall (tff.c:904-970,1154-1224).                          *)
THEOREM TransferAlwaysExact == FileSpec => []TransferIsExact
<1>1. FileInv => TransferIsExact
  <2> SUFFICES ASSUME FileInv, pc = "idle", ret = "OK"
               PROVE  /\ \A i \in Wanted : HasPlace(want.at + i)
                      /\ moved = {Place(want.at + i, i,
                                        IF (want.at + i) \div SECT < fs.fsize \div SECT
                                        THEN want.op ELSE "rd") : i \in Wanted}
    BY DEF TransferIsExact
  <2>1. PICK T : T = Total(fs, want)
    OBVIOUS
  <2>2. moved = Exact(fs, want, T) /\ Placed(fs, want, T)
    BY <2>1 DEF FileInv, Finished
  <2>3. /\ fs \in Cards /\ want \in Request /\ want.at \in Nat /\ FDD_SECTOR \in Nat
        /\ Size(fs) \in Nat
    BY Constants, CardFile DEF FileInv, FileRanges, Aligned, Request
  <2>4. Wanted = 0 .. T - 1
    <3>1. ASSUME NEW d \in Nat, NEW a \in Nat, NEW z \in Nat
          PROVE  {i \in 0 .. d - 1 : a + i < z} = 0 .. Least(d, z - Least(a, z)) - 1
      BY <3>1 DEF Least
    <3> QED BY <2>1, <2>3, <3>1 DEF Wanted, Total, From, Size
  <2>5. ASSUME NEW i \in Wanted
        PROVE  HasPlace(want.at + i)
    BY <2>2, <2>4, SamePlace DEF Placed
  <2>6. ASSUME NEW i
        PROVE  PlaceOf(fs, want.at + i, i, OpOf(fs, want, want.at + i))
                 = Place(want.at + i, i, IF (want.at + i) \div SECT < fs.fsize \div SECT
                                         THEN want.op ELSE "rd")
    BY SamePlace DEF OpOf, Size
  <2> HIDE DEF Place
  <2>7. moved = {Place(want.at + i, i, IF (want.at + i) \div SECT < fs.fsize \div SECT
                                       THEN want.op ELSE "rd") : i \in Wanted}
    BY <2>2, <2>4, <2>6 DEF Exact
  <2> QED BY <2>5, <2>7
<1> QED BY <1>1, FileAlways, PTL

(* FR_RW_ERROR, which makes slave() drop the drive, is returned only when  *)
(* the card failed in this request or the file's chain is shorter than its *)
(* size (tff.c:904-970,1154-1224).                                         *)
THEOREM ErrorHasReason == FileSpec => []NoSpuriousError
<1>1. FileInv => NoSpuriousError
  <2> SUFFICES ASSUME FileInv, pc = "idle", ret = "RW_ERROR" PROVE fault \/ ~WholeChain
    BY DEF NoSpuriousError
  <2>1. fault \/ Links(fs) * ClusterUnits(fs) < Size(fs)
    BY DEF FileInv, Finished
  <2>2. fs \in Cards /\ Links(fs) \in Nat /\ ClusterUnits(fs) \in Nat /\ Size(fs) \in Nat
    BY CardFile DEF FileInv, FileRanges
  <2>3. PICK x \in Int : x = Links(fs) * ClusterUnits(fs)
    BY <2>2, Product
  <2>4. WholeChain <=> x >= Size(fs)
    BY <2>3, ClusterSize DEF WholeChain, Links, Size
  <2> QED BY <2>1, <2>2, <2>3, <2>4
<1> QED BY <1>1, FileAlways, PTL
=============================================================================
