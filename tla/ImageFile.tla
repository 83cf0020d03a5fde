------------------------------ MODULE ImageFile ------------------------------
(***************************************************************************)
(* Access to a sector of the disk image on the FAT card: fdd_readsector    *)
(* and fdd_writesector of fddimage.c over f_lseek and f_read_or_wr of      *)
(* tff.c, the firmware's patched Tiny-FatFs (read only, FAT12/16).         *)
(*                                                                         *)
(* Data is abstracted to places: what is recorded is which place of the    *)
(* card each unit of the sector buffer was exchanged with.  Lengths are in *)
(* units of which a card sector has SECT; one step is one turn of a loop   *)
(* of f_lseek or f_read_or_wr, and every access to the card may fail.      *)
(***************************************************************************)
EXTENDS Integers, Sequences

CONSTANTS
  SECT,        \* units of a card sector (512 bytes)
  FDD_SECTOR,  \* units of a floppy sector (1024 bytes)
  NSECTORS,    \* FDD_NSECTORS, sectors of a track
  ADDRESSES,   \* units addressed by a DWORD of bytes; offsets wrap there
  DATABASE,    \* first data sector of the card
  FATBASE,     \* first sector of the FAT
  DIRBASE,     \* first sector of the directory, which ends at DATABASE
  ENTRIES,     \* FAT entries of a card sector
  Cards,       \* file systems considered: [chain, tail, fsize, sects_clust, max_clust]
  Tracks, Sectors  \* positions the host asks for

ASSUME ImageFileAssumption ==
  /\ SECT \in Nat \ {0} /\ FDD_SECTOR \in Nat \ {0} /\ NSECTORS \in Nat \ {0}
  /\ ADDRESSES \in Nat \ {0} /\ ENTRIES \in Nat \ {0}
  /\ FDD_SECTOR % SECT = 0 /\ ADDRESSES % SECT = 0
  /\ FATBASE \in Nat \ {0} /\ DIRBASE \in Nat /\ DATABASE \in Nat
  /\ FATBASE < DIRBASE /\ DIRBASE < DATABASE
  /\ Tracks \subseteq 0 .. 255 /\ Sectors \subseteq 0 .. 255
  /\ \A c \in Cards :
       /\ c.sects_clust \in 1 .. 255 /\ c.max_clust \in Nat /\ c.fsize \in Nat
       /\ c.chain \in Seq(2 .. c.max_clust - 1)
       /\ \A i, j \in 1 .. Len(c.chain) : c.chain[i] = c.chain[j] => i = j
       /\ c.tail \in {0, c.max_clust}
       /\ FATBASE + c.max_clust \div ENTRIES < DIRBASE

VARIABLES
  fs,      \* the mounted card with its image file: a member of Cards
  winsect, \* fs->winsect: card sector in fs__win, 0: none
  fp,      \* the FIL: [err, fptr, sect_clust, curr_clust, curr_sect]
  pc, clust, ofs, btr, \* where f_lseek or f_read_or_wr is, and its locals
  want,    \* the request: operation and offset in the image
  moved,   \* history: exchanges of this request, [buf, sect, at, op]
  fault,   \* history: the card failed during this request
  ret      \* result of the last request

fileVars == <<fs, winsect, fp, pc, clust, ofs, btr, want, moved, fault, ret>>

Least(a, b) == IF a < b THEN a ELSE b
CSize == fs.sects_clust * SECT
OrgClust == IF fs.chain = <<>> THEN 0 ELSE fs.chain[1]

(* The card's FAT: entry 0 is free, max_clust stands for every end mark.   *)
FatEntry(c) ==
  IF \E i \in 1 .. Len(fs.chain) : fs.chain[i] = c
  THEN LET i == CHOOSE i \in 1 .. Len(fs.chain) : fs.chain[i] = c
       IN IF i = Len(fs.chain) THEN fs.tail ELSE fs.chain[i + 1]
  ELSE 0

FileInit ==
  /\ fs \in Cards /\ winsect = 0
  /\ fp = [err |-> FALSE, fptr |-> 0, sect_clust |-> 1, curr_clust |-> 0,
           curr_sect |-> 0]
  /\ pc = "idle" /\ clust = 0 /\ ofs = 0 /\ btr = 0
  /\ want = [op |-> "rd", at |-> 0] /\ moved = {} /\ fault = FALSE
  /\ ret = "NONE"

-----------------------------------------------------------------------------
(* Helpers of tff.c.                                                       *)
clust2sect(c) == IF c - 2 \in 0 .. fs.max_clust - 3
                 THEN (c - 2) * fs.sects_clust + DATABASE ELSE 0

(* move_window(s) with sector w in the window: it succeeds without the     *)
(* card if that is s already, and keeps w if the card fails.               *)
Reads(w, s, ok) == ok \/ w = s
move_window(w, s, ok) ==
  /\ winsect' = IF Reads(w, s, ok) THEN s ELSE w
  /\ fault' = (fault \/ ~Reads(w, s, ok))

FatSector(c) == FATBASE + c \div ENTRIES
ValidCluster(c) == c >= 2 /\ c < fs.max_clust

(* get_cluster: 1 stands for "no such cluster, or a disk error".           *)
get_cluster(c, ok) == IF ValidCluster(c) /\ Reads(winsect, FatSector(c), ok)
                      THEN FatEntry(c) ELSE 1
fetch_cluster(c, ok) == IF ValidCluster(c)
                        THEN move_window(winsect, FatSector(c), ok)
                        ELSE UNCHANGED <<winsect, fault>>

Return(r) == pc' = "idle" /\ ret' = r

-----------------------------------------------------------------------------
(* fddimage.c: 32-bit arithmetic, no check of the position.                *)
calc_offset(side, track, sector) ==
  (((2 * track + (1 - side)) * NSECTORS + sector - 1) * FDD_SECTOR) % ADDRESSES

(* fdd_readsector or fdd_writesector is called, and f_lseek begins.        *)
Call ==
  \E op \in {"rd", "wr"}, side \in {0, 1}, track \in Tracks, sector \in Sectors :
    LET at == calc_offset(side, track, sector) IN
    /\ pc = "idle" /\ ~fp.err
    /\ want' = [op |-> op, at |-> at] /\ moved' = {} /\ fault' = FALSE
    /\ ofs' = Least(at, fs.fsize)
    /\ fp' = [fp EXCEPT !.fptr = 0, !.sect_clust = 1]
    /\ clust' = OrgClust
    /\ pc' = IF ofs' # 0 /\ OrgClust # 0 THEN "skip" ELSE "start"
    /\ UNCHANGED <<fs, winsect, btr, ret>>

PositionNext(c, o) ==  \* mutant: counts the sector after the position
  LET csect == (o \div SECT) % 256 IN
  /\ fp' = [fp EXCEPT !.curr_clust = clust,
                      !.curr_sect = clust2sect(c) + csect,
                      !.sect_clust = (fs.sects_clust - csect) % 256,
                      !.fptr = fp.fptr + o]
  /\ pc' = "start"

(* End of f_lseek: o units into cluster c.                                 *)
Position(c, o) ==
  LET csect == ((o - 1) \div SECT) % 256 IN
  /\ fp' = [fp EXCEPT !.curr_clust = clust,
                      !.curr_sect = clust2sect(c) + csect,
                      !.sect_clust = (fs.sects_clust - csect) % 256,
                      !.fptr = fp.fptr + o]
  /\ pc' = "start"

SeekDone ==
  /\ pc = "skip" /\ ofs <= CSize
  /\ Position(clust, ofs)
  /\ UNCHANGED <<fs, winsect, clust, ofs, btr, want, moved, fault, ret>>

SkipClusterEager ==  \* mutant: also skips a cluster that ends at the position
  LET c == get_cluster(clust, TRUE) IN
  /\ pc = "skip" /\ ofs >= CSize
  /\ IF ValidCluster(c)
     THEN /\ clust' = c /\ ofs' = ofs - CSize
          /\ fp' = [fp EXCEPT !.fptr = fp.fptr + CSize] /\ UNCHANGED <<pc, ret>>
     ELSE Return("RW_ERROR") /\ fp' = [fp EXCEPT !.err = TRUE] /\ UNCHANGED <<clust, ofs>>
  /\ UNCHANGED <<fs, winsect, btr, want, moved, fault>>

(* The loop that skips a leading cluster.                                  *)
SkipCluster ==
  \E ok \in BOOLEAN :
    LET c == get_cluster(clust, ok) IN
    /\ pc = "skip" /\ ofs > CSize
    /\ fetch_cluster(clust, ok)
    /\ \/ /\ c = 0
          /\ Position(0, CSize)
          /\ UNCHANGED <<clust, ofs, ret>>
       \/ /\ c = 1 \/ c >= fs.max_clust
          /\ Return("RW_ERROR")
          /\ fp' = [fp EXCEPT !.err = TRUE, !.curr_clust = clust]
          /\ UNCHANGED <<clust, ofs>>
       \/ /\ ValidCluster(c)
          /\ fp' = [fp EXCEPT !.curr_clust = clust, !.fptr = fp.fptr + CSize]
          /\ clust' = c /\ ofs' = ofs - CSize
          /\ UNCHANGED <<pc, ret>>
    /\ UNCHANGED <<fs, btr, want, moved>>

(* f_read_or_wr begins; the count is cut at the end of the file.           *)
Start ==
  /\ pc = "start"
  /\ btr' = Least(FDD_SECTOR, fs.fsize - fp.fptr)
  /\ pc' = "xfer"
  /\ UNCHANGED <<fs, winsect, fp, clust, ofs, want, moved, fault, ret>>

Done ==
  /\ pc = "xfer" /\ btr = 0
  /\ Return("OK")
  /\ UNCHANGED <<fs, winsect, fp, clust, ofs, btr, want, moved, fault>>

(* Exchange n units, starting at card sector s.                            *)
BufferPos == Least(FDD_SECTOR, fs.fsize - Least(want.at, fs.fsize)) - btr
Exchange(n, s, op) ==
  moved \cup {[buf |-> BufferPos + i, sect |-> s + i \div SECT,
               at |-> i % SECT, op |-> op] : i \in 0 .. n - 1}

OnBoundary == fp.fptr % SECT = 0
SectorsLeft == (fp.sect_clust + 255) % 256   \* --fp->sect_clust
NextCluster(ok) == IF fp.fptr = 0 THEN OrgClust ELSE get_cluster(fp.curr_clust, ok)

DirectAcross(f, left, s) ==  \* mutant: a run does not stop at the cluster's end
  LET cc == btr \div SECT IN
  /\ fp' = [f EXCEPT !.fptr = fp.fptr + cc * SECT, !.sect_clust = 1,
                     !.curr_sect = s + cc - 1]
  /\ moved' = Exchange(cc * SECT, s, want.op)
  /\ btr' = btr - cc * SECT
  /\ UNCHANGED <<pc, ret, fault>>

(* Whole card sectors go directly between the card and the buffer.  A      *)
(* failing multiple block transfer may have moved the first n of them.     *)
Direct(f, left, s) ==
  LET cc == Least(btr \div SECT, left) IN
  \/ /\ fp' = [f EXCEPT !.fptr = fp.fptr + cc * SECT,
                        !.sect_clust = (left - (cc - 1)) % 256,
                        !.curr_sect = s + cc - 1]
     /\ moved' = Exchange(cc * SECT, s, want.op)
     /\ btr' = btr - cc * SECT
     /\ UNCHANGED <<pc, ret, fault>>
  \/ /\ fp' = [f EXCEPT !.err = TRUE, !.sect_clust = left, !.curr_sect = s]
     /\ \E n \in 0 .. cc - 1 : moved' = Exchange(n * SECT, s, want.op)
     /\ fault' = TRUE
     /\ Return("RW_ERROR") /\ UNCHANGED btr

(* A part of a card sector is copied out of the window, even by a write.   *)
(* Requests start on a sector boundary, so only the end of an odd-sized    *)
(* file is copied, and nothing of that sector is left for a later turn.    *)
Copy(f, s, w) ==
  \E ok \in BOOLEAN :
    LET rcnt == Least(SECT, btr) IN
    /\ move_window(w, s, ok)
    /\ IF Reads(w, s, ok)
       THEN /\ fp' = [f EXCEPT !.fptr = fp.fptr + rcnt]
            /\ moved' = Exchange(rcnt, s, "rd")
            /\ btr' = btr - rcnt
            /\ UNCHANGED <<pc, ret>>
       ELSE /\ Return("RW_ERROR") /\ fp' = [f EXCEPT !.err = TRUE]
            /\ UNCHANGED <<moved, btr>>

(* The next sector of the same cluster.                                    *)
XferSector ==
  LET s == fp.curr_sect + 1
      f == [fp EXCEPT !.curr_sect = s, !.sect_clust = SectorsLeft] IN
  /\ pc = "xfer" /\ btr > 0 /\ OnBoundary /\ SectorsLeft # 0
  /\ IF btr >= SECT THEN Direct(fp, SectorsLeft, s) /\ UNCHANGED winsect
     ELSE Copy(f, s, winsect)
  /\ UNCHANGED <<fs, clust, ofs, want>>

(* The first sector of the next cluster.  Following the chain moves the    *)
(* window to the FAT.                                                      *)
XferCluster ==
  /\ pc = "xfer" /\ btr > 0 /\ OnBoundary /\ SectorsLeft = 0
  /\ \E ok \in BOOLEAN :
       LET c == NextCluster(ok)
           s == clust2sect(c)
           f == [fp EXCEPT !.curr_clust = c, !.curr_sect = s,
                           !.sect_clust = fs.sects_clust]
           follows == fp.fptr # 0
           w == IF follows THEN FatSector(fp.curr_clust) ELSE winsect IN
       \/ /\ ~ValidCluster(c)
          /\ Return("RW_ERROR")
          /\ fp' = [fp EXCEPT !.err = TRUE, !.sect_clust = 0]
          /\ IF follows THEN fetch_cluster(fp.curr_clust, ok)
             ELSE UNCHANGED <<winsect, fault>>
          /\ UNCHANGED <<moved, btr>>
       \/ /\ ValidCluster(c) /\ btr >= SECT
          /\ Direct(f, fs.sects_clust, s) /\ winsect' = w
       \/ /\ ValidCluster(c) /\ btr < SECT
          /\ Copy(f, s, w)
  /\ UNCHANGED <<fs, clust, ofs, want>>

-----------------------------------------------------------------------------
(* The file selector reads the directory through the same window.          *)
Browse ==
  /\ pc = "idle" /\ ~fp.err
  /\ \E s \in DIRBASE .. DATABASE - 1, ok \in BOOLEAN : move_window(winsect, s, ok)
  /\ UNCHANGED <<fs, fp, pc, clust, ofs, btr, want, moved, ret>>

(* slave() has returned: after FR_RW_ERROR, a vanished card or a selection *)
(* in the menu thrall() mounts the card, possibly another one, and opens   *)
(* an image.  f_open leaves curr_clust and curr_sect as they were and the  *)
(* window on the directory.                                                *)
Reopen ==
  /\ pc = "idle"
  /\ fs' \in Cards
  /\ winsect' \in DIRBASE .. DATABASE - 1
  /\ fp' = [fp EXCEPT !.err = FALSE, !.fptr = 0, !.sect_clust = 1]
  /\ moved' = {} /\ fault' = FALSE /\ ret' = "NONE"
  /\ UNCHANGED <<pc, clust, ofs, btr, want>>

FileNext == Call \/ SeekDone \/ SkipCluster \/ Start \/ Done
            \/ XferSector \/ XferCluster \/ Browse \/ Reopen

FileSpec == FileInit /\ [][FileNext]_fileVars

-----------------------------------------------------------------------------
(* The file object and the locals keep their ranges: the pointer stays in the *)
(* file and the buffer is never overrun (tff.c:904-970,1154-1224).         *)
FileTypeOK ==
  /\ fs \in Cards /\ winsect \in Nat
  /\ fp.err \in BOOLEAN /\ fp.fptr \in 0 .. fs.fsize
  /\ fp.sect_clust \in 0 .. 255 /\ fp.curr_clust \in Nat /\ fp.curr_sect \in Nat
  /\ pc \in {"idle", "skip", "start", "xfer"}
  /\ clust \in Nat /\ ofs \in Nat /\ btr \in 0 .. FDD_SECTOR
  /\ want.op \in {"rd", "wr"} /\ want.at \in 0 .. ADDRESSES - 1
  /\ \A m \in moved : m.buf \in 0 .. FDD_SECTOR - 1 /\ m.at \in 0 .. SECT - 1
  /\ fault \in BOOLEAN /\ ret \in {"NONE", "OK", "RW_ERROR"}

(* Reference: the place of unit u of the file, straight from its chain.    *)
HasPlace(u) == u < fs.fsize /\ u \div CSize < Len(fs.chain)
Place(u, i, op) ==
  [buf |-> i, op |-> op, at |-> u % SECT,
   sect |-> DATABASE + (fs.chain[u \div CSize + 1] - 2) * fs.sects_clust
            + (u % CSize) \div SECT]
Wanted == {i \in 0 .. FDD_SECTOR - 1 : want.at + i < fs.fsize}
WholeChain == Len(fs.chain) * CSize >= fs.fsize

(* A request that returns FR_OK has exchanged every unit of the floppy     *)
(* sector that lies in the file with its own place on the card, once and   *)
(* with no other, across cluster borders and in fragmented files           *)
(* (tff.c:904-970,1154-1224).  Only the part of a card sector at the end   *)
(* of an odd-sized file is read even by a write.                           *)
TransferIsExact ==
  pc = "idle" /\ ret = "OK" =>
    /\ \A i \in Wanted : HasPlace(want.at + i)
    /\ moved = {Place(want.at + i, i,
                      IF (want.at + i) \div SECT < fs.fsize \div SECT
                      THEN want.op ELSE "rd") : i \in Wanted}

(* f_write_inplace writes the card only where the image file has the unit  *)
(* that the buffer holds: not another file, the FAT or the directory, also *)
(* when it fails half way or follows an earlier failure (tff.c:904-986).   *)
WritesStayInFile ==
  \A m \in moved : m.op = "wr" =>
    /\ HasPlace(want.at + m.buf)
    /\ m = Place(want.at + m.buf, m.buf, "wr")

(* FR_RW_ERROR, which makes slave() drop the drive, has a reason: the card *)
(* failed in this request, or the file's chain is shorter than its size.   *)
NoSpuriousError == pc = "idle" /\ ret = "RW_ERROR" => fault \/ ~WholeChain

(* The file object keeps its ranges and a write keeps to the file, after any *)
(* history of failures (tff.c:904-986,1154-1224).                          *)
StaysInFile == FileTypeOK /\ WritesStayInFile
=============================================================================
