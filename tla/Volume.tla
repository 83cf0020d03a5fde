------------------------------- MODULE Volume -------------------------------
(***************************************************************************)
(* The directory half of the firmware's Tiny-FatFs (tff.c, read only,      *)
(* FAT12 and FAT16) as philes.c calls it: mounting, the one sector window, *)
(* the walk along the directory /VECTOR06, and names.  One step is one     *)
(* turn of a loop, which reads at most one directory entry; every access   *)
(* to the card may fail, and the card may be swapped between any two.      *)
(*                                                                         *)
(* A card is given by its boot record and by what its directories hold;    *)
(* a window holds a sector of a card.  Characters are US-ASCII, all that   *)
(* the configuration accepts (tff.h:45-47).                                *)
(***************************************************************************)
EXTENDS Integers, Sequences, FiniteSets, SequencesExt

CONSTANTS
  BODY, EXT,   \* characters of a name and of its extension (8, 3)
  ENT,         \* directory entries of a sector (16)
  FATBYTES,    \* bytes of a FAT sector (512)
  FAT12MAX,    \* largest max_clust of a FAT12 volume (0xFF7)
  FAT16MAX,    \* largest max_clust of a FAT16 volume (0xFFF7)
  IDS,         \* mount ids, a WORD (65536)
  Cards,       \* the cards considered
  DIRNAME,     \* the directory of the images ("VECTOR06")
  IMGEXT,      \* the suffix of an image (".FDD")
  Absent       \* names asked for besides the listed ones

ASSUME VolumeAssumption ==
  /\ {BODY, EXT, FATBYTES, FAT12MAX, FAT16MAX} \subseteq Nat \ {0} /\ IDS \in Nat /\ IDS > 1
  /\ ENT \in Nat /\ ENT > 2 /\ FAT12MAX < FAT16MAX /\ FAT16MAX <= 65535

VARIABLES
  slot,    \* the card in the slot, None: empty
  up,      \* it is initialised and answers
  stat,    \* ~STA_NOINIT: the driver takes the card for initialised
  fs,      \* the FATFS object
  fsid,    \* last mount id
  win,     \* sector in fs__win: [of, sect]
  dir,     \* the DIR object of philes.c
  dob,     \* the DIR object trace_path works on
  pc, call, \* where the library is and which call it serves
  fp,      \* directory entry this call made a FIL from, or EndEntry
  res,     \* result of the last call
  listed,  \* history: names returned since opendir
  fault    \* history: an access failed since opendir, or in this call

volVars == <<slot, up, stat, fs, fsid, win, dir, dob, pc, call, fp, res, listed, fault>>

None == [boot |-> "none", part |-> 0]
Zero == [type |-> 0, id |-> 0, winsect |-> 0, fatbase |-> 0, dirbase |-> 0,
         database |-> 0, max_clust |-> 0, sects_clust |-> 0, n_rootdir |-> 0, of |-> None]
EndEntry == [kind |-> "end", name |-> <<>>, clust |-> 0]
NoDir == [id |-> 0, index |-> 0, clust |-> 0, sect |-> 0, open |-> FALSE]
Idle == [op |-> "none", path |-> <<>>]

-----------------------------------------------------------------------------
(* Names.  make_dirfile: blanks are filled in, a dot starts the extension. *)
Upper(c) == IF c = "a" THEN "A" ELSE c
Rejects(c) == c \in {" ", "*", "/"}

DirfileChar(s, c) ==
  IF s.bad \/ Rejects(c) THEN [s EXCEPT !.bad = TRUE]
  ELSE IF c = "."
       THEN IF s.n \in 1 .. BODY THEN [s EXCEPT !.n = BODY, !.t = BODY + EXT]
            ELSE [s EXCEPT !.bad = TRUE]
  ELSE IF s.n >= s.t THEN [s EXCEPT !.bad = TRUE]
  ELSE [s EXCEPT !.name[s.n + 1] = Upper(c), !.n = @ + 1]

make_dirfile(str) ==
  LET s == FoldLeft(DirfileChar,
                    [n |-> 0, t |-> BODY, bad |-> FALSE,
                     name |-> [i \in 1 .. BODY + EXT |-> " "]], str)
  IN [bad |-> s.bad \/ s.n = 0, name |-> s.name]

(* get_fileinfo: the body up to its first blank, a dot, the extension.     *)
UptoBlank(s) == LET blanks == {i \in 1 .. Len(s) : s[i] = " "}
                IN IF blanks = {} THEN s
                   ELSE SubSeq(s, 1, (CHOOSE i \in blanks : \A j \in blanks : i <= j) - 1)
get_fileinfo(name) ==
  LET ext == UptoBlank(SubSeq(name, BODY + 1, BODY + EXT))
  IN UptoBlank(SubSeq(name, 1, BODY)) \o (IF ext = <<>> THEN <<>> ELSE <<".">> \o ext)

endsWith(s, suffix) ==
  Len(suffix) <= Len(s) /\ SubSeq(s, Len(s) - Len(suffix) + 1, Len(s)) = suffix

-----------------------------------------------------------------------------
(* What is on the card: entry k of a sector, and the FAT.                  *)
BootSector(c) == IF c.boot = "mbr" THEN c.part ELSE 0
FatStart(c) == BootSector(c) + c.rsvd
RootStart(c) == FatStart(c) + c.n_fats * c.sects_fat
DataStart(c) == RootStart(c) + c.n_rootdir \div ENT
At(s, i) == IF i <= Len(s) THEN s[i] ELSE EndEntry
Entry(w, k) ==
  LET c == w.of
      cl == (w.sect - DataStart(c)) \div c.sects_clust + 2
      p == CHOOSE p \in DOMAIN c.chain : c.chain[p] = cl
  IN IF w.sect \in RootStart(c) .. DataStart(c) - 1
     THEN At(c.root, (w.sect - RootStart(c)) * ENT + k + 1)
     ELSE IF \E i \in DOMAIN c.chain : c.chain[i] = cl
     THEN At(c.dir, ((p - 1) * c.sects_clust
                     + ((w.sect - DataStart(c)) % c.sects_clust)) * ENT + k + 1)
     ELSE EndEntry
Clusters(c) ==
  (c.totsec - c.rsvd - c.sects_fat * c.n_fats - c.n_rootdir \div ENT) \div c.sects_clust + 2
EndMark == 65535
FatLink(c, cl) ==
  IF \E i \in DOMAIN c.chain : c.chain[i] = cl
  THEN LET p == CHOOSE p \in DOMAIN c.chain : c.chain[p] = cl
       IN IF p = Len(c.chain) THEN EndMark ELSE c.chain[p + 1]
  ELSE 0


(* What a card can be.  The boot record names areas that lie one behind    *)
(* the other; the names of a directory differ, but for the deleted ones    *)
(* and the label; the directory of the images has a chain of clusters of   *)
(* the volume; and the names in it are names as make_dirfile writes them.  *)
Kinds == {"file", "dir", "vol", "del"}
Entries == [kind : Kinds, name : Seq(STRING), clust : Nat]
Visible(e) == e.kind \notin {"del", "vol"}
NamesDiffer(s) ==
  \A i, j \in DOMAIN s : Visible(s[i]) /\ Visible(s[j]) /\ s[i].name = s[j].name => i = j
IsDirectory(e) == e.kind = "dir" /\ e.name = make_dirfile(DIRNAME).name
ASSUME CardAssumption ==
  \A c \in Cards :
    /\ c.boot \in {"sfd", "mbr", "foreign"}
    /\ c.boot # "foreign" =>
         /\ {c.part, c.n_fats, c.sects_fat, c.totsec} \subseteq Nat
         /\ {c.rsvd, c.sects_clust, c.n_rootdir} \subseteq Nat \ {0} /\ c.n_rootdir % ENT = 0
         /\ DataStart(c) <= BootSector(c) + c.totsec
         /\ c.root \in Seq(Entries) /\ Len(c.root) <= c.n_rootdir /\ NamesDiffer(c.root)
         /\ c.chain \in Seq(2 .. Clusters(c) - 1) /\ IsInjective(c.chain)
         /\ c.dir \in Seq(Entries) /\ Len(c.dir) <= Len(c.chain) * c.sects_clust * ENT
         /\ NamesDiffer(c.dir)
         /\ \A i \in DOMAIN c.root :
              IsDirectory(c.root[i]) => c.chain # <<>> /\ c.root[i].clust = c.chain[1]
         /\ \A i \in 3 .. Len(c.dir) :
              Visible(c.dir[i]) =>
                make_dirfile(get_fileinfo(c.dir[i].name)) = [bad |-> FALSE, name |-> c.dir[i].name]

-----------------------------------------------------------------------------
(* The window.  m is the window with the outcome of what was done to it.   *)
Window == [ok |-> TRUE, win |-> win, winsect |-> fs.winsect]
Answers == IF up THEN BOOLEAN ELSE {FALSE}
move_window_early(m, s, ok) ==  \* mutant: winsect is set before the read succeeds
  IF s \in {m.winsect, 0} \/ ~m.ok THEN m
  ELSE [ok |-> ok, win |-> IF ok THEN [of |-> slot, sect |-> s] ELSE m.win, winsect |-> s]

move_window(m, s, ok) ==
  IF s \in {m.winsect, 0} \/ ~m.ok THEN m
  ELSE IF ok THEN [ok |-> TRUE, win |-> [of |-> slot, sect |-> s], winsect |-> s]
  ELSE [m EXCEPT !.ok = FALSE]

(* An entry of a FAT12 may lie across two sectors of the FAT.  1 stands    *)
(* for "no such cluster, or a disk error".                                 *)
get_cluster(m, cl, ok) ==
  LET bc == (cl * 3) \div 2
      Sector(b) == fs.fatbase + b \div FATBYTES
      n == IF fs.type = 12
           THEN move_window(move_window(m, Sector(bc), ok[2]), Sector(bc + 1), ok[3])
           ELSE move_window(m, Sector(2 * cl), ok[2])
  IN IF cl \notin 2 .. fs.max_clust - 1 THEN [m |-> m, next |-> 1]
     ELSE [m |-> n, next |-> IF n.ok THEN FatLink(n.win.of, cl) ELSE 1]

clust2sect(cl) == IF cl - 2 \in 0 .. fs.max_clust - 3
                  THEN (cl - 2) * fs.sects_clust + fs.database ELSE 0

next_dir_entry_flat(d, m, ok) ==  \* mutant: clusters are taken for contiguous
  LET idx == d.index + 1
  IN [ok |-> idx % ENT # 0 \/ d.clust # 0 \/ idx < fs.n_rootdir, m |-> m,
      d |-> [d EXCEPT !.index = idx, !.sect = IF idx % ENT = 0 THEN @ + 1 ELSE @]]

next_dir_entry_stay(d, m, ok) ==  \* mutant: the cluster's last sector is read for ever
  LET idx == d.index + 1
  IN [ok |-> TRUE, m |-> m, d |-> [d EXCEPT !.index = IF idx % ENT = 0 THEN @ - ENT + 1 ELSE idx]]

next_dir_entry(d, m, ok) ==
  LET idx == d.index + 1
      step == [d EXCEPT !.index = idx]
      g == get_cluster(m, d.clust, ok)
      valid == g.next \in 2 .. fs.max_clust - 1
  IN IF idx % ENT # 0 THEN [ok |-> TRUE, d |-> step, m |-> m]
     ELSE IF d.clust = 0
     THEN [ok |-> idx < fs.n_rootdir, m |-> m,
           d |-> [step EXCEPT !.index = IF idx < fs.n_rootdir THEN idx ELSE @ - 1,
                              !.sect = @ + 1]]
     ELSE IF (idx \div ENT) % fs.sects_clust # 0
     THEN [ok |-> TRUE, d |-> [step EXCEPT !.sect = @ + 1], m |-> m]
     ELSE [ok |-> valid, m |-> g.m,
           d |-> IF valid THEN [step EXCEPT !.clust = g.next, !.sect = clust2sect(g.next)]
                 ELSE [d EXCEPT !.sect = @ + 1]]

(* The window is put back, and a failure remembered.                       *)
Keep(m) ==
  /\ win' = m.win /\ fs' = [fs EXCEPT !.winsect = m.winsect]
  /\ fault' = (fault \/ ~m.ok)

Return(r) == pc' = "idle" /\ res' = r

-----------------------------------------------------------------------------
VolInit ==
  /\ slot \in Cards \cup {None} /\ up = FALSE /\ stat = FALSE
  /\ fs = Zero /\ fsid = 0 /\ win = [of |-> None, sect |-> 0]
  /\ dir = NoDir /\ dob = NoDir /\ pc = "idle" /\ call = Idle
  /\ fp = EndEntry /\ res = "NONE" /\ listed = <<>> /\ fault = FALSE

(* philes_mount: disk_initialize, then f_mount clears the object.          *)
disk_initialize(ok) == up' = ok /\ stat' = ok
philes_mount ==
  /\ pc = "idle"
  /\ \E ok \in IF slot = None THEN {FALSE} ELSE BOOLEAN : disk_initialize(ok)
  /\ fs' = Zero /\ dir' = NoDir
  /\ Return("OK") /\ call' = Idle
  /\ listed' = <<>> /\ fault' = FALSE /\ fp' = EndEntry
  /\ UNCHANGED <<slot, fsid, win, dob>>

(* f_opendir and f_open begin with auto_mount.  fp is the entry this call  *)
(* opened.                                                                 *)
Begin(op, path) ==
  /\ pc = "idle"
  /\ call' = [op |-> op, path |-> path] /\ pc' = "auto"
  /\ fault' = FALSE /\ listed' = <<>> /\ dir' = NoDir
  /\ fp' = EndEntry /\ res' = "NONE"
  /\ UNCHANGED <<slot, up, stat, fs, fsid, win, dob>>
philes_opendir == Begin("opendir", <<DIRNAME>>)
Asked == UNION {{get_fileinfo(e.name) : e \in Range(c.dir)} : c \in Cards} \cup Absent
f_open == \E n \in Asked : Begin("open", <<DIRNAME, n>>)

(* auto_mount: the object is valid, or it is cleared and the card          *)
(* initialised.                                                            *)
StartTrace(base) ==
  /\ dob' = [NoDir EXCEPT !.sect = base]
  /\ pc' = "trace"
auto_mount ==
  /\ pc = "auto"
  /\ \/ /\ fs.type # 0 /\ stat
        /\ StartTrace(fs.dirbase)
        /\ UNCHANGED <<up, stat, fs, fault, res>>
     \/ /\ fs.type = 0 \/ ~stat
        /\ fs' = Zero
        /\ \E ok \in IF slot = None THEN {FALSE} ELSE BOOLEAN :
             /\ disk_initialize(ok)
             /\ fault' = (fault \/ ~ok)
             /\ IF ok THEN pc' = "boot" /\ UNCHANGED res ELSE Return("NOT_READY")
        /\ UNCHANGED dob
  /\ UNCHANGED <<slot, fsid, win, dir, call, fp, listed>>

(* The boot record is in the window: the geometry is computed from it.     *)
MountedOneFat(c, bootsect) ==  \* mutant: the second FAT is not counted
  LET fatbase == bootsect + c.rsvd IN
  [type |-> 12, id |-> (fsid + 1) % IDS, winsect |-> 0, of |-> c,
   fatbase |-> fatbase, dirbase |-> fatbase + c.sects_fat,
   database |-> fatbase + c.sects_fat + c.n_rootdir \div ENT,
   max_clust |-> (c.totsec - c.rsvd - c.sects_fat) \div c.sects_clust + 2,
   sects_clust |-> c.sects_clust, n_rootdir |-> c.n_rootdir]

Mounted(c, bootsect) ==
  LET fatsize == c.sects_fat * c.n_fats
      fatbase == bootsect + c.rsvd
      max == (c.totsec - c.rsvd - fatsize - c.n_rootdir \div ENT) \div c.sects_clust + 2
  IN [type |-> IF max > FAT12MAX THEN 16 ELSE 12, id |-> (fsid + 1) % IDS,
      winsect |-> 0, of |-> c, fatbase |-> fatbase, dirbase |-> fatbase + fatsize,
      database |-> fatbase + fatsize + c.n_rootdir \div ENT, max_clust |-> max,
      sects_clust |-> c.sects_clust, n_rootdir |-> c.n_rootdir]

(* check_fs reads past the window's bookkeeping.  A partition is looked    *)
(* up once.                                                                *)
check_fs(sect, ok) ==
  /\ win' = IF ok THEN [of |-> slot, sect |-> sect] ELSE win
  /\ fault' = (fault \/ ~ok)
boot_record ==
  /\ pc \in {"boot", "part"}
  /\ \E ok \in Answers :
       LET sect == IF pc = "part" THEN slot.part ELSE 0
           fat == ok /\ slot.boot # "foreign" /\ sect = BootSector(slot)
           full == fat /\ Mounted(slot, sect).max_clust > FAT16MAX IN
       /\ check_fs(sect, ok)
       /\ \/ /\ fat /\ ~full
             /\ fs' = Mounted(slot, sect) /\ fsid' = (fsid + 1) % IDS
             /\ StartTrace(Mounted(slot, sect).dirbase) /\ UNCHANGED res
          \/ /\ ok /\ ~fat /\ pc = "boot" /\ slot.boot = "mbr"
             /\ pc' = "part" /\ UNCHANGED <<fs, fsid, dob, res>>
          \/ /\ ~ok \/ full \/ (~fat /\ ~(pc = "boot" /\ slot.boot = "mbr"))
             /\ Return("NO_FILESYSTEM") /\ UNCHANGED <<fs, fsid, dob>>
  /\ UNCHANGED <<slot, up, stat, dir, call, fp, listed>>

-----------------------------------------------------------------------------
(* trace_path ends: what f_opendir and f_open make of the entry.  The      *)
(* object it worked on is not read again before it is set up anew.         *)
Fails(r) == Return(r) /\ dob' = NoDir /\ UNCHANGED <<dir, fp>>
Found(e) ==
  IF call.op = "opendir"
  THEN IF e.kind = "dir"
       THEN /\ dir' = [id |-> fs.id, index |-> 2, clust |-> e.clust,
                       sect |-> clust2sect(e.clust), open |-> TRUE]
            /\ Return("OK") /\ dob' = NoDir /\ UNCHANGED fp
       ELSE Fails("NO_FILE")
  ELSE IF e.kind = "dir" THEN Fails("NO_FILE")
       ELSE fp' = e /\ Return("OK") /\ dob' = NoDir /\ UNCHANGED dir

MatchesAny(e, name) == e.name = name  \* mutant: deleted entries too
Matches(e, name) == e.kind \notin {"end", "del", "vol"} /\ e.name = name

(* One entry of trace_path's search.                                       *)
trace_path ==
  /\ pc = "trace"
  /\ \E ok \in [1 .. 3 -> Answers] :
       LET fn == make_dirfile(Head(call.path))
           m == move_window(Window, dob.sect, ok[1])
           e == Entry(m.win, dob.index % ENT)
           n == next_dir_entry(dob, m, ok)
           last == Len(call.path) = 1
           none == IF last THEN "NO_FILE" ELSE "NO_PATH" IN
       \/ /\ fn.bad /\ Fails("INVALID_NAME") /\ UNCHANGED <<fs, win, fault, call>>
       \/ /\ ~fn.bad /\ ~m.ok
          /\ Keep(m) /\ Fails("RW_ERROR") /\ UNCHANGED call
       \/ /\ ~fn.bad /\ m.ok /\ e.kind = "end"
          /\ Keep(m) /\ Fails(none) /\ UNCHANGED call
       \/ /\ ~fn.bad /\ m.ok /\ Matches(e, fn.name) /\ last
          /\ Keep(m) /\ Found(e) /\ UNCHANGED call
       \/ /\ ~fn.bad /\ m.ok /\ Matches(e, fn.name) /\ ~last
          /\ Keep(m)
          /\ IF e.kind = "dir"
             THEN /\ dob' = [dob EXCEPT !.clust = e.clust, !.sect = clust2sect(e.clust),
                                        !.index = 2]
                  /\ call' = [call EXCEPT !.path = Tail(@)]
                  /\ UNCHANGED <<pc, res, dir, fp>>
             ELSE Fails("NO_PATH") /\ UNCHANGED call
       \/ /\ ~fn.bad /\ m.ok /\ e.kind # "end" /\ ~Matches(e, fn.name)
          /\ Keep(n.m) /\ UNCHANGED call
          /\ IF n.ok THEN dob' = n.d /\ UNCHANGED <<pc, res, dir, fp>> ELSE Fails(none)
  /\ UNCHANGED <<slot, up, stat, fsid, listed>>

-----------------------------------------------------------------------------
(* philes_nextfile calls f_readdir until it gives an image.                *)
philes_nextfile ==
  /\ pc = "idle" /\ dir.open
  /\ pc' = "read"
  /\ UNCHANGED <<slot, up, stat, fs, fsid, win, dir, dob, call, fp, res, listed, fault>>

IsImage(e) == e.kind = "file" /\ endsWith(get_fileinfo(e.name), IMGEXT)

validate == dir.id = fs.id /\ stat

(* One entry of f_readdir.  philes.c reads only what it opened since it    *)
(* mounted, so that the object is valid.                                   *)
f_readdir ==
  /\ pc = "read" /\ validate
  /\ \E ok \in [1 .. 3 -> Answers] :
       LET m == move_window(Window, dir.sect, ok[1])
           e == Entry(m.win, dir.index % ENT)
           n == next_dir_entry(dir, m, ok) IN
       \/ /\ dir.sect = 0
          /\ Return("END") /\ UNCHANGED <<fs, win, fault, dir, listed>>
       \/ /\ dir.sect # 0 /\ ~m.ok
          /\ Keep(m) /\ Return("ERROR") /\ UNCHANGED <<dir, listed>>
       \/ /\ dir.sect # 0 /\ m.ok /\ e.kind = "end"
          /\ Keep(m) /\ Return("END") /\ UNCHANGED <<dir, listed>>
       \/ /\ dir.sect # 0 /\ m.ok /\ e.kind # "end"
          /\ Keep(n.m)
          /\ dir' = IF n.ok THEN n.d ELSE [n.d EXCEPT !.sect = 0]
          /\ IF IsImage(e)
             THEN listed' = Append(listed, get_fileinfo(e.name)) /\ Return("OK")
             ELSE UNCHANGED <<pc, res, listed>>
  /\ UNCHANGED <<slot, up, stat, fsid, dob, call, fp>>

-----------------------------------------------------------------------------
(* The card is pulled or inserted.  The driver's flag does not notice.     *)
Swap ==
  /\ IF slot = None THEN slot' \in Cards ELSE slot' = None
  /\ up' = FALSE
  /\ UNCHANGED <<stat, fs, fsid, win, dir, dob, pc, call, fp, res, listed, fault>>

Calls == philes_mount \/ philes_opendir \/ philes_nextfile \/ f_open
Work == auto_mount \/ boot_record \/ trace_path \/ f_readdir
VolNext == Calls \/ Work \/ Swap
VolSpec == VolInit /\ [][VolNext]_volVars

(* The firmware has one thread: a call that has begun goes on.             *)
FairVolSpec == VolSpec /\ WF_volVars(Work)

-----------------------------------------------------------------------------
(* Ranges of the library's objects; no walk along a directory leaves the   *)
(* volume.                                                                 *)
VolTypeOK ==
  /\ slot \in Cards \cup {None} /\ up \in BOOLEAN /\ stat \in BOOLEAN
  /\ fs.type \in {0, 12, 16} /\ fs.id \in 0 .. IDS - 1 /\ fsid \in 0 .. IDS - 1
  /\ fs.of \in Cards \cup {None} /\ win.of \in Cards \cup {None}
  /\ dir.index \in Nat /\ dob.index \in Nat
  /\ {dir.sect, dob.sect} \subseteq
       IF fs.of = None THEN {0} ELSE 0 .. BootSector(fs.of) + fs.of.totsec - 1
  /\ pc \in {"idle", "auto", "boot", "part", "trace", "read"}

(* What the directory really holds: its files and directories, and the     *)
(* places of its images; the image at place i is the Rank-th of them.      *)
Files(c) == {e \in {c.dir[i] : i \in 3 .. Len(c.dir)} : Visible(e)}
Images(c) == {i \in 3 .. Len(c.dir) : IsImage(c.dir[i])}
Upto(c, n) == {i \in Images(c) : i <= n}
Rank(c, i) == Cardinality(Upto(c, i))

(* The window holds the sector the object says, of the card it was mounted *)
(* from: neither a failed read, a boot record read past it nor a swapped   *)
(* card leaves a stale one (tff.c:63-95,610-692).                          *)
WindowIsCoherent ==
  fs.winsect # 0 => win = [of |-> fs.of, sect |-> fs.winsect]

(* The listing is the directory's images in their order, across sector and *)
(* cluster borders: always a beginning of it, whatever fails, and all of   *)
(* it when the end is reached without a failure (tff.c:344-371,1275-1302). *)
ListingIsExact ==
  dir.open =>
    /\ validate
    /\ Len(listed) <= Cardinality(Images(fs.of))
    /\ \A i \in Images(fs.of) :
         Rank(fs.of, i) <= Len(listed) => listed[Rank(fs.of, i)] = get_fileinfo(fs.of.dir[i].name)
    /\ (res = "END" /\ ~fault /\ pc = "idle") => Len(listed) = Cardinality(Images(fs.of))

(* A file that was opened is the entry of that name in the directory of    *)
(* the mounted card, and not a deleted one, a label, a directory or an     *)
(* entry of another directory or card (tff.c:425-545,803-897).             *)
OpensTheNamedFile ==
  (pc = "idle" /\ call.op = "open" /\ res = "OK") =>
    /\ fp \in Files(fs.of) /\ fp.kind = "file"
    /\ Len(call.path) = 1 /\ make_dirfile(Head(call.path)).name = fp.name
    /\ get_fileinfo(fp.name) = [i \in DOMAIN Head(call.path) |-> Upper(Head(call.path)[i])]

(* What is asked for is found under the name it is listed with.            *)
NamesReadBack ==
  \A n \in Asked : ~make_dirfile(n).bad =>
    get_fileinfo(make_dirfile(n).name) = [i \in DOMAIN n |-> Upper(n[i])]

(* Every refusal has its reason: a call that meets no failure of the card  *)
(* finds each file that is there, and only a card that has no file system  *)
(* or no such file is refused (tff.c:488-545,638-742,1234-1266).           *)
HasDirectory(c) == \E i \in DOMAIN c.root : IsDirectory(c.root[i])
HasVolume(c) == c # None /\ c.boot # "foreign" /\ Clusters(c) <= FAT16MAX
NoFalseRefusal ==
  pc = "idle" /\ ~fault /\ call.op \in {"opendir", "open"} =>
    /\ res = "NO_FILESYSTEM" => ~up \/ ~HasVolume(slot)
    /\ res \notin {"RW_ERROR", "NOT_READY"}
    /\ res = "NO_PATH" => ~HasDirectory(fs.of)
    /\ res = "NO_FILE" /\ call.op = "opendir" => ~HasDirectory(fs.of)
    /\ res = "NO_FILE" /\ call.op = "open" =>
         \A e \in Files(fs.of) : e.kind = "dir" \/ get_fileinfo(e.name) # call.path[Len(call.path)]

(* No call hangs, whatever fails and however often the card is swapped:    *)
(* every loop over the directory comes to an end (tff.c:503-545,           *)
(* philes.c:65-84).                                                        *)
WalksEnd == [](pc # "idle" => <>(pc = "idle"))

(* The mounted volume: its objects are in range and the window holds what  *)
(* it says, through remounts, failures and swaps (tff.c:63-95,610-742).    *)
MountIsCoherent == VolTypeOK /\ WindowIsCoherent
=============================================================================
