------------------------------ MODULE FatWrite ------------------------------
(***************************************************************************)
(* Tiny-FatFs in its read/write configuration (tff.c with _FS_READONLY 0,  *)
(* _FS_MINIMIZE 0, FAT16): allocation of clusters, directory entries, and  *)
(* the calls that change a volume, on a card that may refuse an access,    *)
(* under power that may fail between any two sectors written.              *)
(*                                                                         *)
(* A call is a function of the volume v: the medium as the call sees it,   *)
(* the one sector window, and the sectors it has written, in order, which  *)
(* then reach the medium one by one.  A call with several steps is written *)
(* as stages, the first one last, each given what the one before returned. *)
(*                                                                         *)
(* A sector is scaled down to UNIT units of data, to FATENT entries of the *)
(* FAT or to DIRENT of a directory.                                        *)
(***************************************************************************)
EXTENDS Integers, Sequences, FiniteSets, SequencesExt

CONSTANTS
  UNIT,        \* units of data in a sector (512 bytes)
  FATENT,      \* FAT entries in a sector (256)
  DIRENT,      \* directory entries in a sector (16)
  CLUSTERS,    \* clusters of the volume
  Sizes,       \* sectors per cluster of the volumes considered, powers of 2
  CALLS,       \* calls in a behaviour
  Faults,      \* kinds of access that may fail once in a call: "read", "write"
  ACCESSES,    \* the failure is among the first so many accesses of a call
  Paths,       \* paths used, one or two names long; <<"d">> is the directory
  Renames,     \* pairs of paths given to f_rename
  Writes,      \* units given to f_write
  Stretch,     \* distances behind the end of the file given to f_lseek
  Setups       \* volumes to start from: the files and directories made on them

ASSUME FatWriteAssumption ==
  /\ {UNIT, FATENT, CLUSTERS} \subseteq Nat \ {0} /\ DIRENT \in Nat /\ DIRENT > 2
  /\ {CALLS, ACCESSES} \subseteq Nat /\ Sizes \subseteq {1, 2, 4, 8}

VARIABLES
  medium,  \* sectors of the card
  queue,   \* sectors written by the call at work, not yet on the medium
  vol,     \* the FATFS object with its window, and the medium as it will be
  fil,     \* the FIL object
  call,    \* the last call: [op, path, to, res]
  calls,   \* counter of the bound
  goal,    \* history: what each path shall hold when the call at work is done
  maybe,   \* history: what it may hold meanwhile
  intact   \* history: no access to the card has failed

fatVars == <<medium, queue, vol, fil, call, calls, goal, maybe, intact>>

-----------------------------------------------------------------------------
(* Layout: two FATs, a root directory of one sector, the clusters.         *)
MAX == CLUSTERS + 2
END == 65535
UNKNOWN == -1
FATBASE == 1
SECTSFAT == ((MAX - 1) \div FATENT) + 1
DIRBASE == FATBASE + 2 * SECTSFAT
DATABASE == DIRBASE + 1

NoName == "none"        \* first byte of the name is 0
Deleted == "deleted"    \* 0xE5
Entry(name, attr, clust, size) == [name |-> name, attr |-> attr, clust |-> clust, size |-> size]
NoEntry == Entry(NoName, {}, 0, 0)
Fat(e) == [is |-> "fat", e |-> e]
Table == [is |-> "dir", e |-> [i \in 1 .. DIRENT |-> NoEntry]]
Data(e) == [is |-> "data", e |-> e]
Old == [i \in 1 .. UNIT |-> 0]
Blank(spc) ==
  [s \in FATBASE .. DATABASE + CLUSTERS * spc - 1 |->
     IF s < DIRBASE
     THEN Fat([i \in 1 .. FATENT |->
                  IF (s - FATBASE) % SECTSFAT = 0 /\ i < 3 THEN END ELSE 0])
     ELSE IF s = DIRBASE THEN Table ELSE Data(Old)]

(* The volume as auto_mount leaves it.                                     *)
Mount(disk, spc) ==
  [disk |-> disk, spc |-> spc, win |-> Table, sect |-> 0, dirty |-> FALSE, last |-> 0,
   free |-> UNKNOWN, log |-> <<>>, ok |-> TRUE, r |-> 0, n |-> 0, fails |-> 0, kind |-> "none"]
Begin(v, kind, k) == [v EXCEPT !.log = <<>>, !.ok = TRUE, !.r = 0, !.n = 0, !.kind = kind, !.fails = k]
Failed(v) == v.kind # "none" /\ v.n >= v.fails

-----------------------------------------------------------------------------
(* The card.  Of the accesses of one kind the one with the number "fails"  *)
(* goes wrong.                                                             *)
Access(v, kind) ==
  LET n == IF v.kind = kind THEN v.n + 1 ELSE v.n
  IN [v EXCEPT !.n = n, !.ok = ~(v.kind = kind /\ n = v.fails)]
disk_read(v, s) ==
  LET a == Access(v, "read")
  IN IF a.ok THEN [a EXCEPT !.win = v.disk[s], !.sect = s] ELSE a
disk_write(v, s, data) ==
  LET a == Access(v, "write")
  IN IF a.ok THEN [a EXCEPT !.disk[s] = data, !.log = Append(@, [sect |-> s, data |-> data])]
     ELSE a

(* The window.  A FAT sector goes to both FATs; a failure of the second    *)
(* one is ignored.                                                         *)
Flush(v) ==
  LET Mirror(a) ==
        IF v.sect < FATBASE + SECTSFAT
        THEN [disk_write(a, v.sect + SECTSFAT, v.win) EXCEPT !.ok = TRUE]
        ELSE a
      Stored(a) == IF a.ok THEN Mirror([a EXCEPT !.dirty = FALSE]) ELSE a
  IN Stored(disk_write(v, v.sect, v.win))
move_window(v, s) ==
  LET Load(w) == IF w.ok /\ s # 0 THEN disk_read(w, s) ELSE w
  IN IF v.sect = s \/ ~v.ok THEN v ELSE Load(IF v.dirty THEN Flush(v) ELSE v)

sync(v) == move_window([v EXCEPT !.dirty = TRUE], 0)

(* FAT entries.  1 stands for a failure.                                   *)
Slot(c) == (c % FATENT) + 1
get_cluster(v, c) ==
  LET Entry1(w) == [w EXCEPT !.r = IF w.ok THEN w.win.e[Slot(c)] ELSE 1]
  IN IF c \notin 2 .. MAX - 1 THEN [v EXCEPT !.r = 1]
     ELSE Entry1(move_window(v, FATBASE + c \div FATENT))
put_cluster(v, c, val) ==
  LET Enter(w) == IF w.ok THEN [w EXCEPT !.win.e[Slot(c)] = val, !.dirty = TRUE] ELSE w
  IN Enter(move_window(v, FATBASE + c \div FATENT))

RECURSIVE remove_chain(_, _)
remove_chain(v, c) ==
  LET Freed(p, next) ==
        IF p.ok THEN remove_chain([p EXCEPT !.free = IF @ = UNKNOWN THEN @ ELSE @ + 1], next) ELSE p
      Read(g) == IF g.r = 1 THEN [g EXCEPT !.ok = FALSE] ELSE Freed(put_cluster(g, c, 0), g.r)
  IN IF c \notin 2 .. MAX - 1 THEN v ELSE Read(get_cluster(v, c))

(* The first free cluster behind scl; 0: there is none.                    *)
RECURSIVE FindFree(_, _, _)
FindFree(v, scl, c) ==
  LET ncl == IF c + 1 >= MAX THEN 2 ELSE c + 1
      Try(g) == IF g.r = 0 THEN [g EXCEPT !.r = ncl]
                ELSE IF g.r = 1 THEN g
                ELSE IF ncl = scl THEN [g EXCEPT !.r = 0]
                ELSE FindFree(g, scl, ncl)
  IN IF c + 1 >= MAX /\ ncl > scl THEN [v EXCEPT !.r = 0] ELSE Try(get_cluster(v, ncl))

AllocateLinkFirst(v, c, scl) ==  \* mutant: the link is made before the end mark
  LET Marked(m, n) ==
        IF m.ok THEN [m EXCEPT !.r = n, !.last = n, !.free = IF @ = UNKNOWN THEN @ ELSE @ - 1]
        ELSE [m EXCEPT !.r = 1]
      Linked(l, n) == Marked(put_cluster(l, n, END), n)
      Found(s) == IF s.r < 2 THEN s
                  ELSE Linked(IF c = 0 THEN s ELSE put_cluster(s, c, s.r), s.r)
  IN Found(FindFree(v, scl, scl))
(* 0: the volume is full, 1: failure, else the cluster that follows c.     *)
Allocate(v, c, scl) ==
  LET Linked(l, n) ==
        IF l.ok THEN [l EXCEPT !.r = n, !.last = n, !.free = IF @ = UNKNOWN THEN @ ELSE @ - 1]
        ELSE [l EXCEPT !.r = 1]
      Marked(m, n) == Linked(IF c = 0 THEN m ELSE put_cluster(m, c, n), n)
      Found(s) == IF s.r < 2 THEN s ELSE Marked(put_cluster(s, s.r, END), s.r)
  IN Found(FindFree(v, scl, scl))
create_chain(v, c) ==
  LET Follow(g) == IF g.r < 2 THEN [g EXCEPT !.r = 1]
                   ELSE IF g.r < MAX THEN g ELSE Allocate(g, c, c)
  IN IF c = 0 THEN Allocate(v, 0, IF v.last \in 2 .. MAX - 1 THEN v.last ELSE 1)
     ELSE Follow(get_cluster(v, c))

clust2sect(v, c) == IF c \in 2 .. MAX - 1 THEN DATABASE + (c - 2) * v.spc ELSE 0

-----------------------------------------------------------------------------
(* Directories.  d is the DIR object; the entry it stands at is in the     *)
(* window.                                                                 *)
Place(d) == (d.index % DIRENT) + 1
Item(v, d) == IF v.win.is = "dir" THEN v.win.e[Place(d)] ELSE Entry("garbage", {}, 0, 0)
SetItem(v, d, e) == [v EXCEPT !.win.e[Place(d)] = e]
Root == [sclust |-> 0, clust |-> 0, sect |-> DIRBASE, index |-> 0]
DirAt(v, c, index) == [sclust |-> c, clust |-> c, sect |-> clust2sect(v, c), index |-> index]

(* A failure to read the FAT is taken for the end of the table.            *)
next_dir_entry(v, d) ==
  LET idx == d.index + 1
      d1 == [d EXCEPT !.index = idx]
      d2 == [d1 EXCEPT !.sect = @ + 1]
      Follow(g) ==
        IF g.r \notin 2 .. MAX - 1 THEN [v |-> [g EXCEPT !.ok = TRUE], d |-> d, more |-> FALSE]
        ELSE [v |-> g, more |-> TRUE, d |-> [d1 EXCEPT !.clust = g.r, !.sect = clust2sect(g, g.r)]]
  IN IF idx % DIRENT # 0 THEN [v |-> v, d |-> d1, more |-> TRUE]
     ELSE IF d.clust = 0 THEN [v |-> v, d |-> d2, more |-> idx < DIRENT]
     ELSE IF (idx \div DIRENT) % v.spc # 0 THEN [v |-> v, d |-> d2, more |-> TRUE]
     ELSE Follow(get_cluster(v, d.clust))

(* The first entry from d on whose name is in the set; "NONE" at the end   *)
(* mark if stop, or at the end of the table.                               *)
RECURSIVE Scan(_, _, _, _)
Scan(v, d, names, stop) ==
  LET Onward(nx) == IF nx.more THEN Scan(nx.v, nx.d, names, stop)
                    ELSE [v |-> nx.v, d |-> nx.d, res |-> "NONE"]
      Look(w, name) == IF stop /\ name = NoName THEN [v |-> w, d |-> d, res |-> "NONE"]
                       ELSE IF name \in names THEN [v |-> w, d |-> d, res |-> "OK"]
                       ELSE Onward(next_dir_entry(w, d))
      At(w) == IF w.ok THEN Look(w, Item(w, d).name) ELSE [v |-> w, d |-> d, res |-> "RW_ERROR"]
  IN At(move_window(v, d.sect))

trace_path(v, path) ==
  LET Or(t, res) == IF t.res = "NONE" THEN [t EXCEPT !.res = res] ELSE t
      Within(a, e) == IF "dir" \notin e.attr THEN [a EXCEPT !.res = "NO_PATH"]
                      ELSE Or(Scan(a.v, DirAt(v, e.clust, 2), {path[2]}, TRUE), "NO_FILE")
      First(a) == IF Len(path) = 1 THEN Or(a, "NO_FILE")
                  ELSE IF a.res # "OK" THEN Or(a, "NO_PATH")
                  ELSE Within(a, Item(a.v, a.d))
  IN First(Scan(v, Root, {path[1]}, TRUE))

(* Empty tables for the sectors s + from .. s + spc - 1.                   *)
Clean(v, s, from) ==
  LET Step(w, i) == IF w.ok THEN disk_write(w, s + i, Table) ELSE w
  IN FoldLeft(Step, v, [i \in 1 .. v.spc - from |-> from + i - 1])

(* A directory that is full is stretched by a cluster, the root is not.    *)
reserve_direntry(v, dob) ==
  LET d == IF dob.sclust = 0 THEN Root ELSE DirAt(v, dob.sclust, 0)
      Cleaned(z, c) ==
        IF ~z.ok THEN [v |-> z, d |-> d, res |-> "RW_ERROR"]
        ELSE [v |-> [z EXCEPT !.dirty = TRUE], res |-> "OK",
              d |-> [sclust |-> d.sclust, clust |-> c, sect |-> z.sect, index |-> 0]]
      Written(m, c, s) == IF ~m.ok THEN [v |-> m, d |-> d, res |-> "RW_ERROR"]
                          ELSE Cleaned(Clean([m EXCEPT !.sect = s, !.win = Table], s, 0), c)
      Stretched(c) == IF c.r = 0 THEN [v |-> c, d |-> d, res |-> "DENIED"]
                      ELSE IF c.r = 1 THEN [v |-> c, d |-> d, res |-> "RW_ERROR"]
                      ELSE Written(move_window(c, 0), c.r, clust2sect(c, c.r))
      Searched(f) == IF f.res # "NONE" THEN f
                     ELSE IF d.sclust = 0 THEN [f EXCEPT !.res = "DENIED"]
                     ELSE Stretched(create_chain(f.v, f.d.clust))
  IN Searched(Scan(v, d, {NoName, Deleted}, FALSE))

-----------------------------------------------------------------------------
(* Calls on paths.  A call returns the volume and the result.              *)
Result(v, res) == [v |-> v, res |-> res]
Ends(v) == LET Synced(s) == Result(s, IF s.ok THEN "OK" ELSE "RW_ERROR") IN Synced(sync(v))
(* Continues unless an access failed; a directory entry set in the window. *)
Checked(v, Then(_)) == IF v.ok THEN Then(v) ELSE Result(v, "RW_ERROR")
Replace(v, d, e) == [SetItem(v, d, e) EXCEPT !.dirty = TRUE]
Name(path) == path[Len(path)]

(* Anything but ".", ".." and deleted entries?                             *)
Names == {Name(p) : p \in Paths}
IsEmpty(v, c) == Scan(v, DirAt(v, c, 2), Names, TRUE)

DropEntryLeaky(v, d, e) ==  \* mutant: the chain of a directory is not freed
  LET x == Replace(v, d, [e EXCEPT !.name = Deleted])
  IN IF "dir" \in e.attr THEN x ELSE remove_chain(x, e.clust)
DropEntry(v, d, e) == remove_chain(Replace(v, d, [e EXCEPT !.name = Deleted]), e.clust)
f_unlink(v, path) ==
  LET Drop(m, t, e) == Checked(m, LAMBDA w : Checked(DropEntry(w, t.d, e), Ends))
      Enter(t, e, sub) == IF sub.res = "OK" THEN Result(sub.v, "DENIED")
                          ELSE Drop(move_window(sub.v, t.v.sect), t, e)
      Found(t, e) == IF "ro" \in e.attr THEN Result(t.v, "DENIED")
                     ELSE IF "dir" \in e.attr THEN Enter(t, e, IsEmpty(t.v, e.clust))
                     ELSE Drop(t.v, t, e)
      Traced(t) == IF t.res # "OK" THEN Result(t.v, t.res) ELSE Found(t, Item(t.v, t.d))
  IN Traced(trace_path(v, path))

f_mkdir(v, path) ==
  LET Enter(b, d, c) == Ends(SetItem(b, d, Entry(Name(path), {"dir"}, c, 0)))
      Dots(k, z, c) == move_window([k EXCEPT !.win.e[1] = Entry(".", {"dir"}, c, 0),
                                             !.win.e[2] = Entry("..", {"dir"}, z.d.sclust, 0),
                                             !.dirty = TRUE], z.v.sect)
      Fill(m, z, c, s) ==
        Checked(m, LAMBDA w : Checked(Clean([w EXCEPT !.win = Table], s, 1),
                   LAMBDA k : Checked(Dots(k, z, c), LAMBDA b : Enter(b, z.d, c))))
      Chained(c, z) == IF c.r = 1 THEN Result(c, "RW_ERROR")
                       ELSE IF c.r = 0 THEN Result(c, "DENIED")
                       ELSE Fill(move_window(c, clust2sect(c, c.r)), z, c.r, clust2sect(c, c.r))
      Reserved(z) == IF z.res # "OK" THEN Result(z.v, z.res) ELSE Chained(create_chain(z.v, 0), z)
      Traced(t) == IF t.res = "OK" THEN Result(t.v, "EXIST")
                   ELSE IF t.res # "NO_FILE" THEN Result(t.v, t.res)
                   ELSE Reserved(reserve_direntry(t.v, t.d))
  IN Traced(trace_path(v, path))

f_chmod(v, path, attr) ==
  LET Traced(t) ==
        IF t.res # "OK" THEN Result(t.v, t.res)
        ELSE Ends(SetItem(t.v, t.d, [Item(t.v, t.d) EXCEPT !.attr = (@ \ {"ro"}) \cup attr]))
  IN Traced(trace_path(v, path))

f_renameOldFirst(v, old, new) ==  \* mutant: the old entry goes first
  LET Reserved(z, e) == Ends(Replace(z.v, z.d, [e EXCEPT !.name = Name(new)]))
      Retraced(u, e) == IF u.res # "NO_FILE" THEN Result(u.v, "DENIED")
                        ELSE Reserved(reserve_direntry(u.v, u.d), e)
      Found(t, e) == Retraced(trace_path(Replace(t.v, t.d, [e EXCEPT !.name = Deleted]), new), e)
      Traced(t) == IF t.res # "OK" THEN Result(t.v, t.res) ELSE Found(t, Item(t.v, t.d))
  IN Traced(trace_path(v, old))

f_rename(v, old, new) ==
  LET Erase(m, d) == Ends(SetItem(m, d, [Item(m, d) EXCEPT !.name = Deleted]))
      Reserved(z, t, e) ==
        IF z.res # "OK" THEN Result(z.v, z.res)
        ELSE Checked(move_window(Replace(z.v, z.d, [e EXCEPT !.name = Name(new)]), t.v.sect),
                     LAMBDA m : Erase(m, t.d))
      Retraced(u, t) == IF u.res = "OK" THEN Result(u.v, "EXIST")
                        ELSE IF u.res # "NO_FILE" THEN Result(u.v, u.res)
                        ELSE Reserved(reserve_direntry(u.v, u.d), t, Item(t.v, t.d))
      Traced(t) == IF t.res # "OK" THEN Result(t.v, t.res) ELSE Retraced(trace_path(t.v, new), t)
  IN Traced(trace_path(v, old))

f_stat(v, path) == LET Traced(t) == Result(t.v, t.res) IN Traced(trace_path(v, path))

(* The number of free clusters is counted once and kept up to date.        *)
f_getfree(v) ==
  LET Counted(m, s, n) ==
        IF ~m.ok THEN m
        ELSE [m EXCEPT !.r = n + Cardinality(
                 {c \in 0 .. MAX - 1 : c \div FATENT = s /\ m.win.e[Slot(c)] = 0})]
      Step(a, s) == IF a.ok THEN Counted(move_window(a, FATBASE + s), s, a.r) ELSE a
      Keep(w) == Checked(w, LAMBDA x : Result([x EXCEPT !.free = x.r], "OK"))
  IN IF v.free # UNKNOWN THEN Result(v, "OK")
     ELSE Keep(FoldLeft(Step, [v EXCEPT !.r = 0], [s \in 1 .. SECTSFAT |-> s - 1]))

-----------------------------------------------------------------------------
(* The file object.  data is a history: the units the file shall hold, ANY *)
(* where nothing was written.  short: the volume was full.                 *)
ANY == -1
NoFile == [open |-> FALSE, path |-> <<>>, err |-> FALSE, written |-> FALSE, org |-> 0, curr |-> 0,
           cs |-> 0, sc |-> 1, ptr |-> 0, size |-> 0, dsect |-> 0, slot |-> 0,
           data |-> <<>>, short |-> FALSE]

(* mode: "existing", "new", "always" or "open_always", all with FA_WRITE.  *)
f_open(v, path, mode, data) ==
  LET create == mode # "existing"
      Object(w, d, content) ==
        [v |-> w, res |-> "OK",
         f |-> [NoFile EXCEPT !.open = TRUE, !.path = path, !.org = Item(w, d).clust,
                  !.size = Item(w, d).size, !.dsect = w.sect, !.slot = Place(d), !.data = content]]
      No(w, res) == [v |-> w, res |-> res, f |-> NoFile]
      Fresh(w, d) == Object(Replace(w, d, Entry(Name(path), {}, 0, 0)), d, <<>>)
      Reserved(z) == IF z.res # "OK" THEN No(z.v, z.res) ELSE Fresh(z.v, z.d)
      Back(w, d) == IF w.ok THEN Fresh(w, d) ELSE No(w, "RW_ERROR")
      Cut(t, e) ==
        Back([move_window(remove_chain(Replace(t.v, t.d, [e EXCEPT !.clust = 0, !.size = 0]), e.clust),
                          t.v.sect) EXCEPT !.last = e.clust - 1], t.d)
      Found(t, e) == IF mode = "new" THEN No(t.v, "EXIST")
                     ELSE IF create /\ e.attr \cap {"ro", "dir"} # {} THEN No(t.v, "DENIED")
                     ELSE IF "dir" \in e.attr THEN No(t.v, "NO_FILE")
                     ELSE IF "ro" \in e.attr THEN No(t.v, "DENIED")
                     ELSE IF mode = "always" THEN Cut(t, e) ELSE Object(t.v, t.d, data)
      Traced(t) == IF create /\ t.res = "NO_FILE" THEN Reserved(reserve_direntry(t.v, t.d))
                   ELSE IF t.res # "OK" THEN No(t.v, t.res)
                   ELSE Found(t, Item(t.v, t.d))
  IN Traced(trace_path(v, path))

(* The next sector of the file, the chain stretched when it is at its end; *)
(* sect_clust is a byte.                                                   *)
NextSector(v, f) ==
  LET left == (f.sc - 1) % 256
      Enter(c, at) ==
        IF c.r = 0 THEN [v |-> c, f |-> at, res |-> "FULL"]
        ELSE IF c.r \notin 2 .. MAX - 1 THEN [v |-> c, f |-> at, res |-> "RW_ERROR"]
        ELSE [v |-> c, res |-> "OK",
              f |-> [at EXCEPT !.curr = c.r, !.cs = clust2sect(c, c.r), !.sc = v.spc]]
      Follow(c) == Enter(c, [f EXCEPT !.sc = 0, !.org = IF f.ptr = 0 THEN c.r ELSE @])
  IN IF left # 0 THEN [v |-> v, f |-> [f EXCEPT !.sc = left, !.cs = @ + 1], res |-> "OK"]
     ELSE Follow(IF f.ptr # 0 \/ f.org = 0 THEN create_chain(v, IF f.ptr = 0 THEN 0 ELSE f.curr)
                 ELSE [v EXCEPT !.r = f.org])

(* The window seen as data: what another kind of sector left there is ANY. *)
AsData(v) == [v EXCEPT !.win = IF @.is = "data" THEN @ ELSE Data([i \in 1 .. UNIT |-> ANY])]
Smaller(a, b) == IF a < b THEN a ELSE b
Put(s, at, n, x) == [i \in 1 .. (IF at + n > Len(s) THEN at + n ELSE Len(s)) |->
                       IF i \in at + 1 .. at + n THEN x ELSE s[i]]

(* The window over the sector cs of the file; a sector behind the end is   *)
(* not read.                                                               *)
FileWindow(v, cs, fresh) ==
  LET Over(w) == IF w.ok THEN AsData([w EXCEPT !.sect = cs]) ELSE w
  IN Over(move_window(v, IF fresh THEN 0 ELSE cs))

(* n units x: whole sectors directly, the rest through the window.         *)
RECURSIVE WriteLoop(_, _, _, _)
WriteLoop(v, f, n, x) ==
  LET edge == f.ptr % UNIT = 0
      Onward(w, g, k, jump) ==
        LET h == [g EXCEPT !.data = Put(@, f.ptr, k, x)]
        IN IF ~w.ok THEN [v |-> w, f |-> h, res |-> "RW_ERROR"]
           ELSE WriteLoop(w, [h EXCEPT !.ptr = @ + k, !.sc = @ - jump, !.cs = @ + jump], n - k, x)
      Direct(s, cc) ==
        LET Step(w, i) ==
              IF w.ok THEN disk_write(w, s.f.cs + i - 1, Data([j \in 1 .. UNIT |-> x])) ELSE w
        IN Onward(FoldLeft(Step, s.v, [i \in 1 .. cc |-> i]), s.f, cc * UNIT, cc - 1)
      Fill(w, k) == IF w.ok THEN [w EXCEPT !.win.e = Put(@, f.ptr % UNIT, k, x), !.dirty = TRUE] ELSE w
      Through(s, k) ==
        Onward(Fill(FileWindow(s.v, s.f.cs, edge /\ f.ptr >= f.size), k), s.f, k, 0)
      At(s) == IF s.res # "OK" THEN s
               ELSE IF edge /\ n >= UNIT THEN Direct(s, Smaller(n \div UNIT, s.f.sc))
               ELSE Through(s, Smaller(UNIT - (f.ptr % UNIT), n))
  IN IF n = 0 THEN [v |-> v, f |-> f, res |-> "OK"]
     ELSE At(IF edge THEN NextSector(v, f) ELSE [v |-> v, f |-> f, res |-> "OK"])

Larger(a, b) == IF a > b THEN a ELSE b
f_write(v, f, n, x) ==
  LET Done(l) ==
        IF l.res = "RW_ERROR" THEN [l EXCEPT !.f.err = TRUE]
        ELSE [v |-> l.v, res |-> "OK",
              f |-> [l.f EXCEPT !.size = Larger(@, l.f.ptr), !.written = TRUE, !.short = l.res = "FULL"]]
  IN IF f.err THEN [v |-> v, f |-> f, res |-> "RW_ERROR"] ELSE Done(WriteLoop(v, f, n, x))

(* The directory entry last.                                               *)
f_sync(v, f) ==
  LET Done(s) == [v |-> s.v, f |-> [f EXCEPT !.written = FALSE], res |-> s.res]
      At(m) == IF ~m.ok THEN [v |-> m, f |-> f, res |-> "RW_ERROR"]
               ELSE Done(Ends([m EXCEPT !.win.e[f.slot].clust = f.org, !.win.e[f.slot].size = f.size]))
  IN IF f.written THEN At(move_window(v, f.dsect)) ELSE [v |-> v, f |-> f, res |-> "OK"]

f_close(v, f) ==
  LET Done(s) == IF s.res = "OK" THEN [s EXCEPT !.f = NoFile] ELSE s IN Done(f_sync(v, f))

(* Skips the clusters in front of ofs, stretching the chain; f.ptr counts. *)
RECURSIVE Skip(_, _, _, _)
Skip(v, f, c, ofs) ==
  LET csize == v.spc * UNIT
      at == [f EXCEPT !.curr = c]
      Land(w, clust, o) ==
        LET csect == (o - 1) \div UNIT
        IN [v |-> w, res |-> IF o = ofs THEN "OK" ELSE "FULL",
            f |-> [at EXCEPT !.cs = clust2sect(w, clust) + csect, !.sc = w.spc - csect, !.ptr = @ + o]]
      Follow(n) == IF n.r = 0 THEN Land(n, 0, csize)
                   ELSE IF n.r \notin 2 .. MAX - 1 THEN [v |-> n, f |-> at, res |-> "RW_ERROR"]
                   ELSE Skip(n, [at EXCEPT !.ptr = @ + csize], n.r, ofs - csize)
  IN IF ofs <= csize THEN Land(v, c, ofs) ELSE Follow(create_chain(v, c))

f_lseek(v, f, ofs) ==
  LET top == [f EXCEPT !.ptr = 0, !.sc = 1]
      From(c) == IF c.r = 1 THEN [v |-> c, f |-> top, res |-> "RW_ERROR"]
                 ELSE IF c.r = 0 THEN [v |-> c, f |-> [top EXCEPT !.org = 0], res |-> "FULL"]
                 ELSE Skip(c, [top EXCEPT !.org = c.r], c.r, ofs)
      Sized(l, g) ==
        IF g.ptr <= f.size THEN [v |-> l.v, res |-> "OK", f |-> g]
        ELSE [v |-> l.v, res |-> "OK",
              f |-> [g EXCEPT !.size = g.ptr, !.written = TRUE,
                              !.data = @ \o [i \in 1 .. g.ptr - Len(@) |-> ANY]]]
      Done(l) == IF l.res = "RW_ERROR" THEN [l EXCEPT !.f.err = TRUE]
                 ELSE Sized(l, [l.f EXCEPT !.short = l.res = "FULL"])
  IN IF f.err THEN [v |-> v, f |-> f, res |-> "RW_ERROR"]
     ELSE IF ofs = 0 THEN Done([v |-> v, f |-> top, res |-> "OK"])
     ELSE Done(From(IF f.org = 0 THEN create_chain(v, 0) ELSE [v EXCEPT !.r = f.org]))

-----------------------------------------------------------------------------
(* What a medium holds, read by the first FAT.                             *)
Next1(disk, c) == disk[FATBASE + c \div FATENT].e[Slot(c)]
RECURSIVE Chain(_, _, _)
Chain(disk, c, n) ==  \* at most n clusters from c on, up to the end mark
  IF c \notin 2 .. MAX - 1 \/ n = 0 THEN <<>> ELSE <<c>> \o Chain(disk, Next1(disk, c), n - 1)
Sectors(v, chain) ==
  FoldLeft(LAMBDA s, c : s \o [i \in 1 .. v.spc |-> clust2sect(v, c) + i - 1], <<>>, chain)
Entries(disk, sectors) ==  \* up to the end mark, deleted entries and dots left out
  LET all == FoldLeft(LAMBDA s, x : s \o (IF disk[x].is = "dir" THEN disk[x].e ELSE <<NoEntry>>),
                      <<>>, sectors)
      end == CHOOSE n \in 0 .. Len(all) :
               /\ \A i \in 1 .. n : all[i].name # NoName
               /\ n < Len(all) => all[n + 1].name = NoName
  IN {[slot |-> i, e |-> all[i]] : i \in {j \in 1 .. end : all[j].name \notin {Deleted, ".", ".."}}}
Objects(disk) ==
  LET top == {[path |-> <<x.e.name>>, slot |-> x.slot, e |-> x.e] : x \in Entries(disk, <<DIRBASE>>)}
      Under(o) == {[path |-> Append(o.path, x.e.name), slot |-> x.slot, e |-> x.e] :
                     x \in Entries(disk, Sectors(vol, Chain(disk, o.e.clust, CLUSTERS)))}
  IN top \cup UNION {Under(o) : o \in {x \in top : "dir" \in x.e.attr}}

Absent == [kind |-> "none", data |-> <<>>]
Directory == [kind |-> "dir", data |-> <<>>]
File(data) == [kind |-> "file", data |-> data]
Content(disk, e) ==
  LET units == FoldLeft(LAMBDA s, x : s \o (IF disk[x].is = "data" THEN disk[x].e ELSE [i \in 1 .. UNIT |-> ANY]),
                        <<>>, Sectors(vol, Chain(disk, e.clust, CLUSTERS)))
  IN IF "dir" \in e.attr THEN Directory ELSE File(SubSeq(units, 1, Smaller(e.size, Len(units))))
Held(disk, p) ==
  LET here == {o \in Objects(disk) : o.path = p}
  IN IF here = {} THEN Absent ELSE Content(disk, (CHOOSE o \in here : TRUE).e)

(* The medium with the window written back.                                *)
View == IF vol.dirty THEN [vol.disk EXCEPT ![vol.sect] = vol.win] ELSE vol.disk

-----------------------------------------------------------------------------
(* The program using the volume: one file open at a time, not renamed or   *)
(* removed meanwhile, written forward only and not after the volume was    *)
(* found full; after a failed access it only closes the file.              *)
Idle == queue = <<>>
MayCall == Idle /\ calls < CALLS /\ intact

(* The call returns R; its sectors are on their way.  "hold" is what the   *)
(* paths shall hold if it is not refused.                                  *)
Returns(op, path, to, R, f, hold) ==
  LET done == R.res \in {"OK", "RW_ERROR"}
      new == IF done THEN hold ELSE goal
      kept == intact /\ ~vol.dirty
  IN /\ vol' = [R.v EXCEPT !.log = <<>>, !.ok = TRUE, !.r = 0, !.n = 0, !.kind = "none", !.fails = 0]
     /\ queue' = R.v.log
     /\ fil' = f
     /\ call' = [op |-> op, path |-> path, to |-> to, res |-> R.res, kept |-> kept]
     /\ calls' = calls + 1
     /\ goal' = new
     /\ maybe' = [p \in Paths |-> {goal[p], new[p]} \cup
                    (IF kept /\ (~fil.open \/ fil.path # p) THEN {} ELSE maybe[p])]
     /\ intact' = (intact /\ ~Failed(R.v))
     /\ UNCHANGED medium

(* The volume at the start of a call in which no access fails, or one does.*)
Starts == {Begin(vol, "none", 0)} \cup {Begin(vol, kind, k) : kind \in Faults, k \in 1 .. ACCESSES}

Unlink == /\ MayCall /\ ~fil.open
          /\ \E v \in Starts, p \in Paths :
               Returns("unlink", p, <<>>, f_unlink(v, p), fil, [goal EXCEPT ![p] = Absent])
Mkdir == /\ MayCall /\ ~fil.open
         /\ \E v \in Starts : Returns("mkdir", <<"d">>, <<>>, f_mkdir(v, <<"d">>), fil,
                                       [goal EXCEPT ![<<"d">>] = Directory])
Chmod == /\ MayCall /\ ~fil.open
         /\ \E v \in Starts, p \in Paths : Returns("chmod", p, <<>>, f_chmod(v, p, {"ro"}), fil, goal)
Rename == /\ MayCall /\ ~fil.open
          /\ \E v \in Starts, r \in Renames :
               Returns("rename", r[1], r[2], f_rename(v, r[1], r[2]), fil,
                       [goal EXCEPT ![r[2]] = goal[r[1]], ![r[1]] = Absent])
Stat == /\ MayCall
        /\ \E v \in Starts, p \in Paths : Returns("stat", p, <<>>, f_stat(v, p), fil, goal)
GetFree == /\ MayCall
           /\ \E v \in Starts : Returns("getfree", <<>>, <<>>, f_getfree(v), fil, goal)

Open == /\ MayCall /\ ~fil.open
        /\ \E v \in Starts, p \in Paths, mode \in {"existing", "new", "always", "open_always"} :
             LET fresh == mode = "always" \/ (mode # "existing" /\ goal[p] = Absent)
                 Opened(r) == Returns("open", p, <<>>, r, r.f,
                                      IF fresh THEN [goal EXCEPT ![p] = File(<<>>)] ELSE goal)
             IN Opened(f_open(v, p, mode, goal[p].data))
AtFile(op, r) ==
  Returns(op, fil.path, <<>>, r, r.f,
          [goal EXCEPT ![fil.path] =
             IF r.f.open THEN File(SubSeq(r.f.data, 1, r.f.size)) ELSE File(SubSeq(fil.data, 1, fil.size))])
Write == /\ MayCall /\ fil.open /\ ~fil.short
         /\ \E v \in Starts, n \in Writes : AtFile("write", f_write(v, fil, n, calls + 1))
Lseek == /\ MayCall /\ fil.open /\ ~fil.short
         /\ \E v \in Starts, n \in Stretch : AtFile("lseek", f_lseek(v, fil, fil.size + n))
Sync == /\ MayCall /\ fil.open
        /\ \E v \in Starts : AtFile("sync", f_sync(v, fil))
Close == /\ Idle /\ fil.open /\ call.op # "close" /\ calls <= CALLS
         /\ \E v \in Starts : AtFile("close", f_close(v, fil))

(* A sector reaches the medium.                                            *)
Store == /\ queue # <<>>
         /\ medium' = [medium EXCEPT ![Head(queue).sect] = Head(queue).data]
         /\ queue' = Tail(queue)
         /\ UNCHANGED <<vol, fil, call, calls, goal, maybe, intact>>

(* A volume made by the calls of the setup, and mounted again.             *)
Made(v, x) ==
  LET Shut(w) == f_close(w.v, w.f).v
      Opened(o) == Shut(f_write(o.v, o.f, x.n, 1))
  IN IF x.path = <<"d">> THEN f_mkdir(v, x.path).v ELSE Opened(f_open(v, x.path, "new", <<>>))
Init ==
  \E spc \in Sizes, setup \in Setups :
    LET v == FoldLeft(LAMBDA w, x : Made(w, x), Mount(Blank(spc), spc), setup)
    IN /\ medium = v.disk
       /\ vol = Mount(v.disk, spc)
       /\ goal = [p \in Paths |->
                     IF \E i \in 1 .. Len(setup) : setup[i].path = p
                     THEN LET x == setup[CHOOSE i \in 1 .. Len(setup) : setup[i].path = p]
                          IN IF p = <<"d">> THEN Directory ELSE File([i \in 1 .. x.n |-> 1])
                     ELSE Absent]
       /\ maybe = [p \in Paths |-> {goal[p]}]
       /\ queue = <<>> /\ fil = NoFile /\ calls = 1 /\ intact = TRUE
       /\ call = [op |-> "mount", path |-> <<>>, to |-> <<>>, res |-> "OK", kept |-> TRUE]
Next == \/ Unlink \/ Mkdir \/ Chmod \/ Rename \/ Stat \/ GetFree
        \/ Open \/ Write \/ Lseek \/ Sync \/ Close \/ Store
FatSpec == Init /\ [][Next]_fatVars

-----------------------------------------------------------------------------
(* Ranges of the FATFS and FIL objects, the layout of the medium, and      *)
(* nothing is written outside it; the file pointer stays within the file   *)
(* (tff.h:67-121).                                                         *)
FatTypeOK ==
  /\ DOMAIN medium = DOMAIN vol.disk
  /\ \A s \in DOMAIN medium : /\ s < DIRBASE <=> medium[s].is = "fat"
                             /\ s = DIRBASE => medium[s].is = "dir"
  /\ vol.sect \in {0} \cup DOMAIN medium /\ vol.free \in -1 .. CLUSTERS
  /\ fil.sc \in 0 .. vol.spc /\ fil.curr < MAX /\ (fil.err \/ fil.ptr <= fil.size)
  /\ \A q \in 1 .. Len(queue) : queue[q].sect \in DOMAIN medium

(* At every moment, so also when the power fails there: names are unique,  *)
(* the chain of an entry runs through used clusters to an end mark and is  *)
(* long enough, and no two entries share a cluster but the two of a rename.*)
StructureIsSound ==
  LET objects == Objects(medium)
      C(o) == Chain(medium, o.e.clust, CLUSTERS)
  IN \A o \in objects :
       /\ o.e.clust = 0 => o.e.size = 0 /\ "dir" \notin o.e.attr
       /\ o.e.clust # 0 => C(o) # <<>> /\ Next1(medium, Last(C(o))) = END
       /\ Len(C(o)) * vol.spc * UNIT >= o.e.size
       /\ \A x \in objects \ {o} :
            /\ x.path # o.path
            /\ \/ ToSet(C(x)) \cap ToSet(C(o)) = {}
               \/ call.op = "rename" /\ {x.path, o.path} = {call.path, call.to}

(* The medium's content m of p is one that may be there; it is just g.     *)
Fits(m, p) ==
  LET atWork == p = call.path \/ p = fil.path
      Unit(i, x) == m.data[i] = x.data[i] \/ x.data[i] = ANY
                      \/ (atWork /\ i <= Len(goal[p].data) /\ goal[p].data[i] \in {m.data[i], ANY})
  IN \E x \in maybe[p] : /\ m.kind = x.kind /\ Len(m.data) = Len(x.data)
                         /\ \A i \in 1 .. Len(m.data) : Unit(i, x)
Exactly(m, g) == /\ m.kind = g.kind /\ Len(m.data) = Len(g.data)
                 /\ \A i \in 1 .. Len(m.data) : g.data[i] \in {m.data[i], ANY}

(* At every moment every path holds what it held, or what the call at work *)
(* gives it: files not worked on keep every unit, a file worked on has     *)
(* each unit old or new, what was closed or synchronised is on the medium, *)
(* and an object renamed is always there under one of its names.           *)
SavedIsSafe ==
  /\ \A p \in Paths : Fits(Held(medium, p), p)
  /\ (Idle /\ intact /\ ~vol.dirty) =>
       \A p \in Paths : (fil.open /\ fil.path = p /\ fil.written) \/ Exactly(Held(medium, p), goal[p])
  /\ (call.op = "rename" /\ call.kept /\ goal[call.to] # Absent) =>
       \/ Held(medium, call.path) # Absent \/ Held(medium, call.to) # Absent

(* A cluster in use belongs to a file or directory, when no file is open   *)
(* and no access has failed.                                               *)
NoLostClusters ==
  (Idle /\ intact /\ ~fil.open) =>
    {c \in 2 .. MAX - 1 : Next1(View, c) # 0} = UNION {ToSet(Chain(View, o.e.clust, CLUSTERS)) : o \in Objects(View)}

(* The count of free clusters kept in the FATFS object is right.           *)
FreeIsExact ==
  (Idle /\ intact /\ vol.free # UNKNOWN) =>
    vol.free = Cardinality({c \in 2 .. MAX - 1 : Next1(View, c) = 0})

(* The second FAT is the first one but for the sector being written.       *)
MirrorIsExact ==
  intact => \A s \in FATBASE .. FATBASE + SECTSFAT - 1 :
              \/ medium[s + SECTSFAT] = medium[s]
              \/ queue # <<>> /\ Head(queue) = [sect |-> s + SECTSFAT, data |-> medium[s]]

(* The volume is sound at every moment, the power may fail there: objects in *)
(* range, directories and chains consistent, the second FAT up to the one  *)
(* sector being written (tff.c:63-131,209-315,554-601).                    *)
VolumeIsSound == FatTypeOK /\ StructureIsSound /\ MirrorIsExact

(* Every cluster is accounted for: the used ones by an entry, the free ones *)
(* by the count kept in the FATFS object (tff.c:235-315,1345-1402).        *)
SpaceIsAccounted == NoLostClusters /\ FreeIsExact
=============================================================================
