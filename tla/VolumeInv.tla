----------------------------- MODULE VolumeInv -----------------------------
(***************************************************************************)
(* The inductive invariant of the directory half of the file system: the   *)
(* mounted object is cleared or the geometry of its card, a DIR object     *)
(* stands at an entry of the directory it walks, and what it has passed is *)
(* accounted for.                                                          *)
(***************************************************************************)
EXTENDS Volume

-----------------------------------------------------------------------------
(* The FATFS object: cleared, or the geometry of the card it was mounted   *)
(* from.                                                                   *)
IsVolume(c) == c \in Cards /\ c.boot # "foreign" /\ Clusters(c) <= FAT16MAX
Geometry(f) ==
  /\ f = [type |-> f.type, id |-> f.id, winsect |-> f.winsect, fatbase |-> FatStart(f.of),
          dirbase |-> RootStart(f.of), database |-> DataStart(f.of),
          max_clust |-> Clusters(f.of), sects_clust |-> f.of.sects_clust,
          n_rootdir |-> f.of.n_rootdir, of |-> f.of]
  /\ IsVolume(f.of) /\ f.type \in {12, 16} /\ f.id \in 0 .. IDS - 1 /\ f.winsect \in Nat
MountOK ==
  /\ slot \in Cards \cup {None} /\ up \in BOOLEAN /\ stat \in BOOLEAN /\ fault \in BOOLEAN
  /\ fsid \in 0 .. IDS - 1 /\ win = [of |-> win.of, sect |-> win.sect]
  /\ win.of \in Cards \cup {None}
  /\ fs = Zero \/ Geometry(fs)
  /\ up => slot \in Cards /\ (fs # Zero => slot = fs.of)
  /\ WindowIsCoherent

-----------------------------------------------------------------------------
(* Where a DIR object stands: at entry k of sector s of the root, or at    *)
(* entry k of sector s of the p-th cluster of the directory.               *)
IsDir(d) == d = [id |-> d.id, index |-> d.index, clust |-> d.clust, sect |-> d.sect, open |-> d.open]
RootPlace(c, d, s, k) ==
  /\ d.clust = 0 /\ d.sect = RootStart(c) + s /\ d.index = s * ENT + k
InRoot(c, d) ==
  \E s \in 0 .. c.n_rootdir \div ENT - 1, k \in 0 .. ENT - 1 : RootPlace(c, d, s, k)
DirPlace(c, d, p, s, k) ==
  /\ d.clust = c.chain[p] /\ d.sect = DataStart(c) + (c.chain[p] - 2) * c.sects_clust + s
  /\ d.index = ((p - 1) * c.sects_clust + s) * ENT + k
InDir(c, d) ==
  \E p \in 1 .. Len(c.chain), s \in 0 .. c.sects_clust - 1, k \in 0 .. ENT - 1 : DirPlace(c, d, p, s, k)

(* None of the entries from .. upto has the name.                          *)
Passed(s, from, upto, path) ==
  \A i \in from .. upto : i <= Len(s) => ~Matches(s[i], make_dirfile(path[1]).name)

(* trace_path looks for DIRNAME in the root, then for the file.            *)
AtFirst == \/ call = [op |-> "opendir", path |-> <<DIRNAME>>]
           \/ \E n \in Asked : call = [op |-> "open", path |-> <<DIRNAME, n>>]
AtLast == \E n \in Asked : call = [op |-> "open", path |-> <<n>>]
TraceOK ==
  IF pc = "trace"
  THEN /\ fs # Zero /\ stat /\ IsDir(dob)
       /\ \/ AtFirst /\ InRoot(fs.of, dob) /\ Passed(fs.of.root, 1, dob.index, call.path)
          \/ AtLast /\ InDir(fs.of, dob) /\ dob.index >= 2
             /\ Passed(fs.of.dir, 3, dob.index, call.path)
  ELSE dob = NoDir
CallOK ==
  /\ pc \in {"idle", "auto", "boot", "part", "trace", "read"}
  /\ pc \in {"auto", "boot", "part"} => AtFirst
  /\ pc \in {"auto", "boot", "part", "trace"} => dir = NoDir /\ listed = <<>>
  /\ pc \in {"boot", "part"} => fs = Zero /\ stat
  /\ pc = "part" /\ up => slot.boot = "mbr"
  /\ pc = "read" => dir.open

(* The listing: every image the DIR object has passed.                     *)
Behind == IF dir.sect = 0 THEN dir.index + 1 ELSE dir.index
ImageNames(c) == {get_fileinfo(c.dir[i].name) : i \in Images(c)}
Listed(c, s, n) ==
  /\ s \in Seq(ImageNames(c)) /\ Len(s) = Cardinality(Upto(c, n))
  /\ \A i \in Upto(c, n) : s[Rank(c, i)] = get_fileinfo(c.dir[i].name)
ListOK ==
  \/ dir = NoDir
  \/ /\ IsDir(dir) /\ dir.open = TRUE /\ call.op = "opendir" /\ fs # Zero /\ dir.id = fs.id /\ stat
     /\ dir.index \in Nat /\ dir.index >= 2 /\ (dir.sect # 0 => InDir(fs.of, dir))
     /\ Listed(fs.of, listed, Behind)
     /\ ~fault /\ (dir.sect = 0 \/ (res = "END" /\ pc = "idle")) => Behind >= Len(fs.of.dir)

(* A file was opened, and has the name asked for.                          *)
OpenedOK ==
  (pc = "idle" /\ call.op = "open" /\ res = "OK") =>
    /\ AtLast /\ fp \in Files(fs.of) /\ fp.kind = "file"
    /\ make_dirfile(call.path[1]).bad = FALSE /\ make_dirfile(call.path[1]).name = fp.name

VolInv == MountOK /\ TraceOK /\ CallOK /\ ListOK /\ OpenedOK /\ NoFalseRefusal
=============================================================================
