---------------------------- MODULE VolumeProofs ----------------------------
(***************************************************************************)
(* The directory half of the file system, for every set of well-formed     *)
(* cards and every geometry: the window is coherent, a listing is exact, a *)
(* file opened is the one asked for, and nothing is refused without cause. *)
(*                                                                         *)
(* VolInv (VolumeInv) is inductive: where a walk stands is where the       *)
(* geometry of the card puts the entry of its index, and what lies before  *)
(* it has been compared with the name, or listed.  The arithmetic of       *)
(* sectors and clusters comes first, then the window and the FAT, one step *)
(* along a directory, the listing, and the actions.                        *)
(***************************************************************************)
EXTENDS VolumeInv, SequenceTheorems, FiniteSetTheorems, TLAPS

(* Division, with products kept out of the steps that use it.              *)
LEMMA DividedInt ==
  ASSUME NEW b \in Int, b > 0, NEW i \in Int
  PROVE  i = b * (i \div b) + (i % b)
OBVIOUS

LEMMA Divided ==
  ASSUME NEW b \in Nat \ {0}, NEW i \in Nat
  PROVE  /\ i \div b \in Nat /\ i % b \in 0 .. b - 1 /\ i = b * (i \div b) + (i % b)
<1>1. i \div b \in Nat /\ i % b \in 0 .. b - 1
  OBVIOUS
<1>2. b \in Int /\ b > 0 /\ i \in Int
  OBVIOUS
<1> QED
  BY <1>1, <1>2, DividedInt

(* A product grows by a factor for each one of the other.                  *)
LEMMA Multiples ==
  ASSUME NEW b \in Nat, NEW i \in Nat, NEW n \in Nat, i < n
  PROVE  b * i \in Nat /\ b * n \in Nat /\ b * i + b <= b * n
<1>1. PICK d \in Nat : d = n - i - 1
  OBVIOUS
<1>2. b * d \in Nat /\ b * i \in Nat /\ b * n \in Nat
  OBVIOUS
<1>3. n = i + 1 + d
  BY <1>1
<1>4. b * n = b * i + b + b * d
  BY <1>3
<1> QED
  BY <1>2, <1>4

LEMMA Commutes ==
  ASSUME NEW a \in Nat, NEW b \in Nat
  PROVE  a * b = b * a /\ a * b \in Nat
OBVIOUS

(* Quotient and remainder are the only ones.                               *)
LEMMA Uniquely ==
  ASSUME NEW b \in Nat \ {0}, NEW q \in Nat, NEW r \in 0 .. b - 1, NEW n, n = q * b + r
  PROVE  /\ n \in Nat /\ n \div b = q /\ n % b = r
<1>1. q * b = b * q /\ b * q \in Nat
  BY Commutes
<1>2. n \in Nat /\ n = b * q + r
  BY <1>1
<1>3. PICK d, e : d = n \div b /\ e = n % b /\ d \in Nat /\ e \in 0 .. b - 1 /\ n = b * d + e
  <2>1. n \in Nat
    BY <1>2
  <2>2. n \div b \in Nat /\ n % b \in 0 .. b - 1 /\ n = b * (n \div b) + (n % b)
    BY <2>1, Divided
  <2> QED
    BY <2>2
<1>4. ~(d < q)
  <2> SUFFICES ASSUME d < q PROVE FALSE
    OBVIOUS
  <2>1. b * d \in Nat /\ b * q \in Nat /\ b * d + b <= b * q
    BY <1>3, Multiples
  <2> QED
    BY <2>1, <1>2, <1>3
<1>5. ~(q < d)
  <2> SUFFICES ASSUME q < d PROVE FALSE
    OBVIOUS
  <2>1. b * d \in Nat /\ b * q \in Nat /\ b * q + b <= b * d
    BY <1>3, Multiples
  <2> QED
    BY <2>1, <1>2, <1>3
<1>6. d = q
  BY <1>3, <1>4, <1>5
<1>7. e = r
  BY <1>6, <1>3, <1>2, <1>1
<1> QED
  BY <1>2, <1>3, <1>6, <1>7

(* One more.                                                               *)
OneMore(b, q, r, n) ==
  /\ r + 1 < b => n % b = r + 1 /\ n \div b = q
  /\ r + 1 = b => n % b = 0 /\ n \div b = q + 1 /\ n = (q + 1) * b + 0

LEMMA Following ==
  ASSUME NEW b \in Nat \ {0}, NEW q \in Nat, NEW r \in 0 .. b - 1, NEW n, n = q * b + r + 1
  PROVE  OneMore(b, q, r, n)
<1>1. ASSUME r + 1 < b PROVE n % b = r + 1 /\ n \div b = q
  <2>1. PICK t : t = r + 1 /\ t \in 0 .. b - 1
    BY <1>1
  <2>2. n = q * b + t
    BY <2>1, Commutes
  <2>3. t \in 0 .. b - 1
    BY <2>1
  <2>4. n \in Nat /\ n \div b = q /\ n % b = t
    BY <2>3, <2>2, Uniquely, Zenon
  <2> QED
    BY <2>1, <2>4, <1>1
<1>2. ASSUME r + 1 = b PROVE n % b = 0 /\ n \div b = q + 1 /\ n = (q + 1) * b + 0
  <2>1. n = (q + 1) * b + 0
    BY <1>2
  <2>2. q + 1 \in Nat /\ 0 \in 0 .. b - 1
    OBVIOUS
  <2>3. n % b = 0 /\ n \div b = q + 1
    BY <2>1, <2>2, Uniquely
  <2> QED
    BY <2>1, <2>3, <1>2
<1>3. r + 1 < b \/ r + 1 = b
  OBVIOUS
<1> QED
  BY <1>1, <1>2, <1>3 DEF OneMore

(* A sector further on, an entry further on.                               *)
LEMMA Capacity ==
  ASSUME NEW b \in Nat \ {0}, NEW q \in Nat, NEW n \in Nat, NEW r \in 0 .. b - 1, q < n
  PROVE  q * b + r + 1 <= n * b /\ q * b \in Nat /\ n * b \in Nat
<1>1. b * q \in Nat /\ b * n \in Nat /\ b * q + b <= b * n
  BY Multiples
<1>2. q * b = b * q /\ n * b = b * n
  BY Commutes
<1> QED
  BY <1>1, <1>2

LEMMA Exact ==
  ASSUME NEW b \in Nat \ {0}, NEW s \in Nat, s % b = 0
  PROVE  s \div b \in Nat /\ (s \div b) * b = s
<1>1. PICK q : q = s \div b /\ q \in Nat /\ s = b * q + (s % b)
  BY Divided
<1>2. b * q \in Nat /\ q * b = b * q
  BY <1>1, Commutes
<1>3. s = b * q
  BY <1>1, <1>2
<1> QED
  BY <1>1, <1>2, <1>3

(* The areas of a card.                                                    *)
LEMMA EntIs == ENT \in Nat \ {0} /\ ENT > 2
BY VolumeAssumption

(* The numbers of a boot record.                                           *)
LEMMA CardNumbers ==
  ASSUME NEW c, IsVolume(c)
  PROVE  /\ BootSector(c) \in Nat /\ c.totsec \in Nat /\ c.n_fats \in Nat /\ c.sects_fat \in Nat
         /\ c.rsvd \in Nat \ {0} /\ c.sects_clust \in Nat \ {0} /\ c.n_rootdir \in Nat \ {0}
         /\ c.n_rootdir % ENT = 0 /\ DataStart(c) <= BootSector(c) + c.totsec
         /\ c.boot \in {"sfd", "mbr"} /\ c \in Cards
BY CardAssumption DEF IsVolume, BootSector

(* The areas lie one behind the other.                                     *)
LEMMA CardAreas ==
  ASSUME NEW c, IsVolume(c)
  PROVE  /\ FatStart(c) \in Nat \ {0} /\ RootStart(c) \in Nat \ {0} /\ DataStart(c) \in Nat \ {0}
         /\ c.n_rootdir \div ENT \in Nat \ {0} /\ (c.n_rootdir \div ENT) * ENT = c.n_rootdir
         /\ DataStart(c) = RootStart(c) + c.n_rootdir \div ENT
         /\ RootStart(c) >= FatStart(c)
<1>1. FatStart(c) \in Nat \ {0}
  BY CardNumbers DEF FatStart
<1>2. c.n_fats * c.sects_fat \in Nat
  BY CardNumbers, Commutes
<1>3. RootStart(c) \in Nat \ {0} /\ RootStart(c) >= FatStart(c)
  BY <1>1, <1>2 DEF RootStart
<1>4. c.n_rootdir \in Nat \ {0} /\ c.n_rootdir % ENT = 0
  BY CardNumbers
<1>5. PICK q : q = c.n_rootdir \div ENT /\ q \in Nat /\ q * ENT = c.n_rootdir
  BY <1>4, EntIs, Exact
<1>6. q # 0
  <2>1. 0 * ENT = 0
    BY EntIs
  <2> QED
    BY <2>1, <1>5, <1>4
<1>7. DataStart(c) = RootStart(c) + q
  BY <1>5 DEF DataStart
<1> QED
  BY <1>1, <1>3, <1>5, <1>6, <1>7

(* The clusters lie inside the volume.                                     *)
LEMMA ClusterNumber ==
  ASSUME NEW c, IsVolume(c)
  PROVE  /\ Clusters(c) \in Nat /\ Clusters(c) >= 2 /\ Clusters(c) <= 65535
         /\ DataStart(c) + (Clusters(c) - 2) * c.sects_clust <= BootSector(c) + c.totsec
<1>1. PICK b \in Nat \ {0} : b = c.sects_clust
  BY CardNumbers
<1>2. PICK t : t = BootSector(c) + c.totsec - DataStart(c) /\ t \in Nat
  BY CardNumbers, CardAreas
<1>3. t = c.totsec - c.rsvd - c.sects_fat * c.n_fats - c.n_rootdir \div ENT
  <2>1. PICK f, r : f = c.sects_fat * c.n_fats /\ f = c.n_fats * c.sects_fat /\ f \in Nat
                    /\ r = c.n_rootdir \div ENT /\ r \in Nat
    BY CardNumbers, CardAreas, Commutes
  <2>2. DataStart(c) = BootSector(c) + c.rsvd + f + r
    BY <2>1 DEF DataStart, RootStart, FatStart
  <2> QED
    BY <2>1, <2>2, <1>2, CardNumbers
<1>4. Clusters(c) = t \div b + 2
  BY <1>1, <1>3 DEF Clusters
<1>5. PICK q : q = t \div b /\ q \in Nat /\ t = b * q + (t % b) /\ t % b \in 0 .. b - 1
  <2>1. t \div b \in Nat /\ t % b \in 0 .. b - 1 /\ t = b * (t \div b) + (t % b)
    BY <1>2, Divided
  <2> QED
    BY <2>1
<1>6. Clusters(c) = q + 2
  BY <1>4, <1>5
<1>7. q * b <= t /\ q * b \in Nat
  <2>1. b * q \in Nat /\ q * b = b * q
    BY <1>5, Commutes
  <2> QED
    BY <2>1, <1>5
<1>8. Clusters(c) <= 65535
  BY <1>6, <1>5, VolumeAssumption DEF IsVolume
<1>9. DataStart(c) + q * b <= BootSector(c) + c.totsec
  BY <1>7, <1>2, CardNumbers, CardAreas
<1>10. (Clusters(c) - 2) * c.sects_clust = q * b
  BY <1>6, <1>1, <1>5
<1> QED
  BY <1>5, <1>6, <1>8, <1>9, <1>10

LEMMA ClusterFits ==
  ASSUME NEW c, IsVolume(c), NEW cl \in 2 .. Clusters(c) - 1, NEW s \in 0 .. c.sects_clust - 1
  PROVE  /\ (cl - 2) * c.sects_clust \in Nat
         /\ DataStart(c) + (cl - 2) * c.sects_clust + s \in 0 .. BootSector(c) + c.totsec - 1
         /\ DataStart(c) + (cl - 2) * c.sects_clust + s >= DataStart(c)
<1>1. PICK b \in Nat \ {0} : b = c.sects_clust
  BY CardNumbers
<1>2. PICK q \in Nat : q = cl - 2
  BY ClusterNumber
<1>3. PICK n \in Nat : n = Clusters(c) - 2 /\ q < n
  BY ClusterNumber, <1>2
<1>4. q * b + s + 1 <= n * b /\ q * b \in Nat /\ n * b \in Nat
  BY <1>1, <1>3, Capacity
<1>5. DataStart(c) + n * b <= BootSector(c) + c.totsec
  BY ClusterNumber, <1>1, <1>3
<1>6. DataStart(c) \in Nat /\ BootSector(c) \in Nat /\ c.totsec \in Nat /\ s \in Nat
  BY CardNumbers, CardAreas
<1>7. DataStart(c) + q * b + s <= BootSector(c) + c.totsec - 1
  BY <1>4, <1>5, <1>6
<1> QED
  BY <1>1, <1>2, <1>4, <1>6, <1>7

(* The directories and the chain of a card.                                *)
LEMMA CardData ==
  ASSUME NEW c, IsVolume(c)
  PROVE  /\ c.root \in Seq(Entries) /\ Len(c.root) <= c.n_rootdir /\ NamesDiffer(c.root)
         /\ c.chain \in Seq(2 .. Clusters(c) - 1)
         /\ \A p, q \in 1 .. Len(c.chain) : c.chain[p] = c.chain[q] => p = q
         /\ c.dir \in Seq(Entries) /\ Len(c.dir) <= Len(c.chain) * c.sects_clust * ENT
         /\ NamesDiffer(c.dir)
         /\ \A i \in DOMAIN c.root :
              IsDirectory(c.root[i]) => c.chain # <<>> /\ c.root[i].clust = c.chain[1]
BY CardAssumption DEF IsVolume, IsInjective

LEMMA ChainCluster ==
  ASSUME NEW c, IsVolume(c), NEW p \in 1 .. Len(c.chain)
  PROVE  c.chain[p] \in 2 .. Clusters(c) - 1
<1>1. PICK S : S = 2 .. Clusters(c) - 1 /\ c.chain \in Seq(S)
  BY CardData
<1>2. c.chain[p] \in S
  BY <1>1, ElementOfSeq
<1> QED
  BY <1>1, <1>2

(* A sector gives back the cluster it is in, and its place in it.          *)
LEMMA SectorIs ==
  ASSUME NEW c, IsVolume(c), NEW p \in 1 .. Len(c.chain), NEW s \in 0 .. c.sects_clust - 1,
         NEW x, x = DataStart(c) + (c.chain[p] - 2) * c.sects_clust + s
  PROVE  /\ (x - DataStart(c)) \div c.sects_clust + 2 = c.chain[p]
         /\ (x - DataStart(c)) % c.sects_clust = s
<1>1. PICK b \in Nat \ {0} : b = c.sects_clust
  BY CardNumbers
<1>2. c.chain[p] \in 2 .. Clusters(c) - 1
  BY ChainCluster
<1>3. PICK q \in Nat : q = c.chain[p] - 2
  BY <1>2, ClusterNumber
<1>4. PICK m : m = q * b /\ m \in Nat
  BY Commutes
<1>5. PICK t : t = s /\ t \in 0 .. b - 1
  BY <1>1
<1>6. PICK n : n = m + t
  OBVIOUS
<1>7. x - DataStart(c) = n
  BY <1>1, <1>3, <1>4, <1>5, <1>6, CardAreas
<1>8. n \in Nat /\ n \div b = q /\ n % b = t
  <2>1. n = q * b + t
    BY <1>4, <1>6
  <2>2. t \in 0 .. b - 1
    BY <1>5
  <2> QED
    BY <2>1, <2>2, Uniquely, Zenon
<1>9. q + 2 = c.chain[p]
  BY <1>2, <1>3, ClusterNumber
<1> QED
  BY <1>1, <1>5, <1>7, <1>8, <1>9

(* An entry of the window is the entry the DIR object stands at.           *)
LEMMA RootEntry ==
  ASSUME NEW c, IsVolume(c), NEW s \in 0 .. c.n_rootdir \div ENT - 1, NEW k \in 0 .. ENT - 1,
         NEW d, RootPlace(c, d, s, k), NEW w, w.of = c, w.sect = d.sect
  PROVE  Entry(w, d.index % ENT) = At(c.root, d.index + 1)
<1>1. s \in Nat /\ k \in Nat /\ w.sect \in RootStart(c) .. DataStart(c) - 1
  BY CardAreas, EntIs DEF RootPlace
<1>2. d.index = s * ENT + k
  BY DEF RootPlace
<1>3. d.index % ENT = k
  BY <1>1, <1>2, EntIs, Uniquely, Zenon
<1>4. Entry(w, k) = At(c.root, (w.sect - RootStart(c)) * ENT + k + 1)
  BY <1>1, Zenon DEF Entry
<1>5. w.sect - RootStart(c) = s
  BY <1>1, CardAreas DEF RootPlace
<1> QED
  BY <1>2, <1>3, <1>4, <1>5

(* A cluster has one place in the chain.                                   *)
LEMMA PlaceIs ==
  ASSUME NEW c, IsVolume(c), NEW p \in 1 .. Len(c.chain)
  PROVE  /\ (CHOOSE q \in DOMAIN c.chain : c.chain[q] = c.chain[p]) = p
         /\ \E i \in DOMAIN c.chain : c.chain[i] = c.chain[p]
<1>1. DOMAIN c.chain = 1 .. Len(c.chain)
  BY CardData
<1>2. \A q \in 1 .. Len(c.chain) : c.chain[q] = c.chain[p] <=> q = p
  BY CardData
<1> QED
  BY <1>1, <1>2

LEMMA DirEntry ==
  ASSUME NEW c, IsVolume(c), NEW p \in 1 .. Len(c.chain), NEW s \in 0 .. c.sects_clust - 1,
         NEW k \in 0 .. ENT - 1, NEW d, DirPlace(c, d, p, s, k), NEW w, w.of = c, w.sect = d.sect
  PROVE  Entry(w, d.index % ENT) = At(c.dir, d.index + 1)
<1>1. d.sect = DataStart(c) + (c.chain[p] - 2) * c.sects_clust + s
  BY DEF DirPlace
<1>2. c.chain[p] \in 2 .. Clusters(c) - 1
  BY ChainCluster
<1>3. w.sect \notin RootStart(c) .. DataStart(c) - 1
  <2>1. w.sect >= DataStart(c) /\ w.sect \in Int
    BY <1>1, <1>2, ClusterFits
  <2> QED
    BY <2>1, CardAreas
<1>4. /\ (w.sect - DataStart(c)) \div c.sects_clust + 2 = c.chain[p]
      /\ (w.sect - DataStart(c)) % c.sects_clust = s
  <2>1. w.sect = DataStart(c) + (c.chain[p] - 2) * c.sects_clust + s
    BY <1>1
  <2> QED
    BY <2>1, SectorIs
<1>5. Entry(w, k) = At(c.dir, ((p - 1) * c.sects_clust + s) * ENT + k + 1)
  <2>1. PICK cl : cl = c.chain[p]
    OBVIOUS
  <2>2. /\ (CHOOSE q \in DOMAIN c.chain : c.chain[q] = cl) = p
        /\ \E i \in DOMAIN c.chain : c.chain[i] = cl
    BY <2>1, PlaceIs
  <2>3. /\ (w.sect - DataStart(c)) \div c.sects_clust + 2 = cl
        /\ (w.sect - DataStart(c)) % c.sects_clust = s
    BY <2>1, <1>4
  <2>4. Entry(w, k) = At(w.of.dir, ((p - 1) * w.of.sects_clust + s) * ENT + k + 1)
    BY <1>3, <2>2, <2>3 DEF Entry
  <2> QED
    BY <2>4
<1>6. PICK m : m = (p - 1) * c.sects_clust + s /\ m \in Nat
  <2>1. PICK r \in Nat : r = p - 1
    OBVIOUS
  <2>2. PICK b \in Nat : b = c.sects_clust
    BY CardNumbers
  <2>3. r * b \in Nat
    BY Commutes
  <2> QED
    BY <2>1, <2>2, <2>3
<1>7. d.index = m * ENT + k
  BY <1>6 DEF DirPlace
<1>8. d.index % ENT = k
  <2>1. m \in Nat /\ ENT \in Nat \ {0}
    BY <1>6, EntIs
  <2> QED
    BY <2>1, <1>7, Uniquely, Zenon
<1> QED
  BY <1>5, <1>6, <1>7, <1>8

(* A sequence of entries, and what lies behind its end.                    *)
LEMMA AtIs ==
  ASSUME NEW s \in Seq(Entries), NEW i \in Nat
  PROVE  /\ i + 1 <= Len(s) => At(s, i + 1) = s[i + 1] /\ At(s, i + 1).kind \in Kinds
         /\ ~(i + 1 <= Len(s)) => At(s, i + 1).kind = "end"
         /\ At(s, i + 1).kind = "end" <=> i >= Len(s)
<1>1. Len(s) \in Nat
  OBVIOUS
<1>2. CASE i + 1 <= Len(s)
  <2>1. s[i + 1] \in Entries
    <3>1. i + 1 \in 1 .. Len(s)
      BY <1>1, <1>2
    <3> QED
      BY <3>1, ElementOfSeq
  <2>2. At(s, i + 1) = s[i + 1] /\ At(s, i + 1).kind \in Kinds
    BY <1>2, <2>1 DEF At, Entries
  <2>3. At(s, i + 1).kind # "end"
    BY <2>2 DEF Kinds
  <2> QED
    BY <1>1, <1>2, <2>2, <2>3
<1>3. CASE ~(i + 1 <= Len(s))
  <2>1. At(s, i + 1).kind = "end"
    BY <1>3 DEF At, EndEntry
  <2> QED
    BY <1>1, <1>3, <2>1
<1> QED
  BY <1>2, <1>3

(* The window.                                                             *)
Coherent(m) ==
  /\ m = [ok |-> m.ok, win |-> m.win, winsect |-> m.winsect] /\ m.ok \in BOOLEAN
  /\ m.winsect \in Nat /\ m.win = [of |-> m.win.of, sect |-> m.win.sect]
  /\ m.win.of \in Cards \cup {None}
  /\ m.winsect # 0 => m.win.of = fs.of /\ m.win.sect = m.winsect

LEMMA WindowStarts ==
  ASSUME MountOK, fs # Zero
  PROVE  Coherent(Window) /\ Window.ok = TRUE /\ Geometry(fs) /\ IsVolume(fs.of)
<1>1. Geometry(fs)
  BY DEF MountOK
<1>2. fs.winsect \in Nat
  BY <1>1 DEF Geometry
<1> QED
  BY <1>1, <1>2 DEF MountOK, Coherent, Window, WindowIsCoherent, Geometry

(* A sector that was read is the sector asked for, of the mounted card.    *)
LEMMA Moves ==
  ASSUME MountOK, fs # Zero, NEW m, Coherent(m), NEW s \in Nat, NEW ok \in Answers
  PROVE  /\ Coherent(move_window(m, s, ok))
         /\ move_window(m, s, ok).ok => m.ok
         /\ s # 0 /\ move_window(m, s, ok).ok =>
              move_window(m, s, ok).win.of = fs.of /\ move_window(m, s, ok).win.sect = s
<1>1. ok \in BOOLEAN /\ (ok => slot = fs.of /\ slot \in Cards)
  BY DEF Answers, MountOK
<1>2. CASE s \in {m.winsect, 0} \/ ~m.ok
  <2>1. move_window(m, s, ok) = m
    BY <1>2 DEF move_window
  <2> QED
    BY <2>1, <1>2 DEF Coherent
<1>3. CASE ~(s \in {m.winsect, 0} \/ ~m.ok) /\ ok
  <2>1. move_window(m, s, ok) = [ok |-> TRUE, win |-> [of |-> slot, sect |-> s], winsect |-> s]
    BY <1>3 DEF move_window
  <2> QED
    BY <2>1, <1>1, <1>3 DEF Coherent
<1>4. CASE ~(s \in {m.winsect, 0} \/ ~m.ok) /\ ~ok
  <2>1. move_window(m, s, ok) = [m EXCEPT !.ok = FALSE]
    BY <1>4 DEF move_window
  <2>2. move_window(m, s, ok) = [ok |-> FALSE, win |-> m.win, winsect |-> m.winsect]
    BY <2>1 DEF Coherent
  <2> QED
    BY <2>2, <1>4 DEF Coherent
<1> QED
  BY <1>1, <1>2, <1>3, <1>4

(* The FAT.                                                                *)
LEMMA LinkIs ==
  ASSUME NEW c, IsVolume(c), NEW p \in 1 .. Len(c.chain)
  PROVE  FatLink(c, c.chain[p]) = IF p = Len(c.chain) THEN EndMark ELSE c.chain[p + 1]
<1>1. PICK cl : cl = c.chain[p]
  OBVIOUS
<1>2. /\ (CHOOSE q \in DOMAIN c.chain : c.chain[q] = cl) = p
      /\ \E i \in DOMAIN c.chain : c.chain[i] = cl
  BY <1>1, PlaceIs
<1>3. FatLink(c, cl) = IF p = Len(c.chain) THEN EndMark ELSE c.chain[p + 1]
  BY <1>2 DEF FatLink
<1> QED
  BY <1>1, <1>3

LEMMA FatSector ==
  ASSUME MountOK, fs # Zero, NEW b \in Nat
  PROVE  fs.fatbase + b \div FATBYTES \in Nat \ {0}
<1>1. IsVolume(fs.of) /\ fs.fatbase = FatStart(fs.of)
  BY DEF MountOK, Geometry
<1>2. fs.fatbase \in Nat \ {0}
  BY <1>1, CardAreas
<1>3. b \div FATBYTES \in Nat
  <2>1. FATBYTES \in Nat \ {0}
    BY VolumeAssumption
  <2> QED
    BY <2>1, Divided
<1> QED
  BY <1>2, <1>3

(* A link read without a failure is the link of the mounted card.          *)
LEMMA Clustered ==
  ASSUME MountOK, fs # Zero, NEW m, Coherent(m), NEW cl \in 2 .. fs.max_clust - 1,
         NEW ok \in [1 .. 3 -> Answers]
  PROVE  /\ Coherent(get_cluster(m, cl, ok).m)
         /\ get_cluster(m, cl, ok).next =
              IF get_cluster(m, cl, ok).m.ok THEN FatLink(fs.of, cl) ELSE 1
<1>1. ok[2] \in Answers /\ ok[3] \in Answers
  OBVIOUS
<1>2. cl \in Nat /\ fs.max_clust \in Int
  BY ClusterNumber DEF MountOK, Geometry
<1>3. PICK bc \in Nat : bc = (cl * 3) \div 2
  BY <1>2
<1>4. PICK s1, s2, s3 : /\ s1 = fs.fatbase + bc \div FATBYTES /\ s1 \in Nat \ {0}
                        /\ s2 = fs.fatbase + (bc + 1) \div FATBYTES /\ s2 \in Nat \ {0}
                        /\ s3 = fs.fatbase + (2 * cl) \div FATBYTES /\ s3 \in Nat \ {0}
  <2>1. bc + 1 \in Nat /\ 2 * cl \in Nat
    BY <1>2
  <2> QED
    BY <2>1, FatSector
<1>5. PICK n : n = IF fs.type = 12 THEN move_window(move_window(m, s1, ok[2]), s2, ok[3])
                   ELSE move_window(m, s3, ok[2])
  OBVIOUS
<1>6. Coherent(n) /\ (n.ok => n.win.of = fs.of)
  <2>1. CASE fs.type = 12
    <3>1. PICK x : x = move_window(m, s1, ok[2]) /\ Coherent(x)
      BY <1>1, <1>4, Moves
    <3>2. n = move_window(x, s2, ok[3])
      BY <1>5, <2>1, <3>1
    <3>3. s2 \in Nat /\ s2 # 0
      BY <1>4
    <3>4. ok[3] \in Answers
      BY <1>1
    <3>5. /\ Coherent(move_window(x, s2, ok[3]))
          /\ move_window(x, s2, ok[3]).ok => move_window(x, s2, ok[3]).win.of = fs.of
      BY <3>1, <3>3, <3>4, Moves, Zenon
    <3> QED
      BY <3>2, <3>5
  <2>2. CASE fs.type # 12
    <3>1. n = move_window(m, s3, ok[2])
      BY <1>5, <2>2
    <3>2. s3 \in Nat /\ s3 # 0
      BY <1>4
    <3> QED
      BY <3>1, <3>2, <1>1, Moves
  <2> QED
    BY <2>1, <2>2
<1>7. get_cluster(m, cl, ok) = [m |-> n, next |-> IF n.ok THEN FatLink(n.win.of, cl) ELSE 1]
  BY <1>3, <1>4, <1>5, Zenon DEF get_cluster
<1>8. get_cluster(m, cl, ok).m = n
  BY <1>7
<1>9. get_cluster(m, cl, ok).next = IF n.ok THEN FatLink(n.win.of, cl) ELSE 1
  BY <1>7
<1> QED
  BY <1>6, <1>8, <1>9

LEMMA Reached ==
  ASSUME MountOK, fs # Zero, NEW cl \in 2 .. fs.max_clust - 1
  PROVE  clust2sect(cl) = DataStart(fs.of) + (cl - 2) * fs.of.sects_clust + 0
<1>1. IsVolume(fs.of) /\ fs.max_clust = Clusters(fs.of) /\ fs.sects_clust = fs.of.sects_clust
      /\ fs.database = DataStart(fs.of)
  BY DEF MountOK, Geometry
<1>2. cl - 2 \in 0 .. fs.max_clust - 3
  BY <1>1, ClusterNumber
<1>3. clust2sect(cl) = (cl - 2) * fs.of.sects_clust + DataStart(fs.of)
  BY <1>1, <1>2 DEF clust2sect
<1>4. DataStart(fs.of) \in Nat /\ (cl - 2) * fs.of.sects_clust \in Nat
  <2>1. 0 \in 0 .. fs.of.sects_clust - 1
    BY <1>1, CardNumbers
  <2> QED
    BY <1>1, <2>1, ClusterFits, CardAreas
<1> QED
  BY <1>3, <1>4

(* The index counts the entries of the directory.                          *)
LEMMA IndexSplit ==
  ASSUME NEW c, IsVolume(c), NEW p \in 1 .. Len(c.chain), NEW s \in 0 .. c.sects_clust - 1,
         NEW k \in 0 .. ENT - 1, NEW d, DirPlace(c, d, p, s, k)
  PROVE  /\ d.index \in Nat
         /\ k + 1 < ENT => (d.index + 1) % ENT # 0
              /\ d.index + 1 = ((p - 1) * c.sects_clust + s) * ENT + (k + 1)
         /\ k + 1 = ENT /\ s + 1 < c.sects_clust =>
              /\ (d.index + 1) % ENT = 0 /\ ((d.index + 1) \div ENT) % c.sects_clust # 0
              /\ d.index + 1 = ((p - 1) * c.sects_clust + (s + 1)) * ENT + 0
         /\ k + 1 = ENT /\ s + 1 = c.sects_clust =>
              /\ (d.index + 1) % ENT = 0 /\ ((d.index + 1) \div ENT) % c.sects_clust = 0
              /\ d.index + 1 = (((p + 1) - 1) * c.sects_clust + 0) * ENT + 0
              /\ d.index + 1 = p * c.sects_clust * ENT
<1>1. PICK b \in Nat \ {0} : b = c.sects_clust
  BY CardNumbers
<1>2. PICK e \in Nat \ {0} : e = ENT
  BY EntIs
<1>3. PICK r \in Nat : r = p - 1
  OBVIOUS
<1>4. PICK m : m = r * b + s /\ m \in Nat
  <2>1. r * b \in Nat
    BY Commutes
  <2> QED
    BY <2>1
<1>5. PICK u : u = m * e + k /\ u \in Nat
  <2>1. m * e \in Nat
    BY <1>4, Commutes
  <2> QED
    BY <2>1
<1>6. d.index = u
  BY <1>1, <1>2, <1>3, <1>4, <1>5 DEF DirPlace
<1>7. k \in 0 .. e - 1 /\ s \in 0 .. b - 1
  BY <1>1, <1>2
<1>8. PICK v : v = m * e + k + 1 /\ v = u + 1
  BY <1>5
<1>9. /\ k + 1 < e => v % e = k + 1
      /\ k + 1 = e => v % e = 0 /\ v \div e = m + 1 /\ v = (m + 1) * e + 0
  <2>1. m \in Nat /\ v = m * e + k + 1 /\ k \in 0 .. e - 1 /\ e \in Nat \ {0}
    BY <1>2, <1>4, <1>7, <1>8
  <2>2. OneMore(e, m, k, v)
    BY <2>1, Following, Zenon
  <2> QED
    BY <2>2 DEF OneMore
<1>10. PICK x : x = r * b + s + 1 /\ x = m + 1
  BY <1>4
<1>11. /\ s + 1 < b => x % b = s + 1
       /\ s + 1 = b => x % b = 0 /\ x = (r + 1) * b + 0
  <2>1. x = r * b + s + 1 /\ s \in 0 .. b - 1 /\ r \in Nat /\ b \in Nat \ {0}
    BY <1>1, <1>3, <1>7, <1>10
  <2>2. OneMore(b, r, s, x)
    BY <2>1, Following, Zenon
  <2> QED
    BY <2>2 DEF OneMore
<1>12. k + 1 < e => v % e # 0 /\ v = m * e + (k + 1)
  BY <1>8, <1>9, <1>4, Commutes
<1>13. k + 1 = e => v % e = 0 /\ v \div e = x /\ v = x * e + 0
  BY <1>9, <1>10
<1>14. s + 1 < b => x % b # 0 /\ x = r * b + (s + 1)
  BY <1>10, <1>11, Commutes
<1>15. s + 1 = b => x % b = 0 /\ x = ((p + 1) - 1) * b + 0 /\ x = p * b
  <2>1. ((p + 1) - 1) * b + 0 = p * b /\ (r + 1) * b + 0 = p * b
    <3>1. r + 1 = p /\ (p + 1) - 1 = p /\ p * b \in Nat
      BY <1>3, Commutes
    <3> QED
      BY <3>1
  <2> QED
    BY <2>1, <1>11
<1>16. k + 1 < ENT => (d.index + 1) % ENT # 0
              /\ d.index + 1 = ((p - 1) * c.sects_clust + s) * ENT + (k + 1)
  BY <1>12, <1>6, <1>8, <1>2, <1>1, <1>3, <1>4
<1>17. ASSUME k + 1 = ENT, s + 1 < c.sects_clust
       PROVE  /\ (d.index + 1) % ENT = 0 /\ ((d.index + 1) \div ENT) % c.sects_clust # 0
              /\ d.index + 1 = ((p - 1) * c.sects_clust + (s + 1)) * ENT + 0
  <2>1. v % e = 0 /\ v \div e = x /\ v = x * e + 0
    BY <1>17, <1>13, <1>2
  <2>2. x % b # 0 /\ x = r * b + (s + 1)
    BY <1>17, <1>14, <1>1
  <2>3. d.index + 1 = v
    BY <1>6, <1>8
  <2> QED
    BY <2>1, <2>2, <2>3, <1>1, <1>2, <1>3
<1>18. ASSUME k + 1 = ENT, s + 1 = c.sects_clust
       PROVE  /\ (d.index + 1) % ENT = 0 /\ ((d.index + 1) \div ENT) % c.sects_clust = 0
              /\ d.index + 1 = (((p + 1) - 1) * c.sects_clust + 0) * ENT + 0
              /\ d.index + 1 = p * c.sects_clust * ENT
  <2>1. v % e = 0 /\ v \div e = x /\ v = x * e + 0
    BY <1>18, <1>13, <1>2
  <2>2. x % b = 0 /\ x = ((p + 1) - 1) * b + 0 /\ x = p * b
    BY <1>18, <1>15, <1>1
  <2>3. d.index + 1 = v
    BY <1>6, <1>8
  <2>4. v = p * b * e
    <3>1. x * e \in Nat
      BY <1>10, <1>4, Commutes
    <3>2. v = x * e
      BY <2>1, <3>1
    <3> QED
      BY <3>2, <2>2
  <2> QED
    BY <2>1, <2>2, <2>3, <2>4, <1>1, <1>2
<1>19. d.index \in Nat
  BY <1>5, <1>6
<1> QED
  BY <1>16, <1>17, <1>18, <1>19

(* One entry further: what a walk along the directory makes of its object, *)
(* and when it ends.                                                       *)
OneFurther(c, d, n) ==
  /\ IsDir(n.d) /\ n.d.id = d.id /\ n.d.open = d.open /\ Coherent(n.m) /\ n.ok \in BOOLEAN
  /\ n.ok => InDir(c, n.d) /\ n.d.index = d.index + 1
  /\ ~n.ok => n.d.index = d.index /\ (n.m.ok => d.index + 1 >= Len(c.dir))

(* next_dir_entry in the directory of the images.                          *)
LEMMA NextDir ==
  ASSUME MountOK, fs # Zero, NEW d, IsDir(d), InDir(fs.of, d), NEW m, Coherent(m),
         NEW ok \in [1 .. 3 -> Answers]
  PROVE  OneFurther(fs.of, d, next_dir_entry(d, m, ok)) /\ d.index \in Nat
<1>1. PICK c : c = fs.of /\ IsVolume(c) /\ fs.max_clust = Clusters(c) /\ fs.sects_clust = c.sects_clust
  BY DEF MountOK, Geometry
<1>2. PICK p \in 1 .. Len(c.chain), s \in 0 .. c.sects_clust - 1, k \in 0 .. ENT - 1 :
        DirPlace(c, d, p, s, k)
  BY <1>1 DEF InDir
<1>3. c.chain[p] \in 2 .. Clusters(c) - 1 /\ c.sects_clust \in Nat \ {0}
  BY <1>1, <1>2, ChainCluster, CardNumbers
<1>4. /\ d.clust = c.chain[p] /\ d.clust # 0
      /\ d.sect = DataStart(c) + (c.chain[p] - 2) * c.sects_clust + s
  BY <1>2, <1>3, <1>1, ClusterNumber DEF DirPlace
<1>5. d.index \in Nat
  BY <1>1, <1>2, IndexSplit
<1> DEFINE n == next_dir_entry(d, m, ok)
           step == [d EXCEPT !.index = d.index + 1]
<1>6. step = [id |-> d.id, index |-> d.index + 1, clust |-> d.clust, sect |-> d.sect, open |-> d.open]
  BY DEF IsDir
<1>7. CASE k + 1 < ENT
  <2>1. /\ (d.index + 1) % ENT # 0
        /\ d.index + 1 = ((p - 1) * c.sects_clust + s) * ENT + (k + 1)
    BY <1>1, <1>2, <1>7, IndexSplit
  <2>2. n = [ok |-> TRUE, d |-> step, m |-> m]
    BY <2>1, Zenon DEF next_dir_entry
  <2>3. DirPlace(c, step, p, s, k + 1)
    BY <1>4, <1>6, <2>1 DEF DirPlace
  <2>4. k + 1 \in 0 .. ENT - 1
    BY <1>7, EntIs
  <2>5. InDir(c, step)
    BY <2>3, <2>4 DEF InDir
  <2> HIDE DEF step, n
  <2> QED
    BY <1>1, <1>5, <1>6, <2>2, <2>5 DEF OneFurther, IsDir, n
<1>8. CASE k + 1 = ENT /\ s + 1 < c.sects_clust
  <2>1. /\ (d.index + 1) % ENT = 0 /\ ((d.index + 1) \div ENT) % c.sects_clust # 0
        /\ d.index + 1 = ((p - 1) * c.sects_clust + (s + 1)) * ENT + 0
    BY <1>1, <1>2, <1>8, IndexSplit
  <2>2. n = [ok |-> TRUE, d |-> [step EXCEPT !.sect = @ + 1], m |-> m]
    BY <2>1, <1>1, <1>4, Zenon DEF next_dir_entry
  <2>3. PICK t : t = [step EXCEPT !.sect = @ + 1]
    OBVIOUS
  <2>4. t = [id |-> d.id, index |-> d.index + 1, clust |-> d.clust, sect |-> d.sect + 1, open |-> d.open]
    BY <1>6, <2>3
  <2>5. t.sect = DataStart(c) + (c.chain[p] - 2) * c.sects_clust + (s + 1)
    <3>1. PICK x : x = (c.chain[p] - 2) * c.sects_clust /\ x \in Nat
      BY <1>1, <1>2, <1>3, ClusterFits
    <3>2. PICK y : y = DataStart(c) /\ y \in Nat
      BY <1>1, CardAreas
    <3>3. d.sect = y + x + s
      BY <3>1, <3>2, <1>4
    <3>4. t.sect = d.sect + 1
      BY <2>4
    <3>5. s \in Nat
      OBVIOUS
    <3>6. t.sect = y + x + (s + 1)
      <4>1. x \in Nat /\ y \in Nat
        BY <3>1, <3>2
      <4> QED
        BY <4>1, <3>3, <3>4, <3>5
    <3> QED
      BY <3>1, <3>2, <3>6
  <2>6. DirPlace(c, t, p, s + 1, 0)
    BY <1>4, <2>1, <2>4, <2>5 DEF DirPlace
  <2>7. s + 1 \in 0 .. c.sects_clust - 1 /\ 0 \in 0 .. ENT - 1
    BY <1>8, <1>3, EntIs
  <2>8. InDir(c, t)
    BY <2>6, <2>7 DEF InDir
  <2>9. n = [ok |-> TRUE, d |-> t, m |-> m]
    BY <2>2, <2>3
  <2> HIDE DEF step, n
  <2> QED
    BY <1>1, <1>5, <2>4, <2>8, <2>9 DEF OneFurther, IsDir, n
<1>9. CASE k + 1 = ENT /\ s + 1 = c.sects_clust
  <2>1. /\ (d.index + 1) % ENT = 0 /\ ((d.index + 1) \div ENT) % c.sects_clust = 0
        /\ d.index + 1 = (((p + 1) - 1) * c.sects_clust + 0) * ENT + 0
        /\ d.index + 1 = p * c.sects_clust * ENT
    BY <1>1, <1>2, <1>9, IndexSplit
  <2>2. PICK g : g = get_cluster(m, d.clust, ok)
    OBVIOUS
  <2>3. /\ Coherent(g.m) /\ g.next = IF g.m.ok THEN FatLink(c, c.chain[p]) ELSE 1
    BY <2>2, <1>1, <1>3, <1>4, Clustered
  <2>4. CASE g.next \in 2 .. fs.max_clust - 1
    <3>1. n = [ok |-> TRUE, m |-> g.m, d |-> [step EXCEPT !.clust = g.next, !.sect = clust2sect(g.next)]]
      BY <2>1, <2>2, <2>4, <1>1, <1>4, Zenon DEF next_dir_entry
    <3>2. p # Len(c.chain) /\ g.next = c.chain[p + 1]
      <4>1. g.m.ok
        BY <2>3, <2>4
      <4>2. EndMark \notin 2 .. fs.max_clust - 1
        BY <1>1, ClusterNumber DEF EndMark
      <4> QED
        BY <4>1, <4>2, <2>3, <2>4, <1>1, <1>2, LinkIs
    <3>3. p + 1 \in 1 .. Len(c.chain)
      <4>1. Len(c.chain) \in Nat
        BY <1>1, CardData
      <4> QED
        BY <4>1, <3>2
    <3>4. clust2sect(g.next) = DataStart(c) + (c.chain[p + 1] - 2) * c.sects_clust + 0
      BY <2>4, <3>2, <1>1, Reached
    <3>5. PICK t : t = [step EXCEPT !.clust = g.next, !.sect = clust2sect(g.next)]
      OBVIOUS
    <3>6. t = [id |-> d.id, index |-> d.index + 1, clust |-> g.next, sect |-> clust2sect(g.next),
               open |-> d.open]
      BY <1>6, <3>5
    <3>7. DirPlace(c, t, p + 1, 0, 0)
      BY <3>2, <3>4, <3>6, <2>1 DEF DirPlace
    <3>8. 0 \in 0 .. c.sects_clust - 1 /\ 0 \in 0 .. ENT - 1
      BY <1>3, EntIs
    <3>9. InDir(c, t)
      BY <3>3, <3>7, <3>8 DEF InDir
    <3>10. n = [ok |-> TRUE, m |-> g.m, d |-> t]
      BY <3>1, <3>5
    <3> HIDE DEF step, n
    <3> QED
      BY <1>1, <1>5, <2>3, <3>6, <3>9, <3>10 DEF OneFurther, IsDir, n
  <2>5. CASE g.next \notin 2 .. fs.max_clust - 1
    <3>1. n = [ok |-> g.next \in 2 .. fs.max_clust - 1, m |-> g.m, d |-> [d EXCEPT !.sect = @ + 1]]
      BY <2>1, <2>2, <2>5, <1>1, <1>4, Zenon DEF next_dir_entry
    <3>2. PICK t : t = [d EXCEPT !.sect = @ + 1]
      OBVIOUS
    <3>3. t = [id |-> d.id, index |-> d.index, clust |-> d.clust, sect |-> d.sect + 1, open |-> d.open]
      BY <3>2 DEF IsDir
    <3>4. g.m.ok => d.index + 1 >= Len(c.dir)
      <4> SUFFICES ASSUME g.m.ok PROVE d.index + 1 >= Len(c.dir)
        OBVIOUS
      <4>1. p = Len(c.chain)
        <5> SUFFICES ASSUME p # Len(c.chain) PROVE FALSE
          OBVIOUS
        <5>1. g.next = c.chain[p + 1]
          BY <2>3, <1>1, <1>2, LinkIs
        <5>2. Len(c.chain) \in Nat
          BY <1>1, CardData
        <5>3. p + 1 \in 1 .. Len(c.chain)
          BY <5>2
        <5> QED
          BY <5>1, <5>3, <2>5, <1>1, ChainCluster
      <4>2. d.index + 1 = Len(c.chain) * c.sects_clust * ENT
        BY <2>1, <4>1
      <4>3. Len(c.dir) <= Len(c.chain) * c.sects_clust * ENT
        BY <1>1, CardData
      <4>4. Len(c.dir) \in Nat
        BY <1>1, CardData
      <4> QED
        BY <4>2, <4>3, <4>4, <1>5
    <3>5. n.ok \in BOOLEAN /\ ~n.ok /\ n.m = g.m /\ n.d = t
      <4>1. PICK v : v = (g.next \in 2 .. fs.max_clust - 1)
        OBVIOUS
      <4>2. v \in BOOLEAN
        BY <4>1
      <4>4. ~v
        BY <4>1, <2>5, Zenon
      <4>3. n = [ok |-> v, m |-> g.m, d |-> t]
        BY <4>1, <3>1, <3>2, Zenon
      <4> HIDE DEF n
      <4> QED
        BY <4>2, <4>3, <4>4
    <3> HIDE DEF step, n
    <3> QED
      BY <1>1, <1>5, <2>3, <3>3, <3>4, <3>5 DEF OneFurther, IsDir, n
  <2> QED
    BY <2>4, <2>5
<1> QED
  <2>1. k + 1 < ENT \/ (k + 1 = ENT /\ (s + 1 < c.sects_clust \/ s + 1 = c.sects_clust))
    BY <1>3, EntIs
  <2> QED
    BY <2>1, <1>7, <1>8, <1>9

(* next_dir_entry in the root.                                             *)
LEMMA NextRoot ==
  ASSUME MountOK, fs # Zero, NEW d, IsDir(d), InRoot(fs.of, d), NEW m, Coherent(m),
         NEW ok \in [1 .. 3 -> Answers], NEW n, n = next_dir_entry(d, m, ok)
  PROVE  /\ d.index \in Nat /\ n.m = m /\ n.ok \in BOOLEAN
         /\ n.ok => IsDir(n.d) /\ InRoot(fs.of, n.d) /\ n.d.index = d.index + 1
         /\ ~n.ok => d.index + 1 >= Len(fs.of.root)
<1>1. PICK c : c = fs.of /\ IsVolume(c) /\ fs.n_rootdir = c.n_rootdir
  BY DEF MountOK, Geometry
<1>2. PICK r : r = c.n_rootdir \div ENT /\ r \in Nat /\ r * ENT = c.n_rootdir
  BY <1>1, CardAreas
<1>3. PICK s \in 0 .. r - 1, k \in 0 .. ENT - 1 : RootPlace(c, d, s, k)
  BY <1>1, <1>2 DEF InRoot
<1>4. d.clust = 0 /\ d.sect = RootStart(c) + s /\ d.index = s * ENT + k
  BY <1>3 DEF RootPlace
<1>5. s \in Nat /\ k \in Nat /\ ENT \in Nat \ {0}
  BY <1>3, EntIs
<1>6. d.index \in Nat
  <2>1. s * ENT \in Nat
    BY <1>5, Commutes
  <2> QED
    BY <2>1, <1>4, <1>5
<1>7. PICK v : v = s * ENT + k + 1 /\ v = d.index + 1
  BY <1>4
<1>8. OneMore(ENT, s, k, v)
  BY <1>5, <1>3, <1>7, Following, Zenon
<1> DEFINE step == [d EXCEPT !.index = d.index + 1]
<1>9. step = [id |-> d.id, index |-> d.index + 1, clust |-> d.clust, sect |-> d.sect, open |-> d.open]
  BY DEF IsDir
<1>10. CASE k + 1 < ENT
  <2>1. v % ENT # 0
    BY <1>8, <1>10, <1>5 DEF OneMore
  <2>2. n = [ok |-> TRUE, d |-> step, m |-> m]
    BY <2>1, <1>7, Zenon DEF next_dir_entry
  <2>3. v = s * ENT + (k + 1)
    BY <1>5, <1>7, Commutes
  <2>4. RootPlace(c, step, s, k + 1)
    BY <1>4, <1>7, <1>9, <2>3 DEF RootPlace
  <2>5. k + 1 \in 0 .. ENT - 1
    BY <1>10, <1>5
  <2>6. InRoot(c, step)
    BY <1>2, <1>3, <2>4, <2>5 DEF InRoot
  <2> HIDE DEF step
  <2> QED
    BY <1>1, <1>6, <1>9, <2>2, <2>6 DEF IsDir
<1>11. CASE k + 1 = ENT
  <2>1. v % ENT = 0 /\ v = (s + 1) * ENT + 0
    BY <1>8, <1>11 DEF OneMore
  <2>2. PICK u : u = [step EXCEPT !.index = IF d.index + 1 < fs.n_rootdir THEN d.index + 1 ELSE @ - 1,
                                  !.sect = @ + 1]
    OBVIOUS
  <2>3. n = [ok |-> d.index + 1 < fs.n_rootdir, m |-> m, d |-> u]
    BY <2>1, <2>2, <1>4, <1>7, Zenon DEF next_dir_entry
  <2>4. CASE d.index + 1 < fs.n_rootdir
    <3>1. u = [id |-> d.id, index |-> d.index + 1, clust |-> d.clust, sect |-> d.sect + 1, open |-> d.open]
      BY <2>2, <2>4, <1>9
    <3>2. s + 1 \in 0 .. r - 1
      <4>1. s + 1 < r
        <5> SUFFICES ASSUME ~(s + 1 < r) PROVE FALSE
          OBVIOUS
        <5>1. s + 1 = r
          BY <1>2, <1>3
        <5>2. v = c.n_rootdir
          <6>1. r * ENT \in Nat
            BY <1>2, <1>5, Commutes
          <6> QED
            BY <5>1, <2>1, <6>1, <1>2
        <5> QED
          BY <5>2, <2>4, <1>1, <1>7, <1>6
      <4> QED
        BY <4>1, <1>2, <1>5
    <3>3. RootPlace(c, u, s + 1, 0)
      BY <1>4, <1>5, <1>7, <2>1, <3>1, <1>1, CardAreas DEF RootPlace
    <3>4. 0 \in 0 .. ENT - 1
      BY <1>5
    <3>5. InRoot(c, u)
      BY <1>2, <3>2, <3>3, <3>4 DEF InRoot
    <3>6. n = [ok |-> TRUE, m |-> m, d |-> u]
      <4>1. PICK t : t = (d.index + 1 < fs.n_rootdir)
        OBVIOUS
      <4>2. t = TRUE
        BY <4>1, <2>4, Zenon
      <4>3. n = [ok |-> t, m |-> m, d |-> u]
        BY <4>1, <2>3, Zenon
      <4> QED
        BY <4>2, <4>3, Zenon
    <3> HIDE DEF step
    <3> QED
      BY <1>1, <1>6, <3>1, <3>5, <3>6 DEF IsDir
  <2>5. CASE ~(d.index + 1 < fs.n_rootdir)
    <3>1. Len(c.root) <= c.n_rootdir /\ Len(c.root) \in Nat /\ c.n_rootdir \in Nat
      BY <1>1, CardData, CardNumbers
    <3>2. d.index + 1 >= Len(c.root)
      BY <3>1, <2>5, <1>1, <1>6
    <3>3. n.ok \in BOOLEAN /\ ~n.ok /\ n.m = m
      <4>1. PICK t : t = (d.index + 1 < fs.n_rootdir)
        OBVIOUS
      <4>2. t \in BOOLEAN
        BY <4>1
      <4>4. ~t
        BY <4>1, <2>5, Zenon
      <4>3. n = [ok |-> t, m |-> m, d |-> u]
        BY <4>1, <2>3, Zenon
      <4> QED
        BY <4>2, <4>3, <4>4
    <3> QED
      BY <1>1, <1>6, <3>2, <3>3
  <2> QED
    BY <2>4, <2>5
<1> QED
  <2>1. k + 1 < ENT \/ k + 1 = ENT
    BY <1>5, <1>3
  <2> QED
    BY <2>1, <1>10, <1>11

(* The images in front of a place, and their number.                       *)
LEMMA ImagesFinite ==
  ASSUME NEW c, IsVolume(c), NEW n
  PROVE  /\ IsFiniteSet(Images(c)) /\ IsFiniteSet(Upto(c, n)) /\ Upto(c, n) \subseteq Images(c)
         /\ Cardinality(Images(c)) \in Nat /\ Cardinality(Upto(c, n)) \in Nat
         /\ Cardinality(Upto(c, n)) <= Cardinality(Images(c))
<1>1. Len(c.dir) \in Nat
  BY CardData
<1>2. IsFiniteSet(3 .. Len(c.dir)) /\ Images(c) \subseteq 3 .. Len(c.dir)
  BY <1>1, FS_Interval DEF Images
<1>3. IsFiniteSet(Images(c)) /\ Upto(c, n) \subseteq Images(c)
  BY <1>2, FS_Subset DEF Upto
<1>4. IsFiniteSet(Upto(c, n)) /\ Cardinality(Upto(c, n)) <= Cardinality(Images(c))
  BY <1>3, FS_Subset
<1> QED
  BY <1>3, <1>4, FS_CardinalityType

LEMMA UptoAll ==
  ASSUME NEW c, IsVolume(c), NEW n \in Nat, n >= Len(c.dir)
  PROVE  Upto(c, n) = Images(c)
<1>1. Len(c.dir) \in Nat
  BY CardData
<1> QED
  BY <1>1 DEF Upto, Images

LEMMA UptoNext ==
  ASSUME NEW c, IsVolume(c), NEW n \in Nat
  PROVE  /\ n + 1 \in Images(c) => Upto(c, n + 1) = Upto(c, n) \cup {n + 1}
              /\ Cardinality(Upto(c, n + 1)) = Cardinality(Upto(c, n)) + 1
              /\ Rank(c, n + 1) = Cardinality(Upto(c, n)) + 1
         /\ n + 1 \notin Images(c) => Upto(c, n + 1) = Upto(c, n)
<1>1. \A i \in Images(c) : i \in Int
  BY CardData DEF Images
<1>2. \A i \in Images(c) : i <= n + 1 <=> i <= n \/ i = n + 1
  BY <1>1
<1>3. n + 1 \in Images(c) => Upto(c, n + 1) = Upto(c, n) \cup {n + 1}
  BY <1>2 DEF Upto
<1>4. n + 1 \notin Images(c) => Upto(c, n + 1) = Upto(c, n)
  BY <1>2 DEF Upto
<1>5. ASSUME n + 1 \in Images(c)
      PROVE  Cardinality(Upto(c, n + 1)) = Cardinality(Upto(c, n)) + 1
  <2>1. n + 1 \notin Upto(c, n)
    BY DEF Upto
  <2>2. IsFiniteSet(Upto(c, n))
    BY ImagesFinite
  <2>3. Cardinality(Upto(c, n) \cup {n + 1}) = Cardinality(Upto(c, n)) + 1
    BY <2>1, <2>2, FS_AddElement
  <2> QED
    BY <1>3, <1>5, <2>3
<1> QED
  BY <1>3, <1>4, <1>5 DEF Rank

LEMMA Ranked ==
  ASSUME NEW c, IsVolume(c), NEW i \in Images(c), NEW n \in Nat
  PROVE  /\ Rank(c, i) \in Nat \ {0}
         /\ i <= n => i \in Upto(c, n) /\ Rank(c, i) <= Cardinality(Upto(c, n))
         /\ ~(i <= n) => Rank(c, i) > Cardinality(Upto(c, n))
<1>1. i \in Nat /\ i >= 3
  BY CardData DEF Images
<1>2. i \in Upto(c, i) /\ IsFiniteSet(Upto(c, i)) /\ Cardinality(Upto(c, i)) \in Nat
  BY <1>1, ImagesFinite DEF Upto
<1>3. Rank(c, i) \in Nat \ {0}
  <2>1. Cardinality(Upto(c, i)) # 0
    BY <1>2, FS_EmptySet
  <2> QED
    BY <1>2, <2>1 DEF Rank
<1>4. ASSUME i <= n PROVE i \in Upto(c, n) /\ Rank(c, i) <= Cardinality(Upto(c, n))
  <2>1. \A j \in Images(c) : j <= i => j <= n
    BY <1>1, <1>4, CardData DEF Images
  <2>2. Upto(c, i) \subseteq Upto(c, n)
    BY <2>1 DEF Upto
  <2>3. IsFiniteSet(Upto(c, n))
    BY ImagesFinite
  <2> QED
    BY <1>2, <1>4, <2>2, <2>3, FS_Subset DEF Rank, Upto
<1>5. ASSUME ~(i <= n) PROVE Rank(c, i) > Cardinality(Upto(c, n))
  <2>1. \A j \in Images(c) : j <= n => j <= i /\ j # i
    BY <1>1, <1>5, CardData DEF Images
  <2>2. Upto(c, n) \cup {i} \subseteq Upto(c, i) /\ i \notin Upto(c, n)
    BY <2>1, <1>2, <1>5 DEF Upto
  <2>3. IsFiniteSet(Upto(c, n)) /\ Cardinality(Upto(c, n)) \in Nat
    BY ImagesFinite
  <2>4. Cardinality(Upto(c, n) \cup {i}) = Cardinality(Upto(c, n)) + 1
    BY <2>2, <2>3, FS_AddElement
  <2>5. Cardinality(Upto(c, n) \cup {i}) <= Cardinality(Upto(c, i))
    BY <1>2, <2>2, FS_Subset
  <2> QED
    BY <1>2, <2>3, <2>4, <2>5 DEF Rank
<1> QED
  BY <1>3, <1>4, <1>5

(* The listing goes on by what the directory holds next.                   *)
LEMMA ListedNone ==
  ASSUME NEW c, IsVolume(c)
  PROVE  Listed(c, <<>>, 2)
<1>1. Upto(c, 2) = {}
  BY CardData DEF Upto, Images
<1> QED
  BY <1>1, FS_EmptySet DEF Listed

LEMMA ListedSkip ==
  ASSUME NEW c, IsVolume(c), NEW s, NEW n \in Nat, Listed(c, s, n), n + 1 \notin Images(c)
  PROVE  Listed(c, s, n + 1)
<1>1. Upto(c, n + 1) = Upto(c, n)
  BY UptoNext
<1> QED
  BY <1>1 DEF Listed

LEMMA ListedNext ==
  ASSUME NEW c, IsVolume(c), NEW s, NEW n \in Nat, Listed(c, s, n), n + 1 \in Images(c)
  PROVE  Listed(c, Append(s, get_fileinfo(c.dir[n + 1].name)), n + 1)
<1> DEFINE e == get_fileinfo(c.dir[n + 1].name)
           N == ImageNames(c)
<1>1. e \in N
  BY DEF ImageNames
<1>2. s \in Seq(N) /\ Len(s) = Cardinality(Upto(c, n)) /\ Len(s) \in Nat
  BY ImagesFinite DEF Listed
<1>3. \A i \in Upto(c, n) : s[Rank(c, i)] = get_fileinfo(c.dir[i].name)
  BY DEF Listed
<1>4. /\ Upto(c, n + 1) = Upto(c, n) \cup {n + 1}
      /\ Cardinality(Upto(c, n + 1)) = Len(s) + 1 /\ Rank(c, n + 1) = Len(s) + 1
  BY <1>2, UptoNext
<1>5. PICK t : t = Append(s, e)
  OBVIOUS
<1> HIDE DEF e, N
<1>6. t \in Seq(N) /\ Len(t) = Len(s) + 1 /\ t[Len(s) + 1] = e
      /\ \A j \in 1 .. Len(s) : t[j] = s[j]
  BY <1>1, <1>2, <1>5, AppendProperties
<1>7. \A i \in Upto(c, n) : Rank(c, i) \in 1 .. Len(s)
  <2> TAKE i \in Upto(c, n)
  <2>1. i \in Images(c) /\ i <= n
    BY DEF Upto
  <2>2. Rank(c, i) \in Nat \ {0} /\ Rank(c, i) <= Cardinality(Upto(c, n))
    BY <2>1, Ranked
  <2> QED
    BY <2>2, <1>2
<1>8. \A i \in Upto(c, n) : t[Rank(c, i)] = get_fileinfo(c.dir[i].name)
  BY <1>3, <1>6, <1>7
<1>9. t[Rank(c, n + 1)] = get_fileinfo(c.dir[n + 1].name)
  BY <1>4, <1>6 DEF e
<1>10. \A i \in Upto(c, n + 1) : t[Rank(c, i)] = get_fileinfo(c.dir[i].name)
  BY <1>4, <1>8, <1>9
<1>11. Listed(c, t, n + 1)
  BY <1>4, <1>6, <1>10 DEF Listed, N
<1> QED
  BY <1>5, <1>11 DEF e

LEMMA ListingFollows ==
  ASSUME NEW c, IsVolume(c), NEW s, NEW n \in Nat, Listed(c, s, n)
  PROVE  /\ Len(s) <= Cardinality(Images(c))
         /\ \A i \in Images(c) : Rank(c, i) <= Len(s) => s[Rank(c, i)] = get_fileinfo(c.dir[i].name)
         /\ n >= Len(c.dir) => Len(s) = Cardinality(Images(c))
<1>1. Len(s) = Cardinality(Upto(c, n)) /\ Len(s) \in Nat
  BY ImagesFinite DEF Listed
<1>2. Len(s) <= Cardinality(Images(c))
  BY <1>1, ImagesFinite
<1>3. ASSUME NEW i \in Images(c), Rank(c, i) <= Len(s)
      PROVE  s[Rank(c, i)] = get_fileinfo(c.dir[i].name)
  <2>1. Rank(c, i) \in Nat
    BY Ranked
  <2>2. ~(Rank(c, i) > Cardinality(Upto(c, n)))
    BY <1>1, <1>3, <2>1
  <2>3. i \in Upto(c, n)
    BY <2>2, Ranked
  <2> QED
    BY <2>3 DEF Listed
<1>4. n >= Len(c.dir) => Len(s) = Cardinality(Images(c))
  BY <1>1, UptoAll
<1> QED
  BY <1>2, <1>3, <1>4

(* What the window's changes leave of the mounted volume.                  *)
LEMMA Kept ==
  ASSUME MountOK, fs # Zero, NEW m, Coherent(m), Keep(m), UNCHANGED <<slot, up, stat, fsid>>
  PROVE  MountOK' /\ fs' # Zero /\ fs'.of = fs.of /\ fs'.id = fs.id /\ fs'.type = fs.type
<1>1. Geometry(fs)
  BY DEF MountOK
<1>2. PICK f : f = fs
  OBVIOUS
<1>3. fs' = [f EXCEPT !.winsect = m.winsect]
  BY <1>2 DEF Keep
<1>4. f = [type |-> f.type, id |-> f.id, winsect |-> f.winsect, fatbase |-> FatStart(f.of),
          dirbase |-> RootStart(f.of), database |-> DataStart(f.of),
          max_clust |-> Clusters(f.of), sects_clust |-> f.of.sects_clust,
          n_rootdir |-> f.of.n_rootdir, of |-> f.of]
  BY <1>1, <1>2 DEF Geometry
<1>5. fs' = [type |-> f.type, id |-> f.id, winsect |-> m.winsect, fatbase |-> FatStart(f.of),
          dirbase |-> RootStart(f.of), database |-> DataStart(f.of),
          max_clust |-> Clusters(f.of), sects_clust |-> f.of.sects_clust,
          n_rootdir |-> f.of.n_rootdir, of |-> f.of]
  BY <1>3, <1>4
<1>6. PICK g : g = fs'
  OBVIOUS
<1>7. g.of = f.of /\ g.id = f.id /\ g.type = f.type /\ g.winsect = m.winsect
  BY <1>5, <1>6
<1>8. g = [type |-> g.type, id |-> g.id, winsect |-> g.winsect, fatbase |-> FatStart(g.of),
          dirbase |-> RootStart(g.of), database |-> DataStart(g.of),
          max_clust |-> Clusters(g.of), sects_clust |-> g.of.sects_clust,
          n_rootdir |-> g.of.n_rootdir, of |-> g.of]
  BY <1>5, <1>6, <1>7
<1>9. IsVolume(f.of) /\ f.type \in {12, 16} /\ f.id \in 0 .. IDS - 1
  BY <1>1, <1>2 DEF Geometry
<1>10. m.winsect \in Nat
  BY DEF Coherent
<1>11. Geometry(g)
  BY <1>7, <1>8, <1>9, <1>10 DEF Geometry
<1>12. Geometry(fs)'
  BY <1>6, <1>11 DEF Geometry
<1>13. fs' # Zero
  BY <1>6, <1>7, <1>9 DEF Zero
<1>14. fs' = g /\ fs = f
  BY <1>2, <1>6
<1>15. fault' \in BOOLEAN
  BY DEF Keep, MountOK, Coherent
<1>16. win' = [of |-> win'.of, sect |-> win'.sect] /\ win'.of \in Cards \cup {None}
  BY DEF Keep, Coherent
<1>17. WindowIsCoherent'
  <2>1. fs'.winsect = m.winsect /\ win' = m.win /\ fs'.of = fs.of
    BY <1>7, <1>14 DEF Keep
  <2>2. m.winsect # 0 => m.win.of = fs.of /\ m.win.sect = m.winsect
    BY DEF Coherent
  <2>3. m.win = [of |-> m.win.of, sect |-> m.win.sect]
    BY DEF Coherent
  <2> QED
    BY <2>1, <2>2, <2>3 DEF WindowIsCoherent
<1>18. MountOK'
  <2>1. up' => slot' \in Cards /\ slot' = fs'.of
    BY <1>7, <1>14 DEF MountOK
  <2> QED
    BY <1>12, <1>15, <1>16, <1>17, <2>1 DEF MountOK
<1> QED
  BY <1>7, <1>13, <1>14, <1>18

(* A cleared object has no window.                                         *)
LEMMA Cleared ==
  ASSUME MountOK, fs' = Zero, UNCHANGED <<slot, fsid, win>>, up' \in BOOLEAN, stat' \in BOOLEAN,
         fault' \in BOOLEAN, up' => slot # None
  PROVE  MountOK'
<1>1. fs'.winsect = 0
  BY DEF Zero
<1> QED
  BY <1>1 DEF MountOK, WindowIsCoherent

(* The geometry computed from a boot record is the card's.                 *)
LEMMA MountedIs ==
  ASSUME NEW c, c \in Cards, c.boot # "foreign", fsid \in 0 .. IDS - 1,
         NEW g, g = Mounted(c, BootSector(c))
  PROVE  /\ g.of = c /\ g.dirbase = RootStart(c) /\ g.max_clust = Clusters(c)
         /\ g.max_clust <= FAT16MAX => Geometry(g) /\ g # Zero /\ g.winsect = 0
<1>1. c.n_fats \in Nat /\ c.sects_fat \in Nat
  BY CardAssumption
<1>2. PICK k : k = c.sects_fat * c.n_fats /\ k = c.n_fats * c.sects_fat
  BY <1>1, Commutes
<1>3. PICK cl, q, i : cl = Clusters(c) /\ q = c.n_rootdir \div ENT /\ i = (fsid + 1) % IDS
  OBVIOUS
<1>4. i \in 0 .. IDS - 1
  <2>1. fsid + 1 \in Nat /\ IDS \in Nat \ {0}
    BY VolumeAssumption
  <2> QED
    BY <2>1, <1>3, Divided
<1>5. PICK t : t = (IF cl > FAT12MAX THEN 16 ELSE 12) /\ t \in {12, 16}
  OBVIOUS
<1>6. g = [type |-> t, id |-> i, winsect |-> 0, of |-> c, fatbase |-> FatStart(c),
          dirbase |-> FatStart(c) + k, database |-> FatStart(c) + k + q, max_clust |-> cl,
          sects_clust |-> c.sects_clust, n_rootdir |-> c.n_rootdir]
  <2>1. cl = (c.totsec - c.rsvd - k - q) \div c.sects_clust + 2
    BY <1>2, <1>3 DEF Clusters
  <2>2. FatStart(c) = BootSector(c) + c.rsvd
    BY DEF FatStart
  <2> QED
    BY <2>1, <2>2, <1>2, <1>3, <1>5 DEF Mounted
<1>7. FatStart(c) + k = RootStart(c) /\ FatStart(c) + k + q = DataStart(c)
  BY <1>2, <1>3 DEF RootStart, DataStart
<1>8. g = [type |-> t, id |-> i, winsect |-> 0, fatbase |-> FatStart(c),
          dirbase |-> RootStart(c), database |-> DataStart(c), max_clust |-> Clusters(c),
          sects_clust |-> c.sects_clust, n_rootdir |-> c.n_rootdir, of |-> c]
  BY <1>3, <1>6, <1>7
<1>9. g.of = c /\ g.dirbase = RootStart(c) /\ g.max_clust = Clusters(c) /\ g.type = t /\ g.id = i
      /\ g.winsect = 0
  BY <1>8
<1>10. g # Zero
  BY <1>5, <1>9 DEF Zero
<1>11. ASSUME g.max_clust <= FAT16MAX PROVE Geometry(g)
  <2>1. IsVolume(g.of)
    BY <1>9, <1>11 DEF IsVolume
  <2>2. g = [type |-> g.type, id |-> g.id, winsect |-> g.winsect, fatbase |-> FatStart(g.of),
          dirbase |-> RootStart(g.of), database |-> DataStart(g.of),
          max_clust |-> Clusters(g.of), sects_clust |-> g.of.sects_clust,
          n_rootdir |-> g.of.n_rootdir, of |-> g.of]
    BY <1>8, <1>9
  <2> QED
    BY <2>1, <2>2, <1>4, <1>5, <1>9 DEF Geometry
<1> QED
  BY <1>9, <1>10, <1>11

(* What a step that leaves the library's objects alone preserves.          *)
LEMMA TraceStays ==
  ASSUME TraceOK, UNCHANGED <<pc, dob>>, pc # "trace"
  PROVE  TraceOK'
BY DEF TraceOK

LEMMA FirstStays ==
  ASSUME AtFirst, UNCHANGED call
  PROVE  AtFirst'
BY DEF AtFirst

(* The path of a call says what is searched.                               *)
LEMMA WhatIsAsked ==
  /\ AtFirst => /\ call.path[1] = DIRNAME /\ call.op \in {"opendir", "open"}
                /\ (Len(call.path) = 1 <=> call.op = "opendir")
  /\ AtLast => /\ call.op = "open" /\ Len(call.path) = 1 /\ call.path[1] \in Asked
               /\ call.path = <<call.path[1]>>
  /\ ~(AtFirst /\ AtLast)
<1>1. ASSUME NEW n PROVE Len(<<n>>) = 1 /\ <<n>>[1] = n
  OBVIOUS
<1>2. ASSUME NEW n, NEW m PROVE Len(<<n, m>>) = 2 /\ <<n, m>>[1] = n
  OBVIOUS
<1>3. ASSUME NEW op, NEW path, call = [op |-> op, path |-> path] PROVE call.op = op /\ call.path = path
  BY <1>3
<1>4. ASSUME AtFirst
      PROVE  /\ call.path[1] = DIRNAME /\ call.op \in {"opendir", "open"}
             /\ (Len(call.path) = 1 <=> call.op = "opendir")
  <2>1. CASE call = [op |-> "opendir", path |-> <<DIRNAME>>]
    BY <2>1, <1>1, <1>3
  <2>2. ASSUME NEW n \in Asked, call = [op |-> "open", path |-> <<DIRNAME, n>>]
        PROVE  call.path[1] = DIRNAME /\ call.op = "open" /\ Len(call.path) = 2
    BY <2>2, <1>2, <1>3
  <2> QED
    BY <1>4, <2>1, <2>2 DEF AtFirst
<1>5. ASSUME AtLast
      PROVE  /\ call.op = "open" /\ Len(call.path) = 1 /\ call.path[1] \in Asked
             /\ call.path = <<call.path[1]>>
  <2>1. PICK n \in Asked : call = [op |-> "open", path |-> <<n>>]
    BY <1>5 DEF AtLast
  <2>2. call.op = "open" /\ call.path = <<n>>
    BY <2>1, <1>3
  <2> QED
    BY <2>2, <1>1
<1> QED
  BY <1>4, <1>5

(* The initial states.                                                     *)
LEMMA VolumeStarts ==
  ASSUME VolInit
  PROVE  VolInv
<1>1. IDS \in Nat /\ IDS > 1
  BY VolumeAssumption
<1>2. win = [of |-> win.of, sect |-> win.sect] /\ win.of = None /\ fs.winsect = 0
  BY DEF VolInit, Zero
<1>3. MountOK
  <2>1. slot \in Cards \cup {None} /\ up = FALSE /\ stat = FALSE /\ fault = FALSE /\ fsid = 0 /\ fs = Zero
    BY DEF VolInit
  <2>2. WindowIsCoherent
    BY <1>2 DEF WindowIsCoherent
  <2>3. fsid \in 0 .. IDS - 1
    BY <1>1, <2>1
  <2>4. win.of \in Cards \cup {None}
    BY <1>2
  <2> QED
    BY <1>2, <2>1, <2>2, <2>3, <2>4, Zenon DEF MountOK
<1>4. TraceOK /\ ListOK
  BY DEF VolInit, TraceOK, ListOK
<1>5. CallOK
  BY DEF VolInit, CallOK
<1>6. call.op = "none"
  BY DEF VolInit, Idle
<1>7. OpenedOK /\ NoFalseRefusal
  BY <1>6 DEF OpenedOK, NoFalseRefusal
<1> QED
  BY <1>3, <1>4, <1>5, <1>7 DEF VolInv

(* philes_mount.                                                           *)
LEMMA MountKeeps ==
  ASSUME VolInv, philes_mount
  PROVE  VolInv'
<1>1. PICK ok : ok \in (IF slot = None THEN {FALSE} ELSE BOOLEAN) /\ up' = ok /\ stat' = ok
  BY DEF philes_mount, disk_initialize
<1>2. MountOK'
  <2>1. up' \in BOOLEAN /\ stat' \in BOOLEAN /\ (up' => slot # None)
    BY <1>1
  <2>2. fs' = Zero /\ UNCHANGED <<slot, fsid, win>> /\ fault' \in BOOLEAN
    BY DEF philes_mount
  <2>3. MountOK
    BY DEF VolInv
  <2> QED
    BY <2>1, <2>2, <2>3, Cleared
<1>3. pc' = "idle" /\ call'.op = "none" /\ dir' = NoDir /\ dob' = NoDir
  BY DEF philes_mount, Return, Idle, VolInv, TraceOK
<1>4. TraceOK' /\ ListOK'
  BY <1>3 DEF TraceOK, ListOK
<1>5. CallOK'
  BY <1>3 DEF CallOK
<1>6. OpenedOK' /\ NoFalseRefusal'
  BY <1>3 DEF OpenedOK, NoFalseRefusal
<1> QED
  BY <1>2, <1>4, <1>5, <1>6 DEF VolInv

(* f_opendir and f_open begin.                                             *)
LEMMA BeginKeeps ==
  ASSUME VolInv, NEW op, NEW path, Begin(op, path),
         \/ op = "opendir" /\ path = <<DIRNAME>>
         \/ op = "open" /\ \E n \in Asked : path = <<DIRNAME, n>>
  PROVE  VolInv'
<1>1. AtFirst'
  BY DEF Begin, AtFirst
<1>2. pc = "idle" /\ pc' = "auto" /\ dir' = NoDir /\ dob' = NoDir /\ listed' = <<>> /\ res' = "NONE"
      /\ fault' = FALSE
  BY DEF Begin, VolInv, TraceOK
<1>3. MountOK'
  <2>1. UNCHANGED <<slot, up, stat, fs, fsid, win>> /\ MountOK
    BY DEF Begin, VolInv
  <2> QED
    BY <2>1, <1>2 DEF MountOK, Geometry, WindowIsCoherent
<1>4. TraceOK' /\ ListOK' /\ OpenedOK' /\ NoFalseRefusal'
  BY <1>2 DEF TraceOK, ListOK, OpenedOK, NoFalseRefusal
<1>5. CallOK'
  BY <1>1, <1>2 DEF CallOK
<1> QED
  BY <1>3, <1>4, <1>5 DEF VolInv

(* The mounted volume and the listing, where a step leaves them alone.     *)
LEMMA MountStays ==
  ASSUME MountOK, UNCHANGED <<slot, up, stat, fs, fsid, win, fault>>
  PROVE  MountOK'
BY DEF MountOK, Geometry, WindowIsCoherent

LEMMA ListStays ==
  ASSUME ListOK, UNCHANGED <<stat, dir, call, res, listed, fault>>, fs'.of = fs.of, fs'.id = fs.id,
         fs # Zero => fs' # Zero, pc' = "idle" => pc = "idle"
  PROVE  ListOK'
<1>1. CASE dir = NoDir
  BY <1>1 DEF ListOK
<1>2. CASE dir # NoDir
  <2>1. /\ IsDir(dir) /\ dir.open = TRUE /\ call.op = "opendir" /\ fs # Zero /\ dir.id = fs.id /\ stat
        /\ dir.index \in Nat /\ dir.index >= 2 /\ (dir.sect # 0 => InDir(fs.of, dir))
        /\ Listed(fs.of, listed, Behind)
        /\ ~fault /\ (dir.sect = 0 \/ (res = "END" /\ pc = "idle")) => Behind >= Len(fs.of.dir)
    BY <1>2 DEF ListOK
  <2>2. PICK c : c = fs.of /\ c = fs'.of
    OBVIOUS
  <2>3. IsDir(dir)' /\ Behind' = Behind
    BY <2>1 DEF IsDir, Behind
  <2>4. dir.sect # 0 => InDir(c, dir')
    BY <2>1, <2>2
  <2>5. Listed(c, listed', Behind')
    BY <2>1, <2>2, <2>3
  <2>6. InDir(fs.of, dir)' <=> InDir(c, dir')
    BY <2>2 DEF InDir, DirPlace
  <2>7. Listed(fs.of, listed, Behind)' <=> Listed(c, listed', Behind')
    BY <2>2 DEF Listed, Behind, ImageNames, Images, Upto, Rank
  <2> QED
    BY <2>1, <2>2, <2>3, <2>4, <2>5, <2>6, <2>7 DEF ListOK
<1> QED
  BY <1>1, <1>2

(* philes_nextfile begins.                                                 *)
LEMMA NextfileKeeps ==
  ASSUME VolInv, philes_nextfile
  PROVE  VolInv'
<1>1. pc = "idle" /\ pc' = "read" /\ dir.open /\ UNCHANGED dir
  BY DEF philes_nextfile
<1>2. MountOK'
  BY MountStays DEF VolInv, philes_nextfile
<1>3. TraceOK' /\ OpenedOK' /\ NoFalseRefusal' /\ CallOK'
  BY <1>1 DEF VolInv, philes_nextfile, TraceOK, OpenedOK, NoFalseRefusal, CallOK
<1>4. ListOK'
  BY <1>1, ListStays DEF VolInv, philes_nextfile
<1> QED
  BY <1>2, <1>3, <1>4 DEF VolInv

(* A trace that starts stands at the root's first entry.                   *)
LEMMA RootBegins ==
  ASSUME NEW c, IsVolume(c), NEW d, d = [NoDir EXCEPT !.sect = RootStart(c)]
  PROVE  IsDir(d) /\ InRoot(c, d) /\ d.index = 0
<1>1. d = [id |-> 0, index |-> 0, clust |-> 0, sect |-> RootStart(c), open |-> FALSE]
  BY DEF NoDir
<1>2. d.id = 0 /\ d.index = 0 /\ d.clust = 0 /\ d.sect = RootStart(c) /\ d.open = FALSE
  BY <1>1
<1>6. IsDir(d)
  BY <1>1, <1>2 DEF IsDir
<1>3. RootStart(c) = RootStart(c) + 0 /\ 0 * ENT + 0 = 0
  BY CardAreas, EntIs
<1>4. RootPlace(c, d, 0, 0)
  BY <1>2, <1>3 DEF RootPlace
<1>5. 0 \in 0 .. c.n_rootdir \div ENT - 1 /\ 0 \in 0 .. ENT - 1
  BY CardAreas, EntIs
<1> QED
  BY <1>2, <1>4, <1>5, <1>6 DEF InRoot

LEMMA TraceBegins ==
  ASSUME AtFirst, UNCHANGED call, pc' = "trace", stat' = TRUE, fs' # Zero, IsVolume(fs'.of),
         dob' = [NoDir EXCEPT !.sect = RootStart(fs'.of)]
  PROVE  TraceOK'
<1>1. PICK c : c = fs'.of /\ IsVolume(c)
  OBVIOUS
<1>2. PICK d : d = dob'
  OBVIOUS
<1>3. IsDir(d) /\ InRoot(c, d) /\ d.index = 0
  BY <1>1, <1>2, RootBegins
<1>4. Passed(c.root, 1, d.index, call'.path)
  BY <1>3 DEF Passed
<1>5. AtFirst'
  BY FirstStays
<1>6. IsDir(dob)' <=> IsDir(d)
  BY <1>2 DEF IsDir
<1>7. InRoot(fs.of, dob)' <=> InRoot(c, d)
  BY <1>1, <1>2 DEF InRoot, RootPlace
<1>8. Passed(fs.of.root, 1, dob.index, call.path)' <=> Passed(c.root, 1, d.index, call'.path)
  BY <1>1, <1>2 DEF Passed
<1> QED
  BY <1>3, <1>4, <1>5, <1>6, <1>7, <1>8 DEF TraceOK

(* No listing is under way, and the call goes on.                          *)
LEMMA WorkStays ==
  ASSUME dir' = NoDir, listed' = <<>>, pc' \in {"boot", "part", "trace"}, UNCHANGED call, AtFirst,
         pc' \in {"boot", "part"} => fs' = Zero /\ stat', pc' = "part" /\ up' => slot'.boot = "mbr"
  PROVE  CallOK' /\ ListOK' /\ OpenedOK' /\ NoFalseRefusal'
<1>1. AtFirst'
  BY FirstStays
<1>2. CallOK'
  BY <1>1 DEF CallOK
<1> QED
  BY <1>2 DEF ListOK, OpenedOK, NoFalseRefusal

(* auto_mount.                                                             *)
LEMMA AutoKeeps ==
  ASSUME VolInv, auto_mount
  PROVE  VolInv'
<1>1. pc = "auto" /\ AtFirst /\ dir = NoDir /\ listed = <<>> /\ dob = NoDir /\ MountOK
  BY DEF auto_mount, VolInv, CallOK, TraceOK
<1>2. UNCHANGED <<slot, fsid, win, dir, call, fp, listed>>
  BY DEF auto_mount
<1>3. CASE fs.type # 0 /\ stat /\ StartTrace(fs.dirbase) /\ UNCHANGED <<up, stat, fs, fault, res>>
  <2>1. fs # Zero
    BY <1>3 DEF Zero
  <2>2. Geometry(fs)
    BY <1>1, <2>1 DEF MountOK
  <2>3. IsVolume(fs.of) /\ fs.dirbase = RootStart(fs.of)
    BY <2>2 DEF Geometry
  <2>4. MountOK'
    BY <1>1, <1>2, <1>3, MountStays
  <2>5. pc' = "trace" /\ dob' = [NoDir EXCEPT !.sect = RootStart(fs.of)]
    BY <1>3, <2>3 DEF StartTrace
  <2>6. stat' = TRUE
    BY <1>1, <1>3 DEF MountOK
  <2>7. fs' = fs
    BY <1>3
  <2>8. TraceOK'
    BY <1>1, <1>2, <2>1, <2>3, <2>5, <2>6, <2>7, TraceBegins
  <2>9. CallOK' /\ ListOK' /\ OpenedOK' /\ NoFalseRefusal'
    BY <1>1, <1>2, <2>5, WorkStays
  <2> QED
    BY <2>4, <2>8, <2>9 DEF VolInv
<1>4. ASSUME NEW ok, ok \in (IF slot = None THEN {FALSE} ELSE BOOLEAN), fs' = Zero, UNCHANGED dob,
             disk_initialize(ok), fault' = (fault \/ ~ok),
             IF ok THEN pc' = "boot" /\ UNCHANGED res ELSE Return("NOT_READY")
      PROVE  VolInv'
  <2>1. up' = ok /\ stat' = ok /\ ok \in BOOLEAN /\ (ok => slot # None)
    BY <1>4 DEF disk_initialize
  <2>2. fault' \in BOOLEAN
    BY <1>1, <1>4, <2>1 DEF MountOK
  <2>3. MountOK'
    BY <1>1, <1>2, <1>4, <2>1, <2>2, Cleared
  <2>4. dob' = NoDir
    BY <1>1, <1>4
  <2>5. CASE ok
    <3>1. pc' = "boot"
      BY <1>4, <2>5
    <3>2. CallOK' /\ ListOK' /\ OpenedOK' /\ NoFalseRefusal'
      BY <1>1, <1>2, <1>4, <2>1, <2>5, <3>1, WorkStays
    <3> QED
      BY <2>3, <2>4, <3>1, <3>2 DEF VolInv, TraceOK
  <2>6. CASE ~ok
    <3>1. pc' = "idle" /\ res' = "NOT_READY" /\ fault'
      BY <1>4, <2>6 DEF Return
    <3>2. CallOK' /\ ListOK' /\ OpenedOK' /\ NoFalseRefusal'
      BY <1>1, <1>2, <3>1 DEF CallOK, ListOK, OpenedOK, NoFalseRefusal
    <3> QED
      BY <2>3, <2>4, <3>1, <3>2 DEF VolInv, TraceOK
  <2> QED
    BY <2>1, <2>5, <2>6
<1> QED
  BY <1>3, <1>4, Zenon DEF auto_mount

(* The boot record.                                                        *)
LEMMA BootKeeps ==
  ASSUME VolInv, boot_record
  PROVE  VolInv'
<1>1. /\ pc \in {"boot", "part"} /\ AtFirst /\ dir = NoDir /\ listed = <<>> /\ dob = NoDir /\ MountOK
      /\ fs = Zero /\ stat = TRUE /\ (pc = "part" /\ up => slot.boot = "mbr")
  BY DEF boot_record, VolInv, CallOK, TraceOK, MountOK
<1>2. UNCHANGED <<slot, up, stat, dir, call, fp, listed>>
  BY DEF boot_record
<1>3. PICK ok \in Answers :
        LET sect == IF pc = "part" THEN slot.part ELSE 0
            fat == ok /\ slot.boot # "foreign" /\ sect = BootSector(slot)
            full == fat /\ Mounted(slot, sect).max_clust > FAT16MAX IN
        /\ check_fs(sect, ok)
        /\ \/ /\ fat /\ ~full
              /\ fs' = Mounted(slot, sect) /\ fsid' = (fsid + 1) % IDS
              /\ StartTrace(Mounted(slot, sect).dirbase) /\ UNCHANGED res
           \/ /\ ok /\ ~fat /\ pc = "boot" /\ slot.boot = "mbr"
              /\ pc' = "part" /\ UNCHANGED <<fs, fsid, dob, res>>
           \/ /\ ~ok \/ full \/ (~fat /\ ~(pc = "boot" /\ slot.boot = "mbr"))
              /\ Return("NO_FILESYSTEM") /\ UNCHANGED <<fs, fsid, dob>>
  BY DEF boot_record
<1>4. PICK sect : sect = IF pc = "part" THEN slot.part ELSE 0
  OBVIOUS
<1>5. PICK fat : fat = (ok /\ slot.boot # "foreign" /\ sect = BootSector(slot))
  OBVIOUS
<1>6. PICK full : full = (fat /\ Mounted(slot, sect).max_clust > FAT16MAX)
  OBVIOUS
<1>7. /\ check_fs(sect, ok)
      /\ \/ /\ fat /\ ~full
            /\ fs' = Mounted(slot, sect) /\ fsid' = (fsid + 1) % IDS
            /\ StartTrace(Mounted(slot, sect).dirbase) /\ UNCHANGED res
         \/ /\ ok /\ ~fat /\ pc = "boot" /\ slot.boot = "mbr"
            /\ pc' = "part" /\ UNCHANGED <<fs, fsid, dob, res>>
         \/ /\ ~ok \/ full \/ (~fat /\ ~(pc = "boot" /\ slot.boot = "mbr"))
            /\ Return("NO_FILESYSTEM") /\ UNCHANGED <<fs, fsid, dob>>
  BY <1>3, <1>4, <1>5, <1>6, Zenon
<1>8. ok \in BOOLEAN /\ (ok => up /\ slot \in Cards)
  BY <1>1 DEF Answers, MountOK
<1>9. fault' \in BOOLEAN /\ (fault' = FALSE => ok)
  BY <1>1, <1>7, <1>8 DEF check_fs, MountOK
<1>10. win' = [of |-> win'.of, sect |-> win'.sect] /\ win'.of \in Cards \cup {None}
  BY <1>1, <1>7, <1>8 DEF check_fs, MountOK
<1>11. ASSUME fs' = Zero, fsid' = fsid PROVE MountOK'
  <2>1. fs'.winsect = 0
    BY <1>11 DEF Zero
  <2>2. WindowIsCoherent'
    BY <2>1 DEF WindowIsCoherent
  <2> QED
    BY <1>1, <1>2, <1>9, <1>10, <1>11, <2>2 DEF MountOK
<1>12. ASSUME fat, ~full, fs' = Mounted(slot, sect), fsid' = (fsid + 1) % IDS,
              StartTrace(Mounted(slot, sect).dirbase)
       PROVE  VolInv'
  <2>1. ok /\ up /\ slot \in Cards /\ slot.boot # "foreign" /\ sect = BootSector(slot)
    BY <1>5, <1>8, <1>12
  <2>2. fsid \in 0 .. IDS - 1
    BY <1>1 DEF MountOK
  <2>3. PICK g : g = Mounted(slot, BootSector(slot))
    OBVIOUS
  <2>4. /\ g.of = slot /\ g.dirbase = RootStart(slot) /\ g.max_clust = Clusters(slot)
        /\ g.max_clust <= FAT16MAX => Geometry(g) /\ g # Zero /\ g.winsect = 0
    BY <2>1, <2>2, <2>3, MountedIs
  <2>5. g.max_clust <= FAT16MAX
    <3>1. ~(g.max_clust > FAT16MAX)
      BY <1>6, <1>12, <2>1, <2>3
    <3>2. Clusters(slot) \in Int
      <4>1. /\ {slot.part, slot.n_fats, slot.sects_fat, slot.totsec} \subseteq Nat
            /\ {slot.rsvd, slot.sects_clust, slot.n_rootdir} \subseteq Nat \ {0}
        BY <2>1, CardAssumption
      <4>2. slot.n_rootdir \div ENT \in Nat
        BY <4>1, EntIs, Divided
      <4>3. slot.sects_fat * slot.n_fats \in Nat
        BY <4>1, Commutes
      <4>4. PICK t : t = slot.totsec - slot.rsvd - slot.sects_fat * slot.n_fats - slot.n_rootdir \div ENT
        OBVIOUS
      <4>5. t \in Int
        BY <4>1, <4>2, <4>3, <4>4
      <4>6. PICK b \in Nat \ {0} : b = slot.sects_clust
        BY <4>1
      <4>7. t \div b \in Int
        BY <4>5
      <4> QED
        BY <4>4, <4>6, <4>7 DEF Clusters
    <3> QED
      BY <3>1, <3>2, <2>4, VolumeAssumption
  <2>6. fs' = g
    BY <1>12, <2>1, <2>3
  <2>7. Geometry(g) /\ g # Zero /\ g.winsect = 0
    BY <2>4, <2>5
  <2>8. Geometry(fs)'
    BY <2>6, <2>7 DEF Geometry
  <2>9. WindowIsCoherent'
    BY <2>6, <2>7 DEF WindowIsCoherent
  <2>10. fsid' \in 0 .. IDS - 1
    <3>1. fsid + 1 \in Nat /\ IDS \in Nat \ {0}
      BY <2>2, VolumeAssumption
    <3> QED
      BY <3>1, <1>12, Divided
  <2>11. MountOK'
    <3>1. slot' = fs'.of /\ slot' \in Cards
      BY <1>2, <2>1, <2>4, <2>6
    <3> QED
      BY <1>1, <1>2, <1>9, <1>10, <2>8, <2>9, <2>10, <3>1 DEF MountOK
  <2>12. IsVolume(slot)
    BY <2>4, <2>7 DEF Geometry
  <2>13. pc' = "trace" /\ dob' = [NoDir EXCEPT !.sect = RootStart(slot)]
    BY <1>12, <2>1, <2>3, <2>4 DEF StartTrace
  <2>14. fs'.of = slot /\ fs' # Zero
    BY <2>4, <2>6, <2>7
  <2>15. stat' = TRUE
    BY <1>1, <1>2
  <2>16. TraceOK'
    BY <1>1, <1>2, <2>12, <2>13, <2>14, <2>15, TraceBegins
  <2>17. CallOK' /\ ListOK' /\ OpenedOK' /\ NoFalseRefusal'
    BY <1>1, <1>2, <2>13, WorkStays
  <2> QED
    BY <2>11, <2>16, <2>17 DEF VolInv
<1>13. ASSUME ok, ~fat, pc = "boot", slot.boot = "mbr", pc' = "part", UNCHANGED <<fs, fsid, dob>>
       PROVE  VolInv'
  <2>1. MountOK'
    BY <1>1, <1>11, <1>13
  <2>2. CallOK' /\ ListOK' /\ OpenedOK' /\ NoFalseRefusal'
    BY <1>1, <1>2, <1>13, WorkStays
  <2> QED
    BY <2>1, <2>2, <1>1, <1>13 DEF VolInv, TraceOK
<1>14. ASSUME ~ok \/ full \/ (~fat /\ ~(pc = "boot" /\ slot.boot = "mbr")),
              Return("NO_FILESYSTEM"), UNCHANGED <<fs, fsid, dob>>
       PROVE  VolInv'
  <2>1. MountOK'
    BY <1>1, <1>11, <1>14
  <2>2. pc' = "idle" /\ res' = "NO_FILESYSTEM"
    BY <1>14 DEF Return
  <2>3. CallOK' /\ ListOK' /\ OpenedOK' /\ TraceOK'
    BY <1>1, <1>2, <1>14, <2>2 DEF CallOK, ListOK, OpenedOK, TraceOK
  <2>4. ASSUME ok, HasVolume(slot) PROVE FALSE
    <3>1. slot.boot # "foreign" /\ Clusters(slot) <= FAT16MAX /\ slot \in Cards /\ up
      BY <2>4, <1>8 DEF HasVolume
    <3>2. sect = BootSector(slot)
      <4>1. CASE fat
        BY <4>1, <1>5
      <4>2. CASE ~fat /\ pc = "part"
        BY <4>2, <1>1, <1>4, <3>1 DEF BootSector
      <4>3. CASE ~fat /\ pc = "boot"
        <5>1. slot.boot # "mbr"
          BY <1>14, <1>6, <2>4, <4>3
        <5> QED
          BY <5>1, <4>3, <1>4 DEF BootSector
      <4> QED
        BY <4>1, <4>2, <4>3, <1>1
    <3>3. fat
      BY <2>4, <1>5, <3>1, <3>2
    <3>4. full
      BY <2>4, <1>14, <3>3
    <3>5. Mounted(slot, sect).max_clust > FAT16MAX
      BY <1>6, <3>4
    <3>6. fsid \in 0 .. IDS - 1
      BY <1>1 DEF MountOK
    <3>7. PICK g : g = Mounted(slot, BootSector(slot))
      OBVIOUS
    <3>8. g.max_clust = Clusters(slot)
      BY <3>1, <3>6, <3>7, MountedIs
    <3>9. Clusters(slot) > FAT16MAX
      BY <3>2, <3>5, <3>7, <3>8
    <3>10. Clusters(slot) \in Nat
      <4>1. IsVolume(slot)
        BY <3>1 DEF IsVolume
      <4> QED
        BY <4>1, ClusterNumber
    <3> QED
      BY <3>1, <3>9, <3>10, VolumeAssumption
  <2>5. ~fault' /\ up' => ~HasVolume(slot)'
    BY <1>2, <1>9, <2>4 DEF HasVolume, Clusters
  <2>6. NoFalseRefusal'
    BY <1>9, <2>2, <2>4, <1>2 DEF NoFalseRefusal, HasVolume, Clusters
  <2> QED
    BY <2>1, <2>3, <2>6 DEF VolInv
<1> QED
  BY <1>7, <1>8, <1>12, <1>13, <1>14, <1>1, Zenon

(* The entry a DIR object stands at is what the window shows.              *)
LEMMA EntryThere ==
  ASSUME MountOK, fs # Zero, NEW d, NEW s,
         \/ InRoot(fs.of, d) /\ s = fs.of.root
         \/ InDir(fs.of, d) /\ s = fs.of.dir,
         NEW ok \in Answers, NEW m, m = move_window(Window, d.sect, ok)
  PROVE  /\ Coherent(m) /\ d.sect \in Nat \ {0} /\ d.index \in Nat /\ s \in Seq(Entries)
         /\ m.ok => Entry(m.win, d.index % ENT) = At(s, d.index + 1)
<1>1. PICK c : c = fs.of /\ IsVolume(c)
  BY WindowStarts
<1>2. Coherent(Window)
  BY WindowStarts
<1>3. ASSUME d.sect \in Nat \ {0}
      PROVE  Coherent(m) /\ (m.ok => m.win.of = c /\ m.win.sect = d.sect)
  BY <1>1, <1>2, <1>3, Moves
<1>4. CASE InRoot(fs.of, d) /\ s = fs.of.root
  <2>1. PICK a \in 0 .. c.n_rootdir \div ENT - 1, k \in 0 .. ENT - 1 : RootPlace(c, d, a, k)
    BY <1>1, <1>4 DEF InRoot
  <2>2. a \in Nat /\ k \in Nat /\ d.sect \in Nat \ {0}
    BY <1>1, <2>1, CardAreas, EntIs DEF RootPlace
  <2>3. d.index \in Nat
    <3>1. a * ENT \in Nat
      BY <2>2, EntIs, Commutes
    <3> QED
      BY <2>1, <2>2, <3>1 DEF RootPlace
  <2>4. ASSUME m.ok PROVE Entry(m.win, d.index % ENT) = At(c.root, d.index + 1)
    BY <1>1, <1>3, <2>1, <2>2, <2>4, RootEntry
  <2>5. s \in Seq(Entries)
    BY <1>1, <1>4, CardData
  <2> QED
    BY <1>1, <1>3, <1>4, <2>2, <2>3, <2>4, <2>5
<1>5. CASE InDir(fs.of, d) /\ s = fs.of.dir
  <2>1. PICK p \in 1 .. Len(c.chain), a \in 0 .. c.sects_clust - 1, k \in 0 .. ENT - 1 :
        DirPlace(c, d, p, a, k)
    BY <1>1, <1>5 DEF InDir
  <2>2. d.sect \in Nat \ {0}
    <3>1. c.chain[p] \in 2 .. Clusters(c) - 1
      BY <1>1, ChainCluster
    <3>2. d.sect = DataStart(c) + (c.chain[p] - 2) * c.sects_clust + a
      BY <2>1 DEF DirPlace
    <3>3. /\ d.sect \in 0 .. BootSector(c) + c.totsec - 1
          /\ d.sect >= DataStart(c)
      <4>1. IsVolume(c)
        BY <1>1
      <4> QED
        BY <3>1, <3>2, <4>1, ClusterFits, Zenon
    <3>4. DataStart(c) \in Nat \ {0}
      BY <1>1, CardAreas
    <3> QED
      BY <3>3, <3>4
  <2>3. d.index \in Nat
    BY <1>1, <2>1, IndexSplit
  <2>4. ASSUME m.ok PROVE Entry(m.win, d.index % ENT) = At(c.dir, d.index + 1)
    BY <1>1, <1>3, <2>1, <2>2, <2>4, DirEntry
  <2>5. s \in Seq(Entries)
    BY <1>1, <1>5, CardData
  <2> QED
    BY <1>1, <1>3, <1>5, <2>2, <2>3, <2>4, <2>5
<1> QED
  BY <1>4, <1>5

(* What the searches establish.                                            *)
LEMMA RootSearched ==
  ASSUME NEW c, IsVolume(c), NEW path, path[1] = DIRNAME, NEW n \in Nat, n >= Len(c.root),
         Passed(c.root, 1, n, path)
  PROVE  ~HasDirectory(c)
<1> SUFFICES ASSUME NEW i \in DOMAIN c.root, IsDirectory(c.root[i]) PROVE FALSE
  BY DEF HasDirectory
<1>1. c.root \in Seq(Entries)
  BY CardData
<1>2. i \in 1 .. n /\ i <= Len(c.root)
  BY <1>1
<1>3. ~Matches(c.root[i], make_dirfile(DIRNAME).name)
  BY <1>2 DEF Passed
<1>4. c.root[i].kind = "dir" /\ c.root[i].name = make_dirfile(DIRNAME).name
  BY DEF IsDirectory
<1> QED
  BY <1>3, <1>4 DEF Matches

LEMMA RootTaken ==
  ASSUME NEW c, IsVolume(c), NEW i \in DOMAIN c.root, c.root[i].kind # "dir",
         Matches(c.root[i], make_dirfile(DIRNAME).name)
  PROVE  ~HasDirectory(c)
<1> SUFFICES ASSUME NEW j \in DOMAIN c.root, IsDirectory(c.root[j]) PROVE FALSE
  BY DEF HasDirectory
<1>1. Visible(c.root[i]) /\ c.root[i].name = make_dirfile(DIRNAME).name
  BY DEF Matches, Visible
<1>2. Visible(c.root[j]) /\ c.root[j].name = make_dirfile(DIRNAME).name /\ c.root[j].kind = "dir"
  BY DEF IsDirectory, Visible
<1>3. NamesDiffer(c.root)
  BY CardData
<1>4. i = j
  BY <1>1, <1>2, <1>3 DEF NamesDiffer
<1> QED
  BY <1>2, <1>4

(* A file that is there has a name that is read back.                      *)
LEMMA FileThere ==
  ASSUME NEW c, IsVolume(c), NEW e \in Files(c)
  PROVE  /\ \E i \in 3 .. Len(c.dir) : e = c.dir[i]
         /\ Visible(e) /\ e \in Entries
         /\ make_dirfile(get_fileinfo(e.name)) = [bad |-> FALSE, name |-> e.name]
<1>1. PICK i \in 3 .. Len(c.dir) : e = c.dir[i] /\ Visible(c.dir[i])
  BY DEF Files
<1>2. c.dir \in Seq(Entries) /\ c \in Cards /\ c.boot # "foreign"
  BY CardData DEF IsVolume
<1>3. i \in 1 .. Len(c.dir)
  BY <1>2
<1>4. c.dir[i] \in Entries
  BY <1>2, <1>3, ElementOfSeq
<1>5. make_dirfile(get_fileinfo(c.dir[i].name)) = [bad |-> FALSE, name |-> c.dir[i].name]
  BY <1>1, <1>2, CardAssumption
<1> QED
  BY <1>1, <1>4, <1>5

LEMMA DirSearched ==
  ASSUME NEW c, IsVolume(c), NEW path, NEW n \in Nat, n >= Len(c.dir), Passed(c.dir, 3, n, path),
         NEW e \in Files(c)
  PROVE  get_fileinfo(e.name) # path[1]
<1>1. PICK i \in 3 .. Len(c.dir) : e = c.dir[i]
  BY FileThere
<1>2. Visible(e) /\ make_dirfile(get_fileinfo(e.name)) = [bad |-> FALSE, name |-> e.name]
  BY FileThere
<1>3. Len(c.dir) \in Nat
  BY CardData
<1>4. ~Matches(e, make_dirfile(path[1]).name)
  BY <1>1, <1>3 DEF Passed
<1>5. e.name # make_dirfile(path[1]).name
  <2>1. e.kind # "end"
    <3>1. e \in Entries
      BY FileThere
    <3> QED
      BY <3>1 DEF Entries, Kinds
  <2> QED
    BY <1>2, <1>4, <2>1 DEF Matches, Visible
<1>6. make_dirfile(get_fileinfo(e.name)).name = e.name
  BY <1>2
<1> QED
  BY <1>5, <1>6

LEMMA DirTaken ==
  ASSUME NEW c, IsVolume(c), NEW i \in 3 .. Len(c.dir), NEW nm, c.dir[i].kind = "dir",
         Matches(c.dir[i], make_dirfile(nm).name), NEW e \in Files(c)
  PROVE  e.kind = "dir" \/ get_fileinfo(e.name) # nm
<1> SUFFICES ASSUME get_fileinfo(e.name) = nm PROVE e.kind = "dir"
  OBVIOUS
<1>1. PICK j \in 3 .. Len(c.dir) : e = c.dir[j]
  BY FileThere
<1>2. Visible(e) /\ make_dirfile(nm).name = e.name
  <2>1. Visible(e) /\ make_dirfile(get_fileinfo(e.name)) = [bad |-> FALSE, name |-> e.name]
    BY FileThere
  <2>2. make_dirfile(nm) = [bad |-> FALSE, name |-> e.name]
    BY <2>1
  <2> QED
    BY <2>1, <2>2
<1>3. Visible(c.dir[i]) /\ c.dir[i].name = e.name
  BY <1>2 DEF Matches, Visible
<1>4. NamesDiffer(c.dir) /\ c.dir \in Seq(Entries)
  BY CardData
<1>5. i \in DOMAIN c.dir /\ j \in DOMAIN c.dir
  BY <1>4
<1>6. i = j
  BY <1>1, <1>2, <1>3, <1>4, <1>5 DEF NamesDiffer
<1> QED
  BY <1>1, <1>6

LEMMA PassedNext ==
  ASSUME NEW s \in Seq(Entries), NEW from, NEW n \in Nat, NEW path, Passed(s, from, n, path),
         ~Matches(At(s, n + 1), make_dirfile(path[1]).name), from \in Nat
  PROVE  Passed(s, from, n + 1, path)
<1> SUFFICES ASSUME NEW i \in from .. n + 1, i <= Len(s)
             PROVE  ~Matches(s[i], make_dirfile(path[1]).name)
  BY DEF Passed
<1>1. CASE i = n + 1
  BY <1>1 DEF At
<1>2. CASE i # n + 1
  <2>1. i \in from .. n
    BY <1>2
  <2> QED
    BY <2>1 DEF Passed
<1> QED
  BY <1>1, <1>2

(* A search that is given up.                                              *)
LEMMA Refuses ==
  ASSUME VolInv, pc = "trace", pc' = "idle", dob' = NoDir, UNCHANGED <<dir, call, listed>>,
         MountOK', fs'.of = fs.of, res' \in {"INVALID_NAME", "RW_ERROR", "NO_FILE", "NO_PATH"},
         res' = "RW_ERROR" => fault',
         ~fault' /\ AtFirst /\ res' \in {"NO_FILE", "NO_PATH"} => ~HasDirectory(fs.of),
         ~fault' /\ AtLast /\ res' = "NO_FILE" =>
           \A e \in Files(fs.of) : e.kind = "dir" \/ get_fileinfo(e.name) # call.path[1],
         call.op = "open" /\ res' = "NO_FILE" => AtLast,
         res' = "NO_PATH" => AtFirst
  PROVE  VolInv'
<1>1. dir = NoDir /\ (AtFirst \/ AtLast)
  BY DEF VolInv, CallOK, TraceOK
<1>2. TraceOK' /\ CallOK' /\ ListOK' /\ OpenedOK'
  BY <1>1 DEF TraceOK, CallOK, ListOK, OpenedOK
<1>3. PICK c : c = fs.of /\ c = fs'.of
  OBVIOUS
<1>4. HasDirectory(fs.of)' <=> HasDirectory(c)
  BY <1>3 DEF HasDirectory
<1>5. Files(fs.of)' = Files(c)
  BY <1>3 DEF Files
<1>6. call.op = "opendir" => AtFirst
  BY <1>1, WhatIsAsked
<1>7. AtLast => Len(call.path) = 1
  BY WhatIsAsked
<1>8. NoFalseRefusal'
  <2>1. ASSUME ~fault', res' = "NO_FILE", call.op = "open"
        PROVE  \A e \in Files(c) : e.kind = "dir" \/ get_fileinfo(e.name) # call.path[Len(call.path)]
    BY <1>3, <1>7, <2>1
  <2>2. ASSUME ~fault', res' = "NO_PATH" \/ (res' = "NO_FILE" /\ call.op = "opendir")
        PROVE  ~HasDirectory(c)
    BY <1>3, <1>6, <2>2
  <2> QED
    BY <1>3, <1>4, <1>5, <2>1, <2>2 DEF NoFalseRefusal
<1> QED
  BY <1>2, <1>8 DEF VolInv

(* The directory begins at the third entry of its first cluster.           *)
LEMMA DirBegins ==
  ASSUME MountOK, fs # Zero, NEW c, c = fs.of, NEW i \in DOMAIN c.root, IsDirectory(c.root[i]),
         NEW d, d.clust = c.root[i].clust, d.sect = clust2sect(c.root[i].clust), d.index = 2
  PROVE  InDir(c, d) /\ d.sect # 0
<1>1. IsVolume(c) /\ fs.max_clust = Clusters(c)
  BY DEF MountOK, Geometry
<1>2. c.chain # <<>> /\ c.root[i].clust = c.chain[1] /\ Len(c.chain) \in Nat
  BY <1>1, CardData
<1>3. 1 \in 1 .. Len(c.chain)
  <2>1. c.chain \in Seq(2 .. Clusters(c) - 1)
    BY <1>1, CardData
  <2>2. Len(c.chain) # 0
    BY <1>2, <2>1, EmptySeq
  <2> QED
    BY <1>2, <2>2
<1>4. c.chain[1] \in 2 .. Clusters(c) - 1
  BY <1>1, <1>3, ChainCluster
<1>5. PICK cl : cl = c.chain[1] /\ cl \in 2 .. fs.max_clust - 1
  BY <1>1, <1>4
<1>6. d.sect = DataStart(c) + (c.chain[1] - 2) * c.sects_clust + 0
  <2>1. clust2sect(cl) = DataStart(fs.of) + (cl - 2) * fs.of.sects_clust + 0
    BY <1>5, Reached
  <2> QED
    BY <2>1, <1>2, <1>5
<1>7. c.sects_clust \in Nat \ {0}
  BY <1>1, CardNumbers
<1>8. ((1 - 1) * c.sects_clust + 0) * ENT + 2 = 2
  BY <1>7, EntIs
<1>9. DirPlace(c, d, 1, 0, 2)
  BY <1>2, <1>6, <1>8 DEF DirPlace
<1>10. 0 \in 0 .. c.sects_clust - 1 /\ 2 \in 0 .. ENT - 1
  BY <1>7, EntIs
<1>11. InDir(c, d)
  BY <1>3, <1>9, <1>10 DEF InDir
<1>12. d.sect >= DataStart(c) /\ DataStart(c) \in Nat \ {0} /\ d.sect \in Int
  <2>1. DataStart(c) + (c.chain[1] - 2) * c.sects_clust + 0 \in 0 .. BootSector(c) + c.totsec - 1
        /\ DataStart(c) + (c.chain[1] - 2) * c.sects_clust + 0 >= DataStart(c)
    BY <1>1, <1>4, <1>10, ClusterFits
  <2> QED
    BY <2>1, <1>1, <1>6, CardAreas, CardNumbers
<1> QED
  BY <1>11, <1>12

(* A search goes on.                                                       *)
LEMMA Proceeds ==
  ASSUME VolInv, pc = "trace", UNCHANGED <<pc, stat, dir, listed>>, MountOK', fs' # Zero,
         NEW c, c = fs'.of, NEW d, d = dob', IsDir(d),
         \/ AtFirst' /\ InRoot(c, d) /\ Passed(c.root, 1, d.index, call'.path)
         \/ AtLast' /\ InDir(c, d) /\ d.index >= 2 /\ Passed(c.dir, 3, d.index, call'.path)
  PROVE  VolInv'
<1>1. stat /\ dir = NoDir /\ listed = <<>>
  BY DEF VolInv, TraceOK, CallOK
<1>2. InRoot(fs.of, dob)' <=> InRoot(c, d)
  BY DEF InRoot, RootPlace
<1>3. InDir(fs.of, dob)' <=> InDir(c, d)
  BY DEF InDir, DirPlace
<1>4. Passed(fs.of.root, 1, dob.index, call.path)' <=> Passed(c.root, 1, d.index, call'.path)
  BY DEF Passed
<1>5. Passed(fs.of.dir, 3, dob.index, call.path)' <=> Passed(c.dir, 3, d.index, call'.path)
  BY DEF Passed
<1>6. IsDir(dob)' <=> IsDir(d)
  BY DEF IsDir
<1>7. TraceOK'
  BY <1>1, <1>2, <1>3, <1>4, <1>5, <1>6 DEF TraceOK
<1>8. CallOK' /\ ListOK' /\ OpenedOK' /\ NoFalseRefusal'
  BY <1>1 DEF CallOK, ListOK, OpenedOK, NoFalseRefusal
<1> QED
  BY <1>7, <1>8 DEF VolInv

(* What is searched, and from which entry on.                              *)
Searches(s, from) ==
  /\ \/ AtFirst /\ InRoot(fs.of, dob) /\ s = fs.of.root /\ from = 1
     \/ AtLast /\ InDir(fs.of, dob) /\ dob.index >= 2 /\ s = fs.of.dir /\ from = 3
  /\ Passed(s, from, dob.index, call.path)

(* A search that came to the end.                                          *)
LEMMA Exhausted ==
  ASSUME VolInv, pc = "trace", pc' = "idle", dob' = NoDir, UNCHANGED <<dir, call, listed>>,
         MountOK', fs'.of = fs.of, NEW s, NEW from, Searches(s, from), NEW n \in Nat,
         ~fault' => n >= Len(s) /\ Passed(s, from, n, call.path),
         res' = (IF Len(call.path) = 1 THEN "NO_FILE" ELSE "NO_PATH")
  PROVE  VolInv'
<1>1. IsVolume(fs.of)
  <2>1. fs # Zero /\ MountOK
    BY DEF VolInv, TraceOK
  <2> QED
    BY <2>1, WindowStarts
<1>2. ASSUME AtFirst, ~fault' PROVE ~HasDirectory(fs.of)
  <2>1. s = fs.of.root /\ from = 1
    BY <1>2, WhatIsAsked DEF Searches
  <2>2. call.path[1] = DIRNAME
    BY <1>2, WhatIsAsked
  <2>3. n >= Len(fs.of.root) /\ Passed(fs.of.root, 1, n, call.path)
    BY <1>2, <2>1
  <2> QED
    BY <1>1, <2>2, <2>3, RootSearched
<1>3. ASSUME AtLast, ~fault'
      PROVE  \A e \in Files(fs.of) : e.kind = "dir" \/ get_fileinfo(e.name) # call.path[1]
  <2>1. s = fs.of.dir /\ from = 3
    BY <1>3, WhatIsAsked DEF Searches
  <2>2. n >= Len(fs.of.dir) /\ Passed(fs.of.dir, 3, n, call.path)
    BY <1>3, <2>1
  <2> QED
    BY <1>1, <2>2, DirSearched
<1>4. AtFirst \/ AtLast
  BY DEF Searches
<1>5. AtFirst /\ call.op = "open" => res' = "NO_PATH"
  BY WhatIsAsked
<1>6. AtLast => res' = "NO_FILE"
  BY WhatIsAsked
<1>7. res' \in {"INVALID_NAME", "RW_ERROR", "NO_FILE", "NO_PATH"} /\ res' # "RW_ERROR"
  OBVIOUS
<1>8. res' = "NO_PATH" => AtFirst
  BY <1>4, <1>6
<1>9. call.op = "open" /\ res' = "NO_FILE" => AtLast
  BY <1>4, <1>5
<1> QED
  BY <1>2, <1>3, <1>7, <1>8, <1>9, Refuses

(* A listing begins with nothing listed, in front of the third entry.      *)
LEMMA ListBegins ==
  ASSUME fs' # Zero, NEW c, c = fs'.of, IsVolume(c), NEW i, i = fs'.id, NEW cl, NEW x, x # 0,
         dir' = [id |-> i, index |-> 2, clust |-> cl, sect |-> x, open |-> TRUE],
         NEW d, d = dir', InDir(c, d), listed' = <<>>, call'.op = "opendir", stat', res' = "OK"
  PROVE  ListOK'
<1>1. d.id = i /\ d.index = 2 /\ d.clust = cl /\ d.sect = x /\ d.open = TRUE
  OBVIOUS
<1>2. IsDir(dir)' /\ Behind' = 2
  BY <1>1 DEF IsDir, Behind
<1>3. Listed(c, <<>>, 2)
  BY ListedNone
<1>4. Listed(fs.of, listed, Behind)' <=> Listed(c, <<>>, 2)
  BY <1>2 DEF Listed, Behind, ImageNames, Images, Upto, Rank
<1>5. InDir(fs.of, dir)' <=> InDir(c, d)
  BY DEF InDir, DirPlace
<1> QED
  BY <1>1, <1>2, <1>3, <1>4, <1>5 DEF ListOK

(* A name was found in the directory searched last.                        *)
LEMMA FoundKeeps ==
  ASSUME VolInv, pc = "trace", UNCHANGED <<stat, call, listed>>, MountOK', fs' # Zero,
         fs'.of = fs.of, fs'.id = fs.id, Len(call.path) = 1,
         NEW s, NEW from \in Nat, s \in Seq(Entries), Searches(s, from), NEW i \in DOMAIN s, i >= from,
         NEW e, e = s[i], Matches(e, make_dirfile(call.path[1]).name),
         make_dirfile(call.path[1]).bad = FALSE, Found(e)
  PROVE  VolInv'
<1>1. fs # Zero /\ MountOK /\ dir = NoDir /\ listed = <<>> /\ stat
  BY DEF VolInv, TraceOK, CallOK
<1>2. PICK c : c = fs.of /\ c = fs'.of /\ IsVolume(c)
  BY <1>1, WindowStarts
<1>3. e.kind \in Kinds /\ e \in Entries
  <2>1. i \in 1 .. Len(s)
    OBVIOUS
  <2>2. e \in Entries
    BY <2>1, ElementOfSeq
  <2> QED
    BY <2>2 DEF Entries
<1>4. CASE AtFirst
  <2>1. call.op = "opendir" /\ call.path[1] = DIRNAME /\ s = c.root
    BY <1>2, <1>4, WhatIsAsked DEF Searches
  <2>2. CASE e.kind = "dir"
    <3>1. dir' = [id |-> fs.id, index |-> 2, clust |-> e.clust, sect |-> clust2sect(e.clust),
                  open |-> TRUE]
          /\ Return("OK") /\ dob' = NoDir
      BY <2>1, <2>2 DEF Found
    <3>2. IsDirectory(c.root[i])
      BY <2>1, <2>2 DEF IsDirectory, Matches
    <3>3. PICK d, cl, x : /\ d = dir' /\ cl = e.clust /\ x = clust2sect(e.clust)
                          /\ d = [id |-> fs.id, index |-> 2, clust |-> cl, sect |-> x, open |-> TRUE]
      BY <3>1
    <3>4. d.clust = c.root[i].clust /\ d.sect = clust2sect(c.root[i].clust) /\ d.index = 2
          /\ d.sect = x
      BY <2>1, <3>3
    <3>5. InDir(c, d) /\ x # 0
      BY <1>1, <1>2, <2>1, <3>2, <3>4, DirBegins
    <3>6. ListOK'
      <4>1. dir' = [id |-> fs'.id, index |-> 2, clust |-> cl, sect |-> x, open |-> TRUE]
        BY <3>3
      <4>2. listed' = <<>> /\ call'.op = "opendir" /\ stat' /\ res' = "OK"
        BY <1>1, <2>1, <3>1 DEF Return
      <4> QED
        BY <1>2, <3>3, <3>5, <4>1, <4>2, ListBegins
    <3>7. pc' = "idle" /\ res' = "OK" /\ call'.op = "opendir"
      BY <2>1, <3>1 DEF Return
    <3>8. TraceOK' /\ CallOK' /\ OpenedOK' /\ NoFalseRefusal'
      BY <3>1, <3>7 DEF TraceOK, CallOK, OpenedOK, NoFalseRefusal
    <3> QED
      BY <3>6, <3>8 DEF VolInv
  <2>3. CASE e.kind # "dir"
    <3>1. pc' = "idle" /\ res' = "NO_FILE" /\ dob' = NoDir /\ UNCHANGED dir
      BY <2>1, <2>3 DEF Found, Fails, Return
    <3>2. ~HasDirectory(fs.of)
      BY <1>2, <2>1, <2>3, RootTaken
    <3>3. ~AtLast /\ call.op # "open"
      BY <2>1, WhatIsAsked
    <3> QED
      BY <3>1, <3>2, <3>3, Refuses
  <2> QED
    BY <2>2, <2>3
<1>5. CASE AtLast
  <2>1. call.op = "open" /\ s = c.dir /\ from = 3
    BY <1>2, <1>5, WhatIsAsked DEF Searches
  <2>2. i \in 3 .. Len(c.dir)
    BY <2>1
  <2>3. CASE e.kind = "dir"
    <3>1. pc' = "idle" /\ res' = "NO_FILE" /\ dob' = NoDir /\ UNCHANGED dir
      BY <2>1, <2>3 DEF Found, Fails, Return
    <3>2. \A f \in Files(fs.of) : f.kind = "dir" \/ get_fileinfo(f.name) # call.path[1]
      BY <1>2, <2>1, <2>2, <2>3, DirTaken
    <3>3. ~AtFirst
      BY <1>5, WhatIsAsked
    <3> QED
      BY <3>1, <3>2, <3>3, <1>5, Refuses
  <2>4. CASE e.kind # "dir"
    <3>1. fp' = e /\ pc' = "idle" /\ res' = "OK" /\ dob' = NoDir /\ dir' = NoDir
      BY <1>1, <2>1, <2>4 DEF Found, Return
    <3>2. e.kind = "file" /\ Visible(e)
      BY <1>3, <2>4 DEF Kinds, Matches, Visible
    <3>3. e \in Files(c)
      BY <2>1, <2>2, <3>2 DEF Files
    <3>4. AtLast'
      BY <1>5 DEF AtLast
    <3>5. Files(fs.of)' = Files(c)
      BY <1>2 DEF Files
    <3>6. make_dirfile(call'.path[1]).bad = FALSE /\ make_dirfile(call'.path[1]).name = fp'.name
      BY <3>1 DEF Matches
    <3>7. OpenedOK'
      BY <3>1, <3>2, <3>3, <3>4, <3>5, <3>6 DEF OpenedOK
    <3>8. TraceOK' /\ CallOK' /\ ListOK' /\ NoFalseRefusal'
      BY <3>1 DEF TraceOK, CallOK, ListOK, NoFalseRefusal
    <3> QED
      BY <3>7, <3>8 DEF VolInv
  <2> QED
    BY <2>3, <2>4
<1> QED
  BY <1>4, <1>5 DEF Searches

(* The directory of a path was found, and the file is looked for in it.    *)
LEMMA EnterKeeps ==
  ASSUME VolInv, pc = "trace", UNCHANGED <<stat, listed>>, MountOK', fs' # Zero,
         fs'.of = fs.of, Len(call.path) # 1, NEW s \in Seq(Entries), NEW from, Searches(s, from),
         NEW i \in DOMAIN s, NEW e, e = s[i], Matches(e, make_dirfile(call.path[1]).name),
         IF e.kind = "dir"
         THEN /\ dob' = [dob EXCEPT !.clust = e.clust, !.sect = clust2sect(e.clust), !.index = 2]
              /\ call' = [call EXCEPT !.path = Tail(@)]
              /\ UNCHANGED <<pc, res, dir, fp>>
         ELSE Fails("NO_PATH") /\ UNCHANGED call
  PROVE  VolInv'
<1>1. fs # Zero /\ MountOK /\ IsDir(dob)
  BY DEF VolInv, TraceOK
<1>2. PICK c : c = fs.of /\ c = fs'.of /\ IsVolume(c)
  BY <1>1, WindowStarts
<1>3. AtFirst /\ s = c.root /\ call.path[1] = DIRNAME /\ call.op # "opendir"
  BY <1>2, WhatIsAsked DEF Searches
<1>4. CASE e.kind = "dir"
  <2>1. IsDirectory(c.root[i])
    BY <1>3, <1>4 DEF IsDirectory, Matches
  <2>2. PICK d, cl, x, b : d = dob' /\ cl = e.clust /\ x = clust2sect(e.clust) /\ b = dob
    OBVIOUS
  <2>3. d = [b EXCEPT !.clust = cl, !.sect = x, !.index = 2]
    BY <1>4, <2>2
  <2>4. b = [id |-> b.id, index |-> b.index, clust |-> b.clust, sect |-> b.sect, open |-> b.open]
    BY <1>1, <2>2 DEF IsDir
  <2>5. d = [id |-> b.id, index |-> 2, clust |-> cl, sect |-> x, open |-> b.open]
    BY <2>3, <2>4
  <2>6. IsDir(d) /\ d.clust = cl /\ d.sect = x /\ d.index = 2
    BY <2>5 DEF IsDir
  <2>7. InDir(c, d)
    <3>1. d.clust = c.root[i].clust /\ d.sect = clust2sect(c.root[i].clust)
      BY <1>3, <2>2, <2>6
    <3> QED
      BY <1>1, <1>2, <1>3, <2>1, <2>6, <3>1, DirBegins
  <2>8. AtLast'
    <3>1. PICK n \in Asked : call = [op |-> "open", path |-> <<DIRNAME, n>>]
      BY <1>3 DEF AtFirst
    <3>2. call.path = <<DIRNAME, n>>
      BY <3>1
    <3>3. Tail(call.path) = <<n>>
      BY <3>2
    <3>4. PICK a : a = <<DIRNAME, n>>
      OBVIOUS
    <3>5. PICK v : v = <<n>>
      OBVIOUS
    <3>6. call = [op |-> "open", path |-> a] /\ call' = [call EXCEPT !.path = v]
      BY <1>4, <3>1, <3>3, <3>4, <3>5
    <3>7. call' = [op |-> "open", path |-> v]
      BY <3>6
    <3> QED
      BY <3>5, <3>7 DEF AtLast, Asked
  <2>9. Passed(c.dir, 3, d.index, call'.path)
    BY <2>6 DEF Passed
  <2>10. UNCHANGED <<pc, dir>>
    BY <1>4
  <2> QED
    BY <1>2, <2>2, <2>6, <2>7, <2>8, <2>9, <2>10, Proceeds
<1>5. CASE e.kind # "dir"
  <2>1. pc' = "idle" /\ res' = "NO_PATH" /\ dob' = NoDir /\ UNCHANGED <<dir, call>>
    BY <1>5 DEF Fails, Return
  <2>2. ~HasDirectory(fs.of)
    BY <1>2, <1>3, <1>5, RootTaken
  <2> QED
    BY <1>3, <2>1, <2>2, Refuses
<1> QED
  BY <1>4, <1>5

(* One entry of the search.                                                *)
LEMMA TraceKeeps ==
  ASSUME VolInv, trace_path
  PROVE  VolInv'
<1>1. /\ pc = "trace" /\ fs # Zero /\ stat /\ IsDir(dob) /\ dir = NoDir /\ listed = <<>>
      /\ MountOK /\ (AtFirst \/ AtLast)
  BY DEF trace_path, VolInv, CallOK, TraceOK
<1>2. UNCHANGED <<slot, up, stat, fsid, listed>>
  BY DEF trace_path
<1>3. PICK ok \in [1 .. 3 -> Answers] :
        LET fn == make_dirfile(Head(call.path))
            m == move_window(Window, dob.sect, ok[1])
            e == Entry(m.win, dob.index % ENT)
            n == next_dir_entry(dob, m, ok)
            last == Len(call.path) = 1
            none == IF last THEN "NO_FILE" ELSE "NO_PATH" IN
        \/ /\ fn.bad /\ Fails("INVALID_NAME") /\ UNCHANGED <<fs, win, fault, call>>
        \/ /\ ~fn.bad /\ ~m.ok
           /\ Keep(m) /\ Fails("RW_ERROR") /\ UNCHANGED call
        \/ /\ ~fn.bad /\ m.ok /\ e.kind = "end"
           /\ Keep(m) /\ Fails(none) /\ UNCHANGED call
        \/ /\ ~fn.bad /\ m.ok /\ Matches(e, fn.name) /\ last
           /\ Keep(m) /\ Found(e) /\ UNCHANGED call
        \/ /\ ~fn.bad /\ m.ok /\ Matches(e, fn.name) /\ ~last
           /\ Keep(m)
           /\ IF e.kind = "dir"
              THEN /\ dob' = [dob EXCEPT !.clust = e.clust, !.sect = clust2sect(e.clust),
                                         !.index = 2]
                   /\ call' = [call EXCEPT !.path = Tail(@)]
                   /\ UNCHANGED <<pc, res, dir, fp>>
              ELSE Fails("NO_PATH") /\ UNCHANGED call
        \/ /\ ~fn.bad /\ m.ok /\ e.kind # "end" /\ ~Matches(e, fn.name)
           /\ Keep(n.m) /\ UNCHANGED call
           /\ IF n.ok THEN dob' = n.d /\ UNCHANGED <<pc, res, dir, fp>> ELSE Fails(none)
  BY DEF trace_path
<1>4. PICK fn : fn = make_dirfile(Head(call.path))
  OBVIOUS
<1>5. PICK m : m = move_window(Window, dob.sect, ok[1])
  OBVIOUS
<1>6. PICK e : e = Entry(m.win, dob.index % ENT)
  OBVIOUS
<1>7. PICK n : n = next_dir_entry(dob, m, ok)
  OBVIOUS
<1>8. PICK none : none = IF Len(call.path) = 1 THEN "NO_FILE" ELSE "NO_PATH"
  OBVIOUS
<1>9. \/ /\ fn.bad /\ Fails("INVALID_NAME") /\ UNCHANGED <<fs, win, fault, call>>
      \/ /\ ~fn.bad /\ ~m.ok
         /\ Keep(m) /\ Fails("RW_ERROR") /\ UNCHANGED call
      \/ /\ ~fn.bad /\ m.ok /\ e.kind = "end"
         /\ Keep(m) /\ Fails(none) /\ UNCHANGED call
      \/ /\ ~fn.bad /\ m.ok /\ Matches(e, fn.name) /\ Len(call.path) = 1
         /\ Keep(m) /\ Found(e) /\ UNCHANGED call
      \/ /\ ~fn.bad /\ m.ok /\ Matches(e, fn.name) /\ ~(Len(call.path) = 1)
         /\ Keep(m)
         /\ IF e.kind = "dir"
            THEN /\ dob' = [dob EXCEPT !.clust = e.clust, !.sect = clust2sect(e.clust),
                                       !.index = 2]
                 /\ call' = [call EXCEPT !.path = Tail(@)]
                 /\ UNCHANGED <<pc, res, dir, fp>>
            ELSE Fails("NO_PATH") /\ UNCHANGED call
      \/ /\ ~fn.bad /\ m.ok /\ e.kind # "end" /\ ~Matches(e, fn.name)
         /\ Keep(n.m) /\ UNCHANGED call
         /\ IF n.ok THEN dob' = n.d /\ UNCHANGED <<pc, res, dir, fp>> ELSE Fails(none)
  BY <1>3, <1>4, <1>5, <1>6, <1>7, <1>8, Zenon
<1>10. ok[1] \in Answers
  BY <1>3
<1>11. PICK s, from : Searches(s, from) /\ from \in {1, 3}
  <2>1. CASE AtFirst
    <3>1. InRoot(fs.of, dob) /\ Passed(fs.of.root, 1, dob.index, call.path)
      BY <1>1, <2>1, WhatIsAsked DEF VolInv, TraceOK
    <3>2. Searches(fs.of.root, 1)
      BY <2>1, <3>1 DEF Searches
    <3> QED
      BY <3>2
  <2>2. CASE AtLast
    <3>1. InDir(fs.of, dob) /\ dob.index >= 2 /\ Passed(fs.of.dir, 3, dob.index, call.path)
      BY <1>1, <2>2, WhatIsAsked DEF VolInv, TraceOK
    <3>2. Searches(fs.of.dir, 3)
      BY <2>2, <3>1 DEF Searches
    <3> QED
      BY <3>2
  <2> QED
    BY <1>1, <2>1, <2>2
<1>12. /\ Coherent(m) /\ dob.sect \in Nat \ {0} /\ dob.index \in Nat /\ s \in Seq(Entries)
       /\ m.ok => e = At(s, dob.index + 1)
  <2>1. \/ InRoot(fs.of, dob) /\ s = fs.of.root
        \/ InDir(fs.of, dob) /\ s = fs.of.dir
    BY <1>11 DEF Searches
  <2> QED
    BY <1>1, <1>5, <1>6, <1>10, <2>1, EntryThere
<1>13. fn = make_dirfile(call.path[1])
  <2>1. Head(call.path) = call.path[1]
    OBVIOUS
  <2> QED
    BY <1>4, <2>1
<1>14. m.ok \in BOOLEAN
  BY <1>12 DEF Coherent
<1>15. ASSUME Keep(m) PROVE MountOK' /\ fs' # Zero /\ fs'.of = fs.of /\ fs'.id = fs.id
  BY <1>1, <1>2, <1>12, <1>15, Kept
<1>16. ASSUME NEW r, Fails(r)
       PROVE  pc' = "idle" /\ dob' = NoDir /\ UNCHANGED <<dir, listed>> /\ res' = r
  BY <1>2, <1>16 DEF Fails, Return
<1>17. ASSUME fn.bad, Fails("INVALID_NAME"), UNCHANGED <<fs, win, fault, call>> PROVE VolInv'
  <2>1. MountOK'
    BY <1>1, <1>2, <1>17, MountStays
  <2>2. pc' = "idle" /\ dob' = NoDir /\ UNCHANGED <<dir, listed>> /\ res' = "INVALID_NAME"
    BY <1>16, <1>17
  <2> QED
    BY <1>1, <1>17, <2>1, <2>2, Refuses
<1>18. ASSUME ~m.ok, Keep(m), Fails("RW_ERROR"), UNCHANGED call PROVE VolInv'
  <2>1. MountOK' /\ fs'.of = fs.of
    BY <1>15, <1>18
  <2>2. pc' = "idle" /\ dob' = NoDir /\ UNCHANGED <<dir, listed>> /\ res' = "RW_ERROR"
    BY <1>16, <1>18
  <2>3. fault'
    BY <1>18 DEF Keep
  <2> QED
    BY <1>1, <1>18, <2>1, <2>2, <2>3, Refuses
<1>19. ASSUME m.ok, e.kind = "end", Keep(m), Fails(none), UNCHANGED call PROVE VolInv'
  <2>1. MountOK' /\ fs'.of = fs.of
    BY <1>15, <1>19
  <2>2. pc' = "idle" /\ dob' = NoDir /\ UNCHANGED <<dir, listed>> /\ res' = none
    BY <1>16, <1>19
  <2>3. dob.index >= Len(s)
    BY <1>12, <1>19, AtIs
  <2>4. Passed(s, from, dob.index, call.path)
    BY <1>11 DEF Searches
  <2>5. res' = (IF Len(call.path) = 1 THEN "NO_FILE" ELSE "NO_PATH")
    BY <1>8, <2>2
  <2> QED
    BY <1>1, <1>11, <1>12, <1>19, <2>1, <2>2, <2>3, <2>4, <2>5, Exhausted
<1>20. ASSUME m.ok, Matches(e, fn.name)
       PROVE  /\ dob.index + 1 \in DOMAIN s /\ e = s[dob.index + 1] /\ dob.index + 1 >= from
              /\ Matches(e, make_dirfile(call.path[1]).name)
  <2>1. e.kind # "end"
    BY <1>20 DEF Matches
  <2>2. ~(dob.index >= Len(s)) /\ Len(s) \in Nat
    BY <1>12, <1>20, <2>1, AtIs
  <2>3. dob.index + 1 \in DOMAIN s
    BY <1>12, <2>2
  <2>4. e = s[dob.index + 1]
    BY <1>12, <1>20, <2>2, AtIs
  <2>5. dob.index + 1 >= from
    BY <1>11, <1>12 DEF Searches
  <2> QED
    BY <1>13, <1>20, <2>3, <2>4, <2>5
<1>21. ASSUME ~fn.bad, m.ok, Matches(e, fn.name), Len(call.path) = 1, Keep(m), Found(e), UNCHANGED call
       PROVE  VolInv'
  <2>1. MountOK' /\ fs' # Zero /\ fs'.of = fs.of /\ fs'.id = fs.id
    BY <1>15, <1>21
  <2>2. make_dirfile(call.path[1]).bad = FALSE
    <3>1. fn.bad \in BOOLEAN
      BY <1>4 DEF make_dirfile
    <3> QED
      BY <3>1, <1>13, <1>21
  <2>3. from \in Nat
    BY <1>11
  <2> QED
    BY <1>1, <1>2, <1>11, <1>12, <1>20, <1>21, <2>1, <2>2, <2>3, FoundKeeps
<1>22. ASSUME m.ok, Matches(e, fn.name), ~(Len(call.path) = 1), Keep(m),
              IF e.kind = "dir"
              THEN /\ dob' = [dob EXCEPT !.clust = e.clust, !.sect = clust2sect(e.clust), !.index = 2]
                   /\ call' = [call EXCEPT !.path = Tail(@)]
                   /\ UNCHANGED <<pc, res, dir, fp>>
              ELSE Fails("NO_PATH") /\ UNCHANGED call
       PROVE  VolInv'
  <2>1. MountOK' /\ fs' # Zero /\ fs'.of = fs.of
    BY <1>15, <1>22
  <2> QED
    BY <1>1, <1>2, <1>11, <1>12, <1>20, <1>22, <2>1, EnterKeeps
<1>23. ASSUME m.ok, ~Matches(e, fn.name), Keep(n.m), UNCHANGED call,
              IF n.ok THEN dob' = n.d /\ UNCHANGED <<pc, res, dir, fp>> ELSE Fails(none)
       PROVE  VolInv'
  <2>1. Passed(s, from, dob.index + 1, call.path)
    <3>1. Passed(s, from, dob.index, call.path)
      BY <1>11 DEF Searches
    <3>2. ~Matches(At(s, dob.index + 1), make_dirfile(call.path[1]).name)
      BY <1>12, <1>13, <1>23
    <3> QED
      BY <1>11, <1>12, <3>1, <3>2, PassedNext
  <2>2. Coherent(n.m) /\ n.ok \in BOOLEAN
        /\ (n.ok => IsDir(n.d) /\ n.d.index = dob.index + 1
                    /\ (AtFirst => InRoot(fs.of, n.d)) /\ (AtLast => InDir(fs.of, n.d)))
        /\ (~n.ok => (n.m.ok => dob.index + 1 >= Len(s)))
    <3>1. CASE AtFirst
      <4>1. InRoot(fs.of, dob) /\ s = fs.of.root
        BY <1>11, <3>1, WhatIsAsked DEF Searches
      <4>2. n.m = m /\ n.ok \in BOOLEAN
            /\ (n.ok => IsDir(n.d) /\ InRoot(fs.of, n.d) /\ n.d.index = dob.index + 1)
            /\ (~n.ok => dob.index + 1 >= Len(fs.of.root))
        BY <1>1, <1>3, <1>7, <1>12, <4>1, NextRoot
      <4> QED
        BY <1>12, <3>1, <4>1, <4>2, WhatIsAsked
    <3>2. CASE AtLast
      <4>1. InDir(fs.of, dob) /\ s = fs.of.dir
        BY <1>11, <3>2, WhatIsAsked DEF Searches
      <4>2. OneFurther(fs.of, dob, n)
        BY <1>1, <1>3, <1>7, <1>12, <4>1, NextDir
      <4> QED
        BY <3>2, <4>1, <4>2, WhatIsAsked DEF OneFurther
    <3> QED
      BY <1>1, <3>1, <3>2
  <2>3. MountOK' /\ fs' # Zero /\ fs'.of = fs.of
    BY <1>1, <1>2, <1>23, <2>2, Kept
  <2>4. CASE n.ok
    <3>1. dob' = n.d /\ UNCHANGED <<pc, dir>>
      BY <1>23, <2>4
    <3>2. PICK c, d : c = fs.of /\ d = n.d
      OBVIOUS
    <3>3. AtFirst => AtFirst' /\ InRoot(c, d) /\ Passed(c.root, 1, d.index, call'.path)
      <4> SUFFICES ASSUME AtFirst PROVE AtFirst' /\ InRoot(c, d) /\ Passed(c.root, 1, d.index, call'.path)
        OBVIOUS
      <4>1. s = c.root /\ from = 1
        BY <1>11, <3>2, WhatIsAsked DEF Searches
      <4>2. AtFirst'
        BY <1>23, FirstStays
      <4> QED
        BY <1>23, <2>1, <2>2, <2>4, <3>2, <4>1, <4>2
    <3>4. AtLast => AtLast' /\ InDir(c, d) /\ d.index >= 2 /\ Passed(c.dir, 3, d.index, call'.path)
      <4> SUFFICES ASSUME AtLast
                   PROVE  AtLast' /\ InDir(c, d) /\ d.index >= 2 /\ Passed(c.dir, 3, d.index, call'.path)
        OBVIOUS
      <4>1. s = c.dir /\ from = 3 /\ dob.index >= 2
        BY <1>11, <3>2, WhatIsAsked DEF Searches
      <4>2. AtLast'
        BY <1>23 DEF AtLast, Asked
      <4> QED
        BY <1>12, <1>23, <2>1, <2>2, <2>4, <3>2, <4>1, <4>2
    <3> QED
      BY <1>1, <1>2, <2>2, <2>3, <2>4, <3>1, <3>2, <3>3, <3>4, Proceeds
  <2>5. CASE ~n.ok
    <3>1. Fails(none)
      BY <1>23, <2>5
    <3>2. pc' = "idle" /\ dob' = NoDir /\ UNCHANGED <<dir, listed>> /\ res' = none
      BY <1>16, <3>1
    <3>3. ~fault' => dob.index + 1 >= Len(s) /\ Passed(s, from, dob.index + 1, call.path)
      BY <1>23, <2>1, <2>2, <2>5 DEF Keep
    <3>4. res' = (IF Len(call.path) = 1 THEN "NO_FILE" ELSE "NO_PATH")
      BY <1>8, <3>2
    <3>5. dob.index + 1 \in Nat
      BY <1>12
    <3> QED
      BY <1>1, <1>11, <1>23, <2>3, <3>2, <3>3, <3>4, <3>5, Exhausted
  <2> QED
    BY <2>4, <2>5
<1> QED
  BY <1>9, <1>17, <1>18, <1>19, <1>21, <1>22, <1>23, Zenon

(* What a listing keeps as it goes on.                                     *)
LEMMA ListGoesOn ==
  ASSUME fs' # Zero, NEW c, c = fs'.of, NEW d, d = dir', IsDir(d), d.open = TRUE, call'.op = "opendir",
         d.id = fs'.id, stat', d.index \in Nat, d.index >= 2, d.sect # 0 => InDir(c, d),
         NEW b, b = (IF d.sect = 0 THEN d.index + 1 ELSE d.index), Listed(c, listed', b),
         ~fault' /\ (d.sect = 0 \/ (res' = "END" /\ pc' = "idle")) => b >= Len(c.dir)
  PROVE  ListOK'
<1>1. Behind' = b
  BY DEF Behind
<1>2. Listed(fs.of, listed, Behind)' <=> Listed(c, listed', b)
  BY <1>1 DEF Listed, Behind, ImageNames, Images, Upto, Rank
<1>3. InDir(fs.of, dir)' <=> InDir(c, d)
  BY DEF InDir, DirPlace
<1>4. IsDir(dir)' <=> IsDir(d)
  BY DEF IsDir
<1> QED
  BY <1>1, <1>2, <1>3, <1>4 DEF ListOK

(* One entry of a listing.                                                 *)
LEMMA ReaddirKeeps ==
  ASSUME VolInv, f_readdir
  PROVE  VolInv'
<1>1. pc = "read" /\ dir.open /\ dob = NoDir /\ MountOK
  BY DEF f_readdir, VolInv, CallOK, TraceOK
<1>2. /\ IsDir(dir) /\ dir.open = TRUE /\ call.op = "opendir" /\ fs # Zero /\ dir.id = fs.id /\ stat
      /\ dir.index \in Nat /\ dir.index >= 2 /\ (dir.sect # 0 => InDir(fs.of, dir))
      /\ Listed(fs.of, listed, Behind)
      /\ (~fault /\ (dir.sect = 0 \/ (res = "END" /\ pc = "idle")) => Behind >= Len(fs.of.dir))
  <2>1. dir # NoDir
    BY <1>1 DEF NoDir
  <2> QED
    BY <2>1 DEF VolInv, ListOK
<1>3. UNCHANGED <<slot, up, stat, fsid, dob, call, fp>>
  BY DEF f_readdir
<1>4. PICK ok \in [1 .. 3 -> Answers] :
        LET m == move_window(Window, dir.sect, ok[1])
            e == Entry(m.win, dir.index % ENT)
            n == next_dir_entry(dir, m, ok) IN
        \/ /\ dir.sect = 0
           /\ Return("END") /\ UNCHANGED <<fs, win, fault, dir, listed>>
        \/ /\ dir.sect # 0 /\ ~m.ok
           /\ Keep(m) /\ Return("ERROR") /\ UNCHANGED <<dir, listed>>
        \/ /\ dir.sect # 0 /\ m.ok /\ e.kind = "end"
           /\ Keep(m) /\ Return("END") /\ UNCHANGED <<dir, listed>>
        \/ /\ dir.sect # 0 /\ m.ok /\ e.kind # "end"
           /\ Keep(n.m)
           /\ dir' = IF n.ok THEN n.d ELSE [n.d EXCEPT !.sect = 0]
           /\ IF IsImage(e)
              THEN listed' = Append(listed, get_fileinfo(e.name)) /\ Return("OK")
              ELSE UNCHANGED <<pc, res, listed>>
  BY DEF f_readdir
<1>5. PICK m : m = move_window(Window, dir.sect, ok[1])
  OBVIOUS
<1>6. PICK e : e = Entry(m.win, dir.index % ENT)
  OBVIOUS
<1>7. PICK n : n = next_dir_entry(dir, m, ok)
  OBVIOUS
<1>8. \/ /\ dir.sect = 0
         /\ Return("END") /\ UNCHANGED <<fs, win, fault, dir, listed>>
      \/ /\ dir.sect # 0 /\ ~m.ok
         /\ Keep(m) /\ Return("ERROR") /\ UNCHANGED <<dir, listed>>
      \/ /\ dir.sect # 0 /\ m.ok /\ e.kind = "end"
         /\ Keep(m) /\ Return("END") /\ UNCHANGED <<dir, listed>>
      \/ /\ dir.sect # 0 /\ m.ok /\ e.kind # "end"
         /\ Keep(n.m)
         /\ dir' = IF n.ok THEN n.d ELSE [n.d EXCEPT !.sect = 0]
         /\ IF IsImage(e)
            THEN listed' = Append(listed, get_fileinfo(e.name)) /\ Return("OK")
            ELSE UNCHANGED <<pc, res, listed>>
  BY <1>4, <1>5, <1>6, <1>7, Zenon
<1>9. PICK c : c = fs.of /\ IsVolume(c)
  BY <1>1, <1>2, WindowStarts
<1>10. ok[1] \in Answers
  BY <1>4
<1>11. ASSUME dir.sect # 0
       PROVE  /\ InDir(c, dir) /\ Behind = dir.index /\ Coherent(m) /\ c.dir \in Seq(Entries)
              /\ m.ok => e = At(c.dir, dir.index + 1)
  <2>1. InDir(fs.of, dir) /\ Behind = dir.index
    BY <1>2, <1>11 DEF Behind
  <2> QED
    BY <1>1, <1>2, <1>5, <1>6, <1>9, <1>10, <2>1, EntryThere
<1>12. ASSUME MountOK', ListOK', (pc' = "idle" /\ res' \in {"END", "ERROR", "OK"}) \/ pc' = "read",
              dir'.open
       PROVE  VolInv'
  <2>1. call'.op = "opendir" /\ dob' = NoDir
    BY <1>1, <1>2, <1>3
  <2>2. TraceOK' /\ CallOK'
    BY <1>12, <2>1 DEF TraceOK, CallOK
  <2>3. OpenedOK' /\ NoFalseRefusal'
    BY <1>12, <2>1 DEF OpenedOK, NoFalseRefusal
  <2> QED
    BY <1>12, <2>2, <2>3 DEF VolInv
<1>13. ASSUME MountOK', fs' # Zero, fs'.of = fs.of, fs'.id = fs.id, UNCHANGED <<dir, listed>>,
              pc' = "idle", res' \in {"END", "ERROR"},
              ~fault' /\ (dir.sect = 0 \/ res' = "END") => Behind >= Len(fs.of.dir)
       PROVE  VolInv'
  <2>1. PICK b, d : b = Behind /\ d = dir /\ d = dir' /\ b = (IF d.sect = 0 THEN d.index + 1 ELSE d.index)
    BY <1>13 DEF Behind
  <2>2. ListOK'
    BY <1>2, <1>3, <1>9, <1>13, <2>1, ListGoesOn
  <2> QED
    BY <1>2, <1>12, <1>13, <2>2
<1>14. ASSUME dir.sect = 0, Return("END"), UNCHANGED <<fs, win, fault, dir, listed>> PROVE VolInv'
  <2>1. MountOK'
    BY <1>1, <1>3, <1>14, MountStays
  <2>2. pc' = "idle" /\ res' = "END"
    BY <1>14 DEF Return
  <2>3. ~fault' => Behind >= Len(fs.of.dir)
    BY <1>2, <1>14
  <2> QED
    BY <1>2, <1>13, <1>14, <2>1, <2>2, <2>3
<1>15. ASSUME dir.sect # 0, Keep(m), UNCHANGED <<dir, listed>>, NEW r \in {"END", "ERROR"}, Return(r),
              ~m.ok \/ (m.ok /\ e.kind = "end")
       PROVE  VolInv'
  <2>1. MountOK' /\ fs' # Zero /\ fs'.of = fs.of /\ fs'.id = fs.id
    BY <1>1, <1>2, <1>3, <1>11, <1>15, Kept
  <2>2. pc' = "idle" /\ res' = r
    BY <1>15 DEF Return
  <2>3. ~fault' => m.ok
    BY <1>15 DEF Keep
  <2>4. ASSUME m.ok PROVE Behind >= Len(fs.of.dir)
    <3>1. e.kind = "end" /\ e = At(c.dir, dir.index + 1) /\ c.dir \in Seq(Entries) /\ Behind = dir.index
      BY <1>11, <1>15, <2>4
    <3>2. dir.index >= Len(c.dir)
      BY <1>2, <3>1, AtIs
    <3> QED
      BY <1>9, <3>1, <3>2
  <2> QED
    BY <1>13, <1>15, <2>1, <2>2, <2>3, <2>4
<1>16. ASSUME dir.sect # 0, m.ok, e.kind # "end", Keep(n.m),
              dir' = IF n.ok THEN n.d ELSE [n.d EXCEPT !.sect = 0],
              IF IsImage(e)
              THEN listed' = Append(listed, get_fileinfo(e.name)) /\ Return("OK")
              ELSE UNCHANGED <<pc, res, listed>>
       PROVE  VolInv'
  <2>1. OneFurther(c, dir, n)
    BY <1>1, <1>2, <1>4, <1>7, <1>9, <1>11, <1>16, NextDir
  <2>2. Coherent(n.m)
    BY <2>1 DEF OneFurther
  <2>3. MountOK' /\ fs' # Zero /\ fs'.of = fs.of /\ fs'.id = fs.id
    BY <1>1, <1>2, <1>3, <1>16, <2>2, Kept
  <2>4. PICK k : k = dir.index + 1 /\ k \in Nat /\ k >= 3 /\ dir.index \in Nat
    <3>1. dir.index \in Nat /\ dir.index >= 2
      BY <1>2
    <3>2. dir.index + 1 \in Nat /\ dir.index + 1 >= 3
      BY <3>1
    <3> QED
      BY <3>1, <3>2, Zenon
  <2>5. k <= Len(c.dir) /\ e = c.dir[k] /\ Len(c.dir) \in Nat
    <3>1. Len(c.dir) \in Nat
      BY <1>11, <1>16
    <3>2. ~(dir.index >= Len(c.dir))
      BY <1>11, <1>16, <2>4, AtIs
    <3> QED
      BY <1>11, <1>16, <2>4, <3>1, <3>2 DEF At
  <2>6. k \in Images(c) <=> IsImage(e)
    BY <2>4, <2>5 DEF Images
  <2>7. Listed(c, listed, dir.index)
    BY <1>2, <1>9, <1>11, <1>16
  <2>8. Listed(c, listed', k)
    <3>1. CASE IsImage(e)
      <4>1. Listed(c, Append(listed, get_fileinfo(c.dir[k].name)), k)
        BY <1>9, <2>4, <2>6, <2>7, <3>1, ListedNext
      <4> QED
        BY <1>16, <2>5, <3>1, <4>1
    <3>2. CASE ~IsImage(e)
      <4>1. Listed(c, listed, k)
        BY <1>9, <2>4, <2>6, <2>7, <3>2, ListedSkip
      <4> QED
        BY <1>16, <3>2, <4>1
    <3> QED
      BY <3>1, <3>2
  <2>9. (pc' = "idle" /\ res' = "OK") \/ pc' = "read"
    BY <1>1, <1>16 DEF Return
  <2>10. PICK d : d = dir'
    OBVIOUS
  <2>11. n.d.id = dir.id /\ n.d.open = TRUE /\ IsDir(n.d)
    BY <1>2, <2>1 DEF OneFurther
  <2>12. CASE n.ok
    <3>1. d = n.d /\ InDir(c, d) /\ d.index = k
      BY <1>16, <2>1, <2>4, <2>10, <2>12 DEF OneFurther
    <3>2. d.sect # 0
      BY <1>1, <1>2, <1>9, <1>10, <3>1, EntryThere
    <3>3. ListOK'
      <4>1. PICK b : b = k /\ b = (IF d.sect = 0 THEN d.index + 1 ELSE d.index)
        BY <3>1, <3>2
      <4>2. ~(d.sect = 0 \/ (res' = "END" /\ pc' = "idle"))
        BY <2>9, <3>2
      <4>3. IsDir(d) /\ d.open = TRUE /\ d.id = fs'.id /\ d.index \in Nat /\ d.index >= 2
        BY <1>2, <2>3, <2>4, <2>11, <3>1
      <4> QED
        BY <1>2, <1>3, <1>9, <2>3, <2>8, <2>10, <3>1, <4>1, <4>2, <4>3, ListGoesOn
    <3> QED
      BY <1>12, <2>3, <2>9, <2>10, <2>11, <3>1, <3>3
  <2>13. CASE ~n.ok
    <3>1. PICK q : q = n.d
      OBVIOUS
    <3>2. q = [id |-> q.id, index |-> q.index, clust |-> q.clust, sect |-> q.sect, open |-> q.open]
      BY <2>11, <3>1 DEF IsDir
    <3>3. d = [q EXCEPT !.sect = 0]
      BY <1>16, <2>10, <2>13, <3>1
    <3>4. d = [id |-> q.id, index |-> q.index, clust |-> q.clust, sect |-> 0, open |-> q.open]
      BY <3>2, <3>3
    <3>5. d.id = q.id /\ d.index = q.index /\ d.sect = 0 /\ d.open = q.open /\ IsDir(d)
      BY <3>4 DEF IsDir
    <3>6. d.index = dir.index /\ d.open = TRUE /\ d.id = dir.id
          /\ (n.m.ok => k >= Len(c.dir))
      BY <2>1, <2>4, <2>11, <2>13, <3>1, <3>5 DEF OneFurther
    <3>7. ~fault' => n.m.ok
      BY <1>16 DEF Keep
    <3>8. ListOK'
      <4>1. PICK b : b = k /\ b = (IF d.sect = 0 THEN d.index + 1 ELSE d.index)
        BY <2>4, <3>5, <3>6
      <4> QED
        BY <1>2, <1>3, <1>9, <2>3, <2>4, <2>8, <2>10, <3>5, <3>6, <3>7, <4>1, ListGoesOn
    <3> QED
      BY <1>12, <2>3, <2>9, <2>10, <3>6, <3>8
  <2> QED
    BY <2>12, <2>13
<1> QED
  BY <1>8, <1>14, <1>15, <1>16, Zenon

(* A swap, and a step that changes nothing here.                           *)
LEMMA StillKeeps ==
  ASSUME VolInv, UNCHANGED <<stat, fs, fsid, win, dir, dob, pc, call, fp, res, listed, fault>>,
         UNCHANGED <<slot, up>> \/ (up' = FALSE /\ slot' \in Cards \cup {None})
  PROVE  VolInv'
<1>1. MountOK'
  <2>1. MountOK
    BY DEF VolInv
  <2>2. CASE UNCHANGED <<slot, up>>
    BY <2>1, <2>2, MountStays
  <2>3. CASE up' = FALSE /\ slot' \in Cards \cup {None}
    <3>1. Geometry(fs)' <=> Geometry(fs)
      BY DEF Geometry
    <3>2. WindowIsCoherent'
      BY <2>1 DEF MountOK, WindowIsCoherent
    <3> QED
      BY <2>1, <2>3, <3>1, <3>2 DEF MountOK
  <2> QED
    BY <2>2, <2>3
<1>2. ListOK'
  BY ListStays DEF VolInv
<1>3. AtFirst' <=> AtFirst
  BY DEF AtFirst
<1>4. AtLast' <=> AtLast
  BY DEF AtLast
<1>5. TraceOK'
  <2>1. CASE pc = "trace"
    <3>1. IsDir(dob) /\ fs # Zero
      BY <2>1 DEF VolInv, TraceOK
    <3>2. PICK c, d : c = fs'.of /\ d = dob' /\ c = fs.of /\ d = dob
      OBVIOUS
    <3>3. \/ AtFirst /\ InRoot(c, d) /\ Passed(c.root, 1, d.index, call'.path)
          \/ AtLast /\ InDir(c, d) /\ d.index >= 2 /\ Passed(c.dir, 3, d.index, call'.path)
      BY <2>1, <3>2 DEF VolInv, TraceOK
    <3>4. VolInv'
      BY <1>1, <1>3, <1>4, <2>1, <3>1, <3>2, <3>3, Proceeds
    <3> QED
      BY <3>4 DEF VolInv
  <2>2. CASE pc # "trace"
    BY <2>2, TraceStays DEF VolInv
  <2> QED
    BY <2>1, <2>2
<1>6. CallOK'
  BY <1>3 DEF VolInv, CallOK
<1>7. OpenedOK'
  BY <1>4 DEF VolInv, OpenedOK, Files
<1>8. NoFalseRefusal'
  BY DEF VolInv, NoFalseRefusal, HasVolume, HasDirectory, Files, Clusters
<1> QED
  BY <1>1, <1>2, <1>5, <1>6, <1>7, <1>8 DEF VolInv

(* VolInv holds in every state: the mounted volume is cleared or has the   *)
(* geometry of its card, every walk stands at an entry of the directory it *)
(* reads, and what was passed was compared or listed (tff.c:344-692).      *)
THEOREM VolumeInvariant == VolSpec => []VolInv
<1>1. VolInit => VolInv
  BY VolumeStarts
<1>2. VolInv /\ [VolNext]_volVars => VolInv'
  <2> SUFFICES ASSUME VolInv, [VolNext]_volVars PROVE VolInv'
    OBVIOUS
  <2>1. CASE philes_mount
    BY <2>1, MountKeeps
  <2>2. CASE philes_opendir
    BY <2>2, BeginKeeps DEF philes_opendir
  <2>3. CASE philes_nextfile
    BY <2>3, NextfileKeeps
  <2>4. CASE f_open
    <3>1. PICK n \in Asked : Begin("open", <<DIRNAME, n>>)
      BY <2>4 DEF f_open
    <3> QED
      BY <3>1, BeginKeeps
  <2>5. CASE auto_mount
    BY <2>5, AutoKeeps
  <2>6. CASE boot_record
    BY <2>6, BootKeeps
  <2>7. CASE trace_path
    BY <2>7, TraceKeeps
  <2>8. CASE f_readdir
    BY <2>8, ReaddirKeeps
  <2>9. CASE Swap
    <3>1. up' = FALSE /\ slot' \in Cards \cup {None}
      BY <2>9 DEF Swap
    <3>2. UNCHANGED <<stat, fs, fsid, win, dir, dob, pc, call, fp, res, listed, fault>>
      BY <2>9 DEF Swap
    <3> QED
      BY <3>1, <3>2, StillKeeps
  <2>10. CASE UNCHANGED volVars
    BY <2>10, StillKeeps DEF volVars
  <2> QED
    BY <2>1, <2>2, <2>3, <2>4, <2>5, <2>6, <2>7, <2>8, <2>9, <2>10 DEF VolNext, Calls, Work
<1> QED
  BY <1>1, <1>2, PTL DEF VolSpec

(* A walk stays between the first and the last sector of the volume.       *)
LEMMA WalkInside ==
  ASSUME VolInv, fs # Zero, NEW c, c = fs.of, NEW d, InRoot(c, d) \/ InDir(c, d)
  PROVE  d.index \in Nat /\ d.sect \in 0 .. BootSector(c) + c.totsec - 1
<1>1. IsVolume(c)
  BY WindowStarts DEF VolInv
<1>2. CASE InRoot(c, d)
  <2>1. PICK s \in 0 .. c.n_rootdir \div ENT - 1, k \in 0 .. ENT - 1 : RootPlace(c, d, s, k)
    BY <1>2 DEF InRoot
  <2>2. s \in Nat /\ k \in Nat
    BY <1>1, <2>1, CardAreas, EntIs
  <2>3. s * ENT \in Nat
    BY <2>2, EntIs, Commutes
  <2>4. d.sect < DataStart(c) /\ d.sect \in Nat
    BY <1>1, <2>1, <2>2, CardAreas DEF RootPlace
  <2>5. d.index \in Nat
    BY <2>1, <2>2, <2>3 DEF RootPlace
  <2> QED
    BY <1>1, <2>4, <2>5, CardAreas, CardNumbers
<1>3. CASE InDir(c, d)
  <2>1. PICK p \in 1 .. Len(c.chain), s \in 0 .. c.sects_clust - 1, k \in 0 .. ENT - 1 :
        DirPlace(c, d, p, s, k)
    BY <1>3 DEF InDir
  <2>2. c.chain[p] \in 2 .. Clusters(c) - 1
    BY <1>1, ChainCluster
  <2>3. d.sect = DataStart(c) + (c.chain[p] - 2) * c.sects_clust + s
    BY <2>1 DEF DirPlace
  <2>4. d.sect \in 0 .. BootSector(c) + c.totsec - 1
    BY <1>1, <2>2, <2>3, ClusterFits
  <2> QED
    BY <1>1, <2>1, <2>4, IndexSplit
<1> QED
  BY <1>2, <1>3

(* The window always holds the sector the object names, of the card it was *)
(* mounted from, and no walk leaves the volume (tff.c:63-95,610-742).      *)
THEOREM MountCoherent == VolSpec => []MountIsCoherent
<1>1. VolInv => MountIsCoherent
  <2> SUFFICES ASSUME VolInv PROVE MountIsCoherent
    OBVIOUS
  <2>1. MountOK /\ WindowIsCoherent
    BY DEF VolInv, MountOK
  <2>2. CASE fs = Zero
    <3>1. dob = NoDir /\ dir = NoDir
      BY <2>2 DEF VolInv, TraceOK, ListOK
    <3>2. fs.type = 0 /\ fs.id = 0 /\ fs.of = None
      BY <2>2 DEF Zero
    <3>3. dir.index = 0 /\ dob.index = 0 /\ dir.sect = 0 /\ dob.sect = 0
      BY <3>1 DEF NoDir
    <3>4. 0 \in 0 .. IDS - 1
      BY VolumeAssumption
    <3>5. VolTypeOK
      BY <2>1, <3>2, <3>3, <3>4 DEF VolTypeOK, MountOK, VolInv, CallOK
    <3> QED
      BY <2>1, <3>5 DEF MountIsCoherent
  <2>3. CASE fs # Zero
    <3>1. Geometry(fs) /\ IsVolume(fs.of)
      BY <2>1, <2>3, WindowStarts
    <3>2. fs.type \in {12, 16} /\ fs.id \in 0 .. IDS - 1 /\ fs.of \in Cards
      BY <3>1 DEF Geometry, IsVolume
    <3>3. PICK c : c = fs.of
      OBVIOUS
    <3>4. c # None
      <4>1. c.boot \in {"sfd", "mbr"}
        BY <3>1, <3>3, CardNumbers
      <4> QED
        BY <4>1 DEF None
    <3>5. PICK z : z = BootSector(c) + c.totsec - 1 /\ 0 \in 0 .. z
      <4>1. BootSector(c) + c.totsec >= 1 /\ BootSector(c) \in Nat /\ c.totsec \in Nat
        BY <3>1, <3>3, CardAreas, CardNumbers
      <4>2. 0 \in 0 .. BootSector(c) + c.totsec - 1
        BY <4>1
      <4> QED
        BY <4>2, Zenon
    <3>6. dob.index \in Nat /\ dob.sect \in 0 .. z
      <4>1. CASE dob = NoDir
        BY <3>5, <4>1 DEF NoDir
      <4>2. CASE dob # NoDir
        <5>1. InRoot(c, dob) \/ InDir(c, dob)
          BY <3>3, <4>2 DEF VolInv, TraceOK
        <5> QED
          BY <2>3, <3>3, <3>5, <5>1, WalkInside
      <4> QED
        BY <4>1, <4>2
    <3>7. dir.index \in Nat /\ dir.sect \in 0 .. z
      <4>1. CASE dir = NoDir
        BY <3>5, <4>1 DEF NoDir
      <4>2. CASE dir # NoDir
        <5>1. dir.index \in Nat /\ (dir.sect = 0 \/ InDir(c, dir))
          BY <3>3, <4>2 DEF VolInv, ListOK
        <5> QED
          BY <2>3, <3>3, <3>5, <5>1, WalkInside
      <4> QED
        BY <4>1, <4>2
    <3>8. {dir.sect, dob.sect} \subseteq
            IF fs.of = None THEN {0} ELSE 0 .. BootSector(fs.of) + fs.of.totsec - 1
      BY <3>3, <3>4, <3>5, <3>6, <3>7
    <3>9. VolTypeOK
      BY <2>1, <3>2, <3>6, <3>7, <3>8 DEF VolTypeOK, MountOK, VolInv, CallOK
    <3> QED
      BY <2>1, <3>9 DEF MountIsCoherent
  <2> QED
    BY <2>2, <2>3
<1> QED
  BY <1>1, VolumeInvariant, PTL

(* What philes.c lists is the directory's images in their order, and all   *)
(* of them when the end came without a failure (tff.c:344-371,1275-1302).  *)
THEOREM ListingExact == VolSpec => []ListingIsExact
<1>1. VolInv => ListingIsExact
  <2> SUFFICES ASSUME VolInv, dir.open PROVE ListingIsExact
    BY DEF ListingIsExact
  <2>1. dir # NoDir
    BY DEF NoDir
  <2>2. /\ fs # Zero /\ dir.id = fs.id /\ stat /\ dir.index \in Nat /\ Listed(fs.of, listed, Behind)
        /\ ~fault /\ (dir.sect = 0 \/ (res = "END" /\ pc = "idle")) => Behind >= Len(fs.of.dir)
    BY <2>1 DEF VolInv, ListOK
  <2>3. IsVolume(fs.of)
    BY <2>2, WindowStarts DEF VolInv
  <2>4. Behind \in Nat
    BY <2>2 DEF Behind
  <2>5. PICK c, n : c = fs.of /\ n = Behind /\ n \in Nat /\ IsVolume(c) /\ Listed(c, listed, n)
    BY <2>2, <2>3, <2>4
  <2>6. /\ Len(listed) <= Cardinality(Images(c))
        /\ \A i \in Images(c) :
             Rank(c, i) <= Len(listed) => listed[Rank(c, i)] = get_fileinfo(c.dir[i].name)
        /\ n >= Len(c.dir) => Len(listed) = Cardinality(Images(c))
    BY <2>5, ListingFollows
  <2> QED
    BY <2>2, <2>5, <2>6 DEF ListingIsExact, validate
<1> QED
  BY <1>1, VolumeInvariant, PTL

(* Without a failure of the card no call is refused a directory or a file  *)
(* that is there (tff.c:488-545,638-742,1234-1266).                        *)
THEOREM NoRefusal == VolSpec => []NoFalseRefusal
<1>1. VolInv => NoFalseRefusal
  BY DEF VolInv
<1> QED
  BY <1>1, VolumeInvariant, PTL

(* f_open opens the file of the name that was asked for, in the directory  *)
(* of the card that is mounted (tff.c:425-545,803-897).                    *)
THEOREM NamedFileOpened == ASSUME NamesReadBack PROVE VolSpec => []OpensTheNamedFile
<1>1. VolInv => OpensTheNamedFile
  <2> SUFFICES ASSUME VolInv, pc = "idle", call.op = "open", res = "OK"
               PROVE  /\ fp \in Files(fs.of) /\ fp.kind = "file"
                      /\ Len(call.path) = 1 /\ make_dirfile(Head(call.path)).name = fp.name
                      /\ get_fileinfo(fp.name)
                           = [i \in DOMAIN Head(call.path) |-> Upper(Head(call.path)[i])]
    BY DEF OpensTheNamedFile
  <2>1. /\ AtLast /\ fp \in Files(fs.of) /\ fp.kind = "file"
        /\ make_dirfile(call.path[1]).bad = FALSE /\ make_dirfile(call.path[1]).name = fp.name
    BY DEF VolInv, OpenedOK
  <2>2. Len(call.path) = 1 /\ call.path[1] \in Asked
    BY <2>1, WhatIsAsked
  <2>3. PICK n : n = call.path[1] /\ n = Head(call.path)
    OBVIOUS
  <2>4. get_fileinfo(make_dirfile(n).name) = [i \in DOMAIN n |-> Upper(n[i])]
    BY <2>1, <2>2, <2>3 DEF NamesReadBack
  <2> QED
    BY <2>1, <2>2, <2>3, <2>4
<1> QED
  BY <1>1, VolumeInvariant, PTL
=============================================================================
