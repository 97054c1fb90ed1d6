----------------------------- MODULE FatLemmas ------------------------------
(***************************************************************************)
(* What the proofs about the file system rest on: the layout of a card,    *)
(* what holds of a machine between two accesses, and that sectors, window, *)
(* FAT and directories keep it, if the calls one level down do.            *)
(***************************************************************************)
EXTENDS FatFs, TLAPS

-----------------------------------------------------------------------------
(***************************************************************************)
(* Numbers and the layout of the card.                                     *)
(***************************************************************************)
\* Quotient and remainder.
LEMMA Division ==
  ASSUME NEW a \in Nat, NEW b \in Nat \ {0}
  PROVE  a \div b \in Nat /\ a % b \in 0..b-1 /\ a = b * (a \div b) + (a % b)
OBVIOUS

\* They are unique.
LEMMA Quotient ==
  ASSUME NEW a \in Nat, NEW b \in Nat \ {0}, NEW q \in Nat, NEW r \in 0..b-1, a = b * q + r
  PROVE  a \div b = q /\ a % b = r
OBVIOUS

\* A quotient is below what bounds its dividend.
LEMMA Below ==
  ASSUME NEW a \in Nat, NEW b \in Nat \ {0}, NEW n \in Nat, a < b * n
  PROVE  a \div b < n
OBVIOUS

\* Blocks of b do not overlap.
LEMMA Room ==
  ASSUME NEW q \in Nat, NEW r \in Nat, NEW b \in Nat, q < r
  PROVE  b * q \in Nat /\ b * r \in Nat /\ b * q + b <= b * r
OBVIOUS

\* Products of numbers.
LEMMA Times ==
  ASSUME NEW a \in Nat, NEW b \in Nat
  PROVE  a * b \in Nat /\ a * b = b * a
OBVIOUS

-----------------------------------------------------------------------------
\* The sectors of the volume from its FAT on.
Vol(t)    == FatBase(t)..Sectors(t)-1
FatEnd(t) == FatBase(t) + Layout[t].fatsz
FirstSect(t, c) == (c - 2) * Layout[t].spc + DataBase(t)

\* The fields of a layout.
LEMMA Fields ==
  ASSUME NEW t \in FatTypes
  PROVE  /\ t \in {12, 16, 32}
         /\ Layout[t].part \in Nat /\ Layout[t].rsvd \in Nat \ {0}
         /\ Layout[t].nfat \in Nat \ {0} /\ Layout[t].fatsz \in Nat
         /\ Layout[t].spc \in Nat \ {0} /\ Layout[t].spc <= 128
         /\ Layout[t].roots \in Nat /\ Layout[t].clusters \in Nat
         /\ Layout[t].root \in Nat /\ Layout[t].dir \in Nat /\ Layout[t].elf \in Seq(Nat)
         /\ Sectors(t) <= CardSize /\ MaxClust(t) <= Eoc
         /\ t = 12 => SS * Layout[t].fatsz >= (3 * MaxClust(t) + 1) \div 2
         /\ t # 12 => SS * Layout[t].fatsz >= MaxClust(t)
         /\ Layout[t].roots % SS = 0
         /\ t = 32 => /\ Layout[t].roots = 0 /\ Layout[t].rsvd > 1
                      /\ Layout[t].root \in 2..MaxClust(t)-1
         /\ t # 32 => Layout[t].roots # 0 /\ Layout[t].root = 0
         /\ Len(Layout[t].elf) = 2
         /\ Layout[t].dir \in 2..MaxClust(t)-1 /\ Layout[t].elf[1] \in 2..MaxClust(t)-1
         /\ Layout[t].elf[2] \in 2..MaxClust(t)-1
         /\ Layout[t].clusters >= 4
<1>1. Layout[t] \in [part : Nat, rsvd : Nat \ {0}, nfat : Nat \ {0}, fatsz : Nat, spc : Nat \ {0},
             roots : Nat, clusters : Nat, root : Nat, dir : Nat, elf : Seq(Nat)]
  BY LayoutAssumption
<1> QED BY <1>1, LayoutAssumption, FatAssumption

\* 0xFFFFFFFF is neither of the values that mean something else.
LEMMA DiskErrIs ==
  DiskErr \in Nat /\ DiskErr > 1 /\ DiskErr # 0 /\ DiskErr # 1
BY SMT DEF DiskErr

\* No volume has the type of one that is not mounted.
LEMMA TypeSome ==
  ASSUME NEW t \in FatTypes
  PROVE  t # 0 /\ t \in {12, 16, 32}
BY FatAssumption

\* Where the areas of a volume begin, in their order.
LEMMA Bounds ==
  ASSUME NEW t \in FatTypes
  PROVE  /\ SS \in Nat \ {0, 1} /\ CardSize \in Nat
         /\ Layout[t].part \in Nat /\ Layout[t].spc \in Nat \ {0} /\ Layout[t].fatsz \in Nat \ {0}
         /\ FatBase(t) \in Nat /\ RootBase(t) \in Nat /\ DataBase(t) \in Nat /\ Sectors(t) \in Nat
         /\ MaxClust(t) \in Nat /\ MaxClust(t) >= 6 /\ MaxClust(t) < DiskErr
         /\ Layout[t].part < FatBase(t)
         /\ t = 32 => Layout[t].part + 1 < FatBase(t)
         /\ FatEnd(t) <= RootBase(t) /\ RootBase(t) <= DataBase(t) /\ DataBase(t) <= Sectors(t)
         /\ Sectors(t) <= CardSize
         /\ DataBase(t) - RootBase(t) \in Nat
         /\ Layout[t].roots = SS * (DataBase(t) - RootBase(t))
<1> DEFINE l == Layout[t]
<1>1. SS \in Nat \ {0, 1} /\ CardSize \in Nat
  BY FatOpsAssumption
<1>2. /\ l.part \in Nat /\ l.rsvd \in Nat \ {0} /\ l.nfat \in Nat \ {0} /\ l.fatsz \in Nat
      /\ l.spc \in Nat \ {0} /\ l.roots \in Nat /\ l.clusters \in Nat /\ l.clusters >= 4
      /\ t = 32 => l.rsvd > 1
      /\ Sectors(t) <= CardSize /\ MaxClust(t) <= Eoc
  BY Fields
<1>3. l.roots \div SS \in Nat /\ l.roots = SS * (l.roots \div SS)
  <2>1. l.roots \div SS \in Nat /\ l.roots = SS * (l.roots \div SS) + (l.roots % SS)
    BY <1>1, <1>2, Division
  <2>2. l.roots % SS = 0
    BY Fields
  <2> QED BY <2>1, <2>2, <1>1
<1>4. l.spc * l.clusters \in Nat /\ l.nfat * l.fatsz \in Nat
  BY <1>2, Times
<1>5. l.nfat * l.fatsz >= l.fatsz
  <2>1. l.fatsz * 0 + l.fatsz <= l.fatsz * l.nfat
    BY <1>2, Room
  <2> QED BY <2>1, <1>2, Times
<1>6. MaxClust(t) = l.clusters + 2
  BY DEF MaxClust
<1>7. l.fatsz # 0
  <2>1. SS * l.fatsz > 0
    <3>1. CASE t = 12
      <4>1. SS * l.fatsz >= (3 * MaxClust(t) + 1) \div 2
        BY <3>1, Fields
      <4> QED BY <4>1, <1>1, <1>2, <1>6, Times
    <3>2. CASE t # 12
      <4>1. SS * l.fatsz >= MaxClust(t)
        BY <3>2, Fields
      <4> QED BY <4>1, <1>1, <1>2, <1>6, Times
    <3> QED BY <3>1, <3>2
  <2> QED BY <2>1, <1>1
<1>8. FatBase(t) = l.part + l.rsvd /\ RootBase(t) = FatBase(t) + l.nfat * l.fatsz
      /\ DataBase(t) = RootBase(t) + l.roots \div SS
      /\ Sectors(t) = DataBase(t) + l.spc * l.clusters
  BY DEF FatBase, RootBase, DataBase, Sectors
<1> HIDE DEF l
<1> QED BY <1>1, <1>2, <1>3, <1>4, <1>5, <1>6, <1>7, <1>8 DEF FatEnd, DiskErr, Eoc, l

\* The sectors of a cluster lie in the data area (clust2sect, ff.c:492-501).
LEMMA ClusterSects ==
  ASSUME NEW t \in FatTypes, NEW c \in 2..MaxClust(t)-1, NEW k \in 0..Layout[t].spc-1
  PROVE  /\ FirstSect(t, c) \in Nat
         /\ FirstSect(t, c) + k \in DataBase(t)..Sectors(t)-1
         /\ FirstSect(t, c) + k \in Vol(t) /\ FirstSect(t, c) + k >= FatEnd(t)
<1> DEFINE spc == Layout[t].spc
           q == c - 2
<1>1. spc \in Nat \ {0} /\ Layout[t].clusters \in Nat /\ MaxClust(t) = Layout[t].clusters + 2
  BY Fields DEF MaxClust
<1>2. q \in Nat /\ q < Layout[t].clusters
  BY <1>1
<1>3. spc * q \in Nat /\ spc * q + spc <= spc * Layout[t].clusters /\ q * spc = spc * q
      /\ spc * Layout[t].clusters \in Nat
  BY <1>1, <1>2, Room, Times
<1>4. FirstSect(t, c) = spc * q + DataBase(t)
  BY <1>3 DEF FirstSect
<1>5. Sectors(t) = DataBase(t) + spc * Layout[t].clusters
  BY DEF Sectors
<1>6. FatBase(t) \in Nat /\ DataBase(t) \in Nat /\ FatBase(t) <= FatEnd(t)
      /\ FatEnd(t) <= DataBase(t) /\ FatEnd(t) \in Nat
  BY Bounds DEF FatEnd
<1>7. k \in Nat /\ k < spc
  BY <1>1
<1> HIDE DEF spc, q
<1> QED BY <1>1, <1>3, <1>4, <1>5, <1>6, <1>7 DEF Vol

\* The cells of an entry lie in the first copy of the FAT (get_cluster, ff.c:288-322).
LEMMA FatSects ==
  ASSUME NEW t \in FatTypes, NEW c \in 0..MaxClust(t)-1, NEW i \in Nat,
         IF t = 12 THEN i = (c * 3) \div 2 \/ i = (c * 3) \div 2 + 1 ELSE i = c
  PROVE  /\ FatBase(t) + (i \div SS) \in FatBase(t)..FatEnd(t)-1
         /\ FatBase(t) + (i \div SS) \in Vol(t)
         /\ FatBase(t) + (i \div SS) # 0 /\ i % SS \in 0..SS-1
<1>1. SS \in Nat \ {0} /\ Layout[t].fatsz \in Nat /\ MaxClust(t) \in Nat
  BY Bounds
<1>2. i < SS * Layout[t].fatsz
  <2>1. CASE t = 12
    <3>1. SS * Layout[t].fatsz >= (3 * MaxClust(t) + 1) \div 2
      BY <2>1, Fields
    <3> QED BY <1>1, <2>1, <3>1, Times
  <2>2. CASE t # 12
    <3>1. SS * Layout[t].fatsz >= MaxClust(t)
      BY <2>2, Fields
    <3> QED BY <1>1, <2>2, <3>1, Times
  <2> QED BY <2>1, <2>2
<1>3. i \div SS < Layout[t].fatsz /\ i \div SS \in Nat /\ i % SS \in 0..SS-1
  BY <1>1, <1>2, Below, Division
<1>4. FatBase(t) \in Nat /\ FatBase(t) > 0 /\ FatEnd(t) <= Sectors(t) /\ Sectors(t) \in Nat
      /\ FatEnd(t) = FatBase(t) + Layout[t].fatsz
  BY Bounds DEF FatEnd
<1> QED BY <1>1, <1>3, <1>4 DEF Vol

\* A sector of the FAT has its copies in the volume (move_window, ff.c:224-230).
LEMMA CopySects ==
  ASSUME NEW t \in FatTypes, NEW sect \in FatBase(t)..FatEnd(t)-1,
         NEW k \in Nat, k < Layout[t].nfat
  PROVE  sect + k * Layout[t].fatsz \in Vol(t)
<1>1. Layout[t].nfat \in Nat /\ Layout[t].fatsz \in Nat
  BY Fields
<1>2. Layout[t].fatsz * k \in Nat /\ Layout[t].fatsz * k = k * Layout[t].fatsz
      /\ Layout[t].fatsz * Layout[t].nfat = Layout[t].nfat * Layout[t].fatsz
      /\ Layout[t].fatsz * k + Layout[t].fatsz <= Layout[t].fatsz * Layout[t].nfat
      /\ Layout[t].fatsz * Layout[t].nfat \in Nat
  BY <1>1, Room, Times
<1>3. RootBase(t) = FatBase(t) + Layout[t].nfat * Layout[t].fatsz /\ RootBase(t) <= Sectors(t)
      /\ FatBase(t) \in Nat /\ Sectors(t) \in Nat /\ FatEnd(t) = FatBase(t) + Layout[t].fatsz
  BY Bounds DEF RootBase, FatEnd
<1> QED BY <1>1, <1>2, <1>3 DEF Vol

\* The entries of a fixed root directory lie in the volume.
LEMMA RootSects ==
  ASSUME NEW t \in FatTypes, NEW i \in Nat, i < Layout[t].roots
  PROVE  /\ RootBase(t) + (i \div SS) \in Vol(t) /\ i \div SS \in Nat
         /\ RootBase(t) + (i \div SS) # 0
<1> DEFINE n == DataBase(t) - RootBase(t)
<1>1. SS \in Nat \ {0} /\ n \in Nat /\ Layout[t].roots = SS * n
  BY Bounds
<1> HIDE DEF n
<1>2. i \div SS \in Nat /\ i \div SS < n
  <2>1. i < SS * n
    BY <1>1
  <2> QED BY <2>1, <1>1, Below, Division
<1>3. FatBase(t) \in Nat /\ RootBase(t) \in Nat /\ DataBase(t) \in Nat /\ Sectors(t) \in Nat
      /\ FatBase(t) > 0 /\ FatBase(t) <= RootBase(t) /\ DataBase(t) <= Sectors(t)
  BY Bounds DEF FatEnd
<1> QED BY <1>2, <1>3 DEF Vol, n

\* The next entry is in the same sector or, first there, in the next one.
LEMMA NextIndex ==
  ASSUME NEW i \in Nat, NEW b \in Nat \ {0}
  PROVE  (i + 1) \div b = IF (i + 1) % b = 0 THEN (i \div b) + 1 ELSE i \div b
<1> DEFINE q == i \div b
           r == i % b
<1>1. q \in Nat /\ r \in 0..b-1 /\ i = b * q + r /\ b * q \in Nat
  BY Division, Times
<1> SUFFICES (i + 1) \div b = IF (i + 1) % b = 0 THEN q + 1 ELSE q
  OBVIOUS
<1> HIDE DEF q, r
<1>2. CASE r = b - 1
  <2>1. i + 1 = b * (q + 1) + 0 /\ q + 1 \in Nat /\ 0 \in 0..b-1 /\ i + 1 \in Nat
    BY <1>1, <1>2
  <2>2. (i + 1) \div b = q + 1 /\ (i + 1) % b = 0
    BY <2>1, Quotient
  <2> QED BY <2>2
<1>3. CASE r # b - 1
  <2>1. i + 1 = b * q + (r + 1) /\ r + 1 \in 0..b-1 /\ r + 1 # 0 /\ i + 1 \in Nat
    BY <1>1, <1>3
  <2>2. (i + 1) \div b = q /\ (i + 1) % b = r + 1
    BY <1>1, <2>1, Quotient
  <2> QED BY <2>1, <2>2
<1> QED BY <1>2, <1>3

\* The same inside a cluster of n sectors of b entries.
LEMMA NextInCluster ==
  ASSUME NEW i \in Nat, NEW b \in Nat \ {0}, NEW n \in Nat \ {0}, (i + 1) % (b * n) # 0
  PROVE  ((i + 1) % (b * n)) \div b =
           IF (i + 1) % b = 0 THEN ((i % (b * n)) \div b) + 1 ELSE (i % (b * n)) \div b
<1> DEFINE q == i \div (b * n)
           r == i % (b * n)
<1>0. b * n \in Nat \ {0}
  BY Times
<1>1. q \in Nat /\ r \in 0..b*n-1 /\ i = (b * n) * q + r /\ (b * n) * q \in Nat
  BY <1>0, Division, Times
<1>2. r # b * n - 1
  <2>1. SUFFICES ASSUME r = b * n - 1 PROVE FALSE
    OBVIOUS
  <2>2. i + 1 = (b * n) * (q + 1) + 0
    BY <1>0, <1>1, <2>1
  <2> QED BY <1>0, <1>1, <2>2, Quotient
<1>3. i + 1 = (b * n) * q + (r + 1) /\ r + 1 \in 0..b*n-1 /\ r \in Nat
  BY <1>0, <1>1, <1>2
<1>4. (i + 1) % (b * n) = r + 1
  BY <1>0, <1>1, <1>3, Quotient
<1> DEFINE u == (r + 1) \div b
           v == (r + 1) % b
<1>5. u \in Nat /\ v \in 0..b-1 /\ r + 1 = b * u + v
  <2>1. r + 1 \in Nat
    BY <1>3
  <2> QED BY <2>1, Division
<1>8. (r + 1) \div b = IF v = 0 THEN (r \div b) + 1 ELSE r \div b
  BY <1>3, NextIndex
<1>7. (i + 1) % b = v
  <2> HIDE DEF q, r, u, v
  <2>1. n * q \in Nat /\ (b * n) * q = b * (n * q)
    BY <1>1, Times
  <2>2. i + 1 = b * (n * q + u) + v
    <3> DEFINE w == n * q
    <3> HIDE DEF w
    <3>1. w \in Nat /\ i + 1 = b * w + (b * u + v)
      BY <1>3, <1>5, <2>1 DEF w
    <3>2. i + 1 = b * (w + u) + v
      BY <3>1, <1>5
    <3> QED BY <3>2 DEF w
  <2>3. n * q + u \in Nat
    BY <2>1, <1>5
  <2> QED BY <1>5, <2>2, <2>3, Quotient
<1> QED BY <1>4, <1>7, <1>8

\* Sums and products of multiples.
LEMMA Multiples ==
  ASSUME NEW a \in Nat, NEW c \in Nat, NEW b \in Nat \ {0}
  PROVE  /\ a % b = 0 /\ c % b = 0 => (a + c) % b = 0
         /\ (a * b) % b = 0
<1>1. a = b * (a \div b) + (a % b) /\ a \div b \in Nat /\ c = b * (c \div b) + (c % b)
      /\ c \div b \in Nat
  BY Division
<1>2. ASSUME a % b = 0, c % b = 0 PROVE (a + c) % b = 0
  <2> DEFINE p == a \div b
             q == c \div b
  <2>1. p \in Nat /\ q \in Nat /\ a = b * p /\ c = b * q
    BY <1>1, <1>2
  <2> HIDE DEF p, q
  <2>2. a + c = b * (p + q) + 0 /\ p + q \in Nat /\ 0 \in 0..b-1 /\ a + c \in Nat
    BY <2>1
  <2> QED BY <2>2, Quotient
<1>3. a * b = b * a + 0 /\ a * b \in Nat
  BY Times
<1>4. (a * b) % b = 0
  BY <1>3, Quotient
<1> QED BY <1>2, <1>4

-----------------------------------------------------------------------------
(***************************************************************************)
(* Machines: what holds between two accesses, and what a call keeps.       *)
(***************************************************************************)
\* The geometry of a mounted volume is that of the card.
Shape(t, f) ==
  /\ f.csize = Layout[t].spc /\ f.n_fats = Layout[t].nfat /\ f.sects_fat = Layout[t].fatsz
  /\ f.fatbase = FatBase(t) /\ f.n_rootdir = Layout[t].roots /\ f.max_clust = MaxClust(t)
  /\ f.database = DataBase(t) /\ f.dirbase = IF t = 32 THEN Layout[t].root ELSE RootBase(t)
  /\ t = 32 => f.fsi_sector = Layout[t].part + 1

\* What the number of free clusters can be.
FreeCounts(t) == (0..MaxClust(t)) \cup {Unknown}

\* FATFS, mounted or not.
VolumeOk(t, f) ==
  /\ f \in FATFS /\ f.fs_type \in {0, t}
  /\ f.fs_type = t => Shape(t, f)
  /\ f.last_clust \in 0..MaxClust(t)-1 /\ f.free_clust \in FreeCounts(t)

\* The window is never named after a boot record by a move.
WindowOk(t, f) ==
  /\ f.winsect \in {0} \cup Vol(t)
  /\ f.fs_type = 0 => f.winsect = 0 /\ ~f.wflag

\* The boot records are intact and FSInfo is one that a mount may read.
BootOk(t, d) ==
  /\ d[0][0] = Cell(t, 0, 0) /\ d[Layout[t].part][0] = Cell(t, Layout[t].part, 0)
  /\ t = 32 => LET info == d[Layout[t].part + 1][0] IN
       Part(info, 2) \in FreeCounts(t) /\ Part(info, 3) \in 0..MaxClust(t)-1

\* The power is off.
Off(m) == m.fault.kind = "cut" /\ m.fault.left = 0

\* The fault fits the volume; inside a message about it, it is over or lasting.
FaultOk(t, m) ==
  /\ t = 32 => m.fault.kind \in {"none", "cut"}
  /\ m.depth \in 0..MaxNest
  /\ m.depth > 0 => m.fault.kind = "none" \/ (m.fault.kind \in {"pull", "cut"} /\ m.fault.left = 0)
  /\ m.dead => m.fault.kind = "pull" /\ m.log

\* Sound but for what the window holds.
Nearly(t, m) ==
  /\ m \in Machines /\ VolumeOk(t, m.fs) /\ WindowOk(t, m.fs) /\ BootOk(t, m.disk)
  /\ FaultOk(t, m) /\ (m.fs.wflag => m.fs.winsect # 0 \/ Off(m))

\* A clean window holds its sector.
Held(m) == m.fs.winsect # 0 /\ ~m.fs.wflag => m.fs.win = m.disk[m.fs.winsect]

Sound(t, m) == Nearly(t, m) /\ Held(m)
Mounted(t, m) == m.fs.fs_type = t
\* The window has a name: on FAT12 and FAT16 it keeps it from the first move on.
Live(t, m) == t # 32 => m.fs.winsect # 0
Up(t, m) == Sound(t, m) /\ Mounted(t, m)

\* What every call keeps.
Kept(t, m, n) ==
  /\ n.log = m.log /\ n.depth = m.depth /\ n.fault.kind \in {m.fault.kind, "none", "cut"}
  /\ m.fs.fs_type # 0 => n.fs.fs_type # 0
  /\ Off(m) => Off(n)
  /\ t # 32 /\ m.fs.winsect # 0 => n.fs.winsect # 0
Through(t, m, n) == Kept(t, m, n) /\ n.fp = m.fp /\ n.dj = m.dj

\* n differs from m in what a call returns and in its file.
World(m, n) ==
  /\ n \in Machines /\ n.disk = m.disk /\ n.fs = m.fs /\ n.log = m.log /\ n.fault = m.fault
  /\ n.depth = m.depth /\ n.dead = m.dead
OnlyFs(m, n) ==
  /\ n \in Machines
  /\ n.disk = m.disk /\ n.fp = m.fp /\ n.dj = m.dj /\ n.log = m.log /\ n.fault = m.fault
  /\ n.depth = m.depth /\ n.dead = m.dead /\ n.res = m.res /\ n.val = m.val /\ n.data = m.data

\* The types of a machine's fields.
LEMMA Typed ==
  ASSUME NEW m \in Machines
  PROVE  /\ m.disk \in [0..CardSize-1 -> Windows] /\ m.fs \in FATFS /\ m.fp \in FIL /\ m.dj \in DIR
         /\ m.log \in BOOLEAN /\ m.fault.kind \in Kinds /\ m.fault.left \in Nat
         /\ m.fault = [kind |-> m.fault.kind, left |-> m.fault.left]
         /\ m.depth \in Nat /\ m.dead \in BOOLEAN /\ m.res \in FRESULT /\ m.val \in Nat
         /\ m.data \in Seq(Nat)
BY DEF Machines

\* Doing nothing keeps everything.
LEMMA KeptRefl ==
  ASSUME NEW t, NEW m
  PROVE  Kept(t, m, m) /\ Through(t, m, m)
BY DEF Kept, Through

\* What two calls keep, both keep.
LEMMA KeptTrans ==
  ASSUME NEW t, NEW m, NEW n, NEW p, Kept(t, m, n), Kept(t, n, p)
  PROVE  Kept(t, m, p)
BY DEF Kept, Off

\* The same when neither touches the file or the position in a directory.
LEMMA ThroughTrans ==
  ASSUME NEW t, NEW m, NEW n, NEW p, Through(t, m, n), Through(t, n, p)
  PROVE  Through(t, m, p)
BY KeptTrans DEF Through

\* And when neither touches disk or volume.
LEMMA WorldTrans ==
  ASSUME NEW m, NEW n, NEW p, World(m, n), World(n, p)
  PROVE  World(m, p)
BY DEF World

\* Machines that differ in what a call returns and in its file are as sound.
LEMMA WorldSound ==
  ASSUME NEW t, NEW m, NEW n, World(m, n)
  PROVE  /\ Nearly(t, m) => Nearly(t, n)
         /\ Sound(t, m) => Sound(t, n)
         /\ Up(t, m) => Up(t, n)
         /\ Live(t, m) => Live(t, n)
         /\ Kept(t, m, n)
         /\ Mounted(t, m) => Mounted(t, n)
         /\ Off(m) => Off(n)
BY DEF World, Nearly, Sound, Held, Up, Mounted, Live, Kept, FaultOk, Off

\* A mounted volume stays mounted, and its window stays named.
LEMMA KeptLive ==
  ASSUME NEW t, NEW m, NEW n, Kept(t, m, n), Sound(t, n)
  PROVE  /\ Live(t, m) => Live(t, n)
         /\ t \in FatTypes /\ Mounted(t, m) => Mounted(t, n) /\ Up(t, n)
<1>1. t \in FatTypes => t # 0
  BY TypeSome
<1>2. n.fs.fs_type \in {0, t}
  BY DEF Sound, Nearly, VolumeOk
<1> QED BY <1>1, <1>2 DEF Kept, Live, Mounted, Up

\* Setting a result changes neither disk nor volume.
LEMMA Results ==
  ASSUME NEW m \in Machines, NEW r \in FRESULT, NEW v \in Nat
  PROVE  /\ World(m, Ok(m)) /\ Ok(m).res = "OK" /\ Ok(m).fp = m.fp /\ Ok(m).dj = m.dj
         /\ Ok(m).val = m.val /\ Ok(m).data = m.data
         /\ World(m, Fail(m, r)) /\ Fail(m, r).res = r /\ Fail(m, r).fp = m.fp
         /\ Fail(m, r).dj = m.dj /\ Fail(m, r).val = m.val /\ Fail(m, r).data = m.data
         /\ World(m, Val(m, v)) /\ Val(m, v).res = m.res /\ Val(m, v).fp = m.fp
         /\ Val(m, v).dj = m.dj /\ Val(m, v).val = v /\ Val(m, v).data = m.data
<1>1. World(m, Ok(m)) /\ Ok(m).res = "OK" /\ Ok(m).fp = m.fp /\ Ok(m).dj = m.dj
         /\ Ok(m).val = m.val /\ Ok(m).data = m.data
  BY DEF World, Machines, Ok, FRESULT
<1>2. World(m, Fail(m, r)) /\ Fail(m, r).res = r /\ Fail(m, r).fp = m.fp
         /\ Fail(m, r).dj = m.dj /\ Fail(m, r).val = m.val /\ Fail(m, r).data = m.data
  BY DEF World, Machines, Fail
<1>3. World(m, Val(m, v)) /\ Val(m, v).res = m.res /\ Val(m, v).fp = m.fp
         /\ Val(m, v).dj = m.dj /\ Val(m, v).val = v /\ Val(m, v).data = m.data
  BY DEF World, Machines, Val
<1> QED BY <1>1, <1>2, <1>3

\* Nor does setting the file,
LEMMA SetFp ==
  ASSUME NEW m \in Machines, NEW p \in FIL
  PROVE  LET n == [m EXCEPT !.fp = p] IN
         World(m, n) /\ n.fp = p /\ n.dj = m.dj /\ n.res = m.res /\ n.val = m.val /\ n.data = m.data
BY DEF World, Machines

\* or the position in a directory.
LEMMA SetDj ==
  ASSUME NEW m \in Machines, NEW p \in DIR
  PROVE  LET n == [m EXCEPT !.dj = p] IN
         World(m, n) /\ n.dj = p /\ n.fp = m.fp /\ n.res = m.res /\ n.val = m.val /\ n.data = m.data
BY DEF World, Machines

\* Setting the volume changes nothing else.
LEMMA SetFs ==
  ASSUME NEW m \in Machines, NEW f \in FATFS
  PROVE  OnlyFs(m, [m EXCEPT !.fs = f]) /\ [m EXCEPT !.fs = f].fs = f
BY DEF OnlyFs, Machines

\* An aborted file is marked (ABORT, ff.c:91).
LEMMA Aborts ==
  ASSUME NEW m \in Machines, NEW r \in FRESULT
  PROVE  LET n == Abort(m, r) IN
         /\ World(m, n) /\ n.fp = [m.fp EXCEPT !.err = TRUE] /\ n.dj = m.dj /\ n.res = r
         /\ n.val = m.val /\ n.data = m.data
<1>1. [m.fp EXCEPT !.err = TRUE] \in FIL
  BY DEF Machines, FIL
<1> QED BY <1>1 DEF World, Machines, Abort, FIL

\* The volume in RAM but for the window.
SameVolume(f, g) ==
  /\ g \in FATFS /\ g.fs_type = f.fs_type /\ g.csize = f.csize /\ g.n_fats = f.n_fats
  /\ g.fatbase = f.fatbase /\ g.dirbase = f.dirbase /\ g.database = f.database
  /\ g.sects_fat = f.sects_fat /\ g.n_rootdir = f.n_rootdir /\ g.max_clust = f.max_clust
  /\ g.last_clust = f.last_clust /\ g.free_clust = f.free_clust /\ g.fsi_sector = f.fsi_sector

\* The volume is as good with another window.
LEMMA VolumeSame ==
  ASSUME NEW t, NEW f, NEW g, VolumeOk(t, f), SameVolume(f, g)
  PROVE  VolumeOk(t, g)
BY DEF VolumeOk, SameVolume, Shape

\* So is the machine, if the window is named after a sector of the volume.
LEMMA FsSound ==
  ASSUME NEW t, NEW m, NEW n, Nearly(t, m), OnlyFs(m, n), SameVolume(m.fs, n.fs),
         WindowOk(t, n.fs), n.fs.wflag => n.fs.winsect # 0 \/ Off(m)
  PROVE  /\ Nearly(t, n)
         /\ (t # 32 /\ m.fs.winsect # 0 => n.fs.winsect # 0) => Through(t, m, n)
         /\ Mounted(t, m) => Mounted(t, n)
         /\ Off(m) <=> Off(n)
<1>1. VolumeOk(t, n.fs)
  BY VolumeSame DEF Nearly
<1>2. Nearly(t, n)
  BY <1>1 DEF Nearly, OnlyFs, FaultOk, Off
<1>3. (t # 32 /\ m.fs.winsect # 0 => n.fs.winsect # 0) => Through(t, m, n)
  BY DEF Through, Kept, OnlyFs, SameVolume, Off
<1>4. (Mounted(t, m) => Mounted(t, n)) /\ (Off(m) <=> Off(n))
  BY DEF Mounted, OnlyFs, SameVolume, Off
<1> QED BY <1>2, <1>3, <1>4

-----------------------------------------------------------------------------
(***************************************************************************)
(* An access that failed.                                                  *)
(***************************************************************************)
\* What gecko_printf promises, one level down; the same for the others below.
LogGood(t, F) ==
  \A m \in Machines, a \in Seq(Nat) :
    Sound(t, m) => LET n == Call(F, "gecko_printf", m, a) IN Sound(t, n) /\ Kept(t, m, n)

\* Updates of a machine, named so that a lemma about one can be cited.
Restore(r, p, q, d, v) ==
  [r EXCEPT !.fp = p, !.dj = q, !.depth = d, !.val = v, !.res = "DISK_ERR"]
PutFault(m, r, k, l) == [m EXCEPT !.res = r, !.fault = [kind |-> k, left |-> l]]
PutDepth(m, d) == [m EXCEPT !.depth = d]
PutDead(m, b) == [m EXCEPT !.dead = b]

\* What the caller of gecko_printf gets back.
LEMMA Restored ==
  ASSUME NEW r \in Machines, NEW p \in FIL, NEW q \in DIR, NEW d \in Nat, NEW v \in Nat
  PROVE  LET n == Restore(r, p, q, d, v) IN
         /\ n \in Machines /\ n.fp = p /\ n.dj = q /\ n.depth = d /\ n.res = "DISK_ERR"
         /\ n.disk = r.disk /\ n.fs = r.fs /\ n.log = r.log /\ n.fault = r.fault
         /\ n.dead = r.dead
BY DEF Restore, Machines, FRESULT

\* The fault after it struck.
LEMMA FaultPut ==
  ASSUME NEW m \in Machines, NEW r \in FRESULT, NEW k \in Kinds, NEW l \in Nat
  PROVE  LET n == PutFault(m, r, k, l) IN
         /\ n \in Machines /\ n.res = r /\ n.fault.kind = k /\ n.fault.left = l
         /\ n.disk = m.disk /\ n.fs = m.fs /\ n.fp = m.fp /\ n.dj = m.dj /\ n.log = m.log
         /\ n.depth = m.depth /\ n.dead = m.dead /\ n.val = m.val
BY DEF PutFault, Machines

\* Nesting one deeper, and the end of the stack.
LEMMA DepthPut ==
  ASSUME NEW m \in Machines, NEW d \in Nat, NEW b \in BOOLEAN
  PROVE  /\ LET n == PutDepth(m, d) IN
            /\ n \in Machines /\ n.depth = d /\ n.fault = m.fault /\ n.disk = m.disk
            /\ n.fs = m.fs /\ n.log = m.log /\ n.dead = m.dead
         /\ LET n == PutDead(m, b) IN
            /\ n \in Machines /\ n.dead = b /\ n.fault = m.fault /\ n.disk = m.disk
            /\ n.fs = m.fs /\ n.log = m.log /\ n.depth = m.depth /\ n.fp = m.fp /\ n.dj = m.dj
            /\ n.res = m.res
BY DEF PutDepth, PutDead, Machines

\* Failed, with the updates named.
LEMMA FailedIs ==
  ASSUME NEW m, NEW F, NEW k, NEW l,
         [kind |-> k, left |-> l] = IF m.fault.kind \in {"once", "wrote"} THEN NoFault ELSE m.fault,
         NEW n, n = PutFault(m, "DISK_ERR", k, l)
  PROVE  Failed(F, m) =
           IF m.fault.kind = "cut" \/ m.dead \/ ~m.log THEN n
           ELSE IF m.depth = MaxNest THEN PutDead(n, TRUE)
           ELSE Restore(Call(F, "gecko_printf", PutDepth(n, n.depth + 1), ErrLine),
                        m.fp, m.dj, m.depth, m.val)
<1> DEFINE h == [m EXCEPT !.res = "DISK_ERR",
                          !.fault = IF @.kind \in {"once", "wrote"} THEN NoFault ELSE @]
<1>1. Failed(F, m) =
        IF m.fault.kind = "cut" \/ m.dead \/ ~m.log THEN h
        ELSE IF m.depth = MaxNest THEN PutDead(h, TRUE)
        ELSE Restore(Call(F, "gecko_printf", PutDepth(h, h.depth + 1), ErrLine),
                     m.fp, m.dj, m.depth, m.val)
  BY DEF Failed, PutDead, PutDepth, Restore
<1>2. h = PutFault(m, "DISK_ERR", k, l)
  BY DEF PutFault
<1> HIDE DEF h
<1> QED BY <1>1, <1>2

\* A failed access, and the line about it, leave a sound machine (sdmmc.c:317-352): dead
\* only when the card was pulled.
LEMMA FailedSound ==
  ASSUME NEW t \in FatTypes, NEW F, LogGood(t, F), NEW m, Sound(t, m), Hit(m)
  PROVE  LET n == Failed(F, m) IN
         /\ Sound(t, n) /\ Through(t, m, n) /\ n.res = "DISK_ERR"
         /\ t = 32 => n.fs = m.fs /\ Off(n)
<1> DEFINE k == IF m.fault.kind \in {"once", "wrote"} THEN "none" ELSE m.fault.kind
           n0 == PutFault(m, "DISK_ERR", k, 0)
<1>1. m \in Machines /\ m.fault.kind \in Kinds /\ m.fault.left = 0 /\ m.fault.kind # "none"
      /\ m.fault = [kind |-> m.fault.kind, left |-> m.fault.left]
      /\ m.depth \in Nat /\ m.fp \in FIL /\ m.dj \in DIR /\ m.val \in Nat /\ m.dead \in BOOLEAN
  BY Typed DEF Sound, Nearly, Hit
<1>2. [kind |-> k, left |-> 0] = IF m.fault.kind \in {"once", "wrote"} THEN NoFault ELSE m.fault
  BY <1>1 DEF NoFault
<1>3. /\ n0 \in Machines /\ n0.res = "DISK_ERR" /\ n0.fault.kind = k /\ n0.fault.left = 0
      /\ n0.disk = m.disk /\ n0.fs = m.fs /\ n0.fp = m.fp /\ n0.dj = m.dj /\ n0.log = m.log
      /\ n0.depth = m.depth /\ n0.dead = m.dead /\ n0.val = m.val
  <2>1. "DISK_ERR" \in FRESULT /\ k \in Kinds /\ 0 \in Nat
    BY <1>1 DEF FRESULT, Kinds
  <2> HIDE DEF k
  <2> QED BY <1>1, <2>1, FaultPut
<1>4. Failed(F, m) =
        IF m.fault.kind = "cut" \/ m.dead \/ ~m.log THEN n0
        ELSE IF m.depth = MaxNest THEN PutDead(n0, TRUE)
        ELSE Restore(Call(F, "gecko_printf", PutDepth(n0, n0.depth + 1), ErrLine),
                     m.fp, m.dj, m.depth, m.val)
  <2> HIDE DEF k
  <2> QED BY <1>2, FailedIs
<1>5. k \in {m.fault.kind, "none"} /\ (m.fault.kind = "cut" <=> k = "cut")
      /\ (m.fault.kind = "pull" => k = "pull") /\ k \in {"none", "pull", "cut"}
  BY <1>1 DEF Kinds
<1>6. FaultOk(t, m) /\ VolumeOk(t, m.fs) /\ WindowOk(t, m.fs) /\ BootOk(t, m.disk) /\ Held(m)
      /\ (m.fs.wflag => m.fs.winsect # 0 \/ Off(m))
  BY DEF Sound, Nearly
<1> HIDE DEF n0, k
<1>7. Sound(t, n0) /\ Through(t, m, n0)
  <2>1. FaultOk(t, n0)
    BY <1>3, <1>5, <1>6 DEF FaultOk
  <2>2. m.fs.wflag => m.fs.winsect # 0 \/ Off(n0)
    BY <1>3, <1>5, <1>6 DEF Off
  <2>3. Sound(t, n0)
    BY <1>3, <1>6, <2>1, <2>2 DEF Sound, Nearly, Held
  <2>4. Through(t, m, n0)
    BY <1>3, <1>5 DEF Through, Kept, Off
  <2> QED BY <2>3, <2>4
<1>8. t = 32 => m.fault.kind = "cut"
  BY <1>1, <1>6 DEF FaultOk
<1>9. CASE m.fault.kind = "cut" \/ m.dead \/ ~m.log
  BY <1>3, <1>4, <1>5, <1>7, <1>8, <1>9 DEF Off
<1>10. CASE ~(m.fault.kind = "cut" \/ m.dead \/ ~m.log) /\ m.depth = MaxNest
  <2> DEFINE n == PutDead(n0, TRUE)
  <2>1. /\ n \in Machines /\ n.dead = TRUE /\ n.fault = n0.fault /\ n.disk = n0.disk
        /\ n.fs = n0.fs /\ n.log = n0.log /\ n.depth = n0.depth /\ n.fp = n0.fp /\ n.dj = n0.dj
        /\ n.res = n0.res
    BY <1>3, DepthPut
  <2> HIDE DEF n
  <2>2. MaxNest > 0
    BY FatOpsAssumption
  <2>3. m.fault.kind = "pull"
    BY <1>1, <1>6, <1>10, <2>2 DEF FaultOk
  <2>4. FaultOk(t, n)
    BY <1>3, <1>5, <1>7, <1>10, <2>1, <2>3 DEF FaultOk, Sound, Nearly
  <2>5. Sound(t, n)
    BY <1>7, <2>1, <2>4 DEF Sound, Nearly, Held, Off
  <2>6. Through(t, m, n)
    BY <1>7, <2>1 DEF Through, Kept, Off
  <2>7. Failed(F, m) = n
    BY <1>4, <1>10 DEF n
  <2> QED BY <1>3, <1>8, <1>10, <2>1, <2>5, <2>6, <2>7
<1>11. CASE ~(m.fault.kind = "cut" \/ m.dead \/ ~m.log) /\ m.depth # MaxNest
  <2> DEFINE n1 == PutDepth(n0, m.depth + 1)
             r == Call(F, "gecko_printf", n1, ErrLine)
             n == Restore(r, m.fp, m.dj, m.depth, m.val)
  <2>2. /\ n1 \in Machines /\ n1.depth = m.depth + 1 /\ n1.fault = n0.fault /\ n1.disk = n0.disk
        /\ n1.fs = n0.fs /\ n1.log = n0.log /\ n1.dead = n0.dead
    <3>1. m.depth + 1 \in Nat
      BY <1>1
    <3> QED BY <1>3, <3>1, DepthPut
  <2>3. Failed(F, m) = n
    BY <1>3, <1>4, <1>11
  <2> HIDE DEF n1
  <2>4. FaultOk(t, n1)
    <3>1. m.depth + 1 \in 0..MaxNest
      BY <1>1, <1>6, <1>11, FatOpsAssumption DEF FaultOk
    <3> QED BY <1>3, <1>5, <1>6, <1>11, <2>2, <3>1 DEF FaultOk
  <2>5. Sound(t, n1)
    BY <1>7, <2>2, <2>4 DEF Sound, Nearly, Held, Off
  <2>6. Sound(t, r) /\ Kept(t, n1, r)
    BY <2>2, <2>5, FatOpsAssumption DEF LogGood
  <2>7. r \in Machines
    BY <2>6 DEF Sound, Nearly
  <2> HIDE DEF r
  <2>8. /\ n \in Machines /\ n.fp = m.fp /\ n.dj = m.dj /\ n.depth = m.depth /\ n.res = "DISK_ERR"
        /\ n.disk = r.disk /\ n.fs = r.fs /\ n.log = r.log /\ n.fault = r.fault
        /\ n.dead = r.dead
    BY <1>1, <2>7, Restored
  <2> HIDE DEF n
  <2>9. r.depth = m.depth + 1
    BY <2>2, <2>6 DEF Kept
  <2>10. FaultOk(t, n)
    <3>1. r.depth > 0
      BY <1>1, <2>9
    <3> QED BY <1>6, <2>6, <2>8, <3>1 DEF FaultOk, Sound, Nearly
  <2>11. Sound(t, n)
    BY <2>6, <2>8, <2>10 DEF Sound, Nearly, Held, Off
  <2>12. Kept(t, m, n)
    BY <1>3, <1>5, <1>7, <1>11, <2>2, <2>6, <2>8 DEF Kept, Off, Through
  <2> QED BY <1>8, <1>11, <2>3, <2>8, <2>11, <2>12 DEF Through
<1> QED BY <1>9, <1>10, <1>11

-----------------------------------------------------------------------------
(***************************************************************************)
(* Writing and reading a sector.                                           *)
(***************************************************************************)
\* The disk after the window was written to a sector.
Stored(m, sect) == [m.disk EXCEPT ![sect] = m.fs.win]
PutDisk(m, d) == [m EXCEPT !.disk = d]
PutLeft(m, l) == [m EXCEPT !.res = "OK", !.fault.left = l]

\* Another disk, all else the same.
LEMMA DiskPut ==
  ASSUME NEW m \in Machines, NEW d \in [0..CardSize-1 -> Windows]
  PROVE  LET n == PutDisk(m, d) IN
         /\ n \in Machines /\ n.disk = d /\ n.fault = m.fault /\ n.depth = m.depth
         /\ n.fs = m.fs /\ n.log = m.log /\ n.dead = m.dead /\ n.fp = m.fp /\ n.dj = m.dj
         /\ n.res = m.res
BY DEF PutDisk, Machines

\* Another count of accesses before the fault.
LEMMA LeftPut ==
  ASSUME NEW m \in Machines, NEW l \in Nat
  PROVE  LET n == PutLeft(m, l) IN
         /\ n \in Machines /\ n.res = "OK" /\ n.fault.kind = m.fault.kind /\ n.fault.left = l
         /\ n.disk = m.disk /\ n.depth = m.depth /\ n.fs = m.fs /\ n.log = m.log
         /\ n.dead = m.dead /\ n.fp = m.fp /\ n.dj = m.dj
BY DEF PutLeft, Machines, FRESULT

\* An access that was met by no fault.
LEMMA TickSound ==
  ASSUME NEW t, NEW m \in Machines
  PROVE  LET n == Tick(m) IN
         /\ n \in Machines /\ n.res = "OK" /\ n.fs = m.fs /\ n.disk = m.disk
         /\ Sound(t, m) => Sound(t, n)
         /\ Through(t, m, n)
<1> DEFINE l == IF m.fault.left > 0 THEN m.fault.left - 1 ELSE 0
<1>1. m.fault.left \in Nat
  BY Typed
<1>2. l \in Nat /\ (m.fault.left = 0 => l = 0)
  BY <1>1
<1> DEFINE n == PutLeft(m, l)
<1>3. Tick(m) = n
  BY DEF Tick, PutLeft
<1> HIDE DEF l
<1>4. /\ n \in Machines /\ n.res = "OK" /\ n.fault.kind = m.fault.kind /\ n.fault.left = l
      /\ n.disk = m.disk /\ n.depth = m.depth /\ n.fs = m.fs /\ n.log = m.log
      /\ n.dead = m.dead /\ n.fp = m.fp /\ n.dj = m.dj
  BY <1>2, LeftPut
<1> HIDE DEF n
<1>5. Sound(t, m) => Sound(t, n)
  BY <1>2, <1>4 DEF Sound, Nearly, Held, FaultOk, Off
<1>6. Through(t, m, n)
  BY <1>2, <1>4 DEF Through, Kept, Off
<1> QED BY <1>3, <1>4, <1>5, <1>6

\* A sector that was written with the window.
LEMMA StoredSound ==
  ASSUME NEW t, NEW m, NEW sect \in 0..CardSize-1, Sound(t, m), BootOk(t, Stored(m, sect))
  PROVE  LET n == PutDisk(m, Stored(m, sect)) IN
         /\ Sound(t, n) /\ Through(t, m, n) /\ n.fs = m.fs /\ n.disk = Stored(m, sect)
         /\ n.fault = m.fault
<1> DEFINE d == Stored(m, sect)
           n == PutDisk(m, d)
<1>1. m \in Machines /\ m.fs \in FATFS /\ m.disk \in [0..CardSize-1 -> Windows]
  BY Typed DEF Sound, Nearly
<1>2. m.fs.win \in Windows
  BY <1>1 DEF FATFS
<1>3. d \in [0..CardSize-1 -> Windows] /\ d[sect] = m.fs.win
      /\ (m.disk[m.fs.winsect] = m.fs.win =>
            d[m.fs.winsect] = m.fs.win \/ m.fs.winsect \notin 0..CardSize-1)
  BY <1>1, <1>2 DEF Stored
<1>4. m.fs.winsect # 0 /\ ~m.fs.wflag => m.fs.win = d[m.fs.winsect]
  <2>1. CASE m.fs.winsect \in 0..CardSize-1
    BY <1>3, <2>1 DEF Sound, Held
  <2>2. CASE m.fs.winsect \notin 0..CardSize-1
    <3>1. d[m.fs.winsect] = m.disk[m.fs.winsect]
      BY <1>1, <2>2 DEF Stored
    <3> QED BY <3>1 DEF Sound, Held
  <2> QED BY <2>1, <2>2
<1> HIDE DEF d
<1>5. /\ n \in Machines /\ n.disk = d /\ n.fault = m.fault /\ n.depth = m.depth
      /\ n.fs = m.fs /\ n.log = m.log /\ n.dead = m.dead /\ n.fp = m.fp /\ n.dj = m.dj
  BY <1>1, <1>3, DiskPut
<1> HIDE DEF n
<1>6. BootOk(t, d)
  BY DEF d
<1>7. Sound(t, n)
  BY <1>4, <1>5, <1>6 DEF Sound, Nearly, Held, FaultOk, Off
<1>8. Through(t, m, n)
  BY <1>5 DEF Through, Kept, Off
<1> QED BY <1>5, <1>7, <1>8 DEF n, d

\* disk_write of the window (diskio.c:57-69).
LEMMA DiskWriteSound ==
  ASSUME NEW t \in FatTypes, NEW F, LogGood(t, F), NEW m, Sound(t, m),
         NEW sect \in 0..CardSize-1, Off(m) \/ BootOk(t, Stored(m, sect))
  PROVE  LET n == DiskWrite(F, m, sect) IN
         /\ Sound(t, n) /\ Through(t, m, n) /\ n.res \in {"OK", "DISK_ERR"}
         /\ n.res = "OK" => n.fs = m.fs /\ n.disk = Stored(m, sect)
         /\ t = 32 => n.fs = m.fs /\ (n.res = "OK" \/ Off(n))
         /\ Off(m) => n.res = "DISK_ERR"
<1> DEFINE s == PutDisk(m, Stored(m, sect))
<1>1. m \in Machines
  BY DEF Sound, Nearly
<1>2. [m EXCEPT !.disk[sect] = m.fs.win] = s
  BY DEF PutDisk, Stored
<1>3. DiskWrite(F, m, sect) =
        IF Hit(m) THEN Failed(F, IF m.fault.kind = "wrote" THEN s ELSE m) ELSE Tick(s)
  <2> DEFINE h == [m EXCEPT !.disk[sect] = m.fs.win]
  <2>1. DiskWrite(F, m, sect) =
          IF Hit(m) THEN Failed(F, IF m.fault.kind = "wrote" THEN h ELSE m) ELSE Tick(h)
    BY DEF DiskWrite, Beyond
  <2> HIDE DEF h, s
  <2>2. h = s
    BY <1>2 DEF h
  <2> QED BY <2>1, <2>2
<1>4. ASSUME BootOk(t, Stored(m, sect))
      PROVE  Sound(t, s) /\ Through(t, m, s) /\ s.fs = m.fs /\ s.disk = Stored(m, sect)
             /\ s.fault = m.fault
  BY <1>4, StoredSound
<1> HIDE DEF s
<1>5. CASE Hit(m) /\ m.fault.kind # "wrote"
  <2>1. LET n == Failed(F, m) IN
         /\ Sound(t, n) /\ Through(t, m, n) /\ n.res = "DISK_ERR"
         /\ t = 32 => n.fs = m.fs /\ Off(n)
    BY <1>5, FailedSound
  <2> QED BY <1>3, <1>5, <2>1
<1>6. CASE Hit(m) /\ m.fault.kind = "wrote"
  <2>1. Sound(t, s) /\ Through(t, m, s) /\ s.fs = m.fs /\ s.fault = m.fault
    BY <1>4, <1>6 DEF Off
  <2>2. Hit(s)
    BY <1>6, <2>1 DEF Hit
  <2>3. LET n == Failed(F, s) IN
         /\ Sound(t, n) /\ Through(t, s, n) /\ n.res = "DISK_ERR"
         /\ t = 32 => n.fs = s.fs /\ Off(n)
    BY <2>1, <2>2, FailedSound
  <2>4. Through(t, m, Failed(F, s))
    BY <2>1, <2>3, ThroughTrans
  <2> QED BY <1>3, <1>6, <2>1, <2>3, <2>4
<1>7. CASE ~Hit(m)
  <2>1. BootOk(t, Stored(m, sect))
    BY <1>7 DEF Off, Hit
  <2>2. Sound(t, s) /\ Through(t, m, s) /\ s.fs = m.fs /\ s.disk = Stored(m, sect)
    BY <1>4, <2>1
  <2>3. LET n == Tick(s) IN
        /\ n.res = "OK" /\ n.fs = s.fs /\ n.disk = s.disk /\ Sound(t, n) /\ Through(t, s, n)
    BY <2>2, TickSound DEF Sound, Nearly
  <2>4. Through(t, m, Tick(s))
    BY <2>2, <2>3, ThroughTrans
  <2> QED BY <1>3, <1>7, <2>2, <2>3, <2>4 DEF Off, Hit
<1> QED BY <1>5, <1>6, <1>7

\* An access to a sector of the card.
LEMMA AccessSound ==
  ASSUME NEW t \in FatTypes, NEW F, LogGood(t, F), NEW m, Sound(t, m), NEW sect \in 0..CardSize-1
  PROVE  LET n == Access(F, m, sect) IN
         /\ Sound(t, n) /\ Through(t, m, n) /\ n.res \in {"OK", "DISK_ERR"}
         /\ n.res = "OK" => n.fs = m.fs /\ n.disk = m.disk
         /\ t = 32 => n.fs = m.fs /\ (n.res = "OK" \/ Off(n))
<1>1. Access(F, m, sect) = IF Hit(m) THEN Failed(F, m) ELSE Tick(m)
  BY DEF Access, Beyond
<1>2. CASE Hit(m)
  BY <1>1, <1>2, FailedSound
<1>3. CASE ~Hit(m)
  BY <1>1, <1>3, TickSound DEF Sound, Nearly
<1> QED BY <1>2, <1>3

-----------------------------------------------------------------------------
PutFs(m, f) == [m EXCEPT !.fs = f]
WithWin(f, w) == [f EXCEPT !.win = w]
WithSect(f, s) == [f EXCEPT !.winsect = s]
WithFlag(f, b) == [f EXCEPT !.wflag = b]

\* Another volume, all else the same.
LEMMA FsPut ==
  ASSUME NEW m \in Machines, NEW f \in FATFS
  PROVE  OnlyFs(m, PutFs(m, f)) /\ PutFs(m, f).fs = f
BY SetFs DEF PutFs

\* The volume with another window,
LEMMA WinPut ==
  ASSUME NEW f \in FATFS, NEW w \in Windows
  PROVE  /\ SameVolume(f, WithWin(f, w)) /\ WithWin(f, w).win = w
         /\ WithWin(f, w).winsect = f.winsect /\ WithWin(f, w).wflag = f.wflag
BY DEF WithWin, SameVolume, FATFS

\* with another mark,
LEMMA FlagPut ==
  ASSUME NEW f \in FATFS, NEW b \in BOOLEAN
  PROVE  /\ SameVolume(f, WithFlag(f, b)) /\ WithFlag(f, b).wflag = b
         /\ WithFlag(f, b).winsect = f.winsect /\ WithFlag(f, b).win = f.win
BY DEF WithFlag, SameVolume, FATFS

\* and with another name for the window.
LEMMA SectPut ==
  ASSUME NEW f \in FATFS, NEW s \in Nat
  PROVE  /\ SameVolume(f, WithSect(f, s)) /\ WithSect(f, s).winsect = s
         /\ WithSect(f, s).wflag = f.wflag /\ WithSect(f, s).win = f.win
BY DEF WithSect, SameVolume, FATFS

\* DiskRead and what the read leaves.
LEMMA DiskReadSound ==
  ASSUME NEW t \in FatTypes, NEW F, LogGood(t, F), NEW m, Sound(t, m), NEW sect \in 0..CardSize-1
  PROVE  LET n == DiskRead(F, m, sect) IN
         /\ Nearly(t, n) /\ Through(t, m, n) /\ n.res \in {"OK", "DISK_ERR"}
         /\ n.res # "OK" => Sound(t, n)
         /\ n.res = "OK" => SameVolume(m.fs, n.fs) /\ n.fs.win = m.disk[sect]
                            /\ n.fs.winsect = m.fs.winsect /\ n.fs.wflag = m.fs.wflag
                            /\ n.disk = m.disk
         /\ t = 32 /\ n.res # "OK" => n.fs = m.fs /\ Off(n)
         /\ m.fs.fs_type = 0 /\ n.res = "OK" => Sound(t, n)
<1> DEFINE a == Access(F, m, sect)
           w == a.disk[sect]
           n == PutFs(a, WithWin(a.fs, w))
<1>1. /\ Sound(t, a) /\ Through(t, m, a) /\ a.res \in {"OK", "DISK_ERR"}
      /\ a.res = "OK" => a.fs = m.fs /\ a.disk = m.disk
      /\ t = 32 => a.fs = m.fs /\ (a.res = "OK" \/ Off(a))
  BY AccessSound
<1>2. DiskRead(F, m, sect) = IF a.res = "OK" THEN n ELSE a
  BY DEF DiskRead, Then, PutFs, WithWin
<1> HIDE DEF a, n
<1>3. CASE a.res # "OK"
  BY <1>1, <1>2, <1>3 DEF Sound
<1>4. CASE a.res = "OK"
  <2>1. a \in Machines /\ a.fs \in FATFS /\ w \in Windows
    BY <1>1, Typed DEF Sound, Nearly
  <2>2. SameVolume(a.fs, WithWin(a.fs, w)) /\ WithWin(a.fs, w).win = w
        /\ WithWin(a.fs, w).winsect = a.fs.winsect /\ WithWin(a.fs, w).wflag = a.fs.wflag
    BY <2>1, WinPut
  <2>3. OnlyFs(a, n) /\ n.fs = WithWin(a.fs, w)
    BY <2>1, <2>2, FsPut DEF SameVolume, n
  <2>4. WindowOk(t, n.fs)
    BY <1>1, <2>2, <2>3 DEF Sound, Nearly, WindowOk, SameVolume
  <2>5. Nearly(t, n) /\ Through(t, a, n)
    BY <1>1, <2>2, <2>3, <2>4, FsSound DEF Sound, Nearly
  <2>6. Through(t, m, n)
    BY <1>1, <2>5, ThroughTrans
  <2>7. n.res = "OK" /\ n.disk = m.disk
    BY <1>1, <1>4, <2>3 DEF OnlyFs
  <2>8. m.fs.fs_type = 0 => Sound(t, n)
    BY <1>1, <1>4, <2>2, <2>3, <2>5 DEF Sound, Held, WindowOk, SameVolume, Nearly
  <2> QED BY <1>1, <1>2, <1>4, <2>2, <2>3, <2>5, <2>6, <2>7, <2>8
<1> QED BY <1>3, <1>4

-----------------------------------------------------------------------------
(***************************************************************************)
(* The window and the copies of the FAT.                                   *)
(***************************************************************************)
MirrorGood(t, F) ==
  \A m \in Machines, sect \in FatBase(t)..FatEnd(t)-1, k \in Nat :
    Up(t, m) => LET n == Call(F, "mirror", m, <<sect, k>>) IN
      /\ Up(t, n) /\ Through(t, m, n) /\ (n.res = "OK" \/ Off(n))
      /\ t = 32 => n.fs = m.fs \/ Off(n)

\* Sectors of the volume are neither boot records nor FSInfo.
LEMMA VolStored ==
  ASSUME NEW t \in FatTypes, NEW m \in Machines, BootOk(t, m.disk), NEW sect \in Vol(t)
  PROVE  /\ sect \in 0..CardSize-1 /\ sect # 0 /\ BootOk(t, Stored(m, sect))
         /\ Stored(m, sect)[sect] = m.fs.win
<1>1. /\ FatBase(t) \in Nat /\ Sectors(t) \in Nat /\ CardSize \in Nat /\ Sectors(t) <= CardSize
      /\ Layout[t].part \in Nat /\ Layout[t].part < FatBase(t)
      /\ t = 32 => Layout[t].part + 1 < FatBase(t)
  BY Bounds
<1>2. sect \in Nat /\ sect \in 0..CardSize-1 /\ sect # 0 /\ sect # Layout[t].part
      /\ (t = 32 => sect # Layout[t].part + 1)
  BY <1>1 DEF Vol
<1>3. m.disk \in [0..CardSize-1 -> Windows]
  BY Typed
<1>4. \A s : s # sect => Stored(m, sect)[s] = m.disk[s]
  BY <1>3 DEF Stored
<1>5. Stored(m, sect)[sect] = m.fs.win
  BY <1>2, <1>3 DEF Stored
<1> QED BY <1>2, <1>4, <1>5 DEF BootOk

\* The writes to the copies of the FAT (ff.c:224-230) keep window and volume.
LEMMA MirrorSound ==
  ASSUME NEW t \in FatTypes, NEW F, LogGood(t, F), MirrorGood(t, F), NEW m, Up(t, m),
         NEW sect \in FatBase(t)..FatEnd(t)-1, NEW k \in Nat
  PROVE  LET n == Mirror(F, m, sect, k) IN
         /\ Up(t, n) /\ Through(t, m, n) /\ (n.res = "OK" \/ Off(n))
         /\ t = 32 => n.fs = m.fs \/ Off(n)
<1> DEFINE s == sect + k * m.fs.sects_fat
           w == DiskWrite(F, m, s)
           n == Call(F, "mirror", w, <<sect, k + 1>>)
<1>1. m \in Machines /\ m.fs.n_fats = Layout[t].nfat /\ m.fs.sects_fat = Layout[t].fatsz
      /\ BootOk(t, m.disk) /\ Sound(t, m)
  BY DEF Up, Sound, Nearly, Mounted, VolumeOk, Shape
<1>2. CASE k >= m.fs.n_fats
  <2>1. Mirror(F, m, sect, k) = Ok(m)
    BY <1>2 DEF Mirror
  <2>2. World(m, Ok(m)) /\ Ok(m).res = "OK" /\ Ok(m).fp = m.fp /\ Ok(m).dj = m.dj
    BY <1>1, Results DEF FRESULT
  <2>3. Up(t, Ok(m)) /\ Through(t, m, Ok(m)) /\ Ok(m).fs = m.fs
    BY <2>2, WorldSound DEF Through, World
  <2> QED BY <2>1, <2>2, <2>3
<1>3. CASE ~(k >= m.fs.n_fats)
  <2>1. Mirror(F, m, sect, k) = n
    BY <1>3 DEF Mirror
  <2>2. s \in Vol(t)
    <3>1. k < Layout[t].nfat
      BY <1>1, <1>3, Fields
    <3> QED BY <1>1, <3>1, CopySects
  <2>3. s \in 0..CardSize-1 /\ BootOk(t, Stored(m, s))
    BY <1>1, <2>2, VolStored
  <2> HIDE DEF s
  <2>4. Sound(t, w) /\ Through(t, m, w) /\ (t = 32 => w.fs = m.fs)
    BY <1>1, <2>3, DiskWriteSound
  <2>5. Up(t, w) /\ w \in Machines
    BY <2>4, KeptLive DEF Up, Through, Sound, Nearly
  <2> HIDE DEF w
  <2>6. /\ Up(t, n) /\ Through(t, w, n) /\ (n.res = "OK" \/ Off(n))
        /\ t = 32 => n.fs = w.fs \/ Off(n)
    BY <2>5 DEF MirrorGood
  <2> HIDE DEF n
  <2>7. Through(t, m, n)
    BY <2>4, <2>6, ThroughTrans
  <2> QED BY <2>1, <2>4, <2>6, <2>7
<1> QED BY <1>2, <1>3

\* Writing a changed window back (ff.c:220-231).
LEMMA WriteBackSound ==
  ASSUME NEW t \in FatTypes, NEW F, LogGood(t, F), MirrorGood(t, F), NEW m, Sound(t, m),
         m.fs.wflag
  PROVE  LET n == WriteBack(F, m) IN
         /\ Up(t, n) /\ Through(t, m, n)
         /\ t = 32 => Off(n) \/ (n.res = "OK" /\ ~n.fs.wflag)
         /\ m.fs.winsect >= FatEnd(t) /\ n.res = "OK" =>
              /\ n.fs = WithFlag(m.fs, FALSE) /\ n.disk = Stored(m, m.fs.winsect)
<1> DEFINE sect == m.fs.winsect
           a == DiskWrite(F, m, sect)
           c == PutFs(a, WithFlag(a.fs, FALSE))
<1>1. WriteBack(F, m) =
        IF a.res = "OK" THEN IF sect < c.fs.fatbase + c.fs.sects_fat THEN Call(F, "mirror", c, <<sect, 1>>)
                             ELSE c
        ELSE a
  BY DEF WriteBack, Then, PutFs, WithFlag
<1>2. Up(t, m) /\ m \in Machines /\ BootOk(t, m.disk) /\ sect \in {0} \cup Vol(t)
      /\ (sect # 0 \/ Off(m))
  BY DEF Sound, Nearly, Up, Mounted, WindowOk, VolumeOk
<1>3. sect \in 0..CardSize-1 /\ (Off(m) \/ (sect # 0 /\ BootOk(t, Stored(m, sect))))
  <2>1. 0 \in 0..CardSize-1
    BY Bounds DEF FatEnd
  <2> HIDE DEF sect
  <2> QED BY <1>2, <2>1, VolStored
<1>4. /\ Sound(t, a) /\ Through(t, m, a) /\ a.res \in {"OK", "DISK_ERR"}
      /\ a.res = "OK" => a.fs = m.fs /\ a.disk = Stored(m, sect)
      /\ t = 32 => a.fs = m.fs /\ (a.res = "OK" \/ Off(a))
      /\ Off(m) => a.res = "DISK_ERR"
  <2> HIDE DEF sect
  <2> QED BY <1>3, DiskWriteSound
<1>5. Up(t, a) /\ a \in Machines /\ a.fs \in FATFS
  BY <1>2, <1>4, KeptLive, Typed DEF Up, Through, Sound, Nearly
<1> HIDE DEF a
<1>6. CASE a.res # "OK"
  BY <1>1, <1>4, <1>5, <1>6
<1>7. CASE a.res = "OK"
  <2>1. sect \in Vol(t) /\ sect # 0
    BY <1>2, <1>3, <1>4, <1>7
  <2>2. SameVolume(a.fs, WithFlag(a.fs, FALSE)) /\ WithFlag(a.fs, FALSE).wflag = FALSE
        /\ WithFlag(a.fs, FALSE).winsect = a.fs.winsect /\ WithFlag(a.fs, FALSE).win = a.fs.win
    BY <1>5, FlagPut
  <2>3. OnlyFs(a, c) /\ c.fs = WithFlag(a.fs, FALSE)
    BY <1>5, <2>2, FsPut DEF SameVolume
  <2> HIDE DEF c
  <2>4. WindowOk(t, c.fs)
    BY <1>4, <1>7, <2>1, <2>2, <2>3, <1>5 DEF WindowOk, SameVolume, Up, Sound, Nearly
  <2>5. Nearly(t, c) /\ Through(t, a, c) /\ (Mounted(t, a) => Mounted(t, c))
    BY <1>4, <1>7, <2>2, <2>3, <2>4, FsSound DEF Sound
  <2>6. c.disk = Stored(m, sect) /\ c.res = "OK"
    BY <1>4, <1>7, <2>3 DEF OnlyFs
  <2>7. c.fs.win = c.disk[c.fs.winsect]
    <3>1. Stored(m, sect)[sect] = m.fs.win
      <4> HIDE DEF sect
      <4> QED BY <1>2, <2>1, VolStored
    <3>2. c.fs.win = m.fs.win /\ c.fs.winsect = sect
      BY <1>4, <1>7, <2>2, <2>3
    <3> QED BY <2>6, <3>1, <3>2
  <2>8. Up(t, c) /\ Through(t, m, c)
    <3>1. Sound(t, c)
      BY <2>5, <2>7 DEF Sound, Held
    <3>2. Through(t, m, c)
      BY <1>4, <2>5, ThroughTrans
    <3> QED BY <1>5, <2>5, <3>1, <3>2 DEF Up
  <2>9. c.fs.fatbase + c.fs.sects_fat = FatEnd(t) /\ FatEnd(t) \in Nat /\ FatBase(t) \in Nat
    BY <2>8, Bounds DEF Up, Mounted, Sound, Nearly, VolumeOk, Shape, FatEnd
  <2>10. sect \in Nat /\ sect >= FatBase(t)
    BY <2>1, <2>9, Bounds DEF Vol
  <2>11. CASE sect < FatEnd(t)
    <3>1. sect \in FatBase(t)..FatEnd(t)-1
      BY <2>9, <2>10, <2>11
    <3> DEFINE n == Call(F, "mirror", c, <<sect, 1>>)
    <3>2. /\ Up(t, n) /\ Through(t, c, n) /\ (n.res = "OK" \/ Off(n))
          /\ t = 32 => n.fs = c.fs \/ Off(n)
      <4> HIDE DEF sect
      <4> QED BY <2>8, <3>1 DEF MirrorGood, Up, Sound, Nearly
    <3>3. WriteBack(F, m) = n
      BY <1>1, <1>7, <2>9, <2>11
    <3> HIDE DEF n
    <3>4. Through(t, m, n)
      BY <2>8, <3>2, ThroughTrans
    <3>5. ~(m.fs.winsect >= FatEnd(t))
      BY <2>9, <2>10, <2>11
    <3> QED BY <2>2, <2>3, <3>2, <3>3, <3>4, <3>5
  <2>12. CASE ~(sect < FatEnd(t))
    <3>1. WriteBack(F, m) = c
      BY <1>1, <1>7, <2>9, <2>12
    <3> QED BY <1>4, <1>7, <2>2, <2>3, <2>6, <2>8, <3>1
  <2> QED BY <2>11, <2>12
<1> QED BY <1>6, <1>7

\* move_window (ff.c:208-243): when it reports success the window has the sector.
LEMMA MoveWindowSound ==
  ASSUME NEW t \in FatTypes, NEW F, LogGood(t, F), MirrorGood(t, F), NEW m, Sound(t, m),
         NEW sect, sect = 0 \/ (sect \in Vol(t) /\ Mounted(t, m))
  PROVE  LET n == MoveWindow(F, m, sect) IN
         /\ Sound(t, n) /\ Through(t, m, n)
         /\ n.res = "OK" /\ sect # 0 => n.fs.winsect = sect
         /\ t = 32 /\ n.res # "OK" => Off(n)
         /\ t = 32 /\ sect = 0 => ~n.fs.wflag \/ Off(n)
<1> DEFINE w == WriteBack(F, m)
           b == IF m.fs.wflag THEN w ELSE Ok(m)
           r == DiskRead(F, b, sect)
           n == PutFs(r, WithSect(r.fs, sect))
<1>1. MoveWindow(F, m, sect) =
        IF m.fs.winsect = sect THEN Ok(m)
        ELSE IF b.res = "OK" THEN IF sect = 0 THEN b ELSE IF r.res = "OK" THEN n ELSE r
             ELSE b
  BY DEF MoveWindow, Then, PutFs, WithSect
<1>2. m \in Machines /\ WindowOk(t, m.fs) /\ (m.fs.wflag => m.fs.winsect # 0 \/ Off(m))
  BY DEF Sound, Nearly
<1>3. Sound(t, Ok(m)) /\ Through(t, m, Ok(m)) /\ Ok(m).res = "OK" /\ Ok(m).fs = m.fs
      /\ (Off(m) => Off(Ok(m)))
  <2>1. World(m, Ok(m)) /\ Ok(m).res = "OK" /\ Ok(m).fp = m.fp /\ Ok(m).dj = m.dj
    BY <1>2, Results DEF FRESULT
  <2> QED BY <2>1, WorldSound DEF Through, World
<1>4. CASE m.fs.winsect = sect
  BY <1>1, <1>2, <1>3, <1>4
<1>5. CASE m.fs.winsect # sect
  <2>1. /\ Sound(t, b) /\ Through(t, m, b)
        /\ t = 32 => Off(b) \/ (b.res = "OK" /\ ~b.fs.wflag)
    <3>1. CASE m.fs.wflag
      <4>1. b = w
        BY <3>1
      <4>2. /\ Up(t, w) /\ Through(t, m, w)
            /\ t = 32 => Off(w) \/ (w.res = "OK" /\ ~w.fs.wflag)
        BY <3>1, WriteBackSound
      <4> HIDE DEF b, w
      <4> QED BY <4>1, <4>2 DEF Up
    <3>2. CASE ~m.fs.wflag
      <4>1. b = Ok(m)
        BY <3>2
      <4> HIDE DEF b
      <4> QED BY <1>3, <3>2, <4>1
    <3> QED BY <3>1, <3>2
  <2> HIDE DEF b
  <2>2. CASE b.res # "OK" \/ sect = 0
    BY <1>1, <1>5, <2>1, <2>2
  <2>3. CASE b.res = "OK" /\ sect # 0
    <3>1. sect \in Vol(t) /\ sect \in 0..CardSize-1 /\ Mounted(t, b) /\ sect \in Nat
      BY <2>1, <2>3, KeptLive, Bounds DEF Vol, Through
    <3>2. /\ Nearly(t, r) /\ Through(t, b, r) /\ r.res \in {"OK", "DISK_ERR"}
          /\ r.res # "OK" => Sound(t, r)
          /\ r.res = "OK" => SameVolume(b.fs, r.fs) /\ r.fs.win = b.disk[sect]
                             /\ r.fs.winsect = b.fs.winsect /\ r.fs.wflag = b.fs.wflag
                             /\ r.disk = b.disk
          /\ t = 32 /\ r.res # "OK" => r.fs = b.fs /\ Off(r)
      BY <2>1, <3>1, DiskReadSound
    <3> HIDE DEF r
    <3>3. Through(t, m, r)
      BY <2>1, <3>2, ThroughTrans
    <3>4. CASE r.res # "OK"
      BY <1>1, <1>5, <2>3, <3>2, <3>3, <3>4
    <3>5. CASE r.res = "OK"
      <4>1. r \in Machines /\ r.fs \in FATFS
        BY <3>2, Typed DEF Nearly
      <4>2. SameVolume(r.fs, WithSect(r.fs, sect)) /\ WithSect(r.fs, sect).winsect = sect
            /\ WithSect(r.fs, sect).wflag = r.fs.wflag /\ WithSect(r.fs, sect).win = r.fs.win
        BY <3>1, <4>1, SectPut
      <4>3. OnlyFs(r, n) /\ n.fs = WithSect(r.fs, sect)
        BY <4>1, <4>2, FsPut DEF SameVolume
      <4> HIDE DEF n
      <4>4. WindowOk(t, n.fs)
        <5>1. t # 0
          BY TypeSome
        <5> QED BY <3>1, <3>2, <3>5, <4>2, <4>3, <5>1 DEF WindowOk, SameVolume, Mounted
      <4>5. Nearly(t, n) /\ Through(t, r, n)
        BY <2>3, <3>2, <4>2, <4>3, <4>4, FsSound
      <4>6. Sound(t, n)
        BY <3>2, <3>5, <4>2, <4>3, <4>5 DEF Sound, Held, OnlyFs
      <4>7. Through(t, m, n)
        BY <3>3, <4>5, ThroughTrans
      <4>8. n.res = "OK"
        BY <3>5, <4>3 DEF OnlyFs
      <4> QED BY <1>1, <1>5, <2>3, <3>5, <4>2, <4>3, <4>6, <4>7, <4>8
    <3> QED BY <3>4, <3>5
  <2> QED BY <2>2, <2>3
<1> QED BY <1>4, <1>5

-----------------------------------------------------------------------------
(***************************************************************************)
(* Reading the FAT.                                                        *)
(***************************************************************************)
\* What moving the window relies on.
Io(t, F) == LogGood(t, F) /\ MirrorGood(t, F)

Still(m, n) == World(m, n) /\ n.fp = m.fp /\ n.dj = m.dj

\* Setting a result,
LEMMA OkStill ==
  ASSUME NEW m \in Machines
  PROVE  Still(m, Ok(m)) /\ Ok(m).res = "OK" /\ Ok(m).val = m.val /\ Ok(m).data = m.data
BY Results DEF Still, FRESULT

\* a failure,
LEMMA FailStill ==
  ASSUME NEW m \in Machines, NEW r \in FRESULT
  PROVE  Still(m, Fail(m, r)) /\ Fail(m, r).res = r /\ Fail(m, r).val = m.val
         /\ Fail(m, r).data = m.data
BY Results DEF Still

\* or a value leaves all else.
LEMMA ValStill ==
  ASSUME NEW m \in Machines, NEW v \in Nat
  PROVE  Still(m, Val(m, v)) /\ Val(m, v).val = v /\ Val(m, v).res = m.res
         /\ Val(m, v).data = m.data
BY Results DEF Still, FRESULT

\* And what is left alone stays sound.
LEMMA StillUp ==
  ASSUME NEW t, NEW m, NEW n, Still(m, n)
  PROVE  /\ Through(t, m, n) /\ (Nearly(t, m) => Nearly(t, n)) /\ (Sound(t, m) => Sound(t, n))
         /\ (Up(t, m) => Up(t, n)) /\ (Live(t, m) => Live(t, n)) /\ n.fs = m.fs
         /\ (Off(m) <=> Off(n)) /\ n \in Machines
BY WorldSound DEF Still, Through, World, Off

\* The results.
LEMMA ResNames ==
  /\ "OK" \in FRESULT /\ "DISK_ERR" \in FRESULT /\ "INT_ERR" \in FRESULT
  /\ "NOT_READY" \in FRESULT /\ "NO_FILE" \in FRESULT /\ "NO_PATH" \in FRESULT
  /\ "DENIED" \in FRESULT /\ "FULL" \in FRESULT /\ "NO_FILESYSTEM" \in FRESULT
BY DEF FRESULT

\* A volume that was mounted still is.
LEMMA UpThrough ==
  ASSUME NEW t \in FatTypes, NEW m, NEW n, Mounted(t, m), Sound(t, n), Kept(t, m, n)
  PROVE  Up(t, n)
BY KeptLive

\* The types of a mounted machine's fields.
LEMMA UpFields ==
  ASSUME NEW t \in FatTypes, NEW m, Up(t, m)
  PROVE  /\ m \in Machines /\ m.fs \in FATFS /\ m.fp \in FIL /\ m.dj \in DIR
         /\ m.val \in Nat /\ m.res \in FRESULT /\ m.data \in Seq(Nat)
         /\ m.fs.fs_type = t /\ Shape(t, m.fs) /\ Sound(t, m) /\ Nearly(t, m) /\ Mounted(t, m)
         /\ m.fs.winsect \in {0} \cup Vol(t) /\ BootOk(t, m.disk)
         /\ m.fs.win \in Windows /\ m.disk \in [0..CardSize-1 -> Windows]
BY Typed DEF Up, Sound, Nearly, Mounted, VolumeOk, WindowOk, FATFS

\* move_window on a mounted volume.
LEMMA MoveUp ==
  ASSUME NEW t \in FatTypes, NEW F, Io(t, F), NEW m, Up(t, m), NEW sect \in {0} \cup Vol(t)
  PROVE  LET n == MoveWindow(F, m, sect) IN
         /\ Up(t, n) /\ Through(t, m, n)
         /\ n.res = "OK" /\ sect # 0 => n.fs.winsect = sect
         /\ t = 32 /\ n.res # "OK" => Off(n)
         /\ t = 32 /\ sect = 0 => ~n.fs.wflag \/ Off(n)
<1> DEFINE n == MoveWindow(F, m, sect)
<1>1. Sound(t, m) /\ Mounted(t, m)
  BY DEF Up
<1>2. /\ Sound(t, n) /\ Through(t, m, n)
      /\ n.res = "OK" /\ sect # 0 => n.fs.winsect = sect
      /\ t = 32 /\ n.res # "OK" => Off(n)
      /\ t = 32 /\ sect = 0 => ~n.fs.wflag \/ Off(n)
  BY <1>1, MoveWindowSound DEF Io
<1> QED BY <1>1, <1>2, UpThrough DEF Through

\* The parts of a cell are numbers.
LEMMA PartNat ==
  ASSUME NEW cell \in Seq(Nat), NEW i \in Nat \ {0}
  PROVE  Part(cell, i) \in Nat
BY DEF Part

\* So is a byte of the FAT.
LEMMA FatByteNat ==
  ASSUME NEW f \in FATFS, NEW i \in Nat
  PROVE  FatByte(f, i) \in Nat /\ i % SS \in 0..SS-1 /\ f.win[i % SS] \in Seq(Nat)
<1>1. i % SS \in 0..SS-1
  BY FatOpsAssumption, Division
<1>2. f.win[i % SS] \in Seq(Nat)
  BY <1>1 DEF FATFS, Windows
<1> QED BY <1>1, <1>2, PartNat DEF FatByte

\* Clusters in range are those of the data area.
LEMMA RangeOf ==
  ASSUME NEW t \in FatTypes, NEW m, Up(t, m), NEW c \in Nat
  PROVE  /\ InRange(m.fs, c) <=> c \in 2..MaxClust(t)-1
         /\ m.fs.max_clust = MaxClust(t)
         /\ InRange(m.fs, c) => Clust2Sect(m.fs, c) = FirstSect(t, c)
         /\ ~InRange(m.fs, c) => Clust2Sect(m.fs, c) = 0
<1>1. Shape(t, m.fs) /\ MaxClust(t) \in Nat
  BY UpFields, Bounds
<1> QED BY <1>1 DEF InRange, Shape, Clust2Sect, FirstSect

\* The cells of an entry of the FAT.
LEMMA EntrySects ==
  ASSUME NEW t \in FatTypes, NEW m, Up(t, m), NEW c \in 2..MaxClust(t)-1, NEW i,
         i = IF m.fs.fs_type = 12 THEN (c * 3) \div 2 ELSE c
  PROVE  /\ i \in Nat /\ FatSect(m.fs, i) \in Vol(t) /\ FatSect(m.fs, i) # 0
         /\ \A f : Shape(t, f) /\ t = 12 => FatSect(f, i + 1) \in Vol(t) /\ FatSect(f, i + 1) # 0
<1>1. m.fs.fs_type = t /\ Shape(t, m.fs) /\ MaxClust(t) \in Nat
  BY UpFields, Bounds
<1>2. c \in 0..MaxClust(t)-1 /\ c \in Nat
  BY <1>1
<1>3. i \in Nat
  BY <1>2
<1>4. FatSect(m.fs, i) = FatBase(t) + (i \div SS)
  BY <1>1 DEF FatSect, Shape
<1>5. FatBase(t) + (i \div SS) \in Vol(t) /\ FatBase(t) + (i \div SS) # 0
  <2>1. IF t = 12 THEN i = (c * 3) \div 2 \/ i = (c * 3) \div 2 + 1 ELSE i = c
    BY <1>1
  <2> QED BY <1>2, <1>3, <2>1, FatSects
<1>6. ASSUME NEW f, Shape(t, f), t = 12
      PROVE  FatSect(f, i + 1) \in Vol(t) /\ FatSect(f, i + 1) # 0
  <2> DEFINE j == i + 1
  <2>1. j \in Nat /\ (IF t = 12 THEN j = (c * 3) \div 2 \/ j = (c * 3) \div 2 + 1 ELSE j = c)
    BY <1>1, <1>3, <1>6
  <2> HIDE DEF j
  <2>2. FatBase(t) + (j \div SS) \in Vol(t) /\ FatBase(t) + (j \div SS) # 0
    BY <1>2, <2>1, FatSects
  <2>3. FatSect(f, j) = FatBase(t) + (j \div SS)
    BY <1>6 DEF FatSect, Shape
  <2> QED BY <2>2, <2>3 DEF j
<1> QED BY <1>3, <1>4, <1>5, <1>6

\* get_cluster (ff.c:288-322).
LEMMA GetClusterUp ==
  ASSUME NEW t \in FatTypes, NEW F, Io(t, F), NEW m, Up(t, m), NEW c \in Nat
  PROVE  LET n == GetCluster(F, m, c) IN
         /\ Up(t, n) /\ Through(t, m, n) /\ n.val \in Nat
         /\ n.val \in {0} \/ n.val \notin {0, 1} => InRange(m.fs, c)
<1> DEFINE n == GetCluster(F, m, c)
           i == IF m.fs.fs_type = 12 THEN (c * 3) \div 2 ELSE c
           a == MoveWindow(F, m, FatSect(m.fs, i))
           b == MoveWindow(F, a, FatSect(a.fs, i + 1))
           w == FatByte(a.fs, i) + 256 * FatByte(b.fs, i + 1)
<1>1. n = IF ~InRange(m.fs, c) THEN Val(m, 1)
          ELSE IF a.res # "OK" THEN Val(a, DiskErr)
          ELSE IF m.fs.fs_type # 12 THEN Val(a, FatByte(a.fs, i))
          ELSE IF b.res # "OK" THEN Val(b, DiskErr)
          ELSE Val(b, IF c % 2 = 1 THEN w \div 16 ELSE w % 4096)
  BY DEF GetCluster, On
<1>2. m \in Machines /\ m.fs.fs_type = t /\ DiskErr \in Nat
  BY UpFields DEF DiskErr
<1>a. ASSUME NEW p, NEW v \in Nat, Up(t, p), Through(t, m, p), n = Val(p, v)
      PROVE  Up(t, n) /\ Through(t, m, n) /\ n.val = v /\ n.val \in Nat
  <2>1. p \in Machines
    BY <1>a, UpFields
  <2>2. Still(p, n) /\ n.val = v
    BY <1>a, <2>1, ValStill
  <2> QED BY <1>a, <2>2, StillUp, ThroughTrans
<1>3. CASE ~InRange(m.fs, c)
  <2>1. n = Val(m, 1)
    BY <1>1, <1>3
  <2> QED BY <1>a, <2>1, KeptRefl
<1>4. CASE InRange(m.fs, c)
  <2>1. c \in 2..MaxClust(t)-1
    BY <1>4, RangeOf
  <2>2. /\ i \in Nat /\ FatSect(m.fs, i) \in Vol(t)
        /\ \A f : Shape(t, f) /\ t = 12 => FatSect(f, i + 1) \in Vol(t)
    BY <2>1, EntrySects
  <2> HIDE DEF i
  <2>3. Up(t, a) /\ Through(t, m, a)
    BY <2>2, MoveUp
  <2> HIDE DEF a
  <2>4. a.fs \in FATFS /\ Shape(t, a.fs) /\ FatByte(a.fs, i) \in Nat
    BY <2>2, <2>3, UpFields, FatByteNat
  <2>5. CASE a.res # "OK"
    <3>1. n = Val(a, DiskErr)
      BY <1>1, <1>4, <2>5
    <3> QED BY <1>2, <1>4, <1>a, <2>3, <3>1
  <2>6. CASE a.res = "OK" /\ t # 12
    <3>1. n = Val(a, FatByte(a.fs, i))
      BY <1>1, <1>2, <1>4, <2>6
    <3> QED BY <1>4, <1>a, <2>3, <2>4, <3>1
  <2>7. CASE a.res = "OK" /\ t = 12
    <3>1. FatSect(a.fs, i + 1) \in Vol(t)
      BY <2>2, <2>4, <2>7
    <3>2. Up(t, b) /\ Through(t, a, b)
      BY <2>3, <3>1, MoveUp
    <3> HIDE DEF b
    <3>3. Through(t, m, b)
      BY <2>3, <3>2, ThroughTrans
    <3>4. FatByte(b.fs, i + 1) \in Nat
      <4>1. i + 1 \in Nat /\ b.fs \in FATFS
        BY <2>2, <3>2, UpFields
      <4> QED BY <4>1, FatByteNat
    <3>5. w \in Nat
      BY <2>4, <3>4
    <3> HIDE DEF w
    <3>6. CASE b.res # "OK"
      <4>1. n = Val(b, DiskErr)
        BY <1>1, <1>2, <1>4, <2>7, <3>6
      <4> QED BY <1>2, <1>4, <1>a, <3>2, <3>3, <4>1
    <3>7. CASE b.res = "OK"
      <4>1. n = Val(b, IF c % 2 = 1 THEN w \div 16 ELSE w % 4096)
        BY <1>1, <1>2, <1>4, <2>7, <3>7
      <4>2. (IF c % 2 = 1 THEN w \div 16 ELSE w % 4096) \in Nat
        BY <3>5
      <4> QED BY <1>4, <1>a, <3>2, <3>3, <4>1, <4>2
    <3> QED BY <3>6, <3>7
  <2> QED BY <2>5, <2>6, <2>7
<1> QED BY <1>3, <1>4

-----------------------------------------------------------------------------
(***************************************************************************)
(* Changing the FAT.                                                       *)
(***************************************************************************)
\* Marking the window where it has a name.
LEMMA SetFlag ==
  ASSUME NEW t \in FatTypes, NEW m, Nearly(t, m), Mounted(t, m), NEW f, SameVolume(m.fs, f),
         f.winsect = m.fs.winsect, f.wflag, m.fs.winsect # 0 \/ Off(m)
  PROVE  LET n == PutFs(m, f) IN
         /\ Up(t, n) /\ Through(t, m, n) /\ n.fs = f /\ n.res = m.res /\ n.val = m.val
         /\ n.data = m.data /\ n.disk = m.disk /\ (Off(m) => Off(n))
<1> DEFINE n == PutFs(m, f)
<1>1. m \in Machines /\ f \in FATFS /\ WindowOk(t, m.fs) /\ t # 0 /\ m.fs.fs_type = t
  BY Fields DEF Nearly, SameVolume, Mounted
<1>2. OnlyFs(m, n) /\ n.fs = f
  BY <1>1, FsPut
<1> HIDE DEF n
<1>3. WindowOk(t, n.fs)
  BY <1>1, <1>2 DEF WindowOk, SameVolume
<1>4. Nearly(t, n) /\ Through(t, m, n) /\ Mounted(t, n) /\ (Off(m) => Off(n))
  BY <1>2, <1>3, FsSound
<1>5. Up(t, n)
  BY <1>2, <1>4 DEF Up, Sound, Held
<1> QED BY <1>2, <1>4, <1>5 DEF OnlyFs, n

\* Changing a cell of the window.
LEMMA ChangeUp ==
  ASSUME NEW t \in FatTypes, NEW m, Nearly(t, m), Mounted(t, m), m.fs.winsect # 0,
         NEW i \in 0..SS-1, NEW cell \in Seq(Nat)
  PROVE  LET n == Change(m, i, cell) IN
         /\ Up(t, n) /\ Through(t, m, n) /\ n.fs.winsect = m.fs.winsect /\ n.res = m.res
         /\ n.val = m.val /\ n.data = m.data
<1> DEFINE w == [m.fs.win EXCEPT ![i] = cell]
           g == WithWin(m.fs, w)
           f == WithFlag(g, TRUE)
<1>1. m \in Machines /\ m.fs \in FATFS
  BY Typed DEF Nearly
<1>2. w \in Windows
  BY <1>1 DEF FATFS, Windows
<1>3. Change(m, i, cell) = PutFs(m, f)
  BY <1>1 DEF Change, PutFs, WithWin, WithFlag, Machines, FATFS
<1> HIDE DEF w
<1>4. SameVolume(m.fs, g) /\ g.winsect = m.fs.winsect
  BY <1>1, <1>2, WinPut
<1> HIDE DEF g
<1>5. SameVolume(g, f) /\ f.wflag = TRUE /\ f.winsect = g.winsect
  BY <1>4, FlagPut DEF SameVolume
<1>6. SameVolume(m.fs, f)
  BY <1>4, <1>5 DEF SameVolume
<1> HIDE DEF f
<1>7. LET n == PutFs(m, f) IN
         /\ Up(t, n) /\ Through(t, m, n) /\ n.fs = f /\ n.res = m.res /\ n.val = m.val
         /\ n.data = m.data
  BY <1>4, <1>5, <1>6, SetFlag
<1> QED BY <1>3, <1>4, <1>5, <1>7

\* Marking it after a move that failed.
LEMMA MarkedUp ==
  ASSUME NEW t \in FatTypes, NEW m, Up(t, m), m.fs.winsect # 0 \/ Off(m)
  PROVE  LET n == Marked(m) IN Up(t, n) /\ Through(t, m, n) /\ n.res = m.res
<1> DEFINE f == WithFlag(m.fs, TRUE)
<1>1. m.fs \in FATFS /\ Nearly(t, m) /\ Mounted(t, m)
  BY UpFields
<1>2. SameVolume(m.fs, f) /\ f.wflag = TRUE /\ f.winsect = m.fs.winsect
  BY <1>1, FlagPut
<1>3. Marked(m) = PutFs(m, f)
  BY DEF Marked, PutFs, WithFlag
<1> HIDE DEF f
<1> QED BY <1>1, <1>2, <1>3, SetFlag

\* put_cluster (ff.c:330-382).
LEMMA PutClusterUp ==
  ASSUME NEW t \in FatTypes, NEW F, Io(t, F), NEW m, Up(t, m), Live(t, m), NEW c \in Nat,
         NEW v \in Nat
  PROVE  LET n == PutCluster(F, m, c, v) IN Up(t, n) /\ Through(t, m, n) /\ Live(t, n)
<1> DEFINE n == PutCluster(F, m, c, v)
<1> SUFFICES Up(t, n) /\ Through(t, m, n)
  BY KeptLive DEF Through, Up
<1> DEFINE odd == c % 2 = 1
           i == IF m.fs.fs_type = 12 THEN (c * 3) \div 2 ELSE c
           a == MoveWindow(F, m, FatSect(m.fs, i))
           old == FatByte(a.fs, i)
           lob == IF odd THEN (old % 16) + (v % 16) * 16 ELSE v % 256
           lo == Change(a, i % SS, Byte(lob))
           b == MoveWindow(F, lo, FatSect(a.fs, i + 1))
           nxt == FatByte(b.fs, i + 1)
           hib == IF odd THEN (v \div 16) % 256
                        ELSE (nxt - (nxt % 16)) + ((v \div 256) % 16)
           hi == Change(b, (i + 1) % SS, Byte(hib))
           word == IF m.fs.fs_type = 16 THEN v % 65536 ELSE v
           one == Change(a, i % SS, Byte(word))
<1>1. n = IF ~InRange(m.fs, c) THEN Fail(m, "INT_ERR")
          ELSE IF a.res # "OK" THEN Marked(a)
          ELSE IF m.fs.fs_type # 12 THEN one
          ELSE IF b.res # "OK" THEN Marked(b) ELSE hi
  BY DEF PutCluster, On
<1>2. m \in Machines /\ m.fs.fs_type = t
  BY UpFields
<1>3. CASE ~InRange(m.fs, c)
  BY <1>1, <1>2, <1>3, FailStill, StillUp, ResNames
<1>4. CASE InRange(m.fs, c)
  <2>1. c \in 2..MaxClust(t)-1
    BY <1>4, RangeOf
  <2>2. /\ i \in Nat /\ FatSect(m.fs, i) \in Vol(t) /\ FatSect(m.fs, i) # 0
        /\ \A f : Shape(t, f) /\ t = 12 => FatSect(f, i + 1) \in Vol(t) /\ FatSect(f, i + 1) # 0
    BY <2>1, EntrySects
  <2> HIDE DEF i
  <2>3. /\ Up(t, a) /\ Through(t, m, a) /\ (a.res = "OK" => a.fs.winsect # 0)
        /\ (t = 32 /\ a.res # "OK" => Off(a))
    <3> DEFINE sect == FatSect(m.fs, i)
    <3>1. sect \in {0} \cup Vol(t) /\ sect # 0
      BY <2>2
    <3> HIDE DEF sect
    <3>2. LET k == MoveWindow(F, m, sect) IN
          /\ Up(t, k) /\ Through(t, m, k) /\ (k.res = "OK" => k.fs.winsect # 0)
          /\ (t = 32 /\ k.res # "OK" => Off(k))
      BY <3>1, MoveUp
    <3> QED BY <3>2 DEF sect
  <2> HIDE DEF a
  <2>4. a.fs \in FATFS /\ old \in Nat /\ i % SS \in 0..SS-1 /\ Nearly(t, a) /\ Mounted(t, a)
    BY <2>2, <2>3, UpFields, FatByteNat
  <2>5. CASE a.res # "OK"
    <3>1. a.fs.winsect # 0 \/ Off(a)
      BY <2>3, <2>5 DEF Live, Through, Kept
    <3>2. n = Marked(a)
      BY <1>1, <1>4, <2>5
    <3>3. Up(t, Marked(a)) /\ Through(t, a, Marked(a))
      BY <2>3, <3>1, MarkedUp
    <3> QED BY <2>3, <3>2, <3>3, ThroughTrans
  <2>6. CASE a.res = "OK" /\ t # 12
    <3>1. word \in Nat /\ Byte(word) \in Seq(Nat)
      BY DEF Byte
    <3>2. n = one
      BY <1>1, <1>2, <1>4, <2>6
    <3> HIDE DEF word
    <3>3. Up(t, one) /\ Through(t, a, one)
      BY <2>3, <2>4, <2>6, <3>1, ChangeUp
    <3> QED BY <2>3, <3>2, <3>3, ThroughTrans
  <2>7. CASE a.res = "OK" /\ t = 12
    <3>1. lob \in Nat /\ Byte(lob) \in Seq(Nat)
      <4> HIDE DEF old
      <4> QED BY <2>4 DEF Byte
    <3> HIDE DEF lob
    <3>2. Up(t, lo) /\ Through(t, a, lo) /\ lo.fs.winsect # 0
      BY <2>3, <2>4, <2>7, <3>1, ChangeUp
    <3> HIDE DEF lo
    <3>3. FatSect(a.fs, i + 1) \in Vol(t) /\ FatSect(a.fs, i + 1) # 0
      BY <2>2, <2>3, <2>7, UpFields
    <3>4. /\ Up(t, b) /\ Through(t, lo, b)
          /\ b.res = "OK" => b.fs.winsect # 0
      <4> DEFINE sect == FatSect(a.fs, i + 1)
      <4>1. sect \in {0} \cup Vol(t) /\ sect # 0
        BY <3>3
      <4> HIDE DEF sect
      <4>2. LET k == MoveWindow(F, lo, sect) IN
            Up(t, k) /\ Through(t, lo, k) /\ (k.res = "OK" => k.fs.winsect # 0)
        BY <3>2, <4>1, MoveUp
      <4> QED BY <4>2 DEF sect
    <3> HIDE DEF b
    <3>5. b.fs.winsect # 0
      BY <2>7, <3>2, <3>4 DEF Through, Kept
    <3>6. Through(t, m, b)
      BY <2>3, <3>2, <3>4, ThroughTrans
    <3>7. CASE b.res # "OK"
      <4>1. n = Marked(b)
        BY <1>1, <1>2, <1>4, <2>7, <3>7
      <4> QED BY <3>4, <3>5, <3>6, <4>1, MarkedUp, ThroughTrans
    <3>8. CASE b.res = "OK"
      <4>1. i + 1 \in Nat /\ b.fs \in FATFS /\ Nearly(t, b) /\ Mounted(t, b)
        BY <2>2, <3>4, UpFields
      <4>2. nxt \in Nat /\ (i + 1) % SS \in 0..SS-1
        BY <4>1, FatByteNat
      <4>3. hib \in Nat /\ Byte(hib) \in Seq(Nat)
        <5> HIDE DEF nxt
        <5>1. nxt - (nxt % 16) \in Nat /\ (v \div 256) % 16 \in Nat /\ (v \div 16) % 256 \in Nat
          BY <4>2
        <5> QED BY <5>1 DEF Byte
      <4> HIDE DEF hib
      <4>4. Up(t, hi) /\ Through(t, b, hi)
        BY <3>5, <4>1, <4>2, <4>3, ChangeUp
      <4>5. n = hi
        BY <1>1, <1>2, <1>4, <2>7, <3>8
      <4> QED BY <3>6, <4>4, <4>5, ThroughTrans
    <3> QED BY <3>7, <3>8
  <2> QED BY <2>5, <2>6, <2>7
<1> QED BY <1>3, <1>4

-----------------------------------------------------------------------------
(***************************************************************************)
(* Taking a cluster.                                                       *)
(***************************************************************************)
\* What the search for a cluster returns.
Found(t) == {0, 1, DiskErr} \cup (2..MaxClust(t)-1)

FindGood(t, F) ==
  \A m \in Machines, scl \in Nat, ncl \in Nat :
    Up(t, m) => LET n == Call(F, "find_free", m, <<scl, ncl>>) IN
      Up(t, n) /\ Through(t, m, n) /\ n.val \in Found(t)

\* The search for a free cluster (ff.c:455-468).
LEMMA FindFreeUp ==
  ASSUME NEW t \in FatTypes, NEW F, Io(t, F), FindGood(t, F), NEW m, Up(t, m), NEW scl \in Nat,
         NEW ncl \in Nat
  PROVE  LET n == FindFree(F, m, scl, ncl) IN
         Up(t, n) /\ Through(t, m, n) /\ n.val \in Found(t)
<1> DEFINE k == IF ncl + 1 >= m.fs.max_clust THEN 2 ELSE ncl + 1
           a == GetCluster(F, m, k)
           r == Call(F, "find_free", a, <<scl, k>>)
           n == FindFree(F, m, scl, ncl)
<1>1. n = IF k # ncl + 1 /\ k > scl THEN Val(m, 0)
          ELSE CASE a.val = 0 -> Val(a, k)
                 [] a.val \in {1, DiskErr} -> a
                 [] a.val \notin {0, 1, DiskErr} -> IF k = scl THEN Val(a, 0) ELSE r
  BY DEF FindFree, On
<1>2. k \in Nat /\ m \in Machines
  BY UpFields
<1> HIDE DEF k
<1>3. Up(t, a) /\ Through(t, m, a) /\ a.val \in Nat /\ a \in Machines
      /\ (a.val = 0 => InRange(m.fs, k))
  BY <1>2, GetClusterUp, UpFields
<1>4. a.val = 0 => k \in Found(t)
  BY <1>2, <1>3, RangeOf DEF Found
<1> HIDE DEF a
<1>5. CASE k # ncl + 1 /\ k > scl
  BY <1>1, <1>2, <1>5, ValStill, StillUp DEF Found
<1>6. CASE ~(k # ncl + 1 /\ k > scl) /\ a.val = 0
  <2>1. n = Val(a, k)
    BY <1>1, <1>6 DEF DiskErr
  <2>2. Still(a, Val(a, k)) /\ Val(a, k).val = k
    BY <1>2, <1>3, ValStill
  <2> QED BY <1>3, <1>4, <1>6, <2>1, <2>2, StillUp, ThroughTrans
<1>7. CASE ~(k # ncl + 1 /\ k > scl) /\ a.val \in {1, DiskErr}
  <2>1. n = a
    BY <1>1, <1>7 DEF DiskErr
  <2> QED BY <1>3, <1>7, <2>1 DEF Found
<1>8. CASE ~(k # ncl + 1 /\ k > scl) /\ a.val \notin {0, 1, DiskErr}
  <2>1. CASE k = scl
    <3>1. n = Val(a, 0)
      BY <1>1, <1>8, <2>1
    <3>2. Still(a, Val(a, 0)) /\ Val(a, 0).val = 0
      BY <1>3, ValStill
    <3> QED BY <1>3, <3>1, <3>2, StillUp, ThroughTrans DEF Found
  <2>2. CASE k # scl
    <3>1. n = r
      BY <1>1, <1>8, <2>2
    <3>2. Up(t, r) /\ Through(t, a, r) /\ r.val \in Found(t)
      BY <1>2, <1>3 DEF FindGood
    <3> QED BY <1>3, <3>1, <3>2, ThroughTrans
  <2> QED BY <2>1, <2>2
<1> QED BY <1>3, <1>5, <1>6, <1>7, <1>8

\* The counters of the volume, the window left alone.
LEMMA CountersUp ==
  ASSUME NEW t \in FatTypes, NEW m, Up(t, m), NEW l \in 0..MaxClust(t)-1,
         NEW c \in FreeCounts(t), NEW g \in BOOLEAN
  PROVE  LET n == [m EXCEPT !.fs.last_clust = l, !.fs.free_clust = c, !.fs.fsi_flag = g] IN
         Up(t, n) /\ Through(t, m, n)
<1> DEFINE f == [m.fs EXCEPT !.last_clust = l, !.free_clust = c, !.fsi_flag = g]
           n == PutFs(m, f)
<1>1. m \in Machines /\ m.fs \in FATFS
  BY UpFields
<1>2. [m EXCEPT !.fs.last_clust = l, !.fs.free_clust = c, !.fs.fsi_flag = g] = n
  BY <1>1 DEF PutFs, Machines, FATFS
<1>3. l \in Nat /\ c \in Nat /\ MaxClust(t) \in Nat
  BY Bounds DEF FreeCounts, Unknown, DiskErr
<1>4. /\ f \in FATFS /\ f.last_clust = l /\ f.free_clust = c
      /\ f.fs_type = m.fs.fs_type /\ f.csize = m.fs.csize /\ f.n_fats = m.fs.n_fats
      /\ f.fatbase = m.fs.fatbase /\ f.dirbase = m.fs.dirbase /\ f.database = m.fs.database
      /\ f.sects_fat = m.fs.sects_fat /\ f.n_rootdir = m.fs.n_rootdir
      /\ f.max_clust = m.fs.max_clust /\ f.fsi_sector = m.fs.fsi_sector
      /\ f.winsect = m.fs.winsect /\ f.wflag = m.fs.wflag /\ f.win = m.fs.win
  BY <1>1, <1>3 DEF FATFS
<1> HIDE DEF f
<1>5. OnlyFs(m, n) /\ n.fs = f
  BY <1>1, <1>4, FsPut
<1> HIDE DEF n
<1>6. VolumeOk(t, f)
  BY <1>4 DEF VolumeOk, Shape, Up, Sound, Nearly
<1>7. Nearly(t, n) /\ Held(n)
  BY <1>4, <1>5, <1>6 DEF Nearly, Up, Sound, Held, OnlyFs, FaultOk, Off, WindowOk
<1>8. Up(t, n) /\ Through(t, m, n)
  BY <1>4, <1>5, <1>7 DEF Up, Sound, Mounted, Through, Kept, OnlyFs, Off
<1> QED BY <1>2, <1>8

\* Taking it (ff.c:470-484).
LEMMA TakeUp ==
  ASSUME NEW t \in FatTypes, NEW F, Io(t, F), NEW m, Up(t, m), Live(t, m), NEW c \in Nat,
         NEW k \in 2..MaxClust(t)-1
  PROVE  LET n == Take(F, m, c, k) IN
         Up(t, n) /\ Through(t, m, n) /\ n.val \in Found(t)
<1> DEFINE a == PutCluster(F, m, k, Eoc)
           p == PutCluster(F, a, c, k)
           b == IF a.res = "OK" THEN IF c = 0 THEN a ELSE p ELSE a
           known == b.fs.free_clust # Unknown
           free == IF ~known THEN b.fs.free_clust
                   ELSE IF b.fs.free_clust = 0 THEN Unknown ELSE b.fs.free_clust - 1
           flag == known \/ b.fs.fsi_flag
           d == [b EXCEPT !.fs.last_clust = k, !.fs.free_clust = free, !.fs.fsi_flag = flag]
           n == Take(F, m, c, k)
<1>1. n = IF b.res # "OK" THEN Val(b, DiskErr) ELSE Val(d, k)
  BY DEF Take, Then, On
<1>2. k \in Nat /\ Eoc \in Nat /\ DiskErr \in Nat /\ MaxClust(t) \in Nat
  BY Bounds DEF Eoc, DiskErr
<1>3. Up(t, a) /\ Through(t, m, a) /\ Live(t, a)
  BY <1>2, PutClusterUp
<1> HIDE DEF a
<1>4. Up(t, p) /\ Through(t, a, p)
  BY <1>2, <1>3, PutClusterUp
<1>5. Up(t, b) /\ Through(t, m, b) /\ b \in Machines /\ b.fs \in FATFS
  BY <1>3, <1>4, ThroughTrans, UpFields
<1> HIDE DEF b
<1>6. CASE b.res # "OK"
  <2>1. n = Val(b, DiskErr)
    BY <1>1, <1>6
  <2>2. Still(b, Val(b, DiskErr)) /\ Val(b, DiskErr).val = DiskErr
    BY <1>2, <1>5, ValStill
  <2> QED BY <1>5, <2>1, <2>2, StillUp, ThroughTrans DEF Found
<1>7. CASE b.res = "OK"
  <2>1. b.fs.free_clust \in FreeCounts(t) /\ b.fs.fsi_flag \in BOOLEAN
    BY <1>5 DEF Up, Sound, Nearly, VolumeOk, FATFS
  <2>2. free \in FreeCounts(t) /\ flag \in BOOLEAN /\ k \in 0..MaxClust(t)-1
    BY <1>2, <2>1 DEF FreeCounts
  <2> HIDE DEF free, flag
  <2>3. Up(t, d) /\ Through(t, b, d)
    BY <1>5, <2>2, CountersUp
  <2> HIDE DEF d
  <2>4. d \in Machines
    BY <2>3, UpFields
  <2>5. Still(d, Val(d, k)) /\ Val(d, k).val = k
    BY <1>2, <2>4, ValStill
  <2>6. n = Val(d, k)
    BY <1>1, <1>7
  <2> QED BY <1>5, <2>3, <2>5, <2>6, StillUp, ThroughTrans DEF Found
<1> QED BY <1>6, <1>7

\* Both together.
LEMMA SearchUp ==
  ASSUME NEW t \in FatTypes, NEW F, Io(t, F), FindGood(t, F), NEW m, Up(t, m), Live(t, m),
         NEW c \in Nat, NEW scl \in Nat
  PROVE  LET n == Search(F, m, c, scl) IN
         Up(t, n) /\ Through(t, m, n) /\ n.val \in Found(t)
<1> DEFINE f == Call(F, "find_free", m, <<scl, scl>>)
           k == Take(F, f, c, f.val)
<1>1. Search(F, m, c, scl) = IF f.val \in {0, 1, DiskErr} THEN f ELSE k
  BY DEF Search
<1>2. Up(t, f) /\ Through(t, m, f) /\ f.val \in Found(t)
  BY UpFields DEF FindGood
<1>3. Live(t, f)
  BY <1>2, KeptLive DEF Through, Up
<1> HIDE DEF f
<1>4. CASE f.val \in {0, 1, DiskErr}
  BY <1>1, <1>2, <1>4
<1>5. CASE f.val \notin {0, 1, DiskErr}
  <2>1. f.val \in 2..MaxClust(t)-1
    BY <1>2, <1>5 DEF Found
  <2>2. Up(t, k) /\ Through(t, f, k) /\ k.val \in Found(t)
    BY <1>2, <1>3, <2>1, TakeUp
  <2> QED BY <1>1, <1>2, <1>5, <2>2, ThroughTrans
<1> QED BY <1>4, <1>5

\* create_chain (ff.c:433-485): what it returns is a cluster, or no cluster.
LEMMA CreateChainUp ==
  ASSUME NEW t \in FatTypes, NEW F, Io(t, F), FindGood(t, F), NEW m, Up(t, m), Live(t, m),
         NEW c \in Nat
  PROVE  LET n == CreateChain(F, m, c) IN
         Up(t, n) /\ Through(t, m, n) /\ n.val \in Found(t) /\ Live(t, n)
<1> DEFINE latest == m.fs.last_clust
           a == GetCluster(F, m, c)
           s == IF latest = 0 \/ latest >= m.fs.max_clust THEN 1 ELSE latest
           n == CreateChain(F, m, c)
<1> SUFFICES Up(t, n) /\ Through(t, m, n) /\ n.val \in Found(t)
  BY KeptLive DEF Through, Up
<1>1. n = IF c = 0 THEN Search(F, m, 0, s)
          ELSE IF a.val \in {0, 1} THEN Val(a, 1)
          ELSE IF a.val < m.fs.max_clust THEN a
          ELSE Search(F, a, c, c)
  BY DEF CreateChain, On
<1>2. s \in Nat /\ m.fs.max_clust = MaxClust(t) /\ MaxClust(t) \in Nat
  BY UpFields, Bounds DEF FATFS, Shape
<1> HIDE DEF s
<1>3. Up(t, a) /\ Through(t, m, a) /\ a.val \in Nat /\ a \in Machines
  BY GetClusterUp, UpFields
<1>4. Live(t, a)
  BY <1>3, KeptLive DEF Through, Up
<1> HIDE DEF a
<1>5. CASE c = 0
  BY <1>1, <1>2, <1>5, SearchUp
<1>6. CASE c # 0 /\ a.val \in {0, 1}
  <2>1. n = Val(a, 1)
    BY <1>1, <1>6
  <2>2. Still(a, Val(a, 1)) /\ Val(a, 1).val = 1
    BY <1>3, ValStill
  <2> QED BY <1>3, <2>1, <2>2, StillUp, ThroughTrans DEF Found
<1>7. CASE c # 0 /\ a.val \notin {0, 1} /\ a.val < m.fs.max_clust
  BY <1>1, <1>2, <1>3, <1>7 DEF Found
<1>8. CASE c # 0 /\ a.val \notin {0, 1} /\ ~(a.val < m.fs.max_clust)
  <2> DEFINE r == Search(F, a, c, c)
  <2>1. Up(t, r) /\ Through(t, a, r) /\ r.val \in Found(t)
    BY <1>3, <1>4, SearchUp
  <2>2. n = r
    BY <1>1, <1>8
  <2> QED BY <1>3, <2>1, <2>2, ThroughTrans
<1> QED BY <1>3, <1>5, <1>6, <1>7, <1>8

-----------------------------------------------------------------------------
(***************************************************************************)
(* Positions in a directory.                                               *)
(***************************************************************************)
\* As Through, the position in a directory aside.
Aside(t, m, n) == Kept(t, m, n) /\ n.fp = m.fp

\* What two calls keep, both keep, the position in a directory aside.
LEMMA AsideTrans ==
  ASSUME NEW t, NEW m, NEW n, NEW p, Aside(t, m, n), Aside(t, n, p)
  PROVE  Aside(t, m, p)
BY KeptTrans DEF Aside

\* Calls that keep more.
LEMMA ThroughAside ==
  ASSUME NEW t, NEW m, NEW n, Through(t, m, n)
  PROVE  Aside(t, m, n)
BY DEF Aside, Through

\* A position in a directory and the sector it is in.
DirAt(t, d) ==
  \/ /\ d.sclust = 0 /\ t # 32 /\ d.index < Layout[t].roots
     /\ d.sect = RootBase(t) + (d.index \div SS)
  \/ /\ d.sclust # 0 /\ d.clust \in 2..MaxClust(t)-1
     /\ d.sect = FirstSect(t, d.clust) + ((d.index % (SS * Layout[t].spc)) \div SS)

ClusterCells(t) == SS * Layout[t].spc

\* The cells of a cluster fill its sectors.
LEMMA CellsOf ==
  ASSUME NEW t \in FatTypes
  PROVE  ClusterCells(t) \in Nat \ {0} /\ SS \in Nat \ {0} /\ Layout[t].spc \in Nat \ {0}
         /\ (ClusterCells(t) % SS) = 0
<1>1. SS \in Nat \ {0} /\ Layout[t].spc \in Nat \ {0}
  BY Bounds
<1>2. SS * Layout[t].spc \in Nat /\ SS * Layout[t].spc = Layout[t].spc * SS
      /\ SS * Layout[t].spc # 0
  BY <1>1, Times
<1>3. ((Layout[t].spc * SS) % SS) = 0
  BY <1>1, Multiples
<1> QED BY <1>1, <1>2, <1>3 DEF ClusterCells

\* A position in a directory is in a sector of the volume.
LEMMA DirSects ==
  ASSUME NEW t \in FatTypes, NEW d \in DIR, DirAt(t, d)
  PROVE  d.sect \in Vol(t) /\ d.sect # 0 /\ d.index % SS \in 0..SS-1
<1>1. d.index \in Nat /\ d.sclust \in Nat /\ d.clust \in Nat /\ d.sect \in Nat
  BY DEF DIR
<1>2. SS \in Nat \ {0} /\ Layout[t].spc \in Nat \ {0}
  BY CellsOf
<1>3. d.index % SS \in 0..SS-1
  BY <1>1, <1>2, Division
<1>4. CASE d.sclust = 0
  <2>1. d.index < Layout[t].roots /\ d.sect = RootBase(t) + (d.index \div SS)
    BY <1>4 DEF DirAt
  <2> QED BY <1>1, <1>3, <2>1, RootSects
<1>5. CASE d.sclust # 0
  <2> DEFINE r == d.index % (SS * Layout[t].spc)
             k == r \div SS
  <2>1. d.clust \in 2..MaxClust(t)-1 /\ d.sect = FirstSect(t, d.clust) + k
    BY <1>5 DEF DirAt
  <2>2. r \in Nat /\ r < SS * Layout[t].spc
    <3>1. ClusterCells(t) \in Nat \ {0}
      BY CellsOf
    <3>2. d.index % ClusterCells(t) \in 0..ClusterCells(t)-1
      BY <1>1, <3>1, Division
    <3> QED BY <3>1, <3>2 DEF ClusterCells
  <2> HIDE DEF r
  <2>3. k \in Nat /\ k < Layout[t].spc
    BY <1>2, <2>2, Division, Below
  <2> HIDE DEF k
  <2>4. k \in 0..Layout[t].spc-1
    BY <1>2, <2>3
  <2>5. d.sect \in Vol(t)
    BY <2>1, <2>4, ClusterSects
  <2>6. FatBase(t) \in Nat /\ FatBase(t) # 0
    BY Bounds
  <2> QED BY <1>3, <2>5, <2>6, Bounds DEF Vol
<1> QED BY <1>4, <1>5

PutDj(m, d) == [m EXCEPT !.dj = d]

\* Another position, all else the same.
LEMMA DjPut ==
  ASSUME NEW t, NEW m \in Machines, NEW d \in DIR
  PROVE  LET n == Ok(PutDj(m, d)) IN
         /\ World(m, n) /\ n.dj = d /\ n.fp = m.fp /\ n.res = "OK" /\ n.data = m.data
         /\ (Up(t, m) => Up(t, n)) /\ Aside(t, m, n) /\ n.fs = m.fs
<1> DEFINE p == PutDj(m, d)
<1>1. World(m, p) /\ p.dj = d /\ p.fp = m.fp /\ p.res = m.res /\ p.val = m.val /\ p.data = m.data
      /\ p \in Machines
  BY SetDj DEF PutDj, World
<1> HIDE DEF p
<1>2. Still(p, Ok(p)) /\ Ok(p).res = "OK" /\ Ok(p).data = p.data
  BY <1>1, OkStill
<1>3. World(m, Ok(p)) /\ Ok(p).dj = d /\ Ok(p).fp = m.fp
  BY <1>1, <1>2, WorldTrans DEF Still
<1>4. (Up(t, m) => Up(t, Ok(p))) /\ Aside(t, m, Ok(p)) /\ Ok(p).fs = m.fs
  BY <1>3, WorldSound DEF Aside, World
<1> QED BY <1>1, <1>2, <1>3, <1>4 DEF p

\* dir_seek (ff.c:510-545), only ever to rewind.
LEMMA DirSeekUp ==
  ASSUME NEW t \in FatTypes, NEW m, Up(t, m)
  PROVE  LET n == DirSeek(m) IN
         Up(t, n) /\ Aside(t, m, n) /\ (n.res = "OK" => DirAt(t, n.dj))
<1> DEFINE c == m.dj.sclust
           d1 == [m.dj EXCEPT !.index = 0, !.sect = m.fs.dirbase]
           d2 == [m.dj EXCEPT !.index = 0, !.clust = c, !.sect = Clust2Sect(m.fs, c)]
           n == DirSeek(m)
<1>1. m \in Machines /\ m.dj \in DIR /\ m.fs \in FATFS /\ Shape(t, m.fs)
  BY UpFields
<1>2. n = IF c = 0 /\ m.fs.n_rootdir > 0 THEN Ok(PutDj(m, d1))
          ELSE IF InRange(m.fs, c) THEN Ok(PutDj(m, d2)) ELSE Fail(m, "INT_ERR")
  BY <1>1 DEF DirSeek, PutDj, Machines, DIR
<1>3. c \in Nat /\ m.fs.dirbase \in Nat /\ MaxClust(t) \in Nat
  BY <1>1, Bounds DEF DIR, FATFS
<1>4. CASE c = 0 /\ m.fs.n_rootdir > 0
  <2>1. /\ d1 \in DIR /\ d1.sclust = 0 /\ d1.index = 0 /\ d1.sect = m.fs.dirbase
    BY <1>1, <1>3, <1>4 DEF DIR
  <2>2. t # 32 /\ m.fs.dirbase = RootBase(t) /\ 0 < Layout[t].roots
    BY <1>1, <1>4, Fields DEF Shape
  <2>3. 0 \div SS = 0 /\ RootBase(t) \in Nat
    BY FatOpsAssumption, Bounds
  <2>4. DirAt(t, d1)
    BY <2>1, <2>2, <2>3 DEF DirAt
  <2> HIDE DEF d1
  <2> QED BY <1>1, <1>2, <1>4, <2>1, <2>4, DjPut
<1>5. CASE ~(c = 0 /\ m.fs.n_rootdir > 0) /\ InRange(m.fs, c)
  <2>1. c \in 2..MaxClust(t)-1 /\ Clust2Sect(m.fs, c) = FirstSect(t, c)
    BY <1>3, <1>5, RangeOf
  <2>2. FirstSect(t, c) \in Nat
    <3>1. 0 \in 0..Layout[t].spc-1
      BY CellsOf
    <3> QED BY <2>1, <3>1, ClusterSects
  <2>3. d2 \in DIR /\ d2.sclust = c /\ d2.index = 0 /\ d2.clust = c /\ d2.sect = FirstSect(t, c)
    BY <1>1, <1>3, <2>1, <2>2 DEF DIR
  <2> HIDE DEF d2
  <2>4. ((0 % (SS * Layout[t].spc)) \div SS) = 0
    <3>1. ClusterCells(t) \in Nat \ {0} /\ SS \in Nat \ {0}
      BY CellsOf
    <3>2. 0 % ClusterCells(t) = 0 /\ 0 \div SS = 0
      BY <3>1
    <3> QED BY <3>2 DEF ClusterCells
  <2>5. DirAt(t, d2)
    BY <1>3, <2>1, <2>2, <2>3, <2>4 DEF DirAt
  <2> QED BY <1>1, <1>2, <1>5, <2>3, <2>5, DjPut
<1>6. CASE ~(c = 0 /\ m.fs.n_rootdir > 0) /\ ~InRange(m.fs, c)
  <2>1. n = Fail(m, "INT_ERR") /\ Still(m, Fail(m, "INT_ERR"))
        /\ Fail(m, "INT_ERR").res = "INT_ERR"
    BY <1>1, <1>2, <1>6, FailStill, ResNames
  <2> QED BY <2>1, StillUp, ThroughAside
<1> QED BY <1>4, <1>5, <1>6

\* The first entry of the next cluster.
LEMMA EnterClusterUp ==
  ASSUME NEW t \in FatTypes, NEW m, Up(t, m), NEW c \in 2..MaxClust(t)-1, m.dj.sclust # 0,
         ((m.dj.index + 1) % ClusterCells(t)) = 0
  PROVE  LET n == EnterCluster(m, c) IN
         Up(t, n) /\ Aside(t, m, n) /\ n.res = "OK" /\ DirAt(t, n.dj)
<1> DEFINE d == [m.dj EXCEPT !.clust = c, !.sect = Clust2Sect(m.fs, c), !.index = m.dj.index + 1]
<1>1. m \in Machines /\ m.dj \in DIR
  BY UpFields
<1>2. EnterCluster(m, c) = Ok(PutDj(m, d))
  BY <1>1 DEF EnterCluster, PutDj, Machines, DIR
<1>3. c \in Nat /\ m.dj.index \in Nat /\ m.dj.index + 1 \in Nat
  BY <1>1, Bounds DEF DIR
<1>4. Clust2Sect(m.fs, c) = FirstSect(t, c) /\ FirstSect(t, c) \in Nat
  <2>1. 0 \in 0..Layout[t].spc-1
    BY CellsOf
  <2> QED BY <1>3, <2>1, RangeOf, ClusterSects
<1>5. d \in DIR /\ d.sclust = m.dj.sclust /\ d.index = m.dj.index + 1 /\ d.clust = c
      /\ d.sect = FirstSect(t, c)
  <2> DEFINE s == Clust2Sect(m.fs, c)
             i == m.dj.index + 1
  <2>1. s = FirstSect(t, c) /\ s \in Nat /\ i \in Nat
    BY <1>3, <1>4
  <2>2. d = [m.dj EXCEPT !.clust = c, !.sect = s, !.index = i]
    OBVIOUS
  <2> HIDE DEF s, i, d
  <2>3. d \in DIR /\ d.sclust = m.dj.sclust /\ d.index = i /\ d.clust = c /\ d.sect = s
    BY <1>1, <1>3, <2>1, <2>2 DEF DIR
  <2> QED BY <2>1, <2>3 DEF i
<1> HIDE DEF d
<1>6. ((d.index % (SS * Layout[t].spc)) \div SS) = 0
  <2>1. 0 \div SS = 0
    BY CellsOf
  <2> QED BY <1>5, <2>1 DEF ClusterCells
<1>7. DirAt(t, d)
  BY <1>4, <1>5, <1>6 DEF DirAt
<1> QED BY <1>1, <1>2, <1>5, <1>7, DjPut

-----------------------------------------------------------------------------
(***************************************************************************)
(* Clearing the cluster that a directory grows by.                         *)
(***************************************************************************)
\* Cluster c is blank up to its sector k, and so is the window.
ClearPre(t, m, c, k) ==
  /\ Nearly(t, m) /\ Mounted(t, m) /\ m.fs.win = Blank /\ k < Layout[t].spc
  /\ k # 0 => m.disk[FirstSect(t, c)] = Blank /\ Held(m)

ClearGood(t, F) ==
  \A m \in Machines, c \in 2..MaxClust(t)-1, k \in Nat \ {0} :
    ClearPre(t, m, c, k) =>
      LET n == Call(F, "clear", m, <<FirstSect(t, c), k>>) IN Up(t, n) /\ Through(t, m, n)

\* A blank window is one.
LEMMA BlankTyped == Blank \in Windows
<1>1. Byte(0) \in Seq(Nat)
  BY DEF Byte
<1> QED BY <1>1 DEF Blank, Windows

\* The loop of dir_next that clears a new cluster (ff.c:592-599).
LEMMA ClearUp ==
  ASSUME NEW t \in FatTypes, NEW F, Io(t, F), ClearGood(t, F), NEW m,
         NEW c \in 2..MaxClust(t)-1, NEW k \in Nat, ClearPre(t, m, c, k)
  PROVE  LET n == Clear(F, m, FirstSect(t, c), k) IN Up(t, n) /\ Through(t, m, n)
<1> DEFINE first == FirstSect(t, c)
           s == first + k
           f == WithFlag(WithSect(m.fs, s), TRUE)
           x == PutFs(m, f)
           w == WriteBack(F, x)
           p == PutFs(w, WithSect(w.fs, first))
           r == Call(F, "clear", w, <<first, k + 1>>)
           n == Clear(F, m, first, k)
<1>1. m \in Machines /\ m.fs \in FATFS /\ Nearly(t, m) /\ Mounted(t, m) /\ m.fs.win = Blank
      /\ m.disk \in [0..CardSize-1 -> Windows]
  BY Typed DEF ClearPre, Nearly
<1>2. [m EXCEPT !.fs.winsect = s, !.fs.wflag = TRUE] = x
  BY <1>1 DEF PutFs, WithFlag, WithSect, Machines, FATFS
<1>3. n = IF w.res = "OK" THEN IF k + 1 >= w.fs.csize THEN p ELSE r ELSE w
  <2> DEFINE h == [m EXCEPT !.fs.winsect = s, !.fs.wflag = TRUE]
             v == WriteBack(F, h)
  <2>1. n = IF v.res = "OK" THEN IF k + 1 >= v.fs.csize THEN PutFs(v, WithSect(v.fs, first))
                                 ELSE Call(F, "clear", v, <<first, k + 1>>) ELSE v
    BY DEF Clear, Then, PutFs, WithSect
  <2> HIDE DEF h, x
  <2>2. h = x
    BY <1>2 DEF h
  <2> QED BY <2>1, <2>2
<1>4. /\ first \in Vol(t) /\ s \in Vol(t) /\ s >= FatEnd(t) /\ s # 0 /\ first # 0
      /\ s \in Nat /\ first \in Nat /\ s \in 0..CardSize-1 /\ first \in 0..CardSize-1
  <2>1. 0 \in 0..Layout[t].spc-1 /\ k \in 0..Layout[t].spc-1
    BY CellsOf DEF ClearPre
  <2>2. first \in Nat /\ first + 0 \in Vol(t) /\ s \in Vol(t) /\ s >= FatEnd(t)
    <3> HIDE DEF first
    <3>1. FirstSect(t, c) \in Nat /\ FirstSect(t, c) + 0 \in Vol(t)
      BY <2>1, ClusterSects
    <3>2. FirstSect(t, c) + k \in Vol(t) /\ FirstSect(t, c) + k >= FatEnd(t)
      BY <2>1, ClusterSects
    <3> QED BY <3>1, <3>2 DEF first
  <2>3. FatBase(t) \in Nat /\ FatBase(t) # 0 /\ Sectors(t) \in Nat /\ CardSize \in Nat
        /\ Sectors(t) <= CardSize
    BY Bounds
  <2> HIDE DEF first
  <2> QED BY <2>2, <2>3 DEF Vol
<1> HIDE DEF first, s
<1>5. SameVolume(m.fs, f) /\ f.winsect = s /\ f.wflag = TRUE /\ f.win = Blank
  <2> DEFINE g == WithSect(m.fs, s)
  <2>1. SameVolume(m.fs, g) /\ g.winsect = s /\ g.win = Blank
    BY <1>1, <1>4, SectPut
  <2> HIDE DEF g
  <2>2. SameVolume(g, WithFlag(g, TRUE)) /\ WithFlag(g, TRUE).wflag = TRUE
        /\ WithFlag(g, TRUE).winsect = s /\ WithFlag(g, TRUE).win = Blank
    BY <2>1, FlagPut DEF SameVolume
  <2> QED BY <2>1, <2>2 DEF SameVolume, g
<1> HIDE DEF f
<1>6. OnlyFs(m, x) /\ x.fs = f
  BY <1>1, <1>5, FsPut DEF SameVolume
<1> HIDE DEF x
<1>7. WindowOk(t, x.fs)
  <2>1. t # 0
    BY TypeSome
  <2> QED BY <1>1, <1>4, <1>5, <1>6, <2>1 DEF WindowOk, SameVolume, Mounted
<1>8. Sound(t, x) /\ Through(t, m, x) /\ x.fs.wflag
  <2>1. Nearly(t, x) /\ Through(t, m, x)
    BY <1>1, <1>4, <1>5, <1>6, <1>7, FsSound
  <2> QED BY <1>5, <1>6, <2>1 DEF Sound, Held
<1>9. /\ Up(t, w) /\ Through(t, x, w)
      /\ x.fs.winsect >= FatEnd(t) /\ w.res = "OK" =>
              /\ w.fs = WithFlag(x.fs, FALSE) /\ w.disk = Stored(x, x.fs.winsect)
  BY <1>8, WriteBackSound DEF Io
<1> HIDE DEF w
<1>10. Through(t, m, w)
  BY <1>8, <1>9, ThroughTrans
<1>11. CASE w.res # "OK"
  BY <1>3, <1>9, <1>10, <1>11 DEF first
<1>12. CASE w.res = "OK"
  <2>1. w.fs = WithFlag(f, FALSE) /\ w.disk = [m.disk EXCEPT ![s] = Blank]
    BY <1>4, <1>5, <1>6, <1>9, <1>12 DEF Stored, OnlyFs
  <2>2. w.fs.win = Blank /\ w.fs.wflag = FALSE /\ w.fs.winsect = s
    <3>1. f \in FATFS
      BY <1>5 DEF SameVolume
    <3> QED BY <1>5, <2>1, <3>1, FlagPut
  <2>3. w.disk[first] = Blank
    <3>1. CASE k = 0
      <4>1. s = first
        BY <1>4, <3>1 DEF s
      <4> QED BY <1>1, <1>4, <2>1, <4>1
    <3>2. CASE k # 0
      <4>1. m.disk[first] = Blank
        BY <3>2 DEF ClearPre, first
      <4> QED BY <1>1, <1>4, <2>1, <4>1
    <3> QED BY <3>1, <3>2
  <2>4. w.fs.csize = Layout[t].spc /\ w \in Machines /\ w.fs \in FATFS /\ Nearly(t, w)
        /\ Mounted(t, w)
    BY <1>9, UpFields DEF Shape
  <2>5. CASE k + 1 >= w.fs.csize
    <3>1. n = p
      BY <1>3, <1>12, <2>5
    <3>2. SameVolume(w.fs, WithSect(w.fs, first)) /\ WithSect(w.fs, first).winsect = first
          /\ WithSect(w.fs, first).wflag = FALSE /\ WithSect(w.fs, first).win = Blank
      BY <1>4, <2>2, <2>4, SectPut
    <3>3. OnlyFs(w, p) /\ p.fs = WithSect(w.fs, first)
      BY <2>4, <3>2, FsPut DEF SameVolume
    <3> HIDE DEF p
    <3>4. WindowOk(t, p.fs)
      <4>1. t # 0
        BY TypeSome
      <4> QED BY <1>4, <2>4, <3>2, <3>3, <4>1 DEF WindowOk, SameVolume, Mounted
    <3>5. Nearly(t, p) /\ Through(t, w, p) /\ Mounted(t, p)
      BY <1>4, <2>4, <3>2, <3>3, <3>4, FsSound
    <3>6. Up(t, p)
      BY <2>3, <3>2, <3>3, <3>5 DEF Up, Sound, Held, OnlyFs
    <3>7. Through(t, m, p)
      BY <1>10, <3>5, ThroughTrans
    <3> QED BY <3>1, <3>6, <3>7 DEF first
  <2>6. CASE ~(k + 1 >= w.fs.csize)
    <3>1. n = r
      BY <1>3, <1>12, <2>6
    <3>2. k + 1 \in Nat \ {0} /\ k + 1 < Layout[t].spc
      BY <2>4, <2>6, CellsOf
    <3>3. ClearPre(t, w, c, k + 1)
      <4>1. Held(w)
        BY <1>9 DEF Up, Sound
      <4> QED BY <2>2, <2>3, <2>4, <3>2, <4>1 DEF ClearPre, first
    <3>4. Up(t, r) /\ Through(t, w, r)
      BY <2>4, <3>2, <3>3 DEF ClearGood, first
    <3>5. Through(t, m, r)
      BY <1>10, <3>4, ThroughTrans
    <3> QED BY <3>1, <3>4, <3>5 DEF first
  <2> QED BY <2>5, <2>6
<1> QED BY <1>11, <1>12

-----------------------------------------------------------------------------
(***************************************************************************)
(* Growing a directory.                                                    *)
(***************************************************************************)
\* What growing a directory or file relies on.
DirIo(t, F) == Io(t, F) /\ FindGood(t, F) /\ ClearGood(t, F)

ScanGood(t, F) ==
  \A m \in Machines, name \in Nat :
    Up(t, m) /\ DirAt(t, m.dj) =>
      LET n == Call(F, "scan", m, <<name>>) IN
        /\ Up(t, n) /\ Aside(t, m, n)
        /\ n.res = "OK" => DirAt(t, n.dj) /\ n.fs.winsect = n.dj.sect

\* A failure keeps the volume mounted.
LEMMA FailUp ==
  ASSUME NEW t \in FatTypes, NEW m, Up(t, m), NEW r \in FRESULT
  PROVE  LET n == Fail(m, r) IN Up(t, n) /\ Through(t, m, n) /\ Aside(t, m, n) /\ n.res = r
                                /\ n.fs = m.fs
<1>1. Still(m, Fail(m, r)) /\ Fail(m, r).res = r
  BY UpFields, FailStill
<1> QED BY <1>1, StillUp, ThroughAside

\* So does success.
LEMMA OkUp ==
  ASSUME NEW t \in FatTypes, NEW m, Up(t, m)
  PROVE  LET n == Ok(m) IN Up(t, n) /\ Through(t, m, n) /\ Aside(t, m, n) /\ n.res = "OK"
                           /\ n.fs = m.fs
<1>1. Still(m, Ok(m)) /\ Ok(m).res = "OK"
  BY UpFields, OkStill
<1> QED BY <1>1, StillUp, ThroughAside

\* dir_next at the end of a table that is to grow (ff.c:582-603).
LEMMA StretchDirUp ==
  ASSUME NEW t \in FatTypes, NEW F, DirIo(t, F), NEW m, Up(t, m), Live(t, m),
         m.dj.sclust # 0, ((m.dj.index + 1) % ClusterCells(t)) = 0
  PROVE  LET n == StretchDir(F, m) IN
         Up(t, n) /\ Aside(t, m, n) /\ (n.res = "OK" => DirAt(t, n.dj))
<1> DEFINE a == CreateChain(F, m, m.dj.clust)
           w == MoveWindow(F, a, 0)
           b == PutFs(w, WithWin(w.fs, Blank))
           x == Clear(F, b, Clust2Sect(w.fs, a.val), 0)
           e == EnterCluster(x, a.val)
           n == StretchDir(F, m)
<1>1. n = CASE a.val = 0 -> Fail(a, "DENIED")
            [] a.val = 1 -> Fail(a, "INT_ERR")
            [] a.val = DiskErr -> Fail(a, "DISK_ERR")
            [] a.val \notin {0, 1, DiskErr} ->
                 IF w.res = "OK" THEN IF x.res = "OK" THEN e ELSE x ELSE w
  BY DEF StretchDir, Then, On, PutFs, WithWin
<1>2. Io(t, F) /\ FindGood(t, F) /\ ClearGood(t, F)
  BY DEF DirIo
<1>3. m.dj.clust \in Nat
  BY UpFields DEF DIR
<1>4. Up(t, a) /\ Through(t, m, a) /\ a.val \in Found(t)
  BY <1>2, <1>3, CreateChainUp
<1> HIDE DEF a
<1>5. CASE a.val \in {0, 1, DiskErr}
  <2>1. PICK r \in {"DENIED", "INT_ERR", "DISK_ERR"} : n = Fail(a, r)
    BY <1>1, <1>5 DEF DiskErr
  <2>2. r \in FRESULT /\ r # "OK"
    BY ResNames
  <2>3. Up(t, Fail(a, r)) /\ Through(t, a, Fail(a, r)) /\ Fail(a, r).res = r
    BY <1>4, <2>2, FailUp
  <2> QED BY <1>4, <2>1, <2>2, <2>3, ThroughTrans, ThroughAside
<1>6. CASE a.val \notin {0, 1, DiskErr}
  <2>1. a.val \in 2..MaxClust(t)-1 /\ a.val \in Nat
    BY <1>4, <1>6, UpFields DEF Found
  <2>2. Up(t, w) /\ Through(t, a, w)
    <3>1. 0 \in {0} \cup Vol(t)
      OBVIOUS
    <3> QED BY <1>2, <1>4, <3>1, MoveUp
  <2>3. Through(t, m, w)
    BY <1>4, <2>2, ThroughTrans
  <2> HIDE DEF w
  <2>4. CASE w.res # "OK"
    <3>1. n = w
      BY <1>1, <1>6, <2>4
    <3> QED BY <2>2, <2>3, <2>4, <3>1, ThroughAside
  <2>5. CASE w.res = "OK"
    <3>1. w \in Machines /\ w.fs \in FATFS /\ Nearly(t, w) /\ Mounted(t, w)
      BY <2>2, UpFields
    <3>2. SameVolume(w.fs, WithWin(w.fs, Blank)) /\ WithWin(w.fs, Blank).win = Blank
          /\ WithWin(w.fs, Blank).winsect = w.fs.winsect
          /\ WithWin(w.fs, Blank).wflag = w.fs.wflag
      BY <3>1, BlankTyped, WinPut
    <3>3. OnlyFs(w, b) /\ b.fs = WithWin(w.fs, Blank)
      BY <3>1, <3>2, FsPut DEF SameVolume
    <3> HIDE DEF b
    <3>4. WindowOk(t, b.fs) /\ (b.fs.wflag => b.fs.winsect # 0 \/ Off(w))
      BY <3>1, <3>2, <3>3 DEF Nearly, WindowOk, SameVolume
    <3>5. Nearly(t, b) /\ Through(t, w, b) /\ Mounted(t, b)
      BY <3>1, <3>2, <3>3, <3>4, FsSound
    <3>6. Clust2Sect(w.fs, a.val) = FirstSect(t, a.val)
      BY <2>1, <2>2, RangeOf
    <3>7. ClearPre(t, b, a.val, 0)
      BY <3>2, <3>3, <3>5, CellsOf DEF ClearPre
    <3>8. Up(t, x) /\ Through(t, b, x)
      <4>1. LET k == Clear(F, b, FirstSect(t, a.val), 0) IN Up(t, k) /\ Through(t, b, k)
        BY <1>2, <2>1, <3>7, ClearUp
      <4> QED BY <3>6, <4>1
    <3> HIDE DEF x
    <3>9. Through(t, m, x)
      BY <2>3, <3>5, <3>8, ThroughTrans
    <3>10. CASE x.res # "OK"
      <4>1. n = x
        BY <1>1, <1>6, <2>5, <3>10
      <4> QED BY <3>8, <3>9, <3>10, <4>1, ThroughAside
    <3>11. CASE x.res = "OK"
      <4>1. n = e
        BY <1>1, <1>6, <2>5, <3>11
      <4>2. x.dj = m.dj
        BY <3>9 DEF Through
      <4>3. Up(t, e) /\ Aside(t, x, e) /\ e.res = "OK" /\ DirAt(t, e.dj)
        BY <2>1, <3>8, <4>2, EnterClusterUp
      <4> QED BY <3>9, <4>1, <4>3, AsideTrans, ThroughAside
    <3> QED BY <3>10, <3>11
  <2> QED BY <2>4, <2>5
<1> QED BY <1>5, <1>6

\* The next entry of a fixed root directory is in it.
LEMMA NextInRoot ==
  ASSUME NEW t \in FatTypes, NEW d \in DIR, DirAt(t, d), d.sclust = 0, NEW i, i = d.index + 1,
         ~((i % SS) = 0 /\ i >= Layout[t].roots)
  PROVE  DirAt(t, [d EXCEPT !.index = i, !.sect = IF (i % SS) = 0 THEN @ + 1 ELSE @])
<1> DEFINE s == IF (i % SS) = 0 THEN d.sect + 1 ELSE d.sect
           e == [d EXCEPT !.index = i, !.sect = s]
<1>1. d.index \in Nat /\ i \in Nat /\ d.sect \in Nat /\ s \in Nat /\ d.clust \in Nat
  BY DEF DIR
<1>2. t # 32 /\ d.index < Layout[t].roots /\ d.sect = RootBase(t) + (d.index \div SS)
      /\ Layout[t].roots \in Nat /\ (Layout[t].roots % SS) = 0 /\ RootBase(t) \in Nat
      /\ SS \in Nat \ {0}
  BY Fields, Bounds DEF DirAt
<1>3. i < Layout[t].roots
  <2>1. CASE i = Layout[t].roots
    BY <1>1, <1>2, <2>1
  <2>2. CASE i # Layout[t].roots
    <3>1. d.index < Layout[t].roots /\ Layout[t].roots \in Nat
      BY <1>2
    <3> QED BY <1>1, <2>2, <3>1
  <2> QED BY <2>1, <2>2
<1>4. i \div SS = IF (i % SS) = 0 THEN (d.index \div SS) + 1 ELSE d.index \div SS
  BY <1>1, <1>2, NextIndex
<1>5. d.index \div SS \in Nat
  BY <1>1, <1>2, Division
<1>6. s = RootBase(t) + (i \div SS)
  BY <1>1, <1>2, <1>4, <1>5
<1>7. e \in DIR /\ e.sclust = 0 /\ e.index = i /\ e.sect = s
  <2> HIDE DEF s
  <2> QED BY <1>1 DEF DIR
<1>8. DirAt(t, e)
  <2> HIDE DEF s, e
  <2> QED BY <1>2, <1>3, <1>6, <1>7 DEF DirAt
<1> QED BY <1>8

\* The next entry of a cluster is in it.
LEMMA NextInTable ==
  ASSUME NEW t \in FatTypes, NEW d \in DIR, DirAt(t, d), d.sclust # 0, NEW i, i = d.index + 1,
         (i % ClusterCells(t)) # 0
  PROVE  DirAt(t, [d EXCEPT !.index = i, !.sect = IF (i % SS) = 0 THEN @ + 1 ELSE @])
<1> DEFINE s == IF (i % SS) = 0 THEN d.sect + 1 ELSE d.sect
           e == [d EXCEPT !.index = i, !.sect = s]
           spc == Layout[t].spc
           q == ((d.index % (SS * spc)) \div SS)
           u == ((i % (SS * spc)) \div SS)
<1>1. d.index \in Nat /\ i \in Nat /\ d.sect \in Nat /\ s \in Nat /\ d.clust \in Nat
  BY DEF DIR
<1>2. SS \in Nat \ {0} /\ spc \in Nat \ {0} /\ SS * spc \in Nat \ {0}
  BY CellsOf DEF ClusterCells
<1>3. d.clust \in 2..MaxClust(t)-1 /\ d.sect = FirstSect(t, d.clust) + q
  BY DEF DirAt
<1>4. FirstSect(t, d.clust) \in Nat
  <2>1. 0 \in 0..spc-1
    BY <1>2
  <2> QED BY <1>3, <2>1, ClusterSects
<1>5. u = IF (i % SS) = 0 THEN q + 1 ELSE q
  <2>1. ((d.index + 1) % (SS * spc)) # 0
    BY DEF ClusterCells
  <2> HIDE DEF spc
  <2> QED BY <1>1, <1>2, <2>1, NextInCluster
<1>6. q \in Nat
  <2>1. d.index % (SS * spc) \in Nat
    <3> DEFINE b == SS * spc
    <3>1. b \in Nat \ {0}
      BY <1>2
    <3> HIDE DEF b
    <3>2. d.index % b \in 0..b-1
      BY <1>1, <3>1, Division
    <3> QED BY <3>1, <3>2 DEF b
  <2> QED BY <1>2, <2>1, Division
<1> HIDE DEF q, u
<1>7. s = FirstSect(t, d.clust) + u
  BY <1>1, <1>3, <1>4, <1>5, <1>6
<1>8. e \in DIR /\ e.sclust = d.sclust /\ e.index = i /\ e.sect = s /\ e.clust = d.clust
  <2> HIDE DEF s
  <2> QED BY <1>1 DEF DIR
<1>9. DirAt(t, e)
  <2> HIDE DEF s, e
  <2> QED BY <1>3, <1>7, <1>8 DEF DirAt, u
<1> QED BY <1>9

-----------------------------------------------------------------------------
(***************************************************************************)
(* Searching a directory.                                                  *)
(***************************************************************************)
\* dir_next (ff.c:554-614): the position stays in the directory.
LEMMA DirNextUp ==
  ASSUME NEW t \in FatTypes, NEW F, DirIo(t, F), NEW m, Up(t, m), Live(t, m), DirAt(t, m.dj),
         NEW stretch \in BOOLEAN
  PROVE  LET n == DirNext(F, m, stretch) IN
         Up(t, n) /\ Aside(t, m, n) /\ (n.res = "OK" => DirAt(t, n.dj))
<1> DEFINE i == m.dj.index + 1
           a == GetCluster(F, m, m.dj.clust)
           d == [m.dj EXCEPT !.index = i, !.sect = IF (i % SS) = 0 THEN @ + 1 ELSE @]
           nx == Ok(PutDj(m, d))
           n == DirNext(F, m, stretch)
<1>1. m \in Machines /\ m.dj \in DIR /\ Shape(t, m.fs) /\ m.dj.clust \in Nat
      /\ m.dj.index \in Nat /\ m.dj.sect \in Nat /\ Io(t, F)
  BY UpFields DEF DIR, DirIo
<1>2. m.dj.sect # 0
  BY <1>1, DirSects
<1>3. Ok([m EXCEPT !.dj.index = i, !.dj.sect = IF i % SS = 0 THEN @ + 1 ELSE @]) = nx
  BY <1>1 DEF PutDj, Machines, DIR
<1>4. n = IF m.dj.sclust = 0
          THEN IF (i % SS) = 0 /\ i >= Layout[t].roots THEN Fail(m, "NO_FILE") ELSE nx
          ELSE IF (i % ClusterCells(t)) # 0 THEN nx
          ELSE CASE a.val \in {0, 1} -> Fail(a, "INT_ERR")
                 [] a.val = DiskErr -> Fail(a, "DISK_ERR")
                 [] InRange(a.fs, a.val) -> EnterCluster(a, a.val)
                 [] a.val >= a.fs.max_clust /\ a.val # DiskErr ->
                      IF stretch THEN StretchDir(F, a) ELSE Fail(a, "NO_FILE")
  <2> DEFINE h == Ok([m EXCEPT !.dj.index = i, !.dj.sect = IF i % SS = 0 THEN @ + 1 ELSE @])
  <2>1. n = IF m.dj.sect = 0 THEN Fail(m, "NO_FILE")
          ELSE IF m.dj.sclust = 0
          THEN IF (i % SS) = 0 /\ i >= m.fs.n_rootdir THEN Fail(m, "NO_FILE") ELSE h
          ELSE IF (i % (SS * m.fs.csize)) # 0 THEN h
          ELSE CASE a.val \in {0, 1} -> Fail(a, "INT_ERR")
                 [] a.val = DiskErr -> Fail(a, "DISK_ERR")
                 [] InRange(a.fs, a.val) -> EnterCluster(a, a.val)
                 [] a.val >= a.fs.max_clust /\ a.val # DiskErr ->
                      IF stretch THEN StretchDir(F, a) ELSE Fail(a, "NO_FILE")
    BY DEF DirNext, NextTable
  <2>2. h = nx
    BY <1>3
  <2>3. m.fs.n_rootdir = Layout[t].roots /\ SS * m.fs.csize = ClusterCells(t)
    BY <1>1 DEF Shape, ClusterCells
  <2> DEFINE rest == CASE a.val \in {0, 1} -> Fail(a, "INT_ERR")
                 [] a.val = DiskErr -> Fail(a, "DISK_ERR")
                 [] InRange(a.fs, a.val) -> EnterCluster(a, a.val)
                 [] a.val >= a.fs.max_clust /\ a.val # DiskErr ->
                      IF stretch THEN StretchDir(F, a) ELSE Fail(a, "NO_FILE")
  <2> HIDE DEF h, nx, a, i, n, rest
  <2>4. n = IF m.dj.sect = 0 THEN Fail(m, "NO_FILE")
          ELSE IF m.dj.sclust = 0
          THEN IF (i % SS) = 0 /\ i >= m.fs.n_rootdir THEN Fail(m, "NO_FILE") ELSE h
          ELSE IF (i % (SS * m.fs.csize)) # 0 THEN h ELSE rest
    BY <2>1 DEF rest
  <2>5. n = IF m.dj.sclust = 0
          THEN IF (i % SS) = 0 /\ i >= Layout[t].roots THEN Fail(m, "NO_FILE") ELSE nx
          ELSE IF (i % ClusterCells(t)) # 0 THEN nx ELSE rest
    BY <1>2, <2>2, <2>3, <2>4
  <2> QED BY <2>5 DEF rest
<1>5. d \in DIR /\ d.sclust = m.dj.sclust
  <2> DEFINE s == IF (i % SS) = 0 THEN m.dj.sect + 1 ELSE m.dj.sect
  <2>1. i \in Nat /\ s \in Nat /\ d = [m.dj EXCEPT !.index = i, !.sect = s]
    BY <1>1
  <2> HIDE DEF s, i, d
  <2> QED BY <1>1, <2>1 DEF DIR
<1>6. ASSUME DirAt(t, d), n = nx
      PROVE  Up(t, n) /\ Aside(t, m, n) /\ (n.res = "OK" => DirAt(t, n.dj))
  <2> HIDE DEF d
  <2> QED BY <1>1, <1>5, <1>6, DjPut
<1>7. CASE m.dj.sclust = 0
  <2>1. CASE (i % SS) = 0 /\ i >= Layout[t].roots
    <3>1. n = Fail(m, "NO_FILE")
      BY <1>4, <1>7, <2>1
    <3>2. "NO_FILE" \in FRESULT
      BY ResNames
    <3> QED BY <3>1, <3>2, FailUp
  <2>2. CASE ~((i % SS) = 0 /\ i >= Layout[t].roots)
    <3>1. n = nx
      BY <1>4, <1>7, <2>2
    <3>2. DirAt(t, d)
      <4> HIDE DEF i
      <4>1. i = m.dj.index + 1
        BY DEF i
      <4> QED BY <1>1, <1>7, <2>2, <4>1, NextInRoot
    <3> QED BY <1>6, <3>1, <3>2
  <2> QED BY <2>1, <2>2
<1>8. CASE m.dj.sclust # 0 /\ (i % ClusterCells(t)) # 0
  <2>1. n = nx
    BY <1>4, <1>8
  <2>2. DirAt(t, d)
    <3> HIDE DEF i
    <3>1. i = m.dj.index + 1
      BY DEF i
    <3> QED BY <1>1, <1>8, <3>1, NextInTable
  <2> QED BY <1>6, <2>1, <2>2
<1>9. CASE m.dj.sclust # 0 /\ (i % ClusterCells(t)) = 0
  <2>1. Up(t, a) /\ Through(t, m, a) /\ a.val \in Nat
    BY <1>1, GetClusterUp
  <2>2. Live(t, a)
    BY <2>1, KeptLive DEF Through, Up
  <2>3. a.dj = m.dj
    BY <2>1 DEF Through
  <2>4. n = CASE a.val \in {0, 1} -> Fail(a, "INT_ERR")
                 [] a.val = DiskErr -> Fail(a, "DISK_ERR")
                 [] InRange(a.fs, a.val) -> EnterCluster(a, a.val)
                 [] a.val >= a.fs.max_clust /\ a.val # DiskErr ->
                      IF stretch THEN StretchDir(F, a) ELSE Fail(a, "NO_FILE")
    BY <1>4, <1>9
  <2>5. a.fs.max_clust = MaxClust(t) /\ MaxClust(t) \in Nat /\ MaxClust(t) < DiskErr
        /\ (InRange(a.fs, a.val) <=> a.val \in 2..MaxClust(t)-1)
    BY <2>1, RangeOf, Bounds
  <2> HIDE DEF a, n, i
  <2>6. \/ \E r \in {"INT_ERR", "DISK_ERR", "NO_FILE"} : n = Fail(a, r)
        \/ n = EnterCluster(a, a.val) /\ a.val \in 2..MaxClust(t)-1
        \/ n = StretchDir(F, a)
    <3>1. CASE a.val \in {0, 1}
      <4>1. n = Fail(a, "INT_ERR")
        BY <2>4, <2>5, <3>1, DiskErrIs, Bounds
      <4> QED BY <4>1
    <3>2. CASE a.val = DiskErr
      <4>1. n = Fail(a, "DISK_ERR")
        <5>1. a.val \notin {0, 1} /\ ~InRange(a.fs, a.val)
          BY <2>5, <3>2, DiskErrIs
        <5> QED BY <2>4, <3>2, <5>1
      <4> QED BY <4>1
    <3>3. CASE a.val \in 2..MaxClust(t)-1
      BY <2>4, <2>5, <3>3, DiskErrIs
    <3>4. CASE a.val >= MaxClust(t) /\ a.val # DiskErr /\ a.val \notin {0, 1}
      <4>1. n = IF stretch THEN StretchDir(F, a) ELSE Fail(a, "NO_FILE")
        BY <2>4, <2>5, <3>4
      <4> QED BY <4>1
    <3> QED BY <2>1, <2>5, <3>1, <3>2, <3>3, <3>4
  <2>7. ASSUME NEW r \in {"INT_ERR", "DISK_ERR", "NO_FILE"}, n = Fail(a, r)
        PROVE  Up(t, n) /\ Aside(t, m, n) /\ (n.res = "OK" => DirAt(t, n.dj))
    <3>0. r \in FRESULT /\ r # "OK"
      BY ResNames
    <3>1. Up(t, n) /\ Aside(t, a, n) /\ n.res = r
      BY <2>1, <2>7, <3>0, FailUp
    <3> QED BY <2>1, <3>0, <3>1, ThroughAside, AsideTrans
  <2>8. CASE n = EnterCluster(a, a.val) /\ a.val \in 2..MaxClust(t)-1
    <3>1. Up(t, n) /\ Aside(t, a, n) /\ DirAt(t, n.dj)
      BY <1>9, <2>1, <2>3, <2>8, EnterClusterUp DEF i
    <3> QED BY <2>1, <3>1, ThroughAside, AsideTrans DEF n
  <2>9. CASE n = StretchDir(F, a)
    <3>1. Up(t, n) /\ Aside(t, a, n) /\ (n.res = "OK" => DirAt(t, n.dj))
      BY <1>9, <2>1, <2>2, <2>3, <2>9, StretchDirUp DEF i
    <3> QED BY <2>1, <3>1, ThroughAside, AsideTrans DEF n
  <2> QED BY <2>6, <2>7, <2>8, <2>9 DEF n
<1> QED BY <1>7, <1>8, <1>9

\* The loops of dir_find and dir_register (ff.c:780-836, 968-993).
LEMMA ScanUp ==
  ASSUME NEW t \in FatTypes, NEW F, DirIo(t, F), ScanGood(t, F), NEW m, Up(t, m),
         DirAt(t, m.dj), NEW name \in Nat
  PROVE  LET n == Scan(F, m, name) IN
         /\ Up(t, n) /\ Aside(t, m, n)
         /\ n.res = "OK" => DirAt(t, n.dj) /\ n.fs.winsect = n.dj.sect
<1> DEFINE a == MoveWindow(F, m, m.dj.sect)
           here == Part(Entry(a), 1)
           x == DirNext(F, a, name = 0)
           r == Call(F, "scan", x, <<name>>)
           n == Scan(F, m, name)
<1>1. n = IF a.res = "OK"
          THEN IF name = 0 /\ here \in {0, Deleted} THEN a
               ELSE IF name > 0 /\ here = 0 THEN Fail(a, "NO_FILE")
               ELSE IF name > 0 /\ here = name THEN a
               ELSE IF x.res = "OK" THEN r ELSE x
          ELSE a
  BY DEF Scan, Then
<1>2. m.dj.sect \in Vol(t) /\ m.dj.sect # 0 /\ Io(t, F)
  BY UpFields, DirSects DEF DirIo
<1>3. Up(t, a) /\ Through(t, m, a) /\ (a.res = "OK" => a.fs.winsect = m.dj.sect)
  <2> DEFINE s == m.dj.sect
  <2>1. s \in {0} \cup Vol(t) /\ s # 0
    BY <1>2
  <2> HIDE DEF s
  <2>2. LET k == MoveWindow(F, m, s) IN
        Up(t, k) /\ Through(t, m, k) /\ (k.res = "OK" => k.fs.winsect = s)
    BY <1>2, <2>1, MoveUp
  <2> QED BY <2>2 DEF s
<1> HIDE DEF a
<1>4. Aside(t, m, a) /\ a.dj = m.dj /\ a \in Machines
  BY <1>3, ThroughAside, UpFields DEF Through
<1>5. CASE a.res # "OK"
  BY <1>1, <1>3, <1>4, <1>5
<1>6. CASE n = a /\ a.res = "OK"
  BY <1>3, <1>4, <1>6
<1>7. CASE n = Fail(a, "NO_FILE")
  <2>1. Up(t, n) /\ Aside(t, a, n) /\ n.res = "NO_FILE"
    BY <1>3, <1>7, FailUp, ResNames
  <2> QED BY <1>4, <2>1, AsideTrans
<1>8. CASE a.res = "OK" /\ n = IF x.res = "OK" THEN r ELSE x
  <2>1. Live(t, a)
    BY <1>2, <1>3, <1>8 DEF Live
  <2>2. Up(t, x) /\ Aside(t, a, x) /\ (x.res = "OK" => DirAt(t, x.dj))
    BY <1>3, <1>4, <2>1, DirNextUp
  <2> HIDE DEF x
  <2>3. Aside(t, m, x) /\ x \in Machines
    BY <1>4, <2>2, AsideTrans, UpFields
  <2>4. CASE x.res = "OK"
    <3>1. /\ Up(t, r) /\ Aside(t, x, r)
          /\ r.res = "OK" => DirAt(t, r.dj) /\ r.fs.winsect = r.dj.sect
      BY <2>2, <2>3, <2>4 DEF ScanGood
    <3> QED BY <1>8, <2>3, <2>4, <3>1, AsideTrans
  <2>5. CASE x.res # "OK"
    BY <1>8, <2>2, <2>3, <2>5
  <2> QED BY <2>4, <2>5
<1> QED BY <1>1, <1>5, <1>6, <1>7, <1>8

\* dir_find.
LEMMA DirFindUp ==
  ASSUME NEW t \in FatTypes, NEW F, DirIo(t, F), ScanGood(t, F), NEW m, Up(t, m),
         NEW name \in Nat
  PROVE  LET n == DirFind(F, m, name) IN
         /\ Up(t, n) /\ Aside(t, m, n)
         /\ n.res = "OK" => DirAt(t, n.dj) /\ n.fs.winsect = n.dj.sect
<1> DEFINE a == DirSeek(m)
           b == Call(F, "scan", a, <<name>>)
<1>1. DirFind(F, m, name) = IF a.res = "OK" THEN b ELSE a
  BY DEF DirFind, Then
<1>2. Up(t, a) /\ Aside(t, m, a) /\ (a.res = "OK" => DirAt(t, a.dj))
  BY DirSeekUp
<1> HIDE DEF a
<1>3. CASE a.res = "OK"
  <2>1. /\ Up(t, b) /\ Aside(t, a, b)
        /\ b.res = "OK" => DirAt(t, b.dj) /\ b.fs.winsect = b.dj.sect
    BY <1>2, <1>3, UpFields DEF ScanGood
  <2> QED BY <1>1, <1>2, <1>3, <2>1, AsideTrans
<1>4. CASE a.res # "OK"
  BY <1>1, <1>2, <1>4
<1> QED BY <1>3, <1>4

\* dir_register.
LEMMA DirRegisterUp ==
  ASSUME NEW t \in FatTypes, NEW F, DirIo(t, F), ScanGood(t, F), NEW m, Up(t, m),
         NEW name \in Nat
  PROVE  LET n == DirRegister(F, m, name) IN
         /\ Up(t, n) /\ Aside(t, m, n)
         /\ n.res = "OK" => DirAt(t, n.dj) /\ n.fs.winsect = n.dj.sect
<1> DEFINE a == DirFind(F, m, 0)
           i == a.dj.index % SS
           cell == <<name, 0, 0, 0>>
           b == Change(a, i, cell)
<1>1. DirRegister(F, m, name) = IF a.res = "OK" THEN b ELSE a
  BY DEF DirRegister, Then
<1>2. /\ Up(t, a) /\ Aside(t, m, a)
      /\ a.res = "OK" => DirAt(t, a.dj) /\ a.fs.winsect = a.dj.sect
  BY DirFindUp
<1> HIDE DEF a
<1>3. CASE a.res = "OK"
  <2>1. a.dj.sect # 0 /\ i \in 0..SS-1 /\ cell \in Seq(Nat) /\ Nearly(t, a) /\ Mounted(t, a)
    BY <1>2, <1>3, UpFields, DirSects
  <2> HIDE DEF i, cell
  <2>2. Up(t, b) /\ Through(t, a, b) /\ b.fs.winsect = a.fs.winsect
    BY <1>2, <1>3, <2>1, ChangeUp
  <2>3. b.dj = a.dj
    BY <2>2 DEF Through
  <2> QED BY <1>1, <1>2, <1>3, <2>2, <2>3, AsideTrans, ThroughAside DEF i, cell
<1>4. CASE a.res # "OK"
  BY <1>1, <1>2, <1>4
<1> QED BY <1>3, <1>4
=============================================================================
