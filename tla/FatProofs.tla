----------------------------- MODULE FatProofs ------------------------------
(***************************************************************************)
(* Proofs about the file system for every layout of the card, every size   *)
(* of a sector, every length of lines and reads and every bound on nested  *)
(* calls: files and the log, the levels of calls below calls, and the      *)
(* steps of FatFs.                                                         *)
(***************************************************************************)
EXTENDS FatLemmas, WellFoundedInduction

-----------------------------------------------------------------------------
(***************************************************************************)
(* Paths, and the boot record.                                             *)
(***************************************************************************)
\* An entry of a directory is a tuple of numbers.
LEMMA EntryTyped ==
  ASSUME NEW t \in FatTypes, NEW m, Up(t, m), DirAt(t, m.dj)
  PROVE  Entry(m) \in Seq(Nat) /\ \A i \in Nat \ {0} : Part(Entry(m), i) \in Nat
<1>1. m.dj.index % SS \in 0..SS-1 /\ m.fs.win \in Windows
  BY UpFields, DirSects
<1>2. Entry(m) \in Seq(Nat)
  BY <1>1 DEF Entry, Windows
<1> QED BY <1>2, PartNat

\* Turning to another directory.
LEMMA SclustUp ==
  ASSUME NEW t \in FatTypes, NEW m, Up(t, m), NEW c \in Nat
  PROVE  LET n == [m EXCEPT !.dj.sclust = c] IN Up(t, n) /\ Aside(t, m, n) /\ n.res = m.res
<1> DEFINE d == [m.dj EXCEPT !.sclust = c]
           n == PutDj(m, d)
<1>1. m \in Machines /\ m.dj \in DIR
  BY UpFields
<1>2. [m EXCEPT !.dj.sclust = c] = n
  BY DEF PutDj
<1>3. d \in DIR
  BY <1>1 DEF DIR
<1> HIDE DEF d
<1>4. World(m, n) /\ n.fp = m.fp /\ n.res = m.res
  BY <1>1, <1>3, SetDj DEF PutDj
<1> QED BY <1>2, <1>4, WorldSound DEF Aside

\* follow_path (ff.c:1279-1319): the entry it found is in the window.
LEMMA FollowPathUp ==
  ASSUME NEW t \in FatTypes, NEW F, DirIo(t, F), ScanGood(t, F), NEW m, Up(t, m),
         NEW name \in Nat
  PROVE  LET n == FollowPath(F, m, name) IN
         /\ Up(t, n) /\ Aside(t, m, n)
         /\ n.res = "OK" => DirAt(t, n.dj) /\ n.fs.winsect = n.dj.sect
<1> DEFINE c == IF m.fs.fs_type = 32 THEN m.fs.dirbase ELSE 0
           root == [m EXCEPT !.dj.sclust = c]
           a == DirFind(F, root, BootDir)
           sub == [a EXCEPT !.dj.sclust = Part(Entry(a), 3)]
           b == DirFind(F, sub, name)
           n == FollowPath(F, m, name)
<1>1. n = IF a.res = "NO_FILE" THEN Fail(a, "NO_PATH")
          ELSE IF a.res = "OK"
          THEN IF Part(Entry(a), 2) = 0 THEN Fail(a, "NO_PATH") ELSE b
          ELSE a
  BY DEF FollowPath, Then, On
<1>2. Up(t, root) /\ Aside(t, m, root)
  <2>1. c \in Nat
    BY UpFields DEF FATFS
  <2> HIDE DEF c
  <2> QED BY <2>1, SclustUp
<1> HIDE DEF root
<1>3. /\ Up(t, a) /\ Aside(t, root, a)
      /\ a.res = "OK" => DirAt(t, a.dj)
  BY <1>2, DirFindUp DEF BootDir
<1> HIDE DEF a
<1>4. Aside(t, m, a)
  BY <1>2, <1>3, AsideTrans
<1>5. CASE n = Fail(a, "NO_PATH")
  <2>1. "NO_PATH" \in FRESULT
    BY ResNames
  <2>2. Up(t, n) /\ Aside(t, a, n) /\ n.res = "NO_PATH"
    BY <1>3, <1>5, <2>1, FailUp
  <2> QED BY <1>4, <2>2, AsideTrans
<1>6. CASE n = b /\ a.res = "OK"
  <2>1. Part(Entry(a), 3) \in Nat
    BY <1>3, <1>6, EntryTyped, SMTT(30)
  <2>2. Up(t, sub) /\ Aside(t, a, sub)
    <3> DEFINE p == Part(Entry(a), 3)
    <3>1. p \in Nat
      BY <2>1
    <3> HIDE DEF p
    <3>2. Up(t, [a EXCEPT !.dj.sclust = p]) /\ Aside(t, a, [a EXCEPT !.dj.sclust = p])
      BY <1>3, <3>1, SclustUp
    <3> QED BY <3>2 DEF p
  <2> HIDE DEF sub
  <2>3. /\ Up(t, b) /\ Aside(t, sub, b)
        /\ b.res = "OK" => DirAt(t, b.dj) /\ b.fs.winsect = b.dj.sect
    BY <2>2, DirFindUp
  <2>4. Aside(t, m, b)
    BY <1>4, <2>2, <2>3, AsideTrans
  <2> QED BY <1>6, <2>3, <2>4
<1>7. CASE n = a /\ a.res # "OK"
  BY <1>3, <1>4, <1>7
<1> QED BY <1>1, <1>5, <1>6, <1>7

-----------------------------------------------------------------------------
\* The boot record and the partition table of the card.
LEMMA BootCells ==
  ASSUME NEW t \in FatTypes
  PROVE  /\ Cell(t, Layout[t].part, 0) = BootRecord(t)
         /\ Layout[t].part # 0 => Cell(t, 0, 0) = <<BootSig, 0, Layout[t].part>>
<1> DEFINE p == Layout[t].part
           fb == FatBase(t)
           rb == RootBase(t)
           db == DataBase(t)
<1>1. p \in Nat /\ p < fb /\ fb \in Nat /\ fb <= rb /\ rb \in Nat /\ rb <= db /\ db \in Nat
  <2>1. FatEnd(t) = fb + Layout[t].fatsz /\ Layout[t].fatsz \in Nat
    BY Bounds DEF FatEnd
  <2>2. p \in Nat /\ p < fb /\ fb \in Nat /\ FatEnd(t) <= rb /\ rb \in Nat /\ rb <= db /\ db \in Nat
    BY Bounds
  <2> HIDE DEF p, fb, rb, db
  <2> QED BY <2>1, <2>2
<1>2. Cell(t, p, 0) = BootRecord(t)
  <2>1. Cell(t, p, 0) = IF p = p THEN IF 0 = 0 THEN BootRecord(t) ELSE Byte(0) ELSE Byte(0)
    <3> DEFINE r == BootRecord(t)
    <3>1. /\ ~(p < p) /\ ~(p > p) /\ ~(p >= fb) /\ ~(p >= rb) /\ ~(p - db >= 0)
      <4> HIDE DEF p, fb, rb, db
      <4> QED BY <1>1
    <3> HIDE DEF r, fb, rb, db
    <3> QED BY <3>1 DEF Cell, fb, rb, db, r
  <2> QED BY <2>1
<1>3. ASSUME p # 0 PROVE Cell(t, 0, 0) = <<BootSig, 0, p>>
  <2>1. /\ ~(0 = p) /\ 0 < p /\ ~(0 > p) /\ ~(0 >= fb) /\ ~(0 >= rb) /\ ~(0 - db >= 0)
    <3> HIDE DEF p, fb, rb, db
    <3> QED BY <1>1, <1>3
  <2> QED BY <2>1 DEF Cell
<1> QED BY <1>2, <1>3

\* check_fs (ff.c:1328-1345).
LEMMA CheckFsSound ==
  ASSUME NEW t \in FatTypes, NEW F, Io(t, F), NEW m, Sound(t, m), m.fs.fs_type = 0,
         NEW sect \in 0..CardSize-1
  PROVE  LET n == CheckFs(F, m, sect)
             boot == m.disk[sect][0]
         IN
         /\ Sound(t, n) /\ Through(t, m, n)
         /\ n.val # 3 =>
              /\ n.fs.fs_type = 0 /\ n.fs.win = m.disk[sect] /\ n.disk = m.disk
              /\ n.val = IF Part(boot, 1) # BootSig THEN 2 ELSE IF Part(boot, 2) = 1 THEN 0 ELSE 1
<1> DEFINE a == DiskRead(F, m, sect)
           v == IF a.res # "OK" THEN 3 ELSE IF Part(a.fs.win[0], 1) # BootSig THEN 2
                ELSE IF Part(a.fs.win[0], 2) = 1 THEN 0 ELSE 1
           n == CheckFs(F, m, sect)
<1>1. n = Val(a, v)
  BY DEF CheckFs, On
<1>2. /\ Nearly(t, a) /\ Through(t, m, a)
      /\ a.res # "OK" => Sound(t, a)
      /\ a.res = "OK" => SameVolume(m.fs, a.fs) /\ a.fs.win = m.disk[sect] /\ a.disk = m.disk
                         /\ Sound(t, a)
  BY DiskReadSound DEF Io
<1> HIDE DEF a
<1>3. a \in Machines /\ v \in Nat
  BY <1>2 DEF Nearly
<1>4. v # 3 => /\ a.fs.fs_type = 0 /\ a.fs.win = m.disk[sect] /\ a.disk = m.disk
               /\ v = IF Part(m.disk[sect][0], 1) # BootSig THEN 2
                      ELSE IF Part(m.disk[sect][0], 2) = 1 THEN 0 ELSE 1
  BY <1>2 DEF SameVolume
<1> HIDE DEF v
<1>5. Still(a, n) /\ n.val = v
  BY <1>1, <1>3, ValStill
<1>6. Sound(t, n) /\ Through(t, a, n) /\ n.fs = a.fs /\ n.disk = a.disk
  BY <1>2, <1>5, StillUp DEF Still, World
<1> QED BY <1>2, <1>4, <1>5, <1>6, ThroughTrans

\* What auto_mount computes from the boot record (ff.c:1427-1459) is where things are.
LEMMA GeometryOk ==
  ASSUME NEW t \in FatTypes, NEW f, VolumeOk(t, f), f.win[0] = BootRecord(t)
  PROVE  LET g == Geometry(f, Layout[t].part) IN
         /\ g \in FATFS /\ Shape(t, g) /\ g.fs_type = f.fs_type /\ g.last_clust = f.last_clust
         /\ g.free_clust = Unknown /\ g.winsect = f.winsect /\ g.wflag = FALSE /\ g.win = f.win
<1> DEFINE l == Layout[t]
           b(i) == Part(f.win[0], i)
           fatarea == b(4) * b(5)
           roots == b(7) \div SS
           max == (b(8) - b(3) - fatarea - roots) \div b(6) + 2
           dirb == IF b(11) = 32 THEN b(9) ELSE l.part + b(3) + fatarea
           datab == l.part + b(3) + fatarea + roots
           flag == IF b(11) = 32 THEN FALSE ELSE f.fsi_flag
           fatb == l.part + b(3)
           fsi == l.part + b(10)
           g == Geometry(f, l.part)
<1>1. f \in FATFS
  BY DEF VolumeOk
<1>2. /\ b(3) = l.rsvd /\ b(4) = l.nfat /\ b(5) = l.fatsz /\ b(6) = l.spc /\ b(7) = l.roots
      /\ b(8) = Sectors(t) - l.part /\ b(9) = l.root /\ b(10) = 1 /\ b(11) = t
  BY DEF Part, BootRecord
<1>3. g = [f EXCEPT !.sects_fat = b(5), !.n_fats = b(4), !.fatbase = fatb, !.csize = b(6),
                    !.n_rootdir = b(7), !.max_clust = max, !.dirbase = dirb, !.database = datab,
                    !.free_clust = Unknown, !.wflag = FALSE, !.fsi_sector = fsi,
                    !.fsi_flag = flag]
  BY DEF Geometry
<1> HIDE DEF g
<1>4. /\ l.part \in Nat /\ l.rsvd \in Nat /\ l.nfat \in Nat /\ l.fatsz \in Nat
      /\ l.spc \in Nat \ {0}
      /\ l.roots \in Nat /\ l.root \in Nat /\ l.clusters \in Nat
  BY Fields
<1>5. /\ fatb = FatBase(t) /\ fatb + fatarea = RootBase(t) /\ datab = DataBase(t)
      /\ l.part + b(3) + fatarea = RootBase(t) /\ fatarea \in Nat /\ roots \in Nat
      /\ roots = l.roots \div SS
  <2>1. fatarea = l.nfat * l.fatsz /\ fatarea \in Nat
    BY <1>2, <1>4, Times
  <2>2. roots \in Nat /\ roots = l.roots \div SS
    BY <1>2, <1>4, FatOpsAssumption, Division
  <2> HIDE DEF fatarea, roots, b
  <2> QED BY <1>2, <1>4, <2>1, <2>2 DEF FatBase, RootBase, DataBase
<1>6. max = MaxClust(t)
  <2>1. l.spc * l.clusters \in Nat /\ l.spc * l.clusters = l.clusters * l.spc
    BY <1>4, Times
  <2>2. b(8) - b(3) - fatarea - roots = l.spc * l.clusters
    <3>1. Sectors(t) = DataBase(t) + l.spc * l.clusters /\ datab = DataBase(t)
      BY <1>5 DEF Sectors
    <3>2. b(8) = DataBase(t) + l.spc * l.clusters - l.part
      <4> DEFINE b8 == b(8)
                 se == Sectors(t)
                 da == DataBase(t)
                 cl == l.spc * l.clusters
                 pa == l.part
      <4>1. b8 = se - pa /\ se = da + cl
        BY <1>2, <3>1
      <4>3. da \in Nat /\ cl \in Nat /\ pa \in Nat
        BY <1>4, <2>1, Bounds
      <4> HIDE DEF b8, se, da, cl, pa
      <4>2. b8 = da + cl - pa
        BY <4>1, <4>3
      <4> QED BY <4>2 DEF b8, da, cl, pa
    <3> DEFINE fa == fatarea
               ro == roots
               cl == l.spc * l.clusters
    <3>3. b(8) = (l.part + b(3) + fa + ro) + cl - l.part /\ fa \in Nat /\ ro \in Nat
          /\ cl \in Nat /\ b(3) \in Nat /\ l.part \in Nat
      BY <1>2, <1>4, <1>5, <2>1, <3>1, <3>2
    <3> HIDE DEF fa, ro, cl, b, l
    <3>4. b(8) - b(3) - fa - ro = cl
      BY <3>3
    <3> QED BY <3>4 DEF fa, ro, cl, l
  <2>3. (l.spc * l.clusters) \div l.spc = l.clusters
    <3> DEFINE q == l.spc
               r == l.clusters
    <3>1. q \in Nat \ {0} /\ r \in Nat /\ q * r \in Nat
      BY <1>4, <2>1
    <3> HIDE DEF q, r
    <3>2. q * r = q * r + 0 /\ 0 \in 0..q-1
      BY <3>1
    <3>3. (q * r) \div q = r
      BY <3>1, <3>2, Quotient
    <3> QED BY <3>3 DEF q, r
  <2>4. max = (l.spc * l.clusters) \div l.spc + 2
    BY <1>2, <2>2
  <2> QED BY <2>3, <2>4 DEF MaxClust
<1>7. dirb = (IF t = 32 THEN l.root ELSE RootBase(t)) /\ fsi = l.part + 1
  BY <1>2, <1>5
<1>8. /\ b(5) \in Nat /\ b(4) \in Nat /\ fatb \in Nat /\ b(6) \in Nat /\ b(7) \in Nat /\ max \in Nat
      /\ dirb \in Nat /\ datab \in Nat /\ Unknown \in Nat /\ fsi \in Nat /\ flag \in BOOLEAN
  <2>1. FatBase(t) \in Nat /\ MaxClust(t) \in Nat /\ DataBase(t) \in Nat /\ RootBase(t) \in Nat
    BY Bounds
  <2>2. flag \in BOOLEAN
    BY <1>1 DEF FATFS
  <2>3. Unknown \in Nat
    BY DiskErrIs DEF Unknown
  <2>4. dirb \in Nat
    BY <1>4, <1>7, <2>1
  <2> HIDE DEF b, fatarea, roots, dirb, flag
  <2> QED BY <1>2, <1>4, <1>5, <1>6, <1>7, <2>1, <2>2, <2>3, <2>4
<1> DEFINE b5 == b(5)
           b4 == b(4)
           b6 == b(6)
           b7 == b(7)
           unk == Unknown
<1>9. /\ b5 \in Nat /\ b4 \in Nat /\ b6 \in Nat /\ b7 \in Nat /\ unk \in Nat
      /\ b5 = l.fatsz /\ b4 = l.nfat /\ b6 = l.spc /\ b7 = l.roots
  BY <1>2, <1>8
<1>10. g = [f EXCEPT !.sects_fat = b5, !.n_fats = b4, !.fatbase = fatb, !.csize = b6,
                    !.n_rootdir = b7, !.max_clust = max, !.dirbase = dirb, !.database = datab,
                    !.free_clust = unk, !.wflag = FALSE, !.fsi_sector = fsi,
                    !.fsi_flag = flag]
  BY <1>3
<1> HIDE DEF b, b5, b4, b6, b7, fatarea, roots, max, dirb, datab, flag, fatb, fsi, unk
<1> DEFINE h == [f EXCEPT !.sects_fat = b5, !.n_fats = b4, !.fatbase = fatb, !.csize = b6,
                     !.n_rootdir = b7, !.max_clust = max]
<1>13. /\ h \in FATFS /\ h.fs_type = f.fs_type /\ h.last_clust = f.last_clust
       /\ h.winsect = f.winsect /\ h.win = f.win
       /\ h.sects_fat = b5 /\ h.n_fats = b4 /\ h.fatbase = fatb /\ h.csize = b6
       /\ h.n_rootdir = b7 /\ h.max_clust = max
  BY <1>1, <1>8, <1>9, ZenonT(30) DEF FATFS
<1>14. g = [h EXCEPT !.dirbase = dirb, !.database = datab, !.free_clust = unk, !.wflag = FALSE,
                     !.fsi_sector = fsi, !.fsi_flag = flag]
  BY <1>10
<1> HIDE DEF h
<1>11. /\ g \in FATFS /\ g.fs_type = f.fs_type /\ g.last_clust = f.last_clust
       /\ g.free_clust = unk /\ g.winsect = f.winsect /\ g.wflag = FALSE /\ g.win = f.win
       /\ g.sects_fat = b5 /\ g.n_fats = b4 /\ g.fatbase = fatb /\ g.csize = b6
       /\ g.n_rootdir = b7 /\ g.max_clust = max /\ g.dirbase = dirb /\ g.database = datab
       /\ g.fsi_sector = fsi
  <2>1. /\ g \in FATFS /\ g.dirbase = dirb /\ g.database = datab /\ g.free_clust = unk
        /\ g.wflag = FALSE /\ g.fsi_sector = fsi
        /\ g.fs_type = h.fs_type /\ g.last_clust = h.last_clust /\ g.winsect = h.winsect
        /\ g.win = h.win /\ g.sects_fat = h.sects_fat /\ g.n_fats = h.n_fats
        /\ g.fatbase = h.fatbase /\ g.csize = h.csize /\ g.n_rootdir = h.n_rootdir
        /\ g.max_clust = h.max_clust
    BY <1>8, <1>9, <1>13, <1>14 DEF FATFS
  <2> QED BY <1>13, <2>1
<1>12. Shape(t, g)
  BY <1>5, <1>6, <1>7, <1>9, <1>11 DEF Shape
<1> QED BY <1>11, <1>12 DEF g, unk

-----------------------------------------------------------------------------
(***************************************************************************)
(* Mounting.                                                               *)
(***************************************************************************)
\* A volume is written into the machine while none is mounted.
LEMMA VolumePut ==
  ASSUME NEW t \in FatTypes, NEW m, Sound(t, m), m.fs.fs_type = 0, NEW f, VolumeOk(t, f),
         f.winsect = 0, ~f.wflag
  PROVE  LET n == PutFs(m, f) IN Sound(t, n) /\ Through(t, m, n) /\ n.fs = f /\ n.res = m.res
                                 /\ n.disk = m.disk /\ n.val = m.val
<1> DEFINE n == PutFs(m, f)
<1>1. m \in Machines /\ f \in FATFS /\ m.fs.winsect = 0
  BY DEF Sound, Nearly, VolumeOk, WindowOk
<1>2. OnlyFs(m, n) /\ n.fs = f
  BY <1>1, FsPut
<1> HIDE DEF n
<1>3. Nearly(t, n)
  BY <1>2 DEF OnlyFs, Sound, Nearly, WindowOk, FaultOk
<1>4. Held(n)
  BY <1>2 DEF Held
<1>5. Through(t, m, n)
  BY <1>1, <1>2 DEF OnlyFs, Through, Kept, Off
<1> QED BY <1>2, <1>3, <1>4, <1>5 DEF Sound, OnlyFs, n

\* Reading FSInfo (ff.c:1457-1467).
LEMMA LoadInfoSound ==
  ASSUME NEW t \in FatTypes, NEW F, Io(t, F), t = 32, NEW m, Sound(t, m), m.fs.fs_type = 0,
         Shape(t, m.fs), ~m.fs.wflag
  PROVE  LET n == LoadInfo(F, m) IN
         Sound(t, n) /\ Through(t, m, n) /\ n.fs.fs_type = 0 /\ Shape(t, n.fs)
<1> DEFINE s == Layout[t].part + 1
           a == DiskRead(F, m, s)
           info == m.disk[s][0]
           free == Part(info, 2)
           latest == Part(info, 3)
           n == LoadInfo(F, m)
<1>1. s \in 0..CardSize-1 /\ m.fs.fsi_sector = s
  <2>1. s \in Nat /\ s < CardSize
    <3>1. Layout[t].part \in Nat /\ Layout[t].part + 1 < FatBase(t) /\ FatBase(t) <= RootBase(t)
      BY Bounds DEF FatEnd
    <3>2. RootBase(t) <= DataBase(t) /\ DataBase(t) <= Sectors(t) /\ Sectors(t) <= CardSize
          /\ FatBase(t) \in Nat /\ RootBase(t) \in Nat /\ DataBase(t) \in Nat /\ Sectors(t) \in Nat
          /\ CardSize \in Nat
      BY Bounds
    <3> QED BY <3>1, <3>2
  <2> QED BY <2>1, Bounds DEF Shape
<1>2. free \in FreeCounts(t) /\ latest \in 0..MaxClust(t)-1
  BY DEF Sound, Nearly, BootOk
<1>3. /\ Through(t, m, a)
      /\ a.res # "OK" => Sound(t, a) /\ a.fs = m.fs
      /\ a.res = "OK" => Sound(t, a) /\ SameVolume(m.fs, a.fs) /\ a.fs.win = m.disk[s]
  <2> HIDE DEF s
  <2> QED BY <1>1, DiskReadSound DEF Io
<1>4. n = IF a.res = "OK" /\ Part(a.fs.win[0], 1) = InfoSig
          THEN [a EXCEPT !.fs.free_clust = Part(a.fs.win[0], 2),
                         !.fs.last_clust = Part(a.fs.win[0], 3)]
          ELSE a
  BY <1>1 DEF LoadInfo, On
<1> HIDE DEF a
<1>5. CASE n = a
  BY <1>3, <1>5 DEF SameVolume, Shape
<1>6. CASE a.res = "OK" /\ n = [a EXCEPT !.fs.free_clust = Part(a.fs.win[0], 2),
                                         !.fs.last_clust = Part(a.fs.win[0], 3)]
  <2> DEFINE f == [a.fs EXCEPT !.free_clust = free, !.last_clust = latest]
  <2>1. n = PutFs(a, f)
    <3>1. free = Part(a.fs.win[0], 2) /\ latest = Part(a.fs.win[0], 3)
      BY <1>3, <1>6
    <3> HIDE DEF free, latest
    <3> QED BY <1>6, <3>1 DEF PutFs
  <2>2. /\ Sound(t, a) /\ a.fs \in FATFS /\ VolumeOk(t, a.fs) /\ a.fs.fs_type = 0
        /\ Shape(t, a.fs) /\ a.fs.winsect = 0 /\ ~a.fs.wflag
    BY <1>3, <1>6 DEF SameVolume, Shape, Sound, Nearly, VolumeOk, WindowOk
  <2>3. free \in Nat /\ latest \in Nat
    BY <1>2, Bounds, DiskErrIs DEF FreeCounts, Unknown
  <2> HIDE DEF free, latest
  <2>4. VolumeOk(t, f) /\ Shape(t, f) /\ f.fs_type = 0 /\ f.winsect = 0 /\ ~f.wflag
    <3>1. /\ f \in FATFS /\ f.fs_type = 0 /\ f.winsect = 0 /\ ~f.wflag /\ f.free_clust = free
          /\ f.last_clust = latest
      BY <2>2, <2>3 DEF FATFS
    <3>2. Shape(t, f)
      BY <2>2, <2>3 DEF FATFS, Shape
    <3> QED BY <1>2, <3>1, <3>2 DEF VolumeOk
  <2> HIDE DEF f
  <2>5. Sound(t, n) /\ Through(t, a, n) /\ n.fs = f
    BY <2>1, <2>2, <2>4, VolumePut
  <2> QED BY <1>3, <2>4, <2>5, ThroughTrans
<1> QED BY <1>4, <1>5, <1>6

\* The volume is mounted from here on.
LEMMA MountedNow ==
  ASSUME NEW t \in FatTypes, NEW m, Sound(t, m), m.fs.fs_type = 0, Shape(t, m.fs)
  PROVE  LET n == Ok([m EXCEPT !.fs.winsect = 0, !.fs.fs_type = t]) IN
         Sound(t, n) /\ Through(t, m, n) /\ Mounted(t, n) /\ n.res = "OK"
<1> DEFINE f == [m.fs EXCEPT !.winsect = 0, !.fs_type = t]
           h == PutFs(m, f)
           n == Ok([m EXCEPT !.fs.winsect = 0, !.fs.fs_type = t])
<1>1. n = Ok(h)
  BY DEF PutFs
<1>2. m.fs \in FATFS /\ VolumeOk(t, m.fs) /\ ~m.fs.wflag /\ t \in Nat
  BY TypeSome DEF Sound, Nearly, VolumeOk, WindowOk
<1>3. VolumeOk(t, f) /\ f.winsect = 0 /\ ~f.wflag /\ f.fs_type = t
  <2>1. f \in FATFS /\ f.winsect = 0 /\ ~f.wflag /\ f.fs_type = t /\ f.free_clust = m.fs.free_clust
        /\ f.last_clust = m.fs.last_clust
    BY <1>2 DEF FATFS
  <2>2. Shape(t, f)
    BY <1>2 DEF FATFS, Shape
  <2> QED BY <1>2, <2>1, <2>2 DEF VolumeOk
<1> HIDE DEF f
<1>4. Sound(t, h) /\ Through(t, m, h) /\ h.fs = f
  BY <1>3, VolumePut
<1> HIDE DEF h
<1>5. h \in Machines
  BY <1>4 DEF Sound, Nearly
<1>6. Still(h, Ok(h)) /\ Ok(h).res = "OK"
  BY <1>5, OkStill
<1>7. Sound(t, Ok(h)) /\ Through(t, h, Ok(h)) /\ Ok(h).fs = f
  BY <1>4, <1>6, StillUp
<1>8. Mounted(t, Ok(h))
  BY <1>3, <1>7 DEF Mounted
<1> QED BY <1>1, <1>4, <1>6, <1>7, <1>8, ThroughTrans

\* The two sectors a mount looks at.
LEMMA BootSectors ==
  ASSUME NEW t \in FatTypes, NEW m, Sound(t, m)
  PROVE  /\ 0 \in 0..CardSize-1 /\ Layout[t].part \in 0..CardSize-1
         /\ Part(m.disk[Layout[t].part][0], 1) = BootSig
         /\ Part(m.disk[Layout[t].part][0], 2) = 1
         /\ m.disk[Layout[t].part][0] = BootRecord(t)
         /\ Layout[t].part # 0 => /\ Part(m.disk[0][0], 1) = BootSig
                                  /\ Part(m.disk[0][0], 2) # 1
                                  /\ Part(m.disk[0][0], 3) = Layout[t].part
<1> DEFINE p == Layout[t].part
<1>1. p \in Nat /\ p < CardSize /\ CardSize \in Nat
  <2>1. p \in Nat /\ p < FatBase(t) /\ FatBase(t) <= RootBase(t)
    <3>1. FatEnd(t) = FatBase(t) + Layout[t].fatsz /\ Layout[t].fatsz \in Nat /\ p \in Nat
          /\ p < FatBase(t) /\ FatEnd(t) <= RootBase(t) /\ FatBase(t) \in Nat /\ RootBase(t) \in Nat
      BY Bounds DEF FatEnd
    <3> HIDE DEF p
    <3> QED BY <3>1
  <2>2. RootBase(t) <= DataBase(t) /\ DataBase(t) <= Sectors(t) /\ Sectors(t) <= CardSize
        /\ FatBase(t) \in Nat /\ RootBase(t) \in Nat /\ DataBase(t) \in Nat /\ Sectors(t) \in Nat
        /\ CardSize \in Nat
    BY Bounds
  <2> HIDE DEF p
  <2> QED BY <2>1, <2>2
<1>2. m.disk[0][0] = Cell(t, 0, 0) /\ m.disk[p][0] = Cell(t, p, 0)
  BY DEF Sound, Nearly, BootOk
<1>3. m.disk[p][0] = BootRecord(t) /\ (p # 0 => m.disk[0][0] = <<BootSig, 0, p>>)
  BY <1>2, BootCells
<1>4. Part(BootRecord(t), 1) = BootSig /\ Part(BootRecord(t), 2) = 1
  BY DEF Part, BootRecord
<1>5. LET c == <<BootSig, 0, p>> IN Part(c, 1) = BootSig /\ Part(c, 2) # 1 /\ Part(c, 3) = p
  BY DEF Part
<1> HIDE DEF p
<1>6. 0 \in 0..CardSize-1 /\ p \in 0..CardSize-1
  BY <1>1
<1>7. Part(m.disk[p][0], 1) = BootSig /\ Part(m.disk[p][0], 2) = 1
  BY <1>3, <1>4
<1>8. p # 0 => /\ Part(m.disk[0][0], 1) = BootSig /\ Part(m.disk[0][0], 2) # 1
               /\ Part(m.disk[0][0], 3) = p
  BY <1>3, <1>5
<1> QED BY <1>3, <1>6, <1>7, <1>8 DEF p

\* auto_mount (ff.c:1354-1475).
LEMMA AutoMountSound ==
  ASSUME NEW t \in FatTypes, NEW F, Io(t, F), NEW m, Sound(t, m)
  PROVE  LET n == AutoMount(F, m) IN
         /\ Sound(t, n) /\ Through(t, m, n) /\ n.res # "NO_FILE"
         /\ n.res = "OK" => Mounted(t, n)
<1> DEFINE n == AutoMount(F, m)
           p == Layout[t].part
           m0 == [m EXCEPT !.fs.fs_type = 0]
           first == CheckFs(F, m0, 0)
           bsect == IF first.val = 1 THEN Part(first.fs.win[0], 3) ELSE 0
           boot == IF bsect # 0 THEN CheckFs(F, first, bsect) ELSE first
           kind == Part(boot.fs.win[0], 11)
           geo == [boot EXCEPT !.fs = Geometry(boot.fs, bsect)]
           info == IF kind = 32 THEN LoadInfo(F, geo) ELSE geo
           done == Ok([info EXCEPT !.fs.winsect = 0, !.fs.fs_type = kind])
<1>1. m \in Machines /\ m.fs.fs_type \in {0, t} /\ m.fs \in FATFS
  BY DEF Sound, Nearly, VolumeOk
<1>2. CASE m.fs.fs_type # 0
  <2>1. n = Ok(m)
    BY <1>2 DEF AutoMount
  <2>2. Still(m, n) /\ n.res = "OK"
    BY <1>1, <2>1, OkStill
  <2>3. Sound(t, n) /\ Through(t, m, n) /\ n.fs = m.fs
    BY <2>2, StillUp
  <2> QED BY <1>1, <1>2, <2>2, <2>3 DEF Mounted
<1>3. CASE m.fs.fs_type = 0
  <2>1. m0 = m
    <3>1. [m.fs EXCEPT !.fs_type = 0] = m.fs
      BY <1>1, <1>3 DEF FATFS
    <3> QED BY <1>1, <3>1 DEF Machines
  <2>2. n = IF m.fault = [kind |-> "pull", left |-> 0] THEN Fail(m, "NOT_READY")
            ELSE IF boot.val = 3 THEN Fail(boot, "DISK_ERR")
            ELSE IF boot.val # 0 THEN Fail(boot, "NO_FILESYSTEM")
            ELSE done
    BY <1>3 DEF AutoMount, On
  <2> HIDE DEF m0
  <2>3. /\ Sound(t, first) /\ Through(t, m, first)
        /\ first.val # 3 => /\ first.fs.fs_type = 0 /\ first.fs.win = m.disk[0]
                            /\ first.disk = m.disk
                            /\ first.val = IF p = 0 THEN 0 ELSE 1
    <3>1. 0 \in 0..CardSize-1
      BY BootSectors
    <3>2. /\ Sound(t, first) /\ Through(t, m, first)
          /\ first.val # 3 =>
              /\ first.fs.fs_type = 0 /\ first.fs.win = m.disk[0] /\ first.disk = m.disk
              /\ first.val = IF Part(m.disk[0][0], 1) # BootSig THEN 2
                             ELSE IF Part(m.disk[0][0], 2) = 1 THEN 0 ELSE 1
      BY <1>3, <2>1, <3>1, CheckFsSound
    <3> HIDE DEF first
    <3>3. IF p = 0 THEN Part(m.disk[0][0], 1) = BootSig /\ Part(m.disk[0][0], 2) = 1
          ELSE Part(m.disk[0][0], 1) = BootSig /\ Part(m.disk[0][0], 2) # 1
      BY BootSectors
    <3> QED BY <3>2, <3>3
  <2> HIDE DEF first
  <2>4. first.val # 3 => bsect = p
    <3>1. p # 0 => Part(m.disk[0][0], 3) = p
      BY BootSectors
    <3> QED BY <2>3, <3>1
  <2>5. /\ Sound(t, boot) /\ Through(t, m, boot)
        /\ boot.val # 3 => /\ boot.val = 0 /\ boot.fs.fs_type = 0 /\ bsect = p
                           /\ boot.fs.win[0] = BootRecord(t)
    <3>1. CASE first.val = 3
      BY <2>3, <3>1
    <3>2. CASE first.val # 3 /\ p = 0
      <4>1. first.fs.win[0] = BootRecord(t)
        BY <2>3, <3>2, BootSectors
      <4> QED BY <2>3, <2>4, <3>2, <4>1
    <3>3. CASE first.val # 3 /\ p # 0
      <4>1. boot = CheckFs(F, first, p)
        BY <2>4, <3>3
      <4>2. p \in 0..CardSize-1 /\ Part(first.disk[p][0], 1) = BootSig
            /\ Part(first.disk[p][0], 2) = 1 /\ first.disk[p][0] = BootRecord(t)
        BY <2>3, BootSectors
      <4> DEFINE b == CheckFs(F, first, p)
      <4>3. /\ Sound(t, b) /\ Through(t, first, b)
            /\ b.val # 3 =>
              /\ b.fs.fs_type = 0 /\ b.fs.win = first.disk[p]
              /\ b.val = IF Part(first.disk[p][0], 1) # BootSig THEN 2
                         ELSE IF Part(first.disk[p][0], 2) = 1 THEN 0 ELSE 1
        <5> HIDE DEF p
        <5> QED BY <2>3, <3>3, <4>2, CheckFsSound
      <4> HIDE DEF b
      <4>4. Through(t, m, b)
        BY <2>3, <4>3, ThroughTrans
      <4> QED BY <2>4, <3>3, <4>1, <4>2, <4>3, <4>4 DEF b
    <3> QED BY <3>1, <3>2, <3>3
  <2> HIDE DEF boot, bsect
  <2>6. boot \in Machines
    BY <2>5 DEF Sound, Nearly
  <2>7. CASE n = Fail(m, "NOT_READY")
    <3>1. "NOT_READY" \in FRESULT
      BY DEF FRESULT
    <3>2. Still(m, n) /\ n.res = "NOT_READY"
      BY <1>1, <2>7, <3>1, FailStill
    <3> QED BY <3>2, StillUp
  <2>8. ASSUME NEW r \in {"DISK_ERR", "NO_FILESYSTEM"}, n = Fail(boot, r)
        PROVE  Sound(t, n) /\ Through(t, m, n) /\ n.res # "OK" /\ n.res # "NO_FILE"
    <3>1. r \in FRESULT
      BY DEF FRESULT
    <3>2. Still(boot, n) /\ n.res = r
      BY <2>6, <2>8, <3>1, FailStill
    <3>3. Sound(t, n) /\ Through(t, boot, n)
      BY <2>5, <3>2, StillUp
    <3> QED BY <2>5, <3>2, <3>3, ThroughTrans
  <2>9. CASE n = done /\ boot.val = 0
    <3> DEFINE g == Geometry(boot.fs, p)
    <3>1. /\ boot.fs.fs_type = 0 /\ bsect = p /\ boot.fs.win[0] = BootRecord(t)
      BY <2>5, <2>9
    <3>2. kind = t
      BY <3>1 DEF Part, BootRecord
    <3>3. VolumeOk(t, boot.fs) /\ boot.fs.winsect = 0
      BY <2>5, <3>1 DEF Sound, Nearly, WindowOk
    <3>4. VolumeOk(t, g) /\ Shape(t, g) /\ g.fs_type = 0 /\ g.winsect = 0 /\ ~g.wflag
      BY <3>1, <3>3, GeometryOk DEF VolumeOk, FreeCounts
    <3>5. geo = PutFs(boot, g)
      BY <3>1 DEF PutFs
    <3> HIDE DEF g, kind, geo
    <3>6. Sound(t, geo) /\ Through(t, boot, geo) /\ geo.fs = g
      BY <2>5, <3>1, <3>4, <3>5, VolumePut
    <3>7. Sound(t, info) /\ Through(t, geo, info) /\ info.fs.fs_type = 0 /\ Shape(t, info.fs)
      <4>1. CASE t = 32
        BY <3>2, <3>4, <3>6, <4>1, LoadInfoSound
      <4>2. CASE t # 32
        BY <3>2, <3>4, <3>6, <4>2, KeptRefl
      <4> QED BY <4>1, <4>2
    <3> HIDE DEF info
    <3>8. Sound(t, done) /\ Through(t, info, done) /\ Mounted(t, done) /\ done.res = "OK"
      BY <3>2, <3>7, MountedNow
    <3>9. Through(t, m, done)
      BY <2>5, <3>6, <3>7, <3>8, ThroughTrans
    <3> QED BY <2>9, <3>8, <3>9
  <2> QED BY <2>2, <2>7, <2>8, <2>9
<1> QED BY <1>1, <1>2, <1>3

-----------------------------------------------------------------------------
(***************************************************************************)
(* Opening a file.                                                         *)
(***************************************************************************)
\* A file object whose sectors are in the volume; a reader stays inside the file.
FileOk(t, p) ==
  /\ p \in FIL
  /\ p.dir_sect \in Vol(t) /\ p.dir_idx \in 0..SS-1 /\ p.dsect \in {0} \cup Vol(t)
  /\ (p.fptr % SS) # 0 => p.dsect # 0
  /\ p.mode = "r" => p.fptr <= p.fsize

\* No file is a file object.
LEMMA NoFilTyped == NoFil \in FIL
BY DEF NoFil, FIL

\* A file object as f_open makes it.
LEMMA NewFil ==
  ASSUME NEW mode \in {"r", "w"}, NEW written \in BOOLEAN
  PROVE  LET p == [NoFil EXCEPT !.open = TRUE, !.mode = mode, !.written = written] IN
         p \in FIL /\ p.open /\ p.mode = mode /\ p.fptr = 0 /\ p.dsect = 0
<1>1. NoFil.fptr = 0 /\ NoFil.dsect = 0
  BY DEF NoFil
<1> QED BY <1>1, NoFilTyped DEF FIL

\* f_open once it has the entry (ff.c:1630-1641).
LEMMA OpenedUp ==
  ASSUME NEW t \in FatTypes, NEW m, Up(t, m), DirAt(t, m.dj), m.fs.winsect = m.dj.sect,
         NEW mode \in {"r", "w"}, NEW written \in BOOLEAN
  PROVE  LET n == Opened(m, mode, written) IN
         /\ Up(t, n) /\ Live(t, n) /\ Kept(t, m, n) /\ n.res = "OK"
         /\ FileOk(t, n.fp) /\ n.fp.open /\ n.fp.mode = mode /\ n.fp.fptr = 0
         /\ n.data = m.data
<1> DEFINE s == m.fs.winsect
           i == m.dj.index % SS
           c == Part(Entry(m), 3)
           z == Part(Entry(m), 4)
           p == [NoFil EXCEPT !.open = TRUE, !.mode = mode, !.written = written,
                              !.dir_sect = s, !.dir_idx = i, !.org_clust = c, !.fsize = z]
           h == [m EXCEPT !.fp = p]
           n == Opened(m, mode, written)
<1>1. m \in Machines /\ m.dj \in DIR
  BY UpFields
<1>2. s \in Vol(t) /\ s # 0 /\ i \in 0..SS-1
  BY <1>1, DirSects
<1>3. c \in Nat /\ z \in Nat
  <2>1. \A k \in Nat \ {0} : Part(Entry(m), k) \in Nat
    BY EntryTyped
  <2> QED BY <2>1
<1>4. n = Ok(h)
  BY DEF Opened
<1>5. s \in Nat /\ i \in Nat
  BY <1>2, Bounds DEF Vol
<1> HIDE DEF c, z
<1>6. FileOk(t, p) /\ p \in FIL /\ p.open /\ p.mode = mode /\ p.fptr = 0
  <2> HIDE DEF s, i
  <2>1. p \in FIL /\ p.open /\ p.mode = mode /\ p.fptr = 0 /\ p.dir_sect = s /\ p.dir_idx = i
        /\ p.dsect = 0 /\ p.fsize = z
    <3> DEFINE q == [NoFil EXCEPT !.open = TRUE, !.mode = mode, !.written = written]
    <3>0. q \in FIL /\ q.open /\ q.mode = mode /\ q.fptr = 0 /\ q.dsect = 0
      BY NewFil
    <3>1. p = [q EXCEPT !.dir_sect = s, !.dir_idx = i, !.org_clust = c, !.fsize = z]
      OBVIOUS
    <3> HIDE DEF p, q
    <3> QED BY <1>3, <1>5, <3>0, <3>1 DEF FIL
  <2> HIDE DEF p
  <2>2. (0 % SS) = 0
    BY Bounds
  <2> QED BY <1>2, <1>3, <2>1, <2>2 DEF FileOk
<1> HIDE DEF p
<1>7. World(m, h) /\ h.fp = p /\ h.data = m.data
  BY <1>1, <1>6, SetFp
<1> HIDE DEF h
<1>8. h \in Machines
  BY <1>7 DEF World
<1>9. Still(h, n) /\ n.res = "OK" /\ n.data = h.data
  BY <1>4, <1>8, OkStill
<1>10. n.fp = p /\ n.fs = m.fs
  BY <1>7, <1>9 DEF Still, World
<1>11. Up(t, h) /\ Kept(t, m, h)
  BY <1>7, WorldSound
<1>12. Up(t, n) /\ Through(t, h, n)
  BY <1>9, <1>11, StillUp
<1>13. Kept(t, m, n)
  BY <1>11, <1>12, KeptTrans DEF Through
<1>14. Live(t, n)
  BY <1>2, <1>10 DEF Live
<1> QED BY <1>6, <1>7, <1>9, <1>10, <1>12, <1>13, <1>14

\* f_open (ff.c:1553-1642).
LEMMA FOpenSound ==
  ASSUME NEW t \in FatTypes, NEW F, DirIo(t, F), ScanGood(t, F), NEW m, Sound(t, m),
         NEW name \in Nat, NEW mode \in {"r", "w"}
  PROVE  LET n == FOpen(F, m, name, mode) IN
         /\ Sound(t, n) /\ Kept(t, m, n)
         /\ n.res = "OK" => /\ Up(t, n) /\ Live(t, n) /\ FileOk(t, n.fp) /\ n.fp.open
                            /\ n.fp.mode = mode /\ n.fp.fptr = 0
         /\ n.res # "OK" => n.fp = NoFil
<1> DEFINE n == FOpen(F, m, name, mode)
           shut == [m EXCEPT !.fp = NoFil]
           auto == AutoMount(F, shut)
           found == IF auto.res = "OK" THEN FollowPath(F, auto, name) ELSE auto
           reg == DirRegister(F, found, name)
           dir == Part(Entry(found), 2)
           no == IF mode = "w" THEN "DENIED" ELSE "NO_FILE"
           Good(x) == /\ Sound(t, x) /\ Kept(t, m, x)
                      /\ x.res = "OK" => /\ Up(t, x) /\ Live(t, x) /\ FileOk(t, x.fp) /\ x.fp.open
                                         /\ x.fp.mode = mode /\ x.fp.fptr = 0
                      /\ x.res # "OK" => x.fp = NoFil
<1>1. n = IF mode = "w" /\ found.res = "NO_FILE"
          THEN IF reg.res = "OK" THEN Opened(reg, mode, TRUE) ELSE reg
          ELSE IF found.res = "OK"
          THEN IF dir = 1 THEN Fail(found, no) ELSE Opened(found, mode, FALSE)
          ELSE found
  BY DEF FOpen, Then, On
<1>2. Sound(t, shut) /\ Kept(t, m, shut) /\ shut.fp = NoFil
  <2>1. m \in Machines
    BY DEF Sound, Nearly
  <2>2. World(m, shut) /\ shut.fp = NoFil
    BY <2>1, NoFilTyped, SetFp
  <2> HIDE DEF shut
  <2> QED BY <2>2, WorldSound
<1> HIDE DEF shut
<1>3. /\ Sound(t, auto) /\ Through(t, shut, auto) /\ auto.res # "NO_FILE"
      /\ auto.res = "OK" => Mounted(t, auto)
  BY <1>2, AutoMountSound DEF DirIo
<1> HIDE DEF auto
<1>4. Sound(t, auto) /\ Kept(t, m, auto) /\ auto.fp = NoFil /\ (auto.res = "OK" => Up(t, auto))
  BY <1>2, <1>3, KeptTrans DEF Through, Up
<1>5. /\ Sound(t, found) /\ Kept(t, m, found) /\ found.fp = NoFil
      /\ auto.res = "OK" =>
           /\ Up(t, found)
           /\ found.res = "OK" => DirAt(t, found.dj) /\ found.fs.winsect = found.dj.sect
  <2>1. CASE auto.res # "OK"
    BY <1>4, <2>1
  <2>2. CASE auto.res = "OK"
    <3> DEFINE x == FollowPath(F, auto, name)
    <3>1. /\ Up(t, x) /\ Aside(t, auto, x)
          /\ x.res = "OK" => DirAt(t, x.dj) /\ x.fs.winsect = x.dj.sect
      BY <1>4, <2>2, FollowPathUp
    <3>2. found = x
      BY <2>2
    <3> HIDE DEF x, found
    <3> QED BY <1>4, <3>1, <3>2, KeptTrans DEF Aside, Up
  <2> QED BY <2>1, <2>2
<1>6. found.res \in {"OK", "NO_FILE"} => auto.res = "OK"
  BY <1>3
<1> HIDE DEF found
<1>7. CASE n = found /\ found.res # "OK"
  BY <1>5, <1>7
<1>8. CASE n = Fail(found, no) /\ found.res = "OK"
  <2>1. no \in FRESULT /\ no # "OK"
    BY ResNames
  <2> HIDE DEF no
  <2>2. found \in Machines
    BY <1>5 DEF Sound, Nearly
  <2>3. Still(found, n) /\ n.res = no
    BY <1>8, <2>1, <2>2, FailStill
  <2>4. Sound(t, n) /\ Through(t, found, n)
    BY <1>5, <2>3, StillUp
  <2>5. Kept(t, m, n) /\ n.fp = NoFil
    BY <1>5, <2>4, KeptTrans DEF Through
  <2> QED BY <2>1, <2>3, <2>4, <2>5
<1>9. ASSUME NEW x, Up(t, x), Kept(t, m, x), DirAt(t, x.dj), x.fs.winsect = x.dj.sect,
             NEW w \in BOOLEAN
      PROVE  Good(Opened(x, mode, w))
  <2> DEFINE o == Opened(x, mode, w)
  <2>1. /\ Up(t, o) /\ Live(t, o) /\ Kept(t, x, o) /\ o.res = "OK"
        /\ FileOk(t, o.fp) /\ o.fp.open /\ o.fp.mode = mode /\ o.fp.fptr = 0
    BY <1>9, OpenedUp
  <2> HIDE DEF o
  <2>2. Kept(t, m, o)
    BY <1>9, <2>1, KeptTrans
  <2>3. Good(o)
    BY <2>1, <2>2 DEF Up
  <2> QED BY <2>3 DEF o
<1>10. CASE n = Opened(found, mode, FALSE) /\ found.res = "OK"
  <2>1. Good(Opened(found, mode, FALSE))
    <3> HIDE DEF Good
    <3> QED BY <1>5, <1>6, <1>9, <1>10
  <2>2. Good(n)
    BY <1>10, <2>1
  <2> QED BY <2>2
<1>11. CASE n = (IF reg.res = "OK" THEN Opened(reg, mode, TRUE) ELSE reg) /\ found.res = "NO_FILE"
  <2>1. /\ Up(t, reg) /\ Aside(t, found, reg)
        /\ reg.res = "OK" => DirAt(t, reg.dj) /\ reg.fs.winsect = reg.dj.sect
    BY <1>5, <1>6, <1>11, DirRegisterUp
  <2> HIDE DEF reg
  <2>2. Kept(t, m, reg) /\ reg.fp = NoFil
    BY <1>5, <2>1, KeptTrans DEF Aside
  <2>3. CASE reg.res = "OK"
    <3>1. Good(Opened(reg, mode, TRUE))
      <4> HIDE DEF Good
      <4> QED BY <1>9, <2>1, <2>2, <2>3
    <3>2. Good(n)
      BY <1>11, <2>3, <3>1
    <3> QED BY <3>2
  <2>4. CASE reg.res # "OK"
    BY <1>11, <2>1, <2>2, <2>4 DEF Up
  <2> QED BY <2>3, <2>4
<1> QED BY <1>1, <1>7, <1>8, <1>10, <1>11

-----------------------------------------------------------------------------
(***************************************************************************)
(* Files: clusters.                                                        *)
(***************************************************************************)
\* A mounted volume with an open file, and what calls with it keep.
FileUp(t, m) == Up(t, m) /\ Live(t, m) /\ FileOk(t, m.fp)
Handled(t, m, n) ==
  FileUp(t, n) /\ Kept(t, m, n) /\ n.fp.open = m.fp.open /\ n.fp.mode = m.fp.mode

\* q addresses what p does.
SameFile(p, q) ==
  /\ q \in FIL /\ q.dir_sect = p.dir_sect /\ q.dir_idx = p.dir_idx /\ q.dsect = p.dsect
  /\ q.fptr = p.fptr /\ q.fsize = p.fsize /\ q.mode = p.mode /\ q.open = p.open
PutFp(m, p) == [m EXCEPT !.fp = p]

\* What two calls keep of a file, both keep.
LEMMA HandledTrans ==
  ASSUME NEW t, NEW m, NEW n, NEW p, Handled(t, m, n), Handled(t, n, p)
  PROVE  Handled(t, m, p)
BY KeptTrans DEF Handled

\* Doing nothing keeps it.
LEMMA HandledRefl ==
  ASSUME NEW t, NEW m, FileUp(t, m)
  PROVE  Handled(t, m, m)
BY KeptRefl DEF Handled

\* Sectors of the volume are not sector 0.
LEMMA VolNat ==
  ASSUME NEW t \in FatTypes, NEW s \in Vol(t)
  PROVE  s \in Nat /\ s # 0
<1>1. FatBase(t) \in Nat /\ Layout[t].part \in Nat /\ Layout[t].part < FatBase(t)
      /\ Sectors(t) \in Nat
  BY Bounds
<1> QED BY <1>1 DEF Vol

\* A file object that addresses the same is as good.
LEMMA FileSame ==
  ASSUME NEW t, NEW p, NEW q, FileOk(t, p), SameFile(p, q)
  PROVE  FileOk(t, q)
BY DEF FileOk, SameFile

\* Another file object, all else the same.
LEMMA FpPut ==
  ASSUME NEW t, NEW m \in Machines, NEW p \in FIL
  PROVE  LET n == PutFp(m, p) IN
         /\ World(m, n) /\ n.fp = p /\ n.dj = m.dj /\ n.res = m.res /\ n.val = m.val
         /\ n.data = m.data /\ n.fs = m.fs /\ n.disk = m.disk /\ n \in Machines
         /\ Kept(t, m, n) /\ (Up(t, m) => Up(t, n)) /\ (Live(t, m) => Live(t, n))
         /\ (Nearly(t, m) => Nearly(t, n))
<1> DEFINE n == PutFp(m, p)
<1>1. World(m, n) /\ n.fp = p /\ n.dj = m.dj /\ n.res = m.res /\ n.val = m.val /\ n.data = m.data
  BY SetFp DEF PutFp
<1> HIDE DEF n
<1>2. n.fs = m.fs /\ n.disk = m.disk /\ n \in Machines
  BY <1>1 DEF World
<1>3. Kept(t, m, n) /\ (Up(t, m) => Up(t, n)) /\ (Live(t, m) => Live(t, n))
      /\ (Nearly(t, m) => Nearly(t, n))
  BY <1>1, WorldSound
<1> QED BY <1>1, <1>2, <1>3 DEF n

\* The machine but for what a call returns and for fields of the file that
\* address nothing.
LEMMA FileKept ==
  ASSUME NEW t \in FatTypes, NEW m, FileUp(t, m), NEW p, SameFile(m.fp, p)
  PROVE  Handled(t, m, PutFp(m, p)) /\ PutFp(m, p).fp = p /\ PutFp(m, p).res = m.res
         /\ PutFp(m, p).val = m.val /\ PutFp(m, p).fs = m.fs
<1> DEFINE n == PutFp(m, p)
<1>1. m \in Machines /\ p \in FIL
  BY UpFields DEF FileUp, SameFile
<1>2. /\ n.fp = p /\ n.res = m.res /\ n.val = m.val /\ n.fs = m.fs
      /\ Kept(t, m, n) /\ Up(t, n) /\ Live(t, n)
  BY <1>1, FpPut DEF FileUp
<1> HIDE DEF n
<1>3. Handled(t, m, n)
  BY <1>2, FileSame DEF FileUp, Handled, SameFile
<1> QED BY <1>2, <1>3 DEF n

\* Calls that leave disk, volume and file.
LEMMA StillFile ==
  ASSUME NEW t, NEW m, NEW n, FileUp(t, m), Still(m, n)
  PROVE  Handled(t, m, n) /\ n.fp = m.fp /\ n.fs = m.fs
<1>1. Up(t, n) /\ Live(t, n) /\ Kept(t, m, n) /\ n.fs = m.fs
  BY StillUp DEF FileUp, Through
<1> QED BY <1>1 DEF Still, Handled, FileUp

\* Calls that leave the file.
LEMMA ThroughFile ==
  ASSUME NEW t, NEW m, NEW n, FileUp(t, m), Up(t, n), Through(t, m, n)
  PROVE  Handled(t, m, n) /\ n.fp = m.fp
BY KeptLive DEF FileUp, Handled, Through, Up

\* Setting a result leaves the file.
LEMMA FileResults ==
  ASSUME NEW t \in FatTypes, NEW m, FileUp(t, m)
  PROVE  /\ Handled(t, m, Ok(m)) /\ Ok(m).res = "OK" /\ Ok(m).fp = m.fp /\ Ok(m).fs = m.fs
         /\ \A r \in FRESULT : Handled(t, m, Fail(m, r)) /\ Fail(m, r).res = r
                               /\ Fail(m, r).fp = m.fp
         /\ \A v \in Nat : Handled(t, m, Val(m, v)) /\ Val(m, v).val = v /\ Val(m, v).fp = m.fp
<1>1. m \in Machines
  BY UpFields DEF FileUp
<1>2. Handled(t, m, Ok(m)) /\ Ok(m).res = "OK" /\ Ok(m).fp = m.fp /\ Ok(m).fs = m.fs
  BY <1>1, OkStill, StillFile
<1>3. ASSUME NEW r \in FRESULT
      PROVE  Handled(t, m, Fail(m, r)) /\ Fail(m, r).res = r /\ Fail(m, r).fp = m.fp
  BY <1>1, FailStill, StillFile
<1>4. ASSUME NEW v \in Nat
      PROVE  Handled(t, m, Val(m, v)) /\ Val(m, v).val = v /\ Val(m, v).fp = m.fp
  BY <1>1, ValStill, StillFile
<1> QED BY <1>2, <1>3, <1>4

\* An aborted file addresses what it did.
LEMMA AbortFile ==
  ASSUME NEW t \in FatTypes, NEW m, FileUp(t, m), NEW r \in FRESULT
  PROVE  Handled(t, m, Abort(m, r)) /\ Abort(m, r).res = r /\ SameFile(m.fp, Abort(m, r).fp)
<1> DEFINE n == Abort(m, r)
<1>1. m \in Machines /\ m.fp \in FIL
  BY UpFields DEF FileUp
<1>2. World(m, n) /\ n.fp = [m.fp EXCEPT !.err = TRUE] /\ n.res = r
  BY <1>1, Aborts
<1> HIDE DEF n
<1>3. SameFile(m.fp, n.fp)
  BY <1>1, <1>2 DEF FIL, SameFile
<1>4. Up(t, n) /\ Live(t, n) /\ Kept(t, m, n)
  BY <1>2, WorldSound DEF FileUp
<1>5. Handled(t, m, n)
  BY <1>3, <1>4, FileSame DEF FileUp, Handled, SameFile
<1> QED BY <1>2, <1>3, <1>5 DEF n

\* An error of the volume aborts the file.
LEMMA GuardedFile ==
  ASSUME NEW t \in FatTypes, NEW m, FileUp(t, m)
  PROVE  LET n == Guarded(m) IN
         Handled(t, m, n) /\ n.res = m.res /\ (n.res = "OK" => n = m)
<1>1. CASE m.res = "OK"
  BY <1>1, HandledRefl DEF Guarded
<1>2. CASE m.res # "OK"
  <2>1. Guarded(m) = Abort(m, m.res)
    BY <1>2 DEF Guarded
  <2>2. m.res \in FRESULT
    BY UpFields DEF FileUp
  <2>3. Handled(t, m, Abort(m, m.res)) /\ Abort(m, m.res).res = m.res
    BY <2>2, AbortFile
  <2> QED BY <1>2, <2>1, <2>3
<1> QED BY <1>1, <1>2

\* Moving the window for a file.
LEMMA MoveFile ==
  ASSUME NEW t \in FatTypes, NEW F, Io(t, F), NEW m, FileUp(t, m), NEW sect \in {0} \cup Vol(t)
  PROVE  LET n == Guarded(MoveWindow(F, m, sect)) IN
         /\ Handled(t, m, n)
         /\ n.res = "OK" => n.fp = m.fp /\ (sect # 0 => n.fs.winsect = sect)
<1> DEFINE w == MoveWindow(F, m, sect)
           n == Guarded(w)
<1>1. Up(t, w) /\ Through(t, m, w) /\ (w.res = "OK" /\ sect # 0 => w.fs.winsect = sect)
  BY MoveUp DEF FileUp
<1> HIDE DEF w
<1>2. Handled(t, m, w) /\ w.fp = m.fp
  BY <1>1, ThroughFile
<1>3. Handled(t, w, n) /\ n.res = w.res /\ (n.res = "OK" => n = w)
  BY <1>2, GuardedFile DEF Handled
<1>4. Handled(t, m, n)
  BY <1>2, <1>3, HandledTrans
<1> QED BY <1>1, <1>2, <1>3, <1>4 DEF w

-----------------------------------------------------------------------------
\* The cluster that a write goes on in (ff.c:1764-1777).
LEMMA WriteClusterUp ==
  ASSUME NEW t \in FatTypes, NEW F, DirIo(t, F), NEW m, FileUp(t, m)
  PROVE  LET n == WriteCluster(F, m) IN
         Handled(t, m, n) /\ SameFile(m.fp, n.fp) /\ n.val \in Nat
<1>1. /\ m.fp \in FIL /\ m.fp.curr_clust \in Nat /\ m.fp.org_clust \in Nat
      /\ m.fp.fptr \in Nat
  BY UpFields DEF FileUp, FIL
<1>2. SameFile(m.fp, m.fp)
  BY <1>1 DEF SameFile
<1>3. ASSUME NEW c \in Nat
      PROVE  LET a == CreateChain(F, m, c) IN Handled(t, m, a) /\ a.fp = m.fp /\ a.val \in Nat
  <2> DEFINE a == CreateChain(F, m, c)
  <2>1. Up(t, a) /\ Through(t, m, a)
    BY CreateChainUp DEF DirIo, FileUp
  <2> HIDE DEF a
  <2>2. Handled(t, m, a) /\ a.fp = m.fp /\ a.val \in Nat
    BY <2>1, ThroughFile, UpFields
  <2> QED BY <2>2 DEF a
<1>4. CASE m.fp.fptr > 0
  <2>1. WriteCluster(F, m) = CreateChain(F, m, m.fp.curr_clust)
    BY <1>1, <1>4 DEF WriteCluster, On
  <2> QED BY <1>1, <1>2, <1>3, <2>1
<1>5. CASE ~(m.fp.fptr > 0) /\ m.fp.org_clust # 0
  <2>1. WriteCluster(F, m) = Val(m, m.fp.org_clust)
    BY <1>1, <1>5 DEF WriteCluster
  <2> QED BY <1>1, <1>2, <2>1, FileResults
<1>6. CASE ~(m.fp.fptr > 0) /\ m.fp.org_clust = 0
  <2> DEFINE a == CreateChain(F, m, 0)
             v == a.val
             p == [a.fp EXCEPT !.org_clust = v]
  <2>1. WriteCluster(F, m) = PutFp(a, p)
    BY <1>1, <1>6 DEF WriteCluster, On, PutFp
  <2>2. Handled(t, m, a) /\ a.fp = m.fp /\ a.val \in Nat
    BY <1>3
  <2> HIDE DEF a
  <2>3. SameFile(m.fp, p)
    <3>1. v \in Nat
      BY <2>2
    <3> HIDE DEF v
    <3> QED BY <1>1, <2>2, <3>1 DEF SameFile, FIL
  <2> HIDE DEF p
  <2>4. Handled(t, a, PutFp(a, p)) /\ PutFp(a, p).fp = p /\ PutFp(a, p).val = a.val
    BY <2>2, <2>3, FileKept DEF Handled
  <2> QED BY <2>1, <2>2, <2>3, <2>4, HandledTrans
<1> QED BY <1>4, <1>5, <1>6

\* The same where a write enters a cluster.
LEMMA NextClusterUp ==
  ASSUME NEW t \in FatTypes, NEW F, DirIo(t, F), NEW m, FileUp(t, m)
  PROVE  LET n == NextCluster(F, m) IN
         Handled(t, m, n) /\ (n.res = "OK" => n.fp.csect < Layout[t].spc)
<1> DEFINE n == NextCluster(F, m)
           a == WriteCluster(F, m)
           v == a.val
           p == [a.fp EXCEPT !.written = TRUE]
           q == [a.fp EXCEPT !.curr_clust = v, !.csect = 0]
<1>1. /\ n = IF m.fp.csect < m.fs.csize THEN Ok(m)
             ELSE CASE v = 0 -> Fail(PutFp(a, p), "FULL")
                    [] v = 1 -> Abort(a, "INT_ERR")
                    [] v = DiskErr -> Abort(a, "DISK_ERR")
                    [] v \notin {0, 1, DiskErr} -> Ok(PutFp(a, q))
  BY DEF NextCluster, On, PutFp
<1>2. Handled(t, m, a) /\ SameFile(m.fp, a.fp) /\ v \in Nat
  BY WriteClusterUp
<1> HIDE DEF a, v
<1>3. m.fs.csize = Layout[t].spc /\ Layout[t].spc \in Nat \ {0}
  BY UpFields, Fields DEF FileUp, Shape
<1>4. FileUp(t, a) /\ a.fp \in FIL
  BY <1>2, UpFields DEF Handled, FileUp
<1>5. SameFile(a.fp, p) /\ SameFile(a.fp, q) /\ q.csect = 0
  BY <1>2, <1>4 DEF SameFile, FIL
<1> HIDE DEF p, q
<1>6. Handled(t, a, PutFp(a, p)) /\ Handled(t, a, PutFp(a, q)) /\ PutFp(a, q).fp = q
  BY <1>4, <1>5, FileKept
<1>7. CASE n = Ok(m) /\ m.fp.csect < m.fs.csize
  BY <1>3, <1>7, FileResults
<1>8. CASE n = Fail(PutFp(a, p), "FULL")
  <2>1. "FULL" \in FRESULT
    BY ResNames
  <2> DEFINE b == PutFp(a, p)
  <2>2. Handled(t, m, b)
    BY <1>2, <1>6, HandledTrans
  <2> HIDE DEF b
  <2>3. Handled(t, b, Fail(b, "FULL")) /\ Fail(b, "FULL").res = "FULL"
    BY <2>1, <2>2, FileResults DEF Handled
  <2>4. Handled(t, m, Fail(b, "FULL"))
    BY <2>2, <2>3, HandledTrans
  <2> QED BY <1>8, <2>3, <2>4 DEF b
<1>9. ASSUME NEW r \in {"INT_ERR", "DISK_ERR"}, n = Abort(a, r)
      PROVE  Handled(t, m, n) /\ n.res # "OK"
  <2>1. r \in FRESULT
    BY ResNames
  <2>2. Handled(t, a, n) /\ n.res = r
    BY <1>4, <1>9, <2>1, AbortFile
  <2> QED BY <1>2, <2>2, HandledTrans
<1>10. CASE n = Ok(PutFp(a, q))
  <2> DEFINE b == PutFp(a, q)
  <2>2. Handled(t, m, b)
    BY <1>2, <1>6, HandledTrans
  <2>3. b.fp = q
    BY <1>6
  <2> HIDE DEF b
  <2>4. Handled(t, b, Ok(b)) /\ Ok(b).fp = q
    BY <2>2, <2>3, FileResults DEF Handled
  <2>5. Handled(t, m, Ok(b))
    BY <2>2, <2>4, HandledTrans
  <2> QED BY <1>3, <1>5, <1>10, <2>4, <2>5 DEF b
<1>11. \/ (n = Ok(m) /\ m.fp.csect < m.fs.csize) \/ n = Fail(PutFp(a, p), "FULL")
       \/ n = Abort(a, "INT_ERR") \/ n = Abort(a, "DISK_ERR") \/ n = Ok(PutFp(a, q))
  <2> HIDE DEF n
  <2> QED BY <1>1
<1> QED BY <1>7, <1>8, <1>9, <1>10, <1>11

-----------------------------------------------------------------------------
(***************************************************************************)
(* Files: writing.                                                         *)
(***************************************************************************)
\* The window holds the sector of the file, or is named after it without it.
Poised(t, m, n) ==
  /\ Nearly(t, n) /\ Mounted(t, n) /\ Kept(t, m, n) /\ FileOk(t, n.fp) /\ n.fp.dsect # 0
  /\ n.fp.open = m.fp.open /\ n.fp.mode = m.fp.mode
  /\ n.fs.winsect = n.fp.dsect \/ (Up(t, n) /\ Live(t, n))

\* The window takes a name without a move.
LEMMA Renamed ==
  ASSUME NEW t \in FatTypes, NEW m, Up(t, m), NEW sect \in Vol(t)
  PROVE  LET n == [m EXCEPT !.fs.winsect = sect] IN
         /\ Nearly(t, n) /\ Mounted(t, n) /\ Through(t, m, n) /\ n.fs.winsect = sect
         /\ n.res = m.res
<1> DEFINE f == WithSect(m.fs, sect)
           n == PutFs(m, f)
<1>1. [m EXCEPT !.fs.winsect = sect] = n
  BY DEF PutFs, WithSect
<1>2. m \in Machines /\ m.fs \in FATFS /\ Nearly(t, m) /\ Mounted(t, m) /\ m.fs.fs_type = t
  BY UpFields
<1>3. sect \in Nat /\ sect # 0 /\ t # 0
  BY VolNat, TypeSome
<1>4. SameVolume(m.fs, f) /\ f.winsect = sect
  BY <1>2, <1>3, SectPut
<1> HIDE DEF f
<1>5. f \in FATFS /\ f.fs_type = t
  BY <1>2, <1>4 DEF SameVolume
<1>6. OnlyFs(m, n) /\ n.fs = f
  BY <1>2, <1>5, FsPut
<1> HIDE DEF n
<1>7. WindowOk(t, n.fs)
  BY <1>3, <1>4, <1>5, <1>6 DEF WindowOk
<1>8. SameVolume(m.fs, n.fs) /\ n.fs.winsect # 0
  BY <1>3, <1>4, <1>6
<1>9. Nearly(t, n) /\ Through(t, m, n) /\ Mounted(t, n)
  BY <1>2, <1>6, <1>7, <1>8, FsSound
<1> QED BY <1>1, <1>4, <1>6, <1>9 DEF OnlyFs

\* The sector that a write goes on in (ff.c:1778-1826).
LEMMA NextSectorUp ==
  ASSUME NEW t \in FatTypes, NEW F, DirIo(t, F), NEW m, FileUp(t, m),
         m.fp.csect < Layout[t].spc
  PROVE  LET n == NextSector(F, m) IN
         /\ n.res # "OK" => Handled(t, m, n)
         /\ n.res = "OK" => Poised(t, m, n)
<1> DEFINE n == NextSector(F, m)
           a == IF m.fs.winsect = m.fp.dsect THEN Guarded(MoveWindow(F, m, 0)) ELSE m
           first == Clust2Sect(a.fs, a.fp.curr_clust)
           sect == first + a.fp.csect
           w == Guarded(MoveWindow(F, a, 0))
           b == IF a.fp.fptr >= a.fp.fsize
                THEN IF w.res = "OK" THEN [w EXCEPT !.fs.winsect = sect] ELSE w ELSE a
           k == b.fp.csect + 1
           p == [b.fp EXCEPT !.dsect = sect, !.csect = k]
<1>1. n = IF a.res = "OK"
          THEN IF first = 0 THEN Abort(a, "INT_ERR")
               ELSE IF b.res = "OK" THEN PutFp(b, p) ELSE b
          ELSE a
  <2> DEFINE placed == [b EXCEPT !.fp.dsect = sect, !.fp.csect = @ + 1]
  <2>1. b = IF a.fp.fptr >= a.fp.fsize
            THEN Then(w, LAMBDA x : [x EXCEPT !.fs.winsect = sect]) ELSE a
    BY DEF Then
  <2>2. placed = PutFp(b, p)
    <3> HIDE DEF a, b, sect
    <3> QED BY DEF PutFp
  <2> HIDE DEF b, w
  <2>3. n = IF a.res = "OK"
            THEN IF first = 0 THEN Abort(a, "INT_ERR")
                 ELSE IF b.res = "OK" THEN placed ELSE b
            ELSE a
    BY <2>1 DEF NextSector, Then, w
  <2> HIDE DEF n, a, first, sect, placed, p
  <2> QED BY <2>2, <2>3
<1>2. Handled(t, m, a) /\ (a.res = "OK" => a.fp = m.fp)
  <2>1. CASE m.fs.winsect = m.fp.dsect
    <3> DEFINE v == Guarded(MoveWindow(F, m, 0))
    <3>1. Handled(t, m, v) /\ (v.res = "OK" => v.fp = m.fp)
      BY MoveFile DEF DirIo
    <3>2. a = v
      BY <2>1
    <3> HIDE DEF v, a
    <3> QED BY <3>1, <3>2
  <2>2. CASE m.fs.winsect # m.fp.dsect
    BY <2>2, HandledRefl
  <2> QED BY <2>1, <2>2
<1> HIDE DEF a
<1>3. FileUp(t, a) /\ Up(t, a) /\ a.fp \in FIL /\ a.fp.curr_clust \in Nat /\ a.fp.csect \in Nat
  BY <1>2, UpFields DEF Handled, FileUp, FIL
<1>4. /\ Handled(t, a, w) /\ (w.res = "OK" => w.fp = a.fp)
  BY <1>3, MoveFile DEF DirIo
<1> HIDE DEF w
<1>5. ASSUME n = Abort(a, "INT_ERR")
      PROVE  Handled(t, m, n) /\ n.res # "OK"
  <2>1. "INT_ERR" \in FRESULT
    BY ResNames
  <2>2. Handled(t, a, n) /\ n.res = "INT_ERR"
    BY <1>3, <1>5, <2>1, AbortFile
  <2> QED BY <1>2, <2>2, HandledTrans
<1>6. CASE n = a /\ a.res # "OK"
  BY <1>2, <1>6
<1>7. CASE a.res = "OK" /\ first # 0 /\ n = IF b.res = "OK" THEN PutFp(b, p) ELSE b
  <2>1. sect \in Vol(t)
    <3> DEFINE c == a.fp.curr_clust
               i == a.fp.csect
    <3>1. c \in 2..MaxClust(t)-1 /\ first = FirstSect(t, c)
      BY <1>3, <1>7, RangeOf
    <3>2. i \in 0..Layout[t].spc-1
      BY <1>2, <1>3, <1>7, Fields
    <3> HIDE DEF c, i
    <3>3. FirstSect(t, c) + i \in Vol(t)
      BY <3>1, <3>2, ClusterSects
    <3> QED BY <3>1, <3>3 DEF c, i
  <2>2. sect \in Nat /\ sect # 0
    BY <2>1, VolNat
  <2> HIDE DEF sect, first
  <2>3. /\ b.res # "OK" => Handled(t, a, b)
        /\ b.res = "OK" => /\ Nearly(t, b) /\ Mounted(t, b) /\ Kept(t, a, b) /\ b.fp = a.fp
                           /\ b.fs.winsect = sect \/ (Up(t, b) /\ Live(t, b))
    <3>1. CASE ~(a.fp.fptr >= a.fp.fsize)
      <4>1. b = a
        BY <3>1
      <4>2. Nearly(t, a) /\ Mounted(t, a) /\ Live(t, a)
        BY <1>3, UpFields DEF FileUp
      <4> HIDE DEF b
      <4> QED BY <1>3, <1>7, <4>1, <4>2, KeptRefl
    <3>2. CASE a.fp.fptr >= a.fp.fsize /\ w.res # "OK"
      BY <1>4, <3>2
    <3>3. CASE a.fp.fptr >= a.fp.fsize /\ w.res = "OK"
      <4> DEFINE x == [w EXCEPT !.fs.winsect = sect]
      <4>1. Up(t, w) /\ Kept(t, a, w) /\ w.fp = a.fp
        BY <1>4, <3>3 DEF Handled, FileUp
      <4>2. Nearly(t, x) /\ Mounted(t, x) /\ Through(t, w, x) /\ x.fs.winsect = sect
            /\ x.res = "OK"
        BY <3>3, <2>1, <4>1, Renamed
      <4>3. b = x
        BY <3>3
      <4> HIDE DEF x, b
      <4> QED BY <4>1, <4>2, <4>3, KeptTrans DEF Through
    <3> QED BY <3>1, <3>2, <3>3
  <2> HIDE DEF b
  <2>4. CASE b.res # "OK"
    <3>1. n = b
      BY <1>7, <2>4
    <3> HIDE DEF n
    <3>2. Handled(t, m, n) /\ n.res # "OK"
      BY <1>2, <2>3, <2>4, <3>1, HandledTrans
    <3> QED BY <3>2 DEF n
  <2>5. CASE b.res = "OK"
    <3>1. n = PutFp(b, p)
      BY <1>7, <2>5
    <3>2. b \in Machines /\ b.fp = a.fp /\ FileOk(t, b.fp) /\ k \in Nat
      BY <1>3, <2>3, <2>5 DEF Nearly, FileUp, FIL
    <3> HIDE DEF k
    <3>3. p \in FIL /\ p.dsect = sect /\ p.open = b.fp.open /\ p.mode = b.fp.mode
      BY <1>3, <2>2, <3>2 DEF FIL
    <3>4. FileOk(t, p)
      BY <1>3, <2>1, <2>2, <3>2, <3>3 DEF FileOk, FIL
    <3> HIDE DEF p
    <3> DEFINE x == PutFp(b, p)
    <3>5. /\ x.fp = p /\ Kept(t, b, x) /\ (Up(t, b) => Up(t, x)) /\ (Live(t, b) => Live(t, x))
          /\ (Nearly(t, b) => Nearly(t, x)) /\ x.fs = b.fs
      BY <3>2, <3>3, FpPut
    <3> HIDE DEF x
    <3>6. Kept(t, m, x)
      BY <1>2, <2>3, <2>5, <3>5, KeptTrans DEF Handled
    <3>7. Poised(t, m, x)
      BY <1>2, <2>2, <2>3, <2>5, <3>2, <3>3, <3>4, <3>5, <3>6 DEF Poised, Mounted, Handled
    <3>8. x.res = "OK"
      BY <2>5, <3>2, <3>3, FpPut DEF x
    <3> QED BY <3>1, <3>7, <3>8 DEF x
  <2> QED BY <2>4, <2>5
<1> QED BY <1>1, <1>5, <1>6, <1>7

-----------------------------------------------------------------------------
PutsGood(t, F) ==
  \A m \in Machines, a \in Seq(Nat) :
    FileUp(t, m) => Handled(t, m, Call(F, "f_puts", m, a))

\* f_write of one byte (ff.c:1738-1844).
LEMMA FWriteUp ==
  ASSUME NEW t \in FatTypes, NEW F, DirIo(t, F), NEW m, FileUp(t, m), NEW byte \in Nat
  PROVE  Handled(t, m, FWrite(F, m, byte))
<1> DEFINE next == NextCluster(F, m)
           edge == IF (m.fp.fptr % SS) = 0
                   THEN IF next.res = "OK" THEN NextSector(F, next) ELSE next ELSE Ok(m)
           moved == MoveWindow(F, edge, edge.fp.dsect)
           ready == IF edge.res = "OK" THEN Guarded(moved) ELSE edge
           c == Change(ready, ready.fp.fptr % SS, Byte(byte))
           p == [c.fp EXCEPT !.fptr = c.fp.fptr + 1, !.written = TRUE,
                             !.fsize = IF ready.fp.fptr + 1 > c.fp.fsize THEN ready.fp.fptr + 1
                                       ELSE c.fp.fsize]
           n == FWrite(F, m, byte)
<1>1. n = IF m.fp.err THEN Fail(m, "INT_ERR")
          ELSE IF ready.res = "OK" THEN PutFp(c, p) ELSE ready
  <2>1. n = IF m.fp.err THEN Fail(m, "INT_ERR")
            ELSE IF ready.res = "OK"
            THEN [c EXCEPT !.fp.fptr = @ + 1, !.fp.written = TRUE,
                           !.fp.fsize = IF ready.fp.fptr + 1 > @ THEN ready.fp.fptr + 1 ELSE @]
            ELSE ready
    <3> DEFINE g == Guarded(moved)
               Put(r) == [Change(r, r.fp.fptr % SS, Byte(byte))
                            EXCEPT !.fp.fptr = @ + 1, !.fp.written = TRUE,
                                   !.fp.fsize = IF r.fp.fptr + 1 > @ THEN r.fp.fptr + 1 ELSE @]
    <3>1. n = IF m.fp.err THEN Fail(m, "INT_ERR")
              ELSE IF edge.res = "OK" THEN IF g.res = "OK" THEN Put(g) ELSE g ELSE edge
      BY DEF FWrite, Then
    <3>2. ready = IF edge.res = "OK" THEN g ELSE edge
      OBVIOUS
    <3> HIDE DEF n, g, edge, ready, Put
    <3>3. n = IF m.fp.err THEN Fail(m, "INT_ERR") ELSE IF ready.res = "OK" THEN Put(ready) ELSE ready
      BY <3>1, <3>2
    <3> QED BY <3>3 DEF Put
  <2> HIDE DEF n, ready, c
  <2>2. PutFp(c, p) = [c EXCEPT !.fp.fptr = @ + 1, !.fp.written = TRUE,
                           !.fp.fsize = IF ready.fp.fptr + 1 > @ THEN ready.fp.fptr + 1 ELSE @]
    BY DEF PutFp
  <2> QED BY <2>1, <2>2
<1>2. CASE n = Fail(m, "INT_ERR")
  <2>1. "INT_ERR" \in FRESULT
    BY ResNames
  <2> QED BY <1>2, <2>1, FileResults
<1>3. /\ edge.res # "OK" => Handled(t, m, edge)
      /\ edge.res = "OK" => Poised(t, m, edge)
  <2>1. CASE (m.fp.fptr % SS) # 0
    <3>1. edge = Ok(m)
      BY <2>1
    <3>2. Handled(t, m, edge) /\ edge.fp = m.fp /\ edge.res = "OK"
      BY <3>1, FileResults
    <3> HIDE DEF edge
    <3>3. edge.fp.dsect # 0
      BY <2>1, <3>2 DEF FileUp, FileOk
    <3> QED BY <3>2, <3>3 DEF Handled, FileUp, Poised, Up, Sound
  <2>2. CASE (m.fp.fptr % SS) = 0
    <3>1. Handled(t, m, next) /\ (next.res = "OK" => next.fp.csect < Layout[t].spc)
      BY NextClusterUp
    <3> HIDE DEF next
    <3>2. CASE next.res # "OK"
      BY <2>2, <3>1, <3>2
    <3>3. CASE next.res = "OK"
      <4> DEFINE x == NextSector(F, next)
      <4>1. (x.res # "OK" => Handled(t, next, x)) /\ (x.res = "OK" => Poised(t, next, x))
        BY <3>1, <3>3, NextSectorUp DEF Handled
      <4>2. edge = x
        BY <2>2, <3>3
      <4> HIDE DEF x, edge
      <4>3. x.res # "OK" => Handled(t, m, x)
        BY <3>1, <4>1, HandledTrans
      <4>4. x.res = "OK" => Poised(t, m, x)
        BY <3>1, <4>1, KeptTrans DEF Handled, Poised
      <4> QED BY <4>2, <4>3, <4>4
    <3> QED BY <3>2, <3>3
  <2> QED BY <2>1, <2>2
<1> HIDE DEF edge
<1>4. /\ ready.res # "OK" => Handled(t, m, ready)
      /\ ready.res = "OK" => Poised(t, m, ready) /\ ready.fs.winsect # 0
  <2>1. CASE edge.res # "OK"
    BY <1>3, <2>1
  <2>2. CASE edge.res = "OK" /\ edge.fs.winsect = edge.fp.dsect
    <3>1. moved = Ok(edge) /\ edge \in Machines
      BY <1>3, <2>2 DEF MoveWindow, Poised, Nearly
    <3>2. Still(edge, moved) /\ moved.res = "OK"
      BY <3>1, OkStill
    <3>3. ready = moved
      BY <2>2, <3>2 DEF Guarded
    <3> HIDE DEF moved, ready
    <3>4. Nearly(t, moved) /\ Through(t, edge, moved) /\ moved.fs = edge.fs
      BY <1>3, <2>2, <3>2, StillUp DEF Poised
    <3>5. Poised(t, m, moved) /\ moved.fs.winsect # 0
      BY <1>3, <2>2, <3>4, KeptTrans DEF Poised, Through, Mounted
    <3> QED BY <3>2, <3>3, <3>5
  <2>3. CASE edge.res = "OK" /\ edge.fs.winsect # edge.fp.dsect
    <3> DEFINE d == edge.fp.dsect
               g == Guarded(moved)
    <3>1. FileUp(t, edge) /\ d # 0 /\ d \in {0} \cup Vol(t) /\ Kept(t, m, edge)
          /\ edge.fp.open = m.fp.open /\ edge.fp.mode = m.fp.mode
      BY <1>3, <2>3 DEF Poised, FileUp, FileOk
    <3>2. Handled(t, edge, g) /\ (g.res = "OK" => g.fp = edge.fp /\ g.fs.winsect = d)
      <4> HIDE DEF d
      <4>1. LET x == Guarded(MoveWindow(F, edge, d)) IN
            Handled(t, edge, x) /\ (x.res = "OK" => x.fp = edge.fp /\ x.fs.winsect = d)
        BY <3>1, MoveFile DEF DirIo
      <4> QED BY <4>1 DEF d
    <3>3. ready = g
      BY <2>3
    <3> HIDE DEF g, ready, moved, d
    <3>4. Handled(t, m, g)
      <4>1. Handled(t, m, edge)
        BY <3>1 DEF Handled
      <4> QED BY <3>2, <4>1, HandledTrans
    <3>5. g.res = "OK" => Poised(t, m, g) /\ g.fs.winsect # 0
      BY <3>1, <3>2, <3>4 DEF Handled, FileUp, Poised, Up, Sound, d
    <3> QED BY <3>3, <3>4, <3>5
  <2> QED BY <2>1, <2>2, <2>3
<1> HIDE DEF ready
<1>5. CASE n = ready /\ ready.res # "OK"
  BY <1>4, <1>5
<1>6. CASE n = PutFp(c, p) /\ ready.res = "OK"
  <2>1. /\ Nearly(t, ready) /\ Mounted(t, ready) /\ Kept(t, m, ready) /\ FileOk(t, ready.fp)
        /\ ready.fp.dsect # 0 /\ ready.fs.winsect # 0
        /\ ready.fp.open = m.fp.open /\ ready.fp.mode = m.fp.mode
    BY <1>4, <1>6 DEF Poised
  <2>2. ready.fp.fptr \in Nat /\ ready.fp.fsize \in Nat /\ ready.fp \in FIL
    BY <2>1 DEF FileOk, FIL
  <2>3. ready.fp.fptr % SS \in 0..SS-1 /\ Byte(byte) \in Seq(Nat)
    <3>1. SS \in Nat \ {0}
      BY FatOpsAssumption
    <3>2. ready.fp.fptr % SS \in 0..SS-1
      BY <2>2, <3>1, Division
    <3>3. Byte(byte) \in Seq(Nat)
      BY DEF Byte
    <3> QED BY <3>2, <3>3
  <2>4. Up(t, c) /\ Through(t, ready, c) /\ c.fs.winsect = ready.fs.winsect
    <3> DEFINE i == ready.fp.fptr % SS
               y == Byte(byte)
    <3>1. i \in 0..SS-1 /\ y \in Seq(Nat)
      BY <2>3
    <3> HIDE DEF i, y
    <3>2. LET x == Change(ready, i, y) IN
          Up(t, x) /\ Through(t, ready, x) /\ x.fs.winsect = ready.fs.winsect
      BY <2>1, <3>1, ChangeUp
    <3> QED BY <3>2 DEF i, y
  <2> HIDE DEF c
  <2>5. c.fp = ready.fp /\ Kept(t, m, c) /\ Live(t, c) /\ c \in Machines
    <3>1. c \in Machines
      BY <2>4, UpFields
    <3> QED BY <2>1, <2>4, <3>1, KeptTrans DEF Through, Live
  <2>6. FileOk(t, p) /\ p \in FIL /\ p.open = m.fp.open /\ p.mode = m.fp.mode
    <3> DEFINE x == c.fp.fptr + 1
               z == IF ready.fp.fptr + 1 > c.fp.fsize THEN ready.fp.fptr + 1 ELSE c.fp.fsize
    <3>1. x \in Nat /\ z \in Nat /\ x <= z
      BY <2>2, <2>5
    <3> HIDE DEF x, z
    <3>2. p = [c.fp EXCEPT !.fptr = x, !.written = TRUE, !.fsize = z]
      BY DEF x, z
    <3>3. c.fp \in FIL /\ FileOk(t, c.fp) /\ c.fp.dsect # 0 /\ c.fp.open = m.fp.open
          /\ c.fp.mode = m.fp.mode
      BY <2>1, <2>2, <2>5
    <3> HIDE DEF p
    <3>4. p \in FIL /\ p.open = c.fp.open /\ p.mode = c.fp.mode /\ p.fptr = x /\ p.fsize = z
          /\ p.dsect = c.fp.dsect /\ p.dir_sect = c.fp.dir_sect /\ p.dir_idx = c.fp.dir_idx
      BY <3>1, <3>2, <3>3 DEF FIL
    <3> QED BY <3>1, <3>3, <3>4 DEF FileOk
  <2> HIDE DEF p
  <2>7. LET x == PutFp(c, p) IN x.fp = p /\ Kept(t, c, x) /\ Up(t, x) /\ Live(t, x)
    BY <2>4, <2>5, <2>6, FpPut
  <2> DEFINE x == PutFp(c, p)
  <2>8. x.fp = p /\ Kept(t, c, x) /\ Up(t, x) /\ Live(t, x)
    BY <2>7
  <2> HIDE DEF x
  <2>9. Handled(t, m, x)
    BY <2>5, <2>6, <2>8, KeptTrans DEF Handled, FileUp
  <2> QED BY <1>6, <2>9 DEF x
<1> QED BY <1>1, <1>2, <1>5, <1>6

\* f_puts (ff.c:2830-2869).
LEMMA FPutsUp ==
  ASSUME NEW t \in FatTypes, NEW F, DirIo(t, F), PutsGood(t, F), NEW m, FileUp(t, m),
         NEW str \in Seq(Nat)
  PROVE  Handled(t, m, FPuts(F, m, str))
<1> DEFINE w == FWrite(F, m, Head(str))
           n == FPuts(F, m, str)
<1>1. CASE str = <<>>
  BY <1>1, FileResults DEF FPuts
<1>2. CASE str # <<>>
  <2>1. n = IF w.res = "OK" THEN Call(F, "f_puts", w, Tail(str)) ELSE w
    BY <1>2 DEF FPuts, Then
  <2>2. Head(str) \in Nat /\ Tail(str) \in Seq(Nat)
    BY <1>2
  <2>3. Handled(t, m, w)
    BY <2>2, FWriteUp
  <2> HIDE DEF w
  <2>4. w \in Machines /\ FileUp(t, w)
    BY <2>3, UpFields DEF Handled, FileUp
  <2>5. Handled(t, w, Call(F, "f_puts", w, Tail(str)))
    <3> DEFINE s == Tail(str)
    <3>1. s \in Seq(Nat)
      BY <2>2
    <3> HIDE DEF s
    <3>2. Handled(t, w, Call(F, "f_puts", w, s))
      BY <2>4, <3>1 DEF PutsGood
    <3> QED BY <3>2 DEF s
  <2> QED BY <2>1, <2>3, <2>5, HandledTrans
<1> QED BY <1>1, <1>2

-----------------------------------------------------------------------------
(***************************************************************************)
(* Files: the clusters of a seek.                                          *)
(***************************************************************************)
\* A seek that has ofs cells to go.
SeekPre(t, m, ofs) ==
  FileUp(t, m) /\ (m.fp.fptr % SS) = 0 /\ (m.fp.mode = "r" => m.fp.fptr + ofs <= m.fp.fsize)

SeekGood(t, F) ==
  \A m \in Machines, c \in Nat, ofs \in Nat :
    SeekPre(t, m, ofs) => Handled(t, m, Call(F, "seek", m, <<c, ofs>>))

\* A file that was repositioned.
LEMMA FileMoved ==
  ASSUME NEW t \in FatTypes, NEW m, FileUp(t, m), NEW p, FileOk(t, p), p.open = m.fp.open,
         p.mode = m.fp.mode
  PROVE  LET n == PutFp(m, p) IN
         /\ Handled(t, m, n) /\ n.fp = p /\ n.fs = m.fs /\ n.res = m.res /\ n.val = m.val
         /\ n \in Machines
         /\ Handled(t, m, Ok(n)) /\ Ok(n).fp = p /\ Ok(n).fs = m.fs /\ Ok(n).res = "OK"
<1> DEFINE n == PutFp(m, p)
<1>1. m \in Machines /\ p \in FIL
  BY UpFields DEF FileUp, FileOk
<1>2. /\ n.fp = p /\ n.res = m.res /\ n.val = m.val /\ n.fs = m.fs
      /\ Kept(t, m, n) /\ Up(t, n) /\ Live(t, n) /\ n \in Machines
  BY <1>1, FpPut DEF FileUp
<1> HIDE DEF n
<1>3. Handled(t, m, n)
  BY <1>2 DEF FileUp, Handled
<1>4. Handled(t, n, Ok(n)) /\ Ok(n).res = "OK" /\ Ok(n).fp = n.fp /\ Ok(n).fs = n.fs
  BY <1>3, FileResults DEF Handled
<1>5. Handled(t, m, Ok(n))
  BY <1>3, <1>4, HandledTrans
<1> QED BY <1>2, <1>3, <1>4, <1>5 DEF n

\* Following and growing a chain leaves the file.
LEMMA ChainFile ==
  ASSUME NEW t \in FatTypes, NEW F, DirIo(t, F), NEW m, FileUp(t, m), NEW c \in Nat
  PROVE  /\ LET a == CreateChain(F, m, c) IN Handled(t, m, a) /\ a.fp = m.fp /\ a.val \in Nat
         /\ LET a == GetCluster(F, m, c) IN Handled(t, m, a) /\ a.fp = m.fp /\ a.val \in Nat
<1>1. LET a == CreateChain(F, m, c) IN Handled(t, m, a) /\ a.fp = m.fp /\ a.val \in Nat
  <2> DEFINE a == CreateChain(F, m, c)
  <2>1. Up(t, a) /\ Through(t, m, a)
    BY CreateChainUp DEF DirIo, FileUp
  <2> HIDE DEF a
  <2>2. Handled(t, m, a) /\ a.fp = m.fp /\ a.val \in Nat
    BY <2>1, ThroughFile, UpFields
  <2> QED BY <2>2 DEF a
<1>2. LET a == GetCluster(F, m, c) IN Handled(t, m, a) /\ a.fp = m.fp /\ a.val \in Nat
  <2> DEFINE a == GetCluster(F, m, c)
  <2>1. Up(t, a) /\ Through(t, m, a)
    BY GetClusterUp DEF DirIo, FileUp
  <2> HIDE DEF a
  <2>2. Handled(t, m, a) /\ a.fp = m.fp /\ a.val \in Nat
    BY <2>1, ThroughFile, UpFields
  <2> QED BY <2>2 DEF a
<1> QED BY <1>1, <1>2

\* The position of a file moves, its sector stays.
AtSect(p, x, c)  == [p EXCEPT !.fptr = x, !.csect = c]
AtClust(p, c, x) == [p EXCEPT !.curr_clust = c, !.fptr = x]

\* A position at the start of a sector needs no sector.
LEMMA Repositioned ==
  ASSUME NEW t \in FatTypes, NEW p, FileOk(t, p), NEW x \in Nat, (x % SS) = 0,
         p.mode = "r" => x <= p.fsize, NEW c \in Nat
  PROVE  /\ LET q == AtSect(p, x, c) IN
            FileOk(t, q) /\ q.open = p.open /\ q.mode = p.mode /\ q.fptr = x
            /\ q.fsize = p.fsize
         /\ LET q == AtClust(p, c, x) IN
            FileOk(t, q) /\ q.open = p.open /\ q.mode = p.mode /\ q.fptr = x
            /\ q.fsize = p.fsize
BY DEF FileOk, FIL, AtSect, AtClust

\* The loop of f_lseek over clusters (ff.c:1968-2008).
LEMMA SeekLoopUp ==
  ASSUME NEW t \in FatTypes, NEW F, DirIo(t, F), SeekGood(t, F), NEW m, NEW clst \in Nat,
         NEW ofs \in Nat, SeekPre(t, m, ofs)
  PROVE  Handled(t, m, SeekLoop(F, m, clst, ofs))
<1> DEFINE bcs == m.fs.csize * SS
           a == IF m.fp.mode = "w" THEN CreateChain(F, m, clst) ELSE GetCluster(F, m, clst)
           v == a.val
           sect == Clust2Sect(m.fs, clst)
           div == ofs \div SS
           at == m.fp.fptr + ofs
           x == a.fp.fptr + bcs
           size == m.fs.csize
           pfull == AtSect(a.fp, x, size)
           pend == AtSect(m.fp, at, div)
           dsect == sect + div
           plast == [m.fp EXCEPT !.fptr = at, !.csect = div + 1, !.dsect = dsect]
           pnext == AtClust(a.fp, v, x)
           n == SeekLoop(F, m, clst, ofs)
<1>1. \/ n = Ok(PutFp(a, pfull)) /\ ofs > bcs /\ m.fp.mode = "w"
      \/ n = Abort(a, "DISK_ERR") \/ n = Abort(a, "INT_ERR") \/ n = Abort(m, "INT_ERR")
      \/ n = Call(F, "seek", PutFp(a, pnext), <<v, ofs - bcs>>) /\ ofs > bcs
      \/ n = Ok(PutFp(m, pend)) /\ (ofs % SS) = 0
      \/ n = Ok(PutFp(m, plast)) /\ ~(ofs > bcs) /\ (ofs % SS) # 0 /\ sect # 0
  <2> DEFINE full == [a EXCEPT !.res = "OK", !.fp.fptr = @ + bcs, !.fp.csect = m.fs.csize]
             next == [a EXCEPT !.fp.curr_clust = v, !.fp.fptr = @ + bcs]
             end == [m EXCEPT !.res = "OK", !.fp.fptr = @ + ofs, !.fp.csect = ofs \div SS]
             in == [end EXCEPT !.fp.csect = @ + 1, !.fp.dsect = sect + ofs \div SS]
  <2>1. n = IF ofs > bcs /\ m.fp.mode = "w" /\ v = 0 THEN full
            ELSE IF ofs > bcs
            THEN IF v = DiskErr THEN Abort(a, "DISK_ERR")
                 ELSE IF ~InRange(a.fs, v) THEN Abort(a, "INT_ERR")
                 ELSE Call(F, "seek", next, <<v, ofs - bcs>>)
            ELSE IF ofs % SS = 0 THEN end ELSE IF sect = 0 THEN Abort(m, "INT_ERR") ELSE in
    BY DEF SeekLoop, On
  <2>2. full = Ok(PutFp(a, pfull)) /\ next = PutFp(a, pnext)
    <3> HIDE DEF a, bcs, v
    <3> QED BY DEF Ok, PutFp, AtSect, AtClust
  <2>3. end = Ok(PutFp(m, pend))
    BY DEF Ok, PutFp, AtSect
  <2>4. in = Ok(PutFp(m, plast))
    <3>1. m.fp \in FIL /\ m \in Machines
      BY UpFields DEF SeekPre, FileUp
    <3>2. end.fp.csect = ofs \div SS
      BY <3>1 DEF FIL, Machines
    <3>3. in = [end EXCEPT !.fp.csect = (ofs \div SS) + 1, !.fp.dsect = sect + ofs \div SS]
      BY <3>2
    <3> HIDE DEF in
    <3> QED BY <3>3 DEF Ok, PutFp
  <2> HIDE DEF full, next, end, in, n, a, bcs, v, sect, pfull, pnext, pend, plast
  <2> QED BY <2>1, <2>2, <2>3, <2>4
<1>2. FileUp(t, m) /\ Up(t, m) /\ m.fp \in FIL /\ FileOk(t, m.fp) /\ (m.fp.fptr % SS) = 0
      /\ (m.fp.mode = "r" => m.fp.fptr + ofs <= m.fp.fsize)
  BY UpFields DEF SeekPre, FileUp
<1>3. size = Layout[t].spc /\ size \in Nat \ {0} /\ SS \in Nat \ {0} /\ bcs \in Nat
      /\ (bcs % SS) = 0 /\ bcs = SS * size
  <2>1. size = Layout[t].spc /\ size \in Nat \ {0} /\ SS \in Nat \ {0}
    <3>1. Shape(t, m.fs)
      BY <1>2, UpFields
    <3>2. m.fs.csize = Layout[t].spc
      BY <3>1 DEF Shape
    <3> QED BY <3>2, Fields, FatOpsAssumption
  <2> HIDE DEF size
  <2>2. bcs = size * SS
    BY DEF size
  <2> HIDE DEF bcs
  <2>3. (size * SS) % SS = 0 /\ size * SS \in Nat /\ size * SS = SS * size
    BY <2>1, Multiples, Times
  <2> QED BY <2>1, <2>2, <2>3
<1>4. Handled(t, m, a) /\ a.fp = m.fp /\ v \in Nat
  <2>1. CASE m.fp.mode = "w"
    <3>1. a = CreateChain(F, m, clst)
      BY <2>1
    <3> HIDE DEF a
    <3> QED BY <1>2, <3>1, ChainFile
  <2>2. CASE m.fp.mode # "w"
    <3>1. a = GetCluster(F, m, clst)
      BY <2>2
    <3> HIDE DEF a
    <3> QED BY <1>2, <3>1, ChainFile
  <2> QED BY <2>1, <2>2
<1>5. m.fp.fptr \in Nat /\ m.fp.fsize \in Nat
  BY <1>2 DEF FIL
<1> HIDE DEF a, v, size, bcs, sect, div
<1>6. x = m.fp.fptr + bcs /\ x \in Nat /\ (x % SS) = 0
  <2>1. x = m.fp.fptr + bcs
    BY <1>4
  <2> DEFINE q == m.fp.fptr
  <2>2. q \in Nat /\ q % SS = 0
    BY <1>2, <1>5
  <2> HIDE DEF q, x
  <2>3. (q + bcs) % SS = 0
    BY <1>3, <2>2, Multiples
  <2>4. q = m.fp.fptr
    BY DEF q
  <2> QED BY <1>3, <2>1, <2>2, <2>3, <2>4
<1>7. div \in Nat /\ at \in Nat
  <2>1. div \in Nat
    BY <1>3, Division DEF div
  <2> QED BY <1>5, <2>1
<1>8. FileUp(t, a) /\ FileOk(t, a.fp) /\ a.fp.open = m.fp.open /\ a.fp.mode = m.fp.mode
      /\ a.fp.fsize = m.fp.fsize
  BY <1>4 DEF Handled, FileUp
<1> HIDE DEF x
<1>9. CASE n = Ok(PutFp(a, pfull)) /\ ofs > bcs /\ m.fp.mode = "w"
  <2>1. FileOk(t, pfull) /\ pfull.open = a.fp.open /\ pfull.mode = a.fp.mode
    <3>1. a.fp.mode # "r" /\ size \in Nat
      BY <1>3, <1>8, <1>9
    <3> QED BY <1>6, <1>8, <3>1, Repositioned
  <2> HIDE DEF pfull, n
  <2>2. Handled(t, a, n)
    BY <1>8, <1>9, <2>1, FileMoved
  <2>3. Handled(t, m, n)
    BY <1>4, <2>2, HandledTrans
  <2> QED BY <2>3 DEF n
<1>10. ASSUME NEW y, NEW r \in {"DISK_ERR", "INT_ERR"}, n = Abort(y, r), Handled(t, m, y)
       PROVE  Handled(t, m, n)
  <2>1. r \in FRESULT
    BY ResNames
  <2>2. Handled(t, y, n)
    BY <1>10, <2>1, AbortFile DEF Handled
  <2> QED BY <1>10, <2>2, HandledTrans
<1>11. CASE n = Call(F, "seek", PutFp(a, pnext), <<v, ofs - bcs>>) /\ ofs > bcs
  <2>1. a.fp.mode = "r" => x <= a.fp.fsize
    BY <1>2, <1>3, <1>5, <1>6, <1>8, <1>11
  <2>2. FileOk(t, pnext) /\ pnext.open = a.fp.open /\ pnext.mode = a.fp.mode /\ pnext.fptr = x
        /\ pnext.fsize = a.fp.fsize
    BY <1>4, <1>6, <1>8, <2>1, Repositioned
  <2> DEFINE b == PutFp(a, pnext)
             rest == ofs - bcs
  <2> HIDE DEF pnext
  <2>3. Handled(t, a, b) /\ b.fp = pnext /\ b \in Machines
    BY <1>8, <2>2, FileMoved
  <2> HIDE DEF b
  <2>4. rest \in Nat /\ x + rest = m.fp.fptr + ofs
    BY <1>3, <1>5, <1>6, <1>11
  <2> HIDE DEF rest
  <2>5. SeekPre(t, b, rest)
    BY <1>2, <1>6, <1>8, <2>2, <2>3, <2>4 DEF SeekPre, Handled
  <2>6. Handled(t, b, Call(F, "seek", b, <<v, rest>>))
    BY <1>4, <2>3, <2>4, <2>5 DEF SeekGood
  <2>7. Handled(t, m, Call(F, "seek", b, <<v, rest>>))
    BY <1>4, <2>3, <2>6, HandledTrans
  <2> QED BY <1>11, <2>7 DEF b, rest
<1>12. CASE n = Ok(PutFp(m, pend)) /\ (ofs % SS) = 0
  <2>1. (at % SS) = 0 /\ (m.fp.mode = "r" => at <= m.fp.fsize)
    BY <1>2, <1>3, <1>5, <1>12, Multiples
  <2> HIDE DEF at
  <2>2. FileOk(t, pend) /\ pend.open = m.fp.open /\ pend.mode = m.fp.mode
    BY <1>2, <1>7, <2>1, Repositioned
  <2> HIDE DEF pend, n
  <2>3. Handled(t, m, n)
    BY <1>2, <1>12, <2>2, FileMoved
  <2> QED BY <2>3 DEF n
<1>13. CASE n = Ok(PutFp(m, plast)) /\ ~(ofs > bcs) /\ (ofs % SS) # 0 /\ sect # 0
  <2>1. div < size
    <3>1. ofs < SS * size
      BY <1>3, <1>13
    <3> QED BY <1>3, <3>1, Below DEF div
  <2>2. dsect \in Vol(t)
    <3>1. clst \in 2..MaxClust(t)-1 /\ sect = FirstSect(t, clst)
      BY <1>2, <1>13, RangeOf DEF sect
    <3>2. div \in 0..Layout[t].spc-1
      BY <1>3, <1>7, <2>1
    <3> QED BY <3>1, <3>2, ClusterSects
  <2>3. dsect \in Nat /\ dsect # 0
    BY <2>2, VolNat
  <2>4. m.fp.mode = "r" => at <= m.fp.fsize
    BY <1>2
  <2> DEFINE k == div + 1
  <2>5. k \in Nat /\ plast = [m.fp EXCEPT !.fptr = at, !.csect = k, !.dsect = dsect]
    BY <1>7
  <2> HIDE DEF at, dsect, k, plast
  <2>6. FileOk(t, plast) /\ plast.open = m.fp.open /\ plast.mode = m.fp.mode
    <3>1. /\ plast \in FIL /\ plast.open = m.fp.open /\ plast.mode = m.fp.mode
          /\ plast.fptr = at /\ plast.dsect = dsect /\ plast.fsize = m.fp.fsize
          /\ plast.dir_sect = m.fp.dir_sect /\ plast.dir_idx = m.fp.dir_idx
      BY <1>2, <1>7, <2>3, <2>5 DEF FIL
    <3> QED BY <1>2, <2>2, <2>3, <2>4, <3>1 DEF FileOk
  <2> HIDE DEF n
  <2>7. Handled(t, m, n)
    BY <1>2, <1>13, <2>6, FileMoved
  <2> QED BY <2>7 DEF n
<1>14. Handled(t, m, m)
  BY <1>2, HandledRefl
<1> QED BY <1>1, <1>4, <1>9, <1>10, <1>11, <1>12, <1>13, <1>14

-----------------------------------------------------------------------------
(***************************************************************************)
(* Files: seeking.                                                         *)
(***************************************************************************)
\* What seeking relies on.
SeekIo(t, F) == DirIo(t, F) /\ SeekGood(t, F)

\* A seek that starts in the cluster of the old position starts below the new one.
LEMMA NearBase ==
  ASSUME NEW ofs \in Nat, ofs # 0, NEW old \in Nat, old > 0, NEW bcs \in Nat \ {0},
         (ofs - 1) \div bcs >= (old - 1) \div bcs
  PROVE  LET base == ((old - 1) \div bcs) * bcs IN
         base \in Nat /\ ofs - base \in Nat /\ (bcs % SS = 0 => base % SS = 0)
<1> DEFINE q == (old - 1) \div bcs
           r == (ofs - 1) \div bcs
           x == ofs - 1
           y == old - 1
<1>1. x \in Nat /\ y \in Nat
  OBVIOUS
<1>2. q \in Nat /\ r \in Nat /\ x % bcs \in 0..bcs-1 /\ x = bcs * r + (x % bcs)
  <2>1. q = y \div bcs /\ r = x \div bcs
    OBVIOUS
  <2> HIDE DEF x, y, q, r
  <2> QED BY <1>1, <2>1, Division
<1>3. r >= q
  OBVIOUS
<1> DEFINE b == q * bcs
           s == x % bcs
           z == bcs * r
<1>4. b \in Nat /\ b = bcs * q /\ z \in Nat
  BY <1>2, Times
<1>5. b <= z
  <2>1. CASE q = r
    BY <1>4, <2>1
  <2>2. CASE q # r
    <3>1. q < r
      BY <1>2, <1>3, <2>2
    <3> HIDE DEF q, r
    <3>2. bcs * q + bcs <= bcs * r
      BY <1>2, <3>1, Room
    <3> HIDE DEF b, z
    <3>3. b + bcs <= z
      BY <1>4, <3>2 DEF z
    <3> QED BY <1>4, <3>3
  <2> QED BY <2>1, <2>2
<1>6. ofs - b \in Nat
  <2>1. x = z + s /\ s \in 0..bcs-1
    BY <1>2
  <2> HIDE DEF b, z, s
  <2>2. b <= x
    BY <1>4, <1>5, <2>1
  <2> HIDE DEF x
  <2>3. x = ofs - 1
    BY DEF x
  <2> QED BY <1>1, <1>4, <2>2, <2>3
<1>7. ASSUME bcs % SS = 0 PROVE b % SS = 0
  <2>1. SS \in Nat \ {0}
    BY FatOpsAssumption
  <2> DEFINE k == bcs \div SS
             j == q * k
  <2>2. k \in Nat /\ bcs = SS * k
    <3>1. k \in Nat /\ bcs = SS * k + (bcs % SS)
      BY <2>1, Division
    <3> HIDE DEF k
    <3> QED BY <1>7, <2>1, <3>1
  <2> HIDE DEF k, q
  <2>3. j \in Nat /\ b = SS * j
    <3>1. j \in Nat
      BY <1>2, <2>2, Times
    <3>2. q * (SS * k) = SS * (q * k)
      BY <1>2, <2>1, <2>2
    <3> QED BY <2>2, <3>1, <3>2
  <2> HIDE DEF b, j
  <2>4. b = SS * j + 0 /\ 0 \in 0..SS-1
    BY <2>1, <2>3
  <2> QED BY <1>4, <2>1, <2>3, <2>4, Quotient
<1> QED BY <1>4, <1>6, <1>7

\* Where the loop begins.
LEMMA StartSeek ==
  ASSUME NEW t \in FatTypes, NEW F, SeekIo(t, F), NEW m, FileUp(t, m), (m.fp.fptr % SS) = 0,
         NEW ofs \in Nat, m.fp.mode = "r" => m.fp.fptr + ofs <= m.fp.fsize, NEW c \in Nat
  PROVE  Handled(t, m, Call(F, "seek", [m EXCEPT !.fp.curr_clust = c], <<c, ofs>>))
<1> DEFINE p == [m.fp EXCEPT !.curr_clust = c]
           h == PutFp(m, p)
<1>1. [m EXCEPT !.fp.curr_clust = c] = h
  BY DEF PutFp
<1>2. m.fp \in FIL /\ FileOk(t, m.fp)
  BY DEF FileUp, FileOk
<1>3. SameFile(m.fp, p)
  BY <1>2 DEF SameFile, FIL
<1>4. FileOk(t, p) /\ p.open = m.fp.open /\ p.mode = m.fp.mode /\ p.fptr = m.fp.fptr
      /\ p.fsize = m.fp.fsize
  BY <1>2, <1>3, FileSame DEF SameFile
<1> HIDE DEF p
<1>5. Handled(t, m, h) /\ h.fp = p
  BY <1>4, FileMoved
<1> HIDE DEF h
<1>6. SeekPre(t, h, ofs)
  BY <1>4, <1>5 DEF SeekPre, Handled
<1>7. Handled(t, h, Call(F, "seek", h, <<c, ofs>>))
  BY <1>5, <1>6, UpFields DEF SeekIo, SeekGood, Handled, FileUp
<1>8. Handled(t, m, Call(F, "seek", h, <<c, ofs>>))
  BY <1>5, <1>7, HandledTrans
<1> QED BY <1>1, <1>8

\* f_lseek (ff.c:1927-2017): the position of a file that is read stays inside it.
LEMMA FLseekUp ==
  ASSUME NEW t \in FatTypes, NEW F, SeekIo(t, F), NEW m, FileUp(t, m), NEW pos \in Nat
  PROVE  Handled(t, m, FLseek(F, m, pos))
<1> DEFINE ofs == IF pos > m.fp.fsize /\ m.fp.mode = "r" THEN m.fp.fsize ELSE pos
           bcs == m.fs.csize * SS
           old == m.fp.fptr
           near == old > 0 /\ (ofs - 1) \div bcs >= (old - 1) \div bcs
           base == ((old - 1) \div bcs) * bcs
           top == [m EXCEPT !.fp.fptr = 0, !.fp.csect = 255]
           far == [top EXCEPT !.fp.fptr = base]
           rest == ofs - base
           new == CreateChain(F, top, 0)
           org == [new EXCEPT !.fp.org_clust = new.val]
           start(n, c) == IF c = 0 THEN Ok(n)
                          ELSE Call(F, "seek", [n EXCEPT !.fp.curr_clust = c], <<c, ofs>>)
           sought == IF near THEN Call(F, "seek", far, <<m.fp.curr_clust, rest>>)
                     ELSE IF m.fp.org_clust # 0 THEN start(top, m.fp.org_clust)
                     ELSE IF new.val = 1 THEN Abort(new, "INT_ERR")
                     ELSE IF new.val = DiskErr THEN Abort(new, "DISK_ERR")
                     ELSE start(org, new.val)
           n == FLseek(F, m, pos)
<1>1. n = IF m.fp.err THEN Fail(m, "INT_ERR")
          ELSE IF ofs = 0 THEN Ok(top)
          ELSE IF sought.res = "OK"
          THEN IF sought.fp.fptr > sought.fp.fsize
               THEN [sought EXCEPT !.fp.fsize = sought.fp.fptr, !.fp.written = TRUE] ELSE sought
          ELSE sought
  BY DEF FLseek, Then, On
<1>2. /\ Up(t, m) /\ FileOk(t, m.fp) /\ m.fp \in FIL /\ old \in Nat /\ m.fp.fsize \in Nat
      /\ m.fp.curr_clust \in Nat /\ m.fp.org_clust \in Nat
  BY UpFields DEF FileUp, FIL
<1>3. ofs \in Nat /\ (m.fp.mode = "r" => ofs <= m.fp.fsize)
  BY <1>2
<1>4. bcs \in Nat \ {0} /\ (bcs % SS) = 0 /\ SS \in Nat \ {0} /\ (0 % SS) = 0
  <2> DEFINE size == m.fs.csize
  <2>1. size \in Nat \ {0} /\ SS \in Nat \ {0}
    <3>1. size = Layout[t].spc
      BY <1>2, UpFields DEF Shape
    <3>2. Layout[t].spc \in Nat \ {0}
      BY Fields
    <3> QED BY <3>1, <3>2, FatOpsAssumption
  <2>2. bcs = size * SS
    OBVIOUS
  <2> HIDE DEF bcs, size
  <2>3. (size * SS) % SS = 0 /\ size * SS \in Nat /\ size * SS # 0
    BY <2>1, Multiples, Times
  <2>4. (0 % SS) = 0
    BY <2>1
  <2> QED BY <2>1, <2>2, <2>3, <2>4
<1> HIDE DEF ofs, bcs, old
<1>5. Handled(t, m, top) /\ top.fp.fptr = 0 /\ top.fp.mode = m.fp.mode
      /\ top.fp.fsize = m.fp.fsize /\ Handled(t, m, Ok(top))
  <2> DEFINE p == AtSect(m.fp, 0, 255)
  <2>1. top = PutFp(m, p)
    BY DEF PutFp, AtSect
  <2>2. FileOk(t, p) /\ p.open = m.fp.open /\ p.mode = m.fp.mode /\ p.fptr = 0
        /\ p.fsize = m.fp.fsize
    BY <1>2, <1>4, Repositioned
  <2> HIDE DEF p, top
  <2>3. Handled(t, m, top) /\ top.fp = p /\ Handled(t, m, Ok(top))
    BY <2>1, <2>2, FileMoved
  <2> QED BY <2>2, <2>3
<1> HIDE DEF top
<1>6. FileUp(t, top) /\ top.fp \in FIL
  BY <1>5 DEF Handled, FileUp, FileOk
<1>7. CASE n = Fail(m, "INT_ERR")
  <2>1. "INT_ERR" \in FRESULT
    BY ResNames
  <2> QED BY <1>7, <2>1, FileResults
<1>8. ASSUME ofs # 0 PROVE Handled(t, m, sought)
  <2>1. CASE near
    <3>1. base \in Nat /\ rest \in Nat /\ (base % SS) = 0
      BY <1>2, <1>3, <1>4, <1>8, <2>1, NearBase
    <3>2. m.fp.mode = "r" => base <= m.fp.fsize /\ base + rest <= m.fp.fsize
      <4> HIDE DEF base
      <4> QED BY <1>2, <1>3, <3>1
    <3> HIDE DEF base, rest
    <3> DEFINE p == [top.fp EXCEPT !.fptr = base]
    <3>3. far = PutFp(top, p)
      BY DEF PutFp
    <3>4. FileOk(t, p) /\ p.open = top.fp.open /\ p.mode = top.fp.mode /\ p.fptr = base
          /\ p.fsize = top.fp.fsize
      <4>1. /\ p \in FIL /\ p.open = top.fp.open /\ p.mode = top.fp.mode /\ p.fptr = base
            /\ p.fsize = top.fp.fsize /\ p.dsect = top.fp.dsect
            /\ p.dir_sect = top.fp.dir_sect /\ p.dir_idx = top.fp.dir_idx
        BY <1>6, <3>1 DEF FIL
      <4> HIDE DEF p
      <4> QED BY <1>5, <1>6, <3>1, <3>2, <4>1 DEF FileUp, FileOk
    <3> HIDE DEF p, far
    <3>5. Handled(t, top, far) /\ far.fp = p
      BY <1>6, <3>3, <3>4, FileMoved
    <3>6. SeekPre(t, far, rest)
      BY <1>5, <3>1, <3>2, <3>4, <3>5 DEF SeekPre, Handled
    <3>7. Handled(t, far, Call(F, "seek", far, <<m.fp.curr_clust, rest>>))
      BY <1>2, <3>1, <3>5, <3>6, UpFields DEF SeekIo, SeekGood, Handled, FileUp
    <3>8. sought = Call(F, "seek", far, <<m.fp.curr_clust, rest>>)
      BY <2>1
    <3> HIDE DEF sought
    <3> QED BY <1>5, <3>5, <3>7, <3>8, HandledTrans
  <2>2. ASSUME NEW x, Handled(t, m, x), x.fp.fptr = 0, x.fp.fsize = m.fp.fsize, NEW c \in Nat
        PROVE  Handled(t, m, start(x, c))
    <3>1. CASE c = 0
      <4>1. Handled(t, x, Ok(x))
        BY <2>2, FileResults DEF Handled
      <4>2. Handled(t, m, Ok(x))
        BY <2>2, <4>1, HandledTrans
      <4> QED BY <3>1, <4>2
    <3>2. CASE c # 0
      <4>1. /\ FileUp(t, x) /\ (x.fp.fptr % SS) = 0
            /\ x.fp.mode = "r" => x.fp.fptr + ofs <= x.fp.fsize
        BY <1>2, <1>3, <1>4, <2>2 DEF Handled
      <4>2. Handled(t, x, Call(F, "seek", [x EXCEPT !.fp.curr_clust = c], <<c, ofs>>))
        BY <1>3, <4>1, StartSeek
      <4>3. Handled(t, m, Call(F, "seek", [x EXCEPT !.fp.curr_clust = c], <<c, ofs>>))
        BY <2>2, <4>2, HandledTrans
      <4> QED BY <3>2, <4>3
    <3> QED BY <3>1, <3>2
  <2> DEFINE v == new.val
             p == [new.fp EXCEPT !.org_clust = v]
  <2>3. Handled(t, top, new) /\ new.fp = top.fp /\ v \in Nat
    BY <1>6, ChainFile DEF SeekIo
  <2> HIDE DEF new, v
  <2>4. Handled(t, m, new) /\ FileUp(t, new)
    BY <1>5, <2>3, HandledTrans DEF Handled
  <2>5. Handled(t, m, org) /\ org.fp.fptr = 0 /\ org.fp.fsize = m.fp.fsize
    <3>1. SameFile(new.fp, p)
      BY <1>6, <2>3 DEF SameFile, FIL
    <3>2. org = PutFp(new, p)
      BY DEF PutFp, v
    <3> HIDE DEF p, org
    <3>3. Handled(t, new, org) /\ org.fp = p
      BY <2>4, <3>1, <3>2, FileKept
    <3>4. Handled(t, m, org)
      BY <2>4, <3>3, HandledTrans
    <3> QED BY <1>5, <2>3, <3>1, <3>3, <3>4 DEF SameFile
  <2> HIDE DEF org
  <2>6. Handled(t, m, Abort(new, "INT_ERR")) /\ Handled(t, m, Abort(new, "DISK_ERR"))
    <3>1. "INT_ERR" \in FRESULT /\ "DISK_ERR" \in FRESULT
      BY ResNames
    <3>2. Handled(t, new, Abort(new, "INT_ERR")) /\ Handled(t, new, Abort(new, "DISK_ERR"))
      BY <2>4, <3>1, AbortFile
    <3> QED BY <2>4, <3>2, HandledTrans
  <2>7. Handled(t, m, start(top, m.fp.org_clust))
    BY <1>2, <1>5, <2>2
  <2>8. Handled(t, m, start(org, v))
    BY <2>3, <2>5, <2>2
  <2>9. CASE ~near
    <3>1. \/ sought = start(top, m.fp.org_clust) \/ sought = Abort(new, "INT_ERR")
          \/ sought = Abort(new, "DISK_ERR") \/ sought = start(org, v)
      <4> HIDE DEF near, start
      <4> QED BY <2>9 DEF v
    <3> HIDE DEF sought, start
    <3> QED BY <2>6, <2>7, <2>8, <3>1
  <2> QED BY <2>1, <2>9
<1> HIDE DEF sought
<1>9. CASE n = sought /\ ofs # 0
  BY <1>8, <1>9
<1>10. CASE n = [sought EXCEPT !.fp.fsize = sought.fp.fptr, !.fp.written = TRUE] /\ ofs # 0
  <2> DEFINE z == sought.fp.fptr
             p == [sought.fp EXCEPT !.fsize = z, !.written = TRUE]
  <2>1. n = PutFp(sought, p)
    BY <1>10 DEF PutFp
  <2>2. Handled(t, m, sought) /\ FileOk(t, sought.fp) /\ sought.fp \in FIL /\ z \in Nat
    BY <1>8, <1>10 DEF Handled, FileUp, FileOk, FIL
  <2>3. z = sought.fp.fptr
    OBVIOUS
  <2> HIDE DEF z
  <2>4. FileOk(t, p) /\ p.open = sought.fp.open /\ p.mode = sought.fp.mode
    <3>1. /\ p \in FIL /\ p.open = sought.fp.open /\ p.mode = sought.fp.mode
          /\ p.fptr = sought.fp.fptr /\ p.fsize = z /\ p.dsect = sought.fp.dsect
          /\ p.dir_sect = sought.fp.dir_sect /\ p.dir_idx = sought.fp.dir_idx
      BY <2>2 DEF FIL
    <3> HIDE DEF p
    <3> QED BY <2>2, <2>3, <3>1 DEF FileOk
  <2> HIDE DEF p, n
  <2>5. Handled(t, sought, n)
    BY <2>1, <2>2, <2>4, FileMoved DEF Handled
  <2>6. Handled(t, m, n)
    BY <2>2, <2>5, HandledTrans
  <2> QED BY <2>6 DEF n
<1>11. CASE n = Ok(top)
  BY <1>5, <1>11
<1> QED BY <1>1, <1>7, <1>9, <1>10, <1>11

-----------------------------------------------------------------------------
(***************************************************************************)
(* Files: the sectors of a read.                                           *)
(***************************************************************************)
ReadPre(t, m) == FileUp(t, m) /\ m.fp.mode = "r"

ReadGood(t, F) ==
  \A m \in Machines, len \in Nat :
    ReadPre(t, m) => Handled(t, m, Call(F, "f_read", m, <<len>>))

\* The cluster that a read goes on in (ff.c:1678-1685).
LEMMA ReadClusterUp ==
  ASSUME NEW t \in FatTypes, NEW F, DirIo(t, F), NEW m, FileUp(t, m)
  PROVE  LET n == ReadCluster(F, m) IN
         /\ Handled(t, m, n)
         /\ n.res = "OK" => n.fp.csect < Layout[t].spc /\ SameFile(m.fp, n.fp)
<1> DEFINE n == ReadCluster(F, m)
           a == IF m.fp.fptr = 0 THEN Val(m, m.fp.org_clust) ELSE GetCluster(F, m, m.fp.curr_clust)
           v == a.val
           q == [a.fp EXCEPT !.curr_clust = v, !.csect = 0]
<1>1. \/ n = Ok(m) /\ m.fp.csect < m.fs.csize
      \/ n = Abort(a, "DISK_ERR") \/ n = Abort(a, "INT_ERR") \/ n = Ok(PutFp(a, q))
  BY DEF ReadCluster, On, PutFp
<1>2. /\ m.fp \in FIL /\ m.fp.curr_clust \in Nat /\ m.fp.org_clust \in Nat
      /\ m.fs.csize = Layout[t].spc /\ Layout[t].spc \in Nat \ {0} /\ SameFile(m.fp, m.fp)
  BY UpFields, Fields DEF FileUp, FIL, Shape, SameFile
<1>3. Handled(t, m, a) /\ a.fp = m.fp /\ v \in Nat
  <2>1. CASE m.fp.fptr = 0
    <3>1. a = Val(m, m.fp.org_clust)
      BY <2>1
    <3> HIDE DEF a
    <3> QED BY <1>2, <3>1, FileResults
  <2>2. CASE m.fp.fptr # 0
    <3>1. a = GetCluster(F, m, m.fp.curr_clust)
      BY <2>2
    <3> HIDE DEF a
    <3> QED BY <1>2, <3>1, ChainFile
  <2> QED BY <2>1, <2>2
<1> HIDE DEF a, v
<1>4. FileUp(t, a) /\ SameFile(m.fp, q) /\ SameFile(a.fp, q) /\ q.csect = 0
  BY <1>2, <1>3 DEF SameFile, FIL, Handled
<1> HIDE DEF q
<1>5. CASE n = Ok(m) /\ m.fp.csect < m.fs.csize
  BY <1>2, <1>5, FileResults
<1>6. ASSUME NEW r \in {"INT_ERR", "DISK_ERR"}, n = Abort(a, r)
      PROVE  Handled(t, m, n) /\ n.res # "OK"
  <2>1. r \in FRESULT
    BY ResNames
  <2>2. Handled(t, a, n) /\ n.res = r
    BY <1>4, <1>6, <2>1, AbortFile
  <2> QED BY <1>3, <2>2, HandledTrans
<1>7. CASE n = Ok(PutFp(a, q))
  <2>1. FileOk(t, q) /\ q.open = a.fp.open /\ q.mode = a.fp.mode
    BY <1>4, FileSame DEF FileUp, SameFile
  <2> HIDE DEF n
  <2>2. Handled(t, a, n) /\ n.fp = q
    BY <1>4, <1>7, <2>1, FileMoved
  <2>3. Handled(t, m, n)
    BY <1>3, <2>2, HandledTrans
  <2>4. n.fp.csect < Layout[t].spc
    BY <1>2, <1>4, <2>2
  <2> QED BY <1>4, <2>2, <2>3, <2>4 DEF n
<1> QED BY <1>1, <1>5, <1>6, <1>7

\* A read of what lies in one sector moves on without leaving the file.
PutData(m, d) == [m EXCEPT !.data = d]

\* Another buffer, all else the same.
LEMMA DataPut ==
  ASSUME NEW t, NEW m, FileUp(t, m), m \in Machines, NEW d \in Seq(Nat)
  PROVE  LET n == PutData(m, d) IN
         Handled(t, m, n) /\ n.fp = m.fp /\ n.fs = m.fs /\ n.disk = m.disk /\ n.res = m.res
<1> DEFINE n == PutData(m, d)
<1>1. World(m, n) /\ n.fp = m.fp /\ n.dj = m.dj /\ n.res = m.res
  BY DEF PutData, World, Machines
<1> HIDE DEF n
<1>2. Up(t, n) /\ Live(t, n) /\ Kept(t, m, n)
  BY <1>1, WorldSound DEF FileUp
<1> QED BY <1>1, <1>2 DEF Handled, FileUp, World, n

\* What a buffer takes from a sector are bytes.
LEMMA BytesNat ==
  ASSUME NEW w \in Windows, NEW s \in Seq(Nat), NEW at \in Nat, NEW k \in Nat, at + k <= SS
  PROVE  s \o [i \in 1..k |-> Part(w[at + i - 1], 1)] \in Seq(Nat)
<1> DEFINE b == [i \in 1..k |-> Part(w[at + i - 1], 1)]
<1>1. ASSUME NEW i \in 1..k PROVE Part(w[at + i - 1], 1) \in Nat
  <2>1. at + i - 1 \in 0..SS-1
    BY <1>1, FatOpsAssumption
  <2>2. w[at + i - 1] \in Seq(Nat)
    BY <2>1 DEF Windows
  <2> QED BY <2>2, PartNat
<1>2. b \in [1..k -> Nat]
  BY <1>1
<1> HIDE DEF b
<1>3. b \in Seq(Nat)
  BY <1>2
<1>4. s \o b \in Seq(Nat)
  BY <1>3
<1> QED BY <1>4 DEF b

\* A whole sector that is read past the window (ff.c:1689-1698).
LEMMA DirectUp ==
  ASSUME NEW t \in FatTypes, NEW F, DirIo(t, F), NEW m, FileUp(t, m), NEW sect \in Vol(t),
         (m.fp.fptr % SS) = 0, m.fp.mode = "r" => m.fp.fptr + SS <= m.fp.fsize
  PROVE  Handled(t, m, Direct(F, m, sect))
<1> DEFINE a == Access(F, m, sect)
           g == Guarded(a)
           bytes == g.data \o [i \in 1..SS |-> Part(g.disk[sect][i - 1], 1)]
           x == g.fp.fptr + SS
           k == g.fp.csect + 1
           p == AtSect(g.fp, x, k)
           n == Direct(F, m, sect)
<1>1. n = IF g.res = "OK" THEN PutData(PutFp(g, p), bytes) ELSE g
  <2>1. n = IF g.res = "OK"
            THEN [g EXCEPT !.fp.csect = @ + 1, !.fp.fptr = @ + SS, !.data = @ \o
                             [i \in 1..SS |-> Part(g.disk[sect][i - 1], 1)]]
            ELSE g
    BY DEF Direct, Then
  <2> HIDE DEF g, n
  <2>2. PutData(PutFp(g, p), bytes) =
          [g EXCEPT !.fp.csect = @ + 1, !.fp.fptr = @ + SS, !.data = @ \o
                      [i \in 1..SS |-> Part(g.disk[sect][i - 1], 1)]]
    BY DEF PutData, PutFp, AtSect
  <2> QED BY <2>1, <2>2
<1>2. sect \in 0..CardSize-1 /\ Up(t, m) /\ Live(t, m) /\ m \in Machines /\ SS \in Nat \ {0, 1}
  <2>1. m \in Machines /\ BootOk(t, m.disk)
    BY UpFields DEF FileUp
  <2> QED BY <2>1, VolStored, FatOpsAssumption DEF FileUp
<1>3. Sound(t, a) /\ Through(t, m, a)
  BY <1>2, AccessSound DEF DirIo, Io, Up
<1> HIDE DEF a
<1>4. Handled(t, m, a) /\ a.fp = m.fp
  <2>1. Up(t, a)
    BY <1>2, <1>3, UpThrough DEF Through, Up
  <2> QED BY <1>3, <2>1, ThroughFile
<1>5. Handled(t, a, g) /\ (g.res = "OK" => g = a)
  BY <1>4, GuardedFile DEF Handled
<1> HIDE DEF g
<1>6. Handled(t, m, g)
  BY <1>4, <1>5, HandledTrans
<1>7. CASE g.res = "OK"
  <2>1. /\ FileUp(t, g) /\ g \in Machines /\ g.fp = m.fp /\ FileOk(t, g.fp) /\ g.fp \in FIL
        /\ g.data \in Seq(Nat) /\ g.disk \in [0..CardSize-1 -> Windows]
    BY <1>4, <1>5, <1>6, <1>7, UpFields DEF Handled, FileUp
  <2>2. bytes \in Seq(Nat)
    <3> DEFINE w == g.disk[sect]
               s == g.data
    <3>1. w \in Windows /\ s \in Seq(Nat)
      BY <1>2, <2>1
    <3>2. bytes = s \o [i \in 1..SS |-> Part(w[0 + i - 1], 1)]
      <4>1. \A i \in 1..SS : 0 + i - 1 = i - 1
        BY <1>2
      <4> QED BY <4>1
    <3> HIDE DEF w, s, bytes
    <3>3. 0 + SS <= SS /\ 0 \in Nat /\ SS \in Nat
      BY <1>2
    <3> QED BY <3>1, <3>2, <3>3, BytesNat
  <2> HIDE DEF bytes
  <2>3. g.fp.fptr \in Nat /\ k \in Nat /\ g.fp.fsize \in Nat
    BY <2>1 DEF FIL
  <2>4. x \in Nat /\ (x % SS) = 0 /\ (g.fp.mode = "r" => x <= g.fp.fsize)
    <3>1. (SS % SS) = 0
      BY <1>2
    <3>2. (g.fp.fptr + SS) % SS = 0
      BY <1>2, <2>1, <2>3, <3>1, Multiples
    <3>3. x \in Nat
      BY <1>2, <2>3
    <3>4. g.fp.mode = "r" => x <= g.fp.fsize
      BY <2>1
    <3> QED BY <3>2, <3>3, <3>4
  <2> HIDE DEF x, k
  <2>5. FileOk(t, p) /\ p.open = g.fp.open /\ p.mode = g.fp.mode
    BY <2>1, <2>3, <2>4, Repositioned
  <2> HIDE DEF p
  <2> DEFINE h == PutFp(g, p)
  <2>6. Handled(t, g, h) /\ h \in Machines
    BY <2>1, <2>5, FileMoved
  <2> HIDE DEF h
  <2>7. Handled(t, h, PutData(h, bytes))
    BY <2>2, <2>6, DataPut DEF Handled
  <2>8. Handled(t, m, PutData(h, bytes))
    BY <1>6, <2>6, <2>7, HandledTrans
  <2> QED BY <1>1, <1>7, <2>8 DEF h
<1>8. CASE g.res # "OK"
  BY <1>1, <1>6, <1>8
<1> QED BY <1>7, <1>8

\* A part of the sector in the window (ff.c:1715-1724).
LEMMA PartialUp ==
  ASSUME NEW t \in FatTypes, NEW F, DirIo(t, F), NEW m, FileUp(t, m), m.fp.dsect # 0,
         NEW k \in Nat, (m.fp.fptr % SS) + k <= SS,
         m.fp.mode = "r" => m.fp.fptr + k <= m.fp.fsize
  PROVE  Handled(t, m, Partial(F, m, k))
<1> DEFINE d == m.fp.dsect
           g == Guarded(MoveWindow(F, m, d))
           at == m.fp.fptr % SS
           bytes == g.data \o [i \in 1..k |-> Part(g.fs.win[at + i - 1], 1)]
           x == g.fp.fptr + k
           p == [g.fp EXCEPT !.fptr = x]
           n == Partial(F, m, k)
<1>1. n = IF g.res = "OK" THEN PutData(PutFp(g, p), bytes) ELSE g
  <2>1. n = IF g.res = "OK"
            THEN [g EXCEPT !.fp.fptr = @ + k, !.data = @ \o
                             [i \in 1..k |-> Part(g.fs.win[at + i - 1], 1)]]
            ELSE g
    BY DEF Partial, Then
  <2> HIDE DEF g, n
  <2>2. PutData(PutFp(g, p), bytes) =
          [g EXCEPT !.fp.fptr = @ + k, !.data = @ \o
                      [i \in 1..k |-> Part(g.fs.win[at + i - 1], 1)]]
    BY DEF PutData, PutFp
  <2> QED BY <2>1, <2>2
<1>2. d \in {0} \cup Vol(t) /\ m.fp.fptr \in Nat /\ m.fp.fsize \in Nat /\ SS \in Nat \ {0}
      /\ at \in Nat
  <2>1. d \in {0} \cup Vol(t) /\ m.fp.fptr \in Nat /\ m.fp.fsize \in Nat
    BY DEF FileUp, FileOk, FIL
  <2>2. SS \in Nat \ {0}
    BY FatOpsAssumption
  <2>3. at \in 0..SS-1
    BY <2>1, <2>2, Division
  <2> QED BY <2>1, <2>2, <2>3
<1>3. Handled(t, m, g) /\ (g.res = "OK" => g.fp = m.fp)
  <2> HIDE DEF d
  <2>1. LET y == Guarded(MoveWindow(F, m, d)) IN Handled(t, m, y) /\ (y.res = "OK" => y.fp = m.fp)
    BY <1>2, MoveFile DEF DirIo
  <2> QED BY <2>1
<1> HIDE DEF g, at
<1>4. CASE g.res = "OK"
  <2>1. /\ FileUp(t, g) /\ g \in Machines /\ g.fp = m.fp /\ FileOk(t, g.fp) /\ g.fp \in FIL
        /\ g.data \in Seq(Nat) /\ g.fs.win \in Windows
    BY <1>3, <1>4, UpFields DEF Handled, FileUp
  <2>2. bytes \in Seq(Nat)
    <3> DEFINE w == g.fs.win
               s == g.data
    <3>1. w \in Windows /\ s \in Seq(Nat) /\ at + k <= SS
      BY <2>1 DEF at
    <3>2. bytes = s \o [i \in 1..k |-> Part(w[at + i - 1], 1)]
      OBVIOUS
    <3> HIDE DEF w, s, bytes
    <3> QED BY <1>2, <3>1, <3>2, BytesNat
  <2> HIDE DEF bytes
  <2>3. x \in Nat /\ (g.fp.mode = "r" => x <= g.fp.fsize) /\ g.fp.dsect # 0
    BY <1>2, <2>1
  <2> HIDE DEF x
  <2>4. FileOk(t, p) /\ p.open = g.fp.open /\ p.mode = g.fp.mode
    <3>1. /\ p \in FIL /\ p.open = g.fp.open /\ p.mode = g.fp.mode
          /\ p.fptr = x /\ p.fsize = g.fp.fsize /\ p.dsect = g.fp.dsect
          /\ p.dir_sect = g.fp.dir_sect /\ p.dir_idx = g.fp.dir_idx
      BY <2>1, <2>3 DEF FIL
    <3> HIDE DEF p
    <3> QED BY <2>1, <2>3, <3>1 DEF FileOk
  <2> HIDE DEF p
  <2> DEFINE h == PutFp(g, p)
  <2>5. Handled(t, g, h) /\ h \in Machines
    BY <2>1, <2>4, FileMoved
  <2> HIDE DEF h
  <2>6. Handled(t, h, PutData(h, bytes))
    BY <2>2, <2>5, DataPut DEF Handled
  <2>7. Handled(t, m, PutData(h, bytes))
    BY <1>3, <2>5, <2>6, HandledTrans
  <2> QED BY <1>1, <1>4, <2>7 DEF h
<1>5. CASE g.res # "OK"
  BY <1>1, <1>3, <1>5
<1> QED BY <1>4, <1>5

-----------------------------------------------------------------------------
(***************************************************************************)
(* Files: reading, and the sync at the end of a write.                     *)
(***************************************************************************)
\* The rest of a read, if nothing failed so far.
LEMMA ReadAgain ==
  ASSUME NEW t \in FatTypes, NEW F, ReadGood(t, F), NEW m, ReadPre(t, m), NEW w,
         Handled(t, m, w), NEW k \in Nat
  PROVE  Handled(t, m, IF w.res = "OK" THEN Call(F, "f_read", w, <<k>>) ELSE w)
<1>1. ReadPre(t, w) /\ w \in Machines
  BY UpFields DEF ReadPre, Handled, FileUp
<1>2. Handled(t, w, Call(F, "f_read", w, <<k>>))
  BY <1>1 DEF ReadGood
<1> QED BY <1>2, HandledTrans

\* f_read (ff.c:1651-1728): the position stays inside the file.
LEMMA FReadUp ==
  ASSUME NEW t \in FatTypes, NEW F, DirIo(t, F), ReadGood(t, F), NEW m, ReadPre(t, m),
         NEW len \in Nat
  PROVE  Handled(t, m, FRead(F, m, len))
<1> DEFINE left == m.fp.fsize - m.fp.fptr
           btr == IF len > left THEN left ELSE len
           in == m.fp.fptr % SS
           rest == SS - in
           k == IF rest > btr THEN btr ELSE rest
           a == ReadCluster(F, m)
           first == Clust2Sect(a.fs, a.fp.curr_clust)
           c == a.fp.csect + 1
           dsect == first + a.fp.csect
           p == [a.fp EXCEPT !.dsect = dsect, !.csect = c]
           at == PutFp(a, p)
           mid == Partial(F, m, k)
           all == Direct(F, a, dsect)
           head == Partial(F, at, k)
           n == FRead(F, m, len)
<1>1. \/ n = Fail(m, "INT_ERR") \/ n = Ok(m)
      \/ /\ n = IF mid.res = "OK" THEN Call(F, "f_read", mid, <<btr - k>>) ELSE mid
         /\ in # 0
      \/ n = a /\ a.res # "OK"
      \/ n = Abort(a, "INT_ERR") /\ a.res = "OK"
      \/ /\ n = IF all.res = "OK" THEN Call(F, "f_read", all, <<btr - SS>>) ELSE all
         /\ a.res = "OK" /\ first # 0 /\ btr >= SS /\ in = 0
      \/ /\ n = IF head.res = "OK" THEN Call(F, "f_read", head, <<btr - k>>) ELSE head
         /\ a.res = "OK" /\ first # 0 /\ ~(btr >= SS) /\ in = 0
  <2> DEFINE at2 == [a EXCEPT !.fp.dsect = dsect, !.fp.csect = @ + 1]
             head2 == Partial(F, at2, k)
  <2>1. n = IF m.fp.err THEN Fail(m, "INT_ERR")
            ELSE IF btr = 0 THEN Ok(m)
            ELSE IF in # 0
            THEN IF mid.res = "OK" THEN Call(F, "f_read", mid, <<btr - k>>) ELSE mid
            ELSE IF a.res = "OK"
            THEN IF first = 0 THEN Abort(a, "INT_ERR")
                 ELSE IF btr >= SS
                 THEN IF all.res = "OK" THEN Call(F, "f_read", all, <<btr - SS>>) ELSE all
                 ELSE IF head2.res = "OK" THEN Call(F, "f_read", head2, <<btr - k>>) ELSE head2
            ELSE a
    BY DEF FRead, Then
  <2>2. at2 = at
    <3> HIDE DEF a, dsect
    <3> QED BY DEF PutFp
  <2>3. head2 = head
    <3> HIDE DEF at, at2
    <3> QED BY <2>2
  <2> HIDE DEF n, btr, in, k, mid, a, first, all, head, head2
  <2> QED BY <2>1, <2>3
<1>2. FileUp(t, m) /\ m.fp.mode = "r" /\ m.fp \in FIL /\ m.fp.fptr \in Nat /\ m.fp.fsize \in Nat
      /\ m.fp.fptr <= m.fp.fsize /\ (in # 0 => m.fp.dsect # 0)
  BY DEF ReadPre, FileUp, FileOk, FIL
<1>3. SS \in Nat \ {0} /\ in \in 0..SS-1
  BY <1>2, FatOpsAssumption, Division
<1> HIDE DEF in
<1>4. /\ btr \in Nat /\ k \in Nat /\ k <= btr /\ btr - k \in Nat /\ in + k <= SS
      /\ m.fp.fptr + btr <= m.fp.fsize /\ m.fp.fptr + k <= m.fp.fsize
      /\ btr >= SS => btr - SS \in Nat
  BY <1>2, <1>3
<1> HIDE DEF btr, k
<1>5. Handled(t, m, a) /\ (a.res = "OK" => a.fp.csect < Layout[t].spc /\ SameFile(m.fp, a.fp))
  BY <1>2, ReadClusterUp
<1> HIDE DEF a
<1>6. CASE n = Fail(m, "INT_ERR") \/ n = Ok(m)
  <2>1. "INT_ERR" \in FRESULT
    BY ResNames
  <2>2. Handled(t, m, Fail(m, "INT_ERR")) /\ Handled(t, m, Ok(m))
    BY <1>2, <2>1, FileResults
  <2> QED BY <1>6, <2>2
<1>7. CASE in # 0 /\ n = IF mid.res = "OK" THEN Call(F, "f_read", mid, <<btr - k>>) ELSE mid
  <2>1. Handled(t, m, mid)
    BY <1>2, <1>4, <1>7, PartialUp DEF in
  <2> DEFINE y == btr - k
  <2>2. y \in Nat
    BY <1>4
  <2> HIDE DEF mid, y, n
  <2>3. Handled(t, m, n)
    BY <1>7, <2>1, <2>2, ReadAgain DEF y
  <2> QED BY <2>3 DEF n
<1>8. CASE n = a
  BY <1>5, <1>8
<1>9. CASE n = Abort(a, "INT_ERR")
  <2>1. "INT_ERR" \in FRESULT
    BY ResNames
  <2>2. Handled(t, a, n)
    BY <1>5, <1>9, <2>1, AbortFile DEF Handled
  <2> QED BY <1>5, <2>2, HandledTrans
<1>10. CASE a.res = "OK" /\ first # 0 /\ in = 0
            /\ \/ /\ n = (IF all.res = "OK" THEN Call(F, "f_read", all, <<btr - SS>>) ELSE all)
                  /\ btr >= SS
               \/ n = (IF head.res = "OK" THEN Call(F, "f_read", head, <<btr - k>>) ELSE head)
  <2>1. /\ FileUp(t, a) /\ a.fp \in FIL /\ FileOk(t, a.fp) /\ a.fp.fptr = m.fp.fptr
        /\ a.fp.fsize = m.fp.fsize /\ a.fp.csect \in Nat /\ a.fp.curr_clust \in Nat
        /\ a.fp.mode = "r" /\ a.fp.csect < Layout[t].spc /\ (a.fp.fptr % SS) = 0
    BY <1>2, <1>5, <1>10 DEF Handled, FileUp, FileOk, FIL, SameFile, in
  <2>2. dsect \in Vol(t) /\ dsect \in Nat /\ dsect # 0
    <3> DEFINE cl == a.fp.curr_clust
               i == a.fp.csect
    <3>1. cl \in 2..MaxClust(t)-1 /\ first = FirstSect(t, cl)
      BY <1>10, <2>1, RangeOf DEF FileUp
    <3>2. i \in 0..Layout[t].spc-1
      BY <2>1, Fields
    <3> HIDE DEF cl, i
    <3>3. FirstSect(t, cl) + i \in Vol(t)
      BY <3>1, <3>2, ClusterSects
    <3>4. dsect \in Vol(t)
      BY <3>1, <3>3 DEF cl, i
    <3> QED BY <3>4, VolNat
  <2> HIDE DEF dsect, first
  <2>3. CASE n = (IF all.res = "OK" THEN Call(F, "f_read", all, <<btr - SS>>) ELSE all)
             /\ btr >= SS
    <3>1. a.fp.fptr + SS <= a.fp.fsize
      BY <1>2, <1>3, <1>4, <2>1, <2>3
    <3>2. Handled(t, a, all)
      BY <2>1, <2>2, <3>1, DirectUp
    <3>3. Handled(t, m, all)
      BY <1>5, <3>2, HandledTrans
    <3> DEFINE y == btr - SS
    <3>4. y \in Nat
      BY <1>4, <2>3
    <3> HIDE DEF all, y, n
    <3>5. Handled(t, m, n)
      BY <2>3, <3>3, <3>4, ReadAgain DEF y
    <3> QED BY <3>5 DEF n
  <2>4. CASE n = (IF head.res = "OK" THEN Call(F, "f_read", head, <<btr - k>>) ELSE head)
    <3>0. c \in Nat
      BY <2>1
    <3> HIDE DEF c
    <3>1. FileOk(t, p) /\ p.open = a.fp.open /\ p.mode = a.fp.mode /\ p.fptr = a.fp.fptr
          /\ p.fsize = a.fp.fsize /\ p.dsect = dsect
      <4>1. /\ p \in FIL /\ p.open = a.fp.open /\ p.mode = a.fp.mode
            /\ p.fptr = a.fp.fptr /\ p.fsize = a.fp.fsize /\ p.dsect = dsect
            /\ p.dir_sect = a.fp.dir_sect /\ p.dir_idx = a.fp.dir_idx
        BY <2>1, <2>2, <3>0 DEF FIL
      <4> HIDE DEF p
      <4> QED BY <2>1, <2>2, <4>1 DEF FileOk
    <3> HIDE DEF p
    <3>2. Handled(t, a, at) /\ at.fp = p
      BY <2>1, <3>1, FileMoved
    <3> HIDE DEF at
    <3>3. FileUp(t, at) /\ at.fp.dsect # 0 /\ (at.fp.fptr % SS) + k <= SS
          /\ at.fp.fptr + k <= at.fp.fsize
      BY <1>2, <1>3, <1>4, <1>10, <2>1, <2>2, <3>1, <3>2 DEF Handled
    <3>4. Handled(t, at, head)
      BY <1>4, <3>3, PartialUp
    <3>5. Handled(t, m, head)
      BY <1>5, <3>2, <3>4, HandledTrans
    <3> DEFINE y == btr - k
    <3>6. y \in Nat
      BY <1>4
    <3> HIDE DEF head, y, n
    <3>7. Handled(t, m, n)
      BY <2>4, <3>5, <3>6, ReadAgain DEF y
    <3> QED BY <3>7 DEF n
  <2> QED BY <1>10, <2>3, <2>4
<1> QED BY <1>1, <1>6, <1>7, <1>8, <1>9, <1>10

-----------------------------------------------------------------------------
\* FSInfo as sync writes it.
InfoWin(f) == [Blank EXCEPT ![0] = <<InfoSig, f.free_clust, f.last_clust>>]
WithInfo(f) == [f EXCEPT !.winsect = 0, !.win = InfoWin(f)]
Noted(f) == [f EXCEPT !.fsi_flag = FALSE]

\* FSInfo in the window.
LEMMA InfoPut ==
  ASSUME NEW f \in FATFS
  PROVE  /\ InfoWin(f) \in Windows /\ InfoWin(f)[0] = <<InfoSig, f.free_clust, f.last_clust>>
         /\ SameVolume(f, WithInfo(f)) /\ WithInfo(f).winsect = 0
         /\ WithInfo(f).win = InfoWin(f) /\ WithInfo(f).wflag = f.wflag
         /\ SameVolume(f, Noted(f)) /\ Noted(f).winsect = f.winsect /\ Noted(f).win = f.win
         /\ Noted(f).wflag = f.wflag
<1>1. f.free_clust \in Nat /\ f.last_clust \in Nat
  BY DEF FATFS
<1>2. <<InfoSig, f.free_clust, f.last_clust>> \in Seq(Nat)
  BY <1>1 DEF InfoSig
<1>3. InfoWin(f) \in Windows /\ InfoWin(f)[0] = <<InfoSig, f.free_clust, f.last_clust>>
  <2> DEFINE i == <<InfoSig, f.free_clust, f.last_clust>>
             b == Blank
  <2>1. b \in Windows /\ 0 \in 0..SS-1 /\ i \in Seq(Nat)
    BY <1>2, BlankTyped, FatOpsAssumption
  <2>2. InfoWin(f) = [b EXCEPT ![0] = i]
    BY DEF InfoWin
  <2> HIDE DEF b, i
  <2>3. InfoWin(f) \in Windows /\ InfoWin(f)[0] = i
    BY <2>1, <2>2 DEF Windows
  <2> QED BY <2>3 DEF i
<1>4. SameVolume(f, WithInfo(f)) /\ WithInfo(f).winsect = 0 /\ WithInfo(f).win = InfoWin(f)
      /\ WithInfo(f).wflag = f.wflag
  BY <1>3 DEF SameVolume, FATFS, WithInfo
<1>5. SameVolume(f, Noted(f)) /\ Noted(f).winsect = f.winsect /\ Noted(f).win = f.win
      /\ Noted(f).wflag = f.wflag
  BY DEF SameVolume, FATFS, Noted
<1> QED BY <1>3, <1>4, <1>5

\* FSInfo as it is written holds numbers that a mount may read.
LEMMA InfoStored ==
  ASSUME NEW t \in FatTypes, t = 32, NEW m \in Machines, BootOk(t, m.disk), NEW f,
         VolumeOk(t, f), m.fs.win = InfoWin(f)
  PROVE  /\ Layout[t].part + 1 \in 0..CardSize-1
         /\ BootOk(t, Stored(m, Layout[t].part + 1))
<1> DEFINE s == Layout[t].part + 1
           p == Layout[t].part
           d == Stored(m, s)
<1>1. p \in Nat /\ s \in 0..CardSize-1 /\ s # 0 /\ s # p /\ p \in 0..CardSize-1
      /\ 0 \in 0..CardSize-1
  <2>1. p \in Nat /\ p + 1 < FatBase(t) /\ FatEnd(t) <= RootBase(t)
        /\ FatEnd(t) = FatBase(t) + Layout[t].fatsz /\ Layout[t].fatsz \in Nat
    BY Bounds DEF FatEnd
  <2>2. RootBase(t) <= DataBase(t) /\ DataBase(t) <= Sectors(t) /\ Sectors(t) <= CardSize
        /\ FatBase(t) \in Nat /\ RootBase(t) \in Nat /\ DataBase(t) \in Nat /\ Sectors(t) \in Nat
        /\ CardSize \in Nat
    BY Bounds
  <2>3. s = p + 1
    OBVIOUS
  <2> HIDE DEF p, s
  <2> QED BY <2>1, <2>2, <2>3
<1> HIDE DEF s
<1>2. m.disk \in [0..CardSize-1 -> Windows]
  BY DEF Machines
<1>3. d[0] = m.disk[0] /\ d[p] = m.disk[p] /\ d[s] = InfoWin(f)
  BY <1>1, <1>2 DEF Stored
<1> HIDE DEF d, p
<1>4. InfoWin(f)[0] = <<InfoSig, f.free_clust, f.last_clust>>
  BY InfoPut DEF VolumeOk
<1>5. Part(InfoWin(f)[0], 2) = f.free_clust /\ Part(InfoWin(f)[0], 3) = f.last_clust
  BY <1>4 DEF Part
<1>6. BootOk(t, d)
  <2>1. d[0][0] = Cell(t, 0, 0) /\ d[p][0] = Cell(t, p, 0)
    BY <1>3 DEF BootOk, p
  <2>2. Part(d[s][0], 2) \in FreeCounts(t) /\ Part(d[s][0], 3) \in 0..MaxClust(t)-1
    BY <1>3, <1>5 DEF VolumeOk
  <2> QED BY <2>1, <2>2 DEF BootOk, p, s
<1> QED BY <1>1, <1>6 DEF d, s, p

\* sync (ff.c:250-277): FSInfo goes to its own sector only.
LEMMA SyncUp ==
  ASSUME NEW t \in FatTypes, NEW F, Io(t, F), NEW m, Up(t, m)
  PROVE  LET n == Sync(F, m) IN Up(t, n) /\ Through(t, m, n)
<1> DEFINE n == Sync(F, m)
           a == MoveWindow(F, m, 0)
           x == PutFs(a, WithInfo(a.fs))
           w == DiskWrite(F, x, a.fs.fsi_sector)
           h == PutFs(w, Noted(w.fs))
<1>1. n = IF a.res = "OK" THEN IF a.fs.fs_type = 32 /\ a.fs.fsi_flag THEN Ok(h) ELSE a ELSE a
  <2> DEFINE x2 == [a EXCEPT !.fs.winsect = 0,
                             !.fs.win = [Blank EXCEPT ![0] =
                                           <<InfoSig, a.fs.free_clust, a.fs.last_clust>>]]
             w2 == DiskWrite(F, x2, a.fs.fsi_sector)
  <2>1. n = IF a.res = "OK"
            THEN IF a.fs.fs_type = 32 /\ a.fs.fsi_flag
                 THEN Ok([w2 EXCEPT !.fs.fsi_flag = FALSE]) ELSE a
            ELSE a
    BY DEF Sync, Then
  <2>2. x2 = x
    <3> HIDE DEF a
    <3> QED BY DEF PutFs, WithInfo, InfoWin
  <2>3. w2 = w
    <3> HIDE DEF x, x2
    <3> QED BY <2>2
  <2> HIDE DEF w, w2, n, a
  <2>4. [w EXCEPT !.fs.fsi_flag = FALSE] = h
    BY DEF PutFs, Noted
  <2> QED BY <2>1, <2>3, <2>4
<1>2. Up(t, a) /\ Through(t, m, a) /\ (t = 32 => ~a.fs.wflag \/ Off(a))
  BY MoveUp
<1> HIDE DEF a
<1>3. CASE n = a
  BY <1>2, <1>3
<1>4. CASE n = Ok(h) /\ a.fs.fs_type = 32
  <2>1. a \in Machines /\ a.fs \in FATFS /\ Nearly(t, a) /\ Mounted(t, a) /\ t = 32
        /\ a.fs.fs_type = t /\ VolumeOk(t, a.fs) /\ BootOk(t, a.disk) /\ Shape(t, a.fs)
    BY <1>2, <1>4, UpFields DEF Nearly
  <2> DEFINE f == WithInfo(a.fs)
  <2>2. SameVolume(a.fs, f) /\ f.winsect = 0 /\ f.win = InfoWin(a.fs) /\ f.wflag = a.fs.wflag
        /\ f \in FATFS
    BY <2>1, InfoPut DEF SameVolume
  <2> HIDE DEF f
  <2>3. OnlyFs(a, x) /\ x.fs = f
    BY <2>1, <2>2, FsPut DEF f
  <2> HIDE DEF x
  <2>4. /\ Nearly(t, x) /\ Through(t, a, x) /\ Mounted(t, x)
    <3>1. WindowOk(t, x.fs)
      BY <2>1, <2>2, <2>3, TypeSome DEF WindowOk, SameVolume
    <3>2. x.fs.wflag => Off(a)
      BY <1>2, <2>1, <2>2, <2>3
    <3>3. SameVolume(a.fs, x.fs)
      BY <2>2, <2>3
    <3> QED BY <2>1, <2>3, <3>1, <3>2, <3>3, FsSound
  <2>5. Sound(t, x)
    BY <2>2, <2>3, <2>4 DEF Sound, Held
  <2> DEFINE s == Layout[t].part + 1
  <2>6. s \in 0..CardSize-1 /\ BootOk(t, Stored(x, s)) /\ a.fs.fsi_sector = s
    <3>1. x \in Machines /\ x.disk = a.disk
      BY <2>3 DEF OnlyFs
    <3>2. s \in 0..CardSize-1 /\ BootOk(t, Stored(x, s))
      BY <2>1, <2>2, <2>3, <3>1, InfoStored
    <3> QED BY <2>1, <3>2 DEF Shape
  <2> HIDE DEF s
  <2>7. Sound(t, w) /\ Through(t, x, w)
    <3>1. LET y == DiskWrite(F, x, s) IN Sound(t, y) /\ Through(t, x, y)
      BY <2>5, <2>6, DiskWriteSound DEF Io
    <3> QED BY <2>6, <3>1
  <2> HIDE DEF w
  <2>8. Up(t, w) /\ Through(t, m, w)
    <3>1. Through(t, m, w)
      BY <1>2, <2>4, <2>7, ThroughTrans
    <3> QED BY <2>4, <2>7, <3>1, UpThrough DEF Through
  <2> DEFINE g == Noted(w.fs)
  <2>9. w \in Machines /\ w.fs \in FATFS /\ Nearly(t, w) /\ Held(w) /\ Mounted(t, w)
    BY <2>8, UpFields DEF Sound
  <2>10. SameVolume(w.fs, g) /\ g.winsect = w.fs.winsect /\ g.win = w.fs.win
         /\ g.wflag = w.fs.wflag /\ g \in FATFS
    BY <2>9, InfoPut DEF SameVolume
  <2> HIDE DEF g
  <2>11. OnlyFs(w, h) /\ h.fs = g
    BY <2>9, <2>10, FsPut DEF g
  <2> HIDE DEF h
  <2>12. Nearly(t, h) /\ Through(t, w, h) /\ Mounted(t, h)
    <3>1. WindowOk(t, h.fs) /\ SameVolume(w.fs, h.fs) /\ h.fs.winsect = w.fs.winsect
      BY <2>9, <2>10, <2>11 DEF WindowOk, SameVolume, Nearly
    <3>2. h.fs.wflag => h.fs.winsect # 0 \/ Off(w)
      BY <2>9, <2>10, <2>11 DEF Nearly
    <3> QED BY <2>9, <2>11, <3>1, <3>2, FsSound
  <2>13. Held(h)
    BY <2>9, <2>10, <2>11 DEF Held, OnlyFs
  <2>14. Up(t, h) /\ Through(t, m, h)
    BY <2>8, <2>12, <2>13, ThroughTrans DEF Up, Sound
  <2>15. Up(t, Ok(h)) /\ Through(t, h, Ok(h))
    BY <2>14, OkUp
  <2> HIDE DEF n
  <2>16. Up(t, n) /\ Through(t, m, n)
    BY <1>4, <2>14, <2>15, ThroughTrans
  <2> QED BY <2>16 DEF n
<1> QED BY <1>1, <1>3, <1>4

-----------------------------------------------------------------------------
(***************************************************************************)
(* Closing a file, and the line that gecko_printf appends.                 *)
(***************************************************************************)
\* f_close (ff.c:1853-1917).
LEMMA FCloseUp ==
  ASSUME NEW t \in FatTypes, NEW F, Io(t, F), NEW m, FileUp(t, m)
  PROVE  LET n == FClose(F, m) IN Up(t, n) /\ Kept(t, m, n)
<1> DEFINE n == FClose(F, m)
           s == m.fp.dir_sect
           a == MoveWindow(F, m, s)
           i == a.fp.dir_idx
           e == a.fs.win[i]
           entry == <<Part(e, 1), Part(e, 2), a.fp.org_clust, a.fp.fsize>>
           c == Change(a, i, entry)
           p == [c.fp EXCEPT !.written = FALSE]
           h == PutFp(c, p)
           z == Sync(F, h)
<1>1. n = Ok(m) \/ n = a \/ (n = z /\ a.res = "OK")
  <2> DEFINE w == [c EXCEPT !.fp.written = FALSE]
  <2>1. n = IF ~m.fp.written THEN Ok(m) ELSE IF a.res = "OK" THEN Sync(F, w) ELSE a
    BY DEF FClose, Then
  <2>2. w = h
    <3> HIDE DEF c
    <3> QED BY DEF PutFp
  <2> HIDE DEF n, a, c, w, h
  <2> QED BY <2>1, <2>2
<1>2. m.fp \in FIL /\ s \in Vol(t) /\ Up(t, m) /\ m \in Machines
  BY UpFields DEF FileUp, FileOk
<1>3. CASE n = Ok(m)
  BY <1>2, <1>3, OkUp DEF Through
<1>4. s # 0
  BY <1>2, VolNat
<1>5. Up(t, a) /\ Through(t, m, a) /\ (a.res = "OK" => a.fs.winsect = s)
  <2> HIDE DEF s
  <2>1. LET y == MoveWindow(F, m, s) IN
        Up(t, y) /\ Through(t, m, y) /\ (y.res = "OK" => y.fs.winsect = s)
    <3>1. s \in {0} \cup Vol(t)
      BY <1>2
    <3> QED BY <1>2, <1>4, <3>1, MoveUp
  <2> QED BY <2>1
<1> HIDE DEF a
<1>6. CASE n = a
  BY <1>5, <1>6 DEF Through
<1>7. CASE n = z /\ a.res = "OK"
  <2>1. /\ a.fp = m.fp /\ i \in 0..SS-1 /\ a.fp.org_clust \in Nat /\ a.fp.fsize \in Nat
        /\ a.fs.win \in Windows /\ Nearly(t, a) /\ Mounted(t, a) /\ a.fs.winsect # 0
    BY <1>2, <1>4, <1>5, <1>7, UpFields DEF Through, FileUp, FileOk, FIL
  <2>2. entry \in Seq(Nat)
    <3>1. e \in Seq(Nat)
      BY <2>1 DEF Windows
    <3> HIDE DEF e
    <3>2. Part(e, 1) \in Nat /\ Part(e, 2) \in Nat
      BY <3>1, PartNat
    <3> QED BY <2>1, <3>2
  <2> HIDE DEF entry, i
  <2>3. Up(t, c) /\ Through(t, a, c)
    BY <2>1, <2>2, ChangeUp
  <2> HIDE DEF c
  <2>4. c \in Machines /\ c.fp \in FIL
    BY <2>3, UpFields
  <2>5. p \in FIL
    BY <2>4 DEF FIL
  <2> HIDE DEF p
  <2>6. Up(t, h) /\ Kept(t, c, h)
    BY <2>3, <2>4, <2>5, FpPut
  <2> HIDE DEF h
  <2>7. Up(t, z) /\ Through(t, h, z)
    BY <2>6, SyncUp
  <2> HIDE DEF z, n
  <2>8. Up(t, n) /\ Kept(t, m, n)
    BY <1>5, <1>7, <2>3, <2>6, <2>7, KeptTrans DEF Through
  <2> QED BY <2>8 DEF n
<1> QED BY <1>1, <1>3, <1>6, <1>7

\* gecko_printf (gecko.c:245-286) leaves a sound machine, whatever fails.
LEMMA LogLineSound ==
  ASSUME NEW t \in FatTypes, NEW F, SeekIo(t, F), ScanGood(t, F), PutsGood(t, F),
         NEW m, Sound(t, m), NEW str \in Seq(Nat)
  PROVE  LET n == LogLine(F, m, str) IN Sound(t, n) /\ Kept(t, m, n)
<1> DEFINE n == LogLine(F, m, str)
           a == FOpen(F, m, LogName, "w")
           z == a.fp.fsize
           b == FLseek(F, a, z)
           c == Call(F, "f_puts", b, str)
           d == FClose(F, c)
<1>1. \/ n = m \/ n = a
      \/ a.res = "OK" /\ (n = Fail(d, b.res) \/ n = Fail(d, c.res) \/ n = d)
  <2>1. n = IF ~m.log THEN m ELSE IF a.res # "OK" THEN a
            ELSE IF b.res # "OK" THEN Fail(d, b.res)
            ELSE IF c.res # "OK" THEN Fail(d, c.res) ELSE d
    BY DEF LogLine, AddLine, Then, On
  <2> HIDE DEF n, a, b, c, d
  <2> QED BY <2>1
<1>2. /\ Sound(t, a) /\ Kept(t, m, a)
      /\ a.res = "OK" => FileUp(t, a)
  <2>1. LogName \in Nat
    BY DEF LogName
  <2> DEFINE l == LogName
  <2> HIDE DEF l
  <2>2. LET y == FOpen(F, m, l, "w") IN
        /\ Sound(t, y) /\ Kept(t, m, y)
        /\ y.res = "OK" => Up(t, y) /\ Live(t, y) /\ FileOk(t, y.fp)
    BY <2>1, FOpenSound DEF SeekIo, l
  <2> QED BY <2>2 DEF FileUp, l
<1> HIDE DEF a
<1>3. CASE n = m
  BY <1>3, KeptRefl
<1>4. CASE n = a
  BY <1>2, <1>4
<1>5. CASE a.res = "OK" /\ (n = Fail(d, b.res) \/ n = Fail(d, c.res) \/ n = d)
  <2>1. z \in Nat
    BY <1>2, <1>5, UpFields DEF FileUp, FIL
  <2> HIDE DEF z
  <2>2. Handled(t, a, b)
    BY <1>2, <1>5, <2>1, FLseekUp
  <2> HIDE DEF b
  <2>3. Handled(t, b, c)
    BY <2>2, UpFields DEF Handled, FileUp, PutsGood
  <2> HIDE DEF c
  <2>4. Up(t, d) /\ Kept(t, c, d)
    BY <2>3, FCloseUp DEF Handled, SeekIo, DirIo
  <2> HIDE DEF d
  <2>5. Up(t, d) /\ Kept(t, m, d) /\ d \in Machines
    BY <1>2, <2>2, <2>3, <2>4, KeptTrans, UpFields DEF Handled
  <2>6. b.res \in FRESULT /\ c.res \in FRESULT
    BY <2>2, <2>3, UpFields DEF Handled, FileUp
  <2>7. ASSUME NEW r \in FRESULT
        PROVE  Sound(t, Fail(d, r)) /\ Kept(t, m, Fail(d, r))
    <3>1. Up(t, Fail(d, r)) /\ Through(t, d, Fail(d, r))
      BY <2>5, FailUp
    <3> QED BY <2>5, <3>1, KeptTrans DEF Through, Up
  <2> HIDE DEF n
  <2>8. Sound(t, n) /\ Kept(t, m, n)
    BY <1>5, <2>5, <2>6, <2>7 DEF Up
  <2> QED BY <2>8 DEF n
<1> QED BY <1>1, <1>3, <1>4, <1>5

-----------------------------------------------------------------------------
(***************************************************************************)
(* The levels of FatOps exist: induction by the least counterexample, on sets. *)
(***************************************************************************)
\* A set of numbers that is not empty has a least one.
LEMMA Least ==
  ASSUME NEW B, B \subseteq Nat, B # {}
  PROVE  \E n \in B : \A k \in B : n <= k
<1>1. PICK n \in B : \A k \in B : ~(<<k, n>> \in OpToRel(<, Nat))
  BY NatLessThanWellFounded, WFMin
<1>2. SUFFICES ASSUME NEW k \in B PROVE n <= k
  OBVIOUS
<1>3. n \in Nat /\ k \in Nat
  OBVIOUS
<1>4. ~(<<k, n>> \in OpToRel(<, Nat))
  BY <1>1
<1>5. ~(k < n)
  BY <1>3, <1>4, Zenon DEF OpToRel
<1> QED BY <1>3, <1>5

\* What the deeper calls are with no fuel, and one level above G.
Bottom == [f \in Deeper |-> [m \in Machines |-> [a \in Seq(Nat) |-> Spent(m)]]]
Above(G) == [f \in Deeper |-> [m \in Machines |-> [a \in Seq(Nat) |-> Body(G, f, m, a)]]]
Levels(L) == [k \in Nat |-> IF k = 0 THEN Bottom ELSE Above(L[k - 1])]

\* The levels up to n.
Ladder(n, g) ==
  /\ g = [k \in 0..n |-> g[k]] /\ g[0] = Bottom
  /\ \A k \in 1..n : g[k] = Above(g[k - 1])

\* There are levels up to every number,
LEMMA LadderExists ==
  ASSUME NEW n \in Nat
  PROVE  \E g : Ladder(n, g)
<1> DEFINE B == {k \in Nat : ~ \E g : Ladder(k, g)}
<1>1. SUFFICES ASSUME B # {} PROVE FALSE
  OBVIOUS
<1>2. PICK b \in B : \A k \in B : b <= k
  <2>1. B \subseteq Nat
    OBVIOUS
  <2> HIDE DEF B
  <2> QED BY <1>1, <2>1, Least
<1>3. b \in Nat /\ ~ \E g : Ladder(b, g)
  BY <1>2
<1>4. CASE b = 0
  <2> DEFINE g == [k \in 0..0 |-> Bottom]
  <2>1. Ladder(0, g)
    BY DEF Ladder
  <2> QED BY <1>3, <1>4, <2>1
<1>5. CASE b # 0
  <2>1. b - 1 \in Nat /\ ~(b - 1 \in B)
    <3>1. b - 1 \in Nat /\ ~(b <= b - 1)
      BY <1>3, <1>5
    <3> HIDE DEF B
    <3> QED BY <1>2, <3>1
  <2>2. PICK h : Ladder(b - 1, h)
    BY <2>1
  <2> DEFINE g == [k \in 0..b |-> IF k = b THEN Above(h[b - 1]) ELSE h[k]]
  <2>3. /\ g[0] = h[0] /\ g[b] = Above(h[b - 1]) /\ g = [k \in 0..b |-> g[k]]
        /\ \A k \in 1..b-1 : g[k] = h[k]
        /\ g[b - 1] = h[b - 1]
    BY <1>3, <1>5, <2>1
  <2>4. ASSUME NEW k \in 1..b PROVE g[k] = Above(g[k - 1])
    <3>1. CASE k = b
      BY <2>3, <3>1
    <3>2. CASE k # b
      <4>1. k \in 1..b-1 /\ (k - 1 = 0 \/ k - 1 \in 1..b-1)
        BY <1>3, <3>2
      <4>2. g[k - 1] = h[k - 1] /\ g[k] = h[k]
        BY <2>3, <4>1
      <4> HIDE DEF g
      <4> QED BY <2>2, <4>1, <4>2 DEF Ladder
    <3> QED BY <3>1, <3>2
  <2>5. g[0] = Bottom
    BY <2>2, <2>3 DEF Ladder
  <2> HIDE DEF g
  <2>6. Ladder(b, g)
    BY <2>3, <2>4, <2>5 DEF Ladder
  <2> QED BY <1>3, <2>6
<1> QED BY <1>4, <1>5

\* they are the same as far as they go,
LEMMA LaddersAgree ==
  ASSUME NEW n \in Nat, NEW g, Ladder(n, g), NEW p \in Nat, NEW h, Ladder(p, h),
         NEW k \in 0..n, k <= p
  PROVE  g[k] = h[k]
<1> DEFINE B == {i \in 0..n : i <= p /\ g[i] # h[i]}
<1>1. SUFFICES ASSUME B # {} PROVE FALSE
  OBVIOUS
<1>2. PICK b \in B : \A i \in B : b <= i
  <2>1. B \subseteq Nat
    OBVIOUS
  <2> HIDE DEF B
  <2> QED BY <1>1, <2>1, Least
<1>3. b \in 0..n /\ b <= p /\ g[b] # h[b]
  BY <1>2
<1>4. CASE b = 0
  BY <1>3, <1>4 DEF Ladder
<1>5. CASE b # 0
  <2>1. b - 1 \in 0..n /\ b - 1 <= p /\ ~(b <= b - 1) /\ b \in 1..n /\ b \in 1..p
    BY <1>3, <1>5
  <2>2. ~(b - 1 \in B)
    <3> HIDE DEF B
    <3> QED BY <1>2, <2>1
  <2>3. g[b - 1] = h[b - 1]
    BY <2>1, <2>2
  <2>4. g[b] = Above(g[b - 1]) /\ h[b] = Above(h[b - 1])
    BY <2>1 DEF Ladder
  <2> QED BY <1>3, <2>3, <2>4
<1> QED BY <1>4, <1>5

\* and so there are all levels.
LEMMA LevelsExist == \E L : L = Levels(L)
<1> DEFINE Pick(n) == CHOOSE g : Ladder(n, g)
           L == [n \in Nat |-> Pick(n)[n]]
<1>1. ASSUME NEW n \in Nat PROVE Ladder(n, Pick(n))
  BY LadderExists
<1>2. ASSUME NEW n \in Nat PROVE L[n] = IF n = 0 THEN Bottom ELSE Above(L[n - 1])
  <2> HIDE DEF Pick
  <2>1. L[n] = Pick(n)[n]
    OBVIOUS
  <2>2. CASE n = 0
    BY <1>1, <2>1, <2>2 DEF Ladder
  <2>3. CASE n # 0
    <3>1. n - 1 \in Nat /\ n \in 1..n /\ n - 1 \in 0..n /\ n - 1 \in 0..n-1 /\ n - 1 <= n - 1
      BY <2>3
    <3>2. L[n - 1] = Pick(n - 1)[n - 1]
      BY <3>1
    <3>3. Pick(n)[n] = Above(Pick(n)[n - 1])
      BY <1>1, <3>1 DEF Ladder
    <3>4. Pick(n)[n - 1] = Pick(n - 1)[n - 1]
      <4>1. Ladder(n, Pick(n)) /\ Ladder(n - 1, Pick(n - 1))
        BY <1>1, <3>1
      <4> QED BY <3>1, <4>1, LaddersAgree
    <3> QED BY <2>1, <2>3, <3>2, <3>3, <3>4
  <2> QED BY <2>2, <2>3
<1>3. L = [n \in Nat |-> L[n]]
  OBVIOUS
<1> HIDE DEF L
<1>4. L = Levels(L)
  BY <1>2, <1>3 DEF Levels
<1> QED BY <1>4

\* Level is the function that its definition asks for.
LEMMA LevelIs ==
  ASSUME NEW k \in Nat
  PROVE  Level[k] = IF k = 0 THEN Bottom ELSE Above(Level[k - 1])
<1> DEFINE R(L) ==
      [i \in Nat |-> [f \in Deeper |-> [m \in Machines |-> [a \in Seq(Nat) |->
         IF i = 0 THEN Spent(m) ELSE Body(L[i - 1], f, m, a)]]]]
<1>1. ASSUME NEW L PROVE R(L) = Levels(L)
  <2>1. ASSUME NEW i \in Nat
        PROVE  [f \in Deeper |-> [m \in Machines |-> [a \in Seq(Nat) |->
                  IF i = 0 THEN Spent(m) ELSE Body(L[i - 1], f, m, a)]]]
               = IF i = 0 THEN Bottom ELSE Above(L[i - 1])
    <3>1. CASE i = 0
      BY <3>1 DEF Bottom
    <3>2. CASE i # 0
      BY <3>2 DEF Above
    <3> QED BY <3>1, <3>2
  <2> QED BY <2>1 DEF Levels
<1>2. Level = CHOOSE L : L = R(L)
  BY DEF Level
<1> HIDE DEF R
<1>3. \E L : L = R(L)
  BY <1>1, LevelsExist
<1>4. Level = R(Level)
  BY <1>2, <1>3, Zenon
<1>5. Level = Levels(Level)
  BY <1>1, <1>4
<1> QED BY <1>5 DEF Levels

-----------------------------------------------------------------------------
(***************************************************************************)
(* Every level keeps what its calls promise.                               *)
(***************************************************************************)
\* All that is promised one level down.
AllGood(t, F) ==
  /\ LogGood(t, F) /\ MirrorGood(t, F) /\ FindGood(t, F) /\ ClearGood(t, F)
  /\ ScanGood(t, F) /\ SeekGood(t, F) /\ PutsGood(t, F) /\ ReadGood(t, F)

\* A call that has no fuel left keeps everything; the power is off.
LEMMA SpentKept ==
  ASSUME NEW t, NEW m \in Machines
  PROVE  LET n == Spent(m) IN
         /\ Nearly(t, m) => Nearly(t, n)
         /\ Sound(t, m) => Sound(t, n)
         /\ Held(m) => Held(n)
         /\ Mounted(t, m) => Mounted(t, n)
         /\ Live(t, m) => Live(t, n)
         /\ Through(t, m, n) /\ Off(n) /\ n.res = "DISK_ERR" /\ n.val = DiskErr
<1> DEFINE n == Spent(m)
<1>1. /\ n \in Machines /\ n.fault.kind = "cut" /\ n.fault.left = 0 /\ n.dead = FALSE
      /\ n.disk = m.disk /\ n.fs = m.fs /\ n.fp = m.fp /\ n.dj = m.dj /\ n.log = m.log
      /\ n.depth = m.depth /\ n.res = "DISK_ERR" /\ n.val = DiskErr
  <2>1. DiskErr \in Nat
    BY DiskErrIs
  <2> QED BY <2>1 DEF Spent, Machines, FRESULT, Kinds
<1> HIDE DEF n
<1>2. Off(n) /\ Through(t, m, n) /\ (Held(m) => Held(n))
  BY <1>1 DEF Off, Through, Kept, Held
<1>3. Nearly(t, m) => Nearly(t, n)
  BY <1>1, <1>2 DEF Nearly, FaultOk
<1> QED BY <1>1, <1>2, <1>3 DEF Sound, Mounted, Live, n

\* A call at the bottom, and one level above G.
LEMMA CallIs ==
  ASSUME NEW G, NEW m \in Machines, NEW a \in Seq(Nat), NEW f \in Deeper
  PROVE  Call(Bottom, f, m, a) = Spent(m) /\ Call(Above(G), f, m, a) = Body(G, f, m, a)
BY DEF Call, Bottom, Above

\* What each of the calls does.
LEMMA Bodies ==
  ASSUME NEW G, NEW m, NEW a, NEW s, NEW k
  PROVE  /\ Body(G, "gecko_printf", m, a) = LogLine(G, m, a)
         /\ Body(G, "mirror", m, <<s, k>>) = Mirror(G, m, s, k)
         /\ Body(G, "find_free", m, <<s, k>>) = FindFree(G, m, s, k)
         /\ Body(G, "clear", m, <<s, k>>) = Clear(G, m, s, k)
         /\ Body(G, "scan", m, <<s>>) = Scan(G, m, s)
         /\ Body(G, "seek", m, <<s, k>>) = SeekLoop(G, m, s, k)
         /\ Body(G, "f_puts", m, a) = FPuts(G, m, a)
         /\ Body(G, "f_read", m, <<s>>) = FRead(G, m, s)
BY DEF Body

\* Their names.
LEMMA Names ==
  /\ "gecko_printf" \in Deeper /\ "mirror" \in Deeper /\ "find_free" \in Deeper
  /\ "clear" \in Deeper /\ "scan" \in Deeper /\ "seek" \in Deeper /\ "f_puts" \in Deeper
  /\ "f_read" \in Deeper
BY DEF Deeper

\* With no fuel,
LEMMA BottomGood ==
  ASSUME NEW t \in FatTypes
  PROVE  AllGood(t, Bottom)
<1>1. LogGood(t, Bottom)
  BY CallIs, Names, SpentKept DEF LogGood, Through
<1>2. MirrorGood(t, Bottom)
  <2> SUFFICES ASSUME NEW m \in Machines, NEW s \in FatBase(t)..FatEnd(t)-1, NEW k \in Nat, Up(t, m)
      PROVE  LET n == Call(Bottom, "mirror", m, <<s, k>>) IN
             /\ Up(t, n) /\ Through(t, m, n) /\ (n.res = "OK" \/ Off(n))
             /\ t = 32 => n.fs = m.fs \/ Off(n)
    BY DEF MirrorGood
  <2>1. <<s, k>> \in Seq(Nat)
    BY Bounds
  <2>2. Call(Bottom, "mirror", m, <<s, k>>) = Spent(m)
    BY <2>1, CallIs, Names
  <2> QED BY <2>2, SpentKept DEF Up
<1>3. FindGood(t, Bottom)
  <2> SUFFICES ASSUME NEW m \in Machines, NEW s \in Nat, NEW k \in Nat, Up(t, m)
      PROVE  LET n == Call(Bottom, "find_free", m, <<s, k>>) IN
             Up(t, n) /\ Through(t, m, n) /\ n.val \in Found(t)
    BY DEF FindGood
  <2>1. <<s, k>> \in Seq(Nat)
    OBVIOUS
  <2>2. Call(Bottom, "find_free", m, <<s, k>>) = Spent(m)
    BY <2>1, CallIs, Names
  <2> QED BY <2>2, SpentKept DEF Up, Found
<1>4. ClearGood(t, Bottom)
  <2> SUFFICES ASSUME NEW m \in Machines, NEW c \in 2..MaxClust(t)-1, NEW k \in Nat \ {0},
                      ClearPre(t, m, c, k)
      PROVE  LET n == Call(Bottom, "clear", m, <<FirstSect(t, c), k>>) IN
             Up(t, n) /\ Through(t, m, n)
    BY DEF ClearGood
  <2>1. FirstSect(t, c) \in Nat
    <3>1. 0 \in 0..Layout[t].spc-1
      BY CellsOf
    <3> QED BY <3>1, ClusterSects
  <2>2. Call(Bottom, "clear", m, <<FirstSect(t, c), k>>) = Spent(m)
    <3>1. <<FirstSect(t, c), k>> \in Seq(Nat)
      BY <2>1
    <3> QED BY <3>1, CallIs, Names
  <2> QED BY <2>2, SpentKept DEF Up, ClearPre, Sound
<1>5. ScanGood(t, Bottom)
  <2> SUFFICES ASSUME NEW m \in Machines, NEW s \in Nat, Up(t, m), DirAt(t, m.dj)
      PROVE  LET n == Call(Bottom, "scan", m, <<s>>) IN
             /\ Up(t, n) /\ Aside(t, m, n)
             /\ n.res = "OK" => DirAt(t, n.dj) /\ n.fs.winsect = n.dj.sect
    BY DEF ScanGood
  <2>1. <<s>> \in Seq(Nat)
    OBVIOUS
  <2>2. Call(Bottom, "scan", m, <<s>>) = Spent(m)
    BY <2>1, CallIs, Names
  <2> QED BY <2>2, SpentKept DEF Up, Through, Aside
<1>6. ASSUME NEW m \in Machines, FileUp(t, m)
      PROVE  Handled(t, m, Spent(m))
  BY <1>6, SpentKept DEF FileUp, Handled, Up, Through
<1>7. SeekGood(t, Bottom)
  <2> SUFFICES ASSUME NEW m \in Machines, NEW s \in Nat, NEW k \in Nat, SeekPre(t, m, k)
      PROVE  Handled(t, m, Call(Bottom, "seek", m, <<s, k>>))
    BY DEF SeekGood
  <2>1. <<s, k>> \in Seq(Nat)
    OBVIOUS
  <2>2. Call(Bottom, "seek", m, <<s, k>>) = Spent(m)
    BY <2>1, CallIs, Names
  <2> QED BY <1>6, <2>2 DEF SeekPre
<1>8. PutsGood(t, Bottom)
  BY <1>6, CallIs, Names DEF PutsGood
<1>9. ReadGood(t, Bottom)
  <2> SUFFICES ASSUME NEW m \in Machines, NEW s \in Nat, ReadPre(t, m)
      PROVE  Handled(t, m, Call(Bottom, "f_read", m, <<s>>))
    BY DEF ReadGood
  <2>1. <<s>> \in Seq(Nat)
    OBVIOUS
  <2>2. Call(Bottom, "f_read", m, <<s>>) = Spent(m)
    BY <2>1, CallIs, Names
  <2> QED BY <1>6, <2>2 DEF ReadPre
<1> QED BY <1>1, <1>2, <1>3, <1>4, <1>5, <1>7, <1>8, <1>9 DEF AllGood

\* and one level above calls that keep their promises, all of them are kept.
LEMMA AboveGood ==
  ASSUME NEW t \in FatTypes, NEW G, AllGood(t, G)
  PROVE  AllGood(t, Above(G))
<1> DEFINE H == Above(G)
<1>0. /\ LogGood(t, G) /\ MirrorGood(t, G) /\ FindGood(t, G) /\ ClearGood(t, G)
      /\ ScanGood(t, G) /\ SeekGood(t, G) /\ PutsGood(t, G) /\ ReadGood(t, G)
      /\ Io(t, G) /\ DirIo(t, G) /\ SeekIo(t, G)
  BY DEF AllGood, Io, DirIo, SeekIo
<1>a. ASSUME NEW m \in Machines, NEW a \in Seq(Nat), NEW f \in Deeper
      PROVE  Call(H, f, m, a) = Body(G, f, m, a)
  BY CallIs
<1> HIDE DEF H
<1>1. LogGood(t, H)
  <2> SUFFICES ASSUME NEW m \in Machines, NEW a \in Seq(Nat), Sound(t, m)
      PROVE  LET n == Call(H, "gecko_printf", m, a) IN Sound(t, n) /\ Kept(t, m, n)
    BY DEF LogGood
  <2>1. Call(H, "gecko_printf", m, a) = Body(G, "gecko_printf", m, a)
    BY <1>a, Names
  <2>2. Call(H, "gecko_printf", m, a) = LogLine(G, m, a)
    BY <2>1, Bodies
  <2> QED BY <1>0, <2>2, LogLineSound
<1>2. MirrorGood(t, H)
  <2> SUFFICES ASSUME NEW m \in Machines, NEW s \in FatBase(t)..FatEnd(t)-1, NEW k \in Nat, Up(t, m)
      PROVE  LET n == Call(H, "mirror", m, <<s, k>>) IN
             /\ Up(t, n) /\ Through(t, m, n) /\ (n.res = "OK" \/ Off(n))
             /\ t = 32 => n.fs = m.fs \/ Off(n)
    BY DEF MirrorGood
  <2>1. <<s, k>> \in Seq(Nat)
    BY Bounds
  <2>2. Call(H, "mirror", m, <<s, k>>) = Mirror(G, m, s, k)
    <3>1. <<s, k>> \in Seq(Nat)
      BY <2>1
    <3>2. Call(H, "mirror", m, <<s, k>>) = Body(G, "mirror", m, <<s, k>>)
      BY <1>a, <3>1, Names
    <3> QED BY <3>2, Bodies, ZenonT(30)
  <2> QED BY <1>0, <2>2, MirrorSound
<1>3. FindGood(t, H)
  <2> SUFFICES ASSUME NEW m \in Machines, NEW s \in Nat, NEW k \in Nat, Up(t, m)
      PROVE  LET n == Call(H, "find_free", m, <<s, k>>) IN
             Up(t, n) /\ Through(t, m, n) /\ n.val \in Found(t)
    BY DEF FindGood
  <2>1. <<s, k>> \in Seq(Nat)
    OBVIOUS
  <2>2. Call(H, "find_free", m, <<s, k>>) = FindFree(G, m, s, k)
    <3>1. <<s, k>> \in Seq(Nat)
      BY <2>1
    <3>2. Call(H, "find_free", m, <<s, k>>) = Body(G, "find_free", m, <<s, k>>)
      BY <1>a, <3>1, Names
    <3> QED BY <3>2, Bodies, ZenonT(30)
  <2> QED BY <1>0, <2>2, FindFreeUp
<1>4. ClearGood(t, H)
  <2> SUFFICES ASSUME NEW m \in Machines, NEW c \in 2..MaxClust(t)-1, NEW k \in Nat \ {0},
                      ClearPre(t, m, c, k)
      PROVE  LET n == Call(H, "clear", m, <<FirstSect(t, c), k>>) IN
             Up(t, n) /\ Through(t, m, n)
    BY DEF ClearGood
  <2>1. FirstSect(t, c) \in Nat
    <3>1. 0 \in 0..Layout[t].spc-1
      BY CellsOf
    <3> QED BY <3>1, ClusterSects
  <2>2. Call(H, "clear", m, <<FirstSect(t, c), k>>) = Clear(G, m, FirstSect(t, c), k)
    <3>1. <<FirstSect(t, c), k>> \in Seq(Nat)
      BY <2>1
    <3>2. Call(H, "clear", m, <<FirstSect(t, c), k>>) = Body(G, "clear", m, <<FirstSect(t, c), k>>)
      BY <1>a, <3>1, Names
    <3> QED BY <3>2, Bodies, ZenonT(30)
  <2>3. k \in Nat
    OBVIOUS
  <2> QED BY <1>0, <2>2, <2>3, ClearUp
<1>5. ScanGood(t, H)
  <2> SUFFICES ASSUME NEW m \in Machines, NEW s \in Nat, Up(t, m), DirAt(t, m.dj)
      PROVE  LET n == Call(H, "scan", m, <<s>>) IN
             /\ Up(t, n) /\ Aside(t, m, n)
             /\ n.res = "OK" => DirAt(t, n.dj) /\ n.fs.winsect = n.dj.sect
    BY DEF ScanGood
  <2>2. Call(H, "scan", m, <<s>>) = Scan(G, m, s)
    <3>1. <<s>> \in Seq(Nat)
      OBVIOUS
    <3>2. Call(H, "scan", m, <<s>>) = Body(G, "scan", m, <<s>>)
      BY <1>a, <3>1, Names
    <3> QED BY <3>2, Bodies, ZenonT(30)
  <2> QED BY <1>0, <2>2, ScanUp
<1>7. SeekGood(t, H)
  <2> SUFFICES ASSUME NEW m \in Machines, NEW s \in Nat, NEW k \in Nat, SeekPre(t, m, k)
      PROVE  Handled(t, m, Call(H, "seek", m, <<s, k>>))
    BY DEF SeekGood
  <2>1. <<s, k>> \in Seq(Nat)
    OBVIOUS
  <2>2. Call(H, "seek", m, <<s, k>>) = SeekLoop(G, m, s, k)
    <3>1. <<s, k>> \in Seq(Nat)
      BY <2>1
    <3>2. Call(H, "seek", m, <<s, k>>) = Body(G, "seek", m, <<s, k>>)
      BY <1>a, <3>1, Names
    <3> QED BY <3>2, Bodies, ZenonT(30)
  <2> QED BY <1>0, <2>2, SeekLoopUp
<1>8. PutsGood(t, H)
  <2> SUFFICES ASSUME NEW m \in Machines, NEW a \in Seq(Nat), FileUp(t, m)
      PROVE  Handled(t, m, Call(H, "f_puts", m, a))
    BY DEF PutsGood
  <2>1. Call(H, "f_puts", m, a) = Body(G, "f_puts", m, a)
    BY <1>a, Names
  <2>2. Call(H, "f_puts", m, a) = FPuts(G, m, a)
    BY <2>1, Bodies
  <2> QED BY <1>0, <2>2, FPutsUp
<1>9. ReadGood(t, H)
  <2> SUFFICES ASSUME NEW m \in Machines, NEW s \in Nat, ReadPre(t, m)
      PROVE  Handled(t, m, Call(H, "f_read", m, <<s>>))
    BY DEF ReadGood
  <2>2. Call(H, "f_read", m, <<s>>) = FRead(G, m, s)
    <3>1. <<s>> \in Seq(Nat)
      OBVIOUS
    <3>2. Call(H, "f_read", m, <<s>>) = Body(G, "f_read", m, <<s>>)
      BY <1>a, <3>1, Names
    <3> QED BY <3>2, Bodies, ZenonT(30)
  <2> QED BY <1>0, <2>2, FReadUp
<1> QED BY <1>1, <1>2, <1>3, <1>4, <1>5, <1>7, <1>8, <1>9 DEF AllGood, H

\* What is called below itself is as good, however much fuel there is.
LEMMA LevelGood ==
  ASSUME NEW t \in FatTypes, NEW k \in Nat
  PROVE  AllGood(t, Level[k])
<1> DEFINE B == {i \in Nat : ~AllGood(t, Level[i])}
<1>1. SUFFICES ASSUME B # {} PROVE FALSE
  OBVIOUS
<1>2. PICK b \in B : \A i \in B : b <= i
  <2>1. B \subseteq Nat
    OBVIOUS
  <2> HIDE DEF B
  <2> QED BY <1>1, <2>1, Least
<1>3. b \in Nat /\ ~AllGood(t, Level[b])
  BY <1>2
<1>4. CASE b = 0
  BY <1>3, <1>4, LevelIs, BottomGood
<1>5. CASE b # 0
  <2>1. b - 1 \in Nat /\ ~(b <= b - 1)
    BY <1>3, <1>5
  <2>2. ~(b - 1 \in B)
    <3> HIDE DEF B
    <3> QED BY <1>2, <2>1
  <2>3. AllGood(t, Level[b - 1])
    BY <2>1, <2>2
  <2>4. Level[b] = Above(Level[b - 1])
    BY <1>3, <1>5, LevelIs
  <2> QED BY <1>3, <2>3, <2>4, AboveGood
<1> QED BY <1>4, <1>5

-----------------------------------------------------------------------------
(***************************************************************************)
(* The invariant of the card between two calls.                            *)
(***************************************************************************)
\* What the theorems ask of the faults: a card with FAT32 meets none but a power cut (a
\* single access that fails makes mini write over its boot record).
OnlyCuts == type = 32 => FaultKinds[type] \subseteq {"cut"}

\* The machine between two calls, the file open, the volume and the rest of the state.
Idle == Machine(disk, fs, elf, logOn, NoFault)

ElfOk ==
  /\ elf \in FIL /\ elf.mode = "r" /\ (~elf.open => elf = NoFil)
  /\ elf.open => Up(type, Idle) /\ Live(type, Idle) /\ FileOk(type, elf)

Rest ==
  /\ type \in FatTypes /\ logOn \in BOOLEAN /\ dead \in BOOLEAN /\ lines \in Nat
  /\ card \in {"in", "out"} /\ (card = "out" => "pull" \in FaultKinds[type])
  /\ dead => card = "out" /\ logOn
  /\ last.res \in FRESULT \cup {"none"}

\* The invariant of the card between two calls.
IInv == Rest /\ Sound(type, Idle) /\ ElfOk

\* A sound machine from its parts,
LEMMA Apart ==
  ASSUME NEW t \in FatTypes, NEW d, NEW f, NEW p, NEW l \in BOOLEAN,
         NEW e, e \in [kind : Kinds, left : Nat],
         t = 32 => e.kind \in {"none", "cut"},
         d \in [0..CardSize-1 -> Windows], p \in FIL, VolumeOk(t, f), WindowOk(t, f), BootOk(t, d),
         f.wflag => f.winsect # 0, f.winsect # 0 /\ ~f.wflag => f.win = d[f.winsect]
  PROVE  Sound(t, Machine(d, f, p, l, e))
<1> DEFINE m == Machine(d, f, p, l, e)
<1>1. /\ m.disk = d /\ m.fs = f /\ m.fp = p /\ m.log = l /\ m.fault = e /\ m.depth = 0
      /\ m.dead = FALSE
  BY DEF Machine
<1>2. m \in Machines
  <2>1. NoDir \in DIR /\ f \in FATFS /\ <<>> \in Seq(Nat)
    BY DEF NoDir, DIR, VolumeOk
  <2> QED BY <2>1, ResNames DEF Machine, Machines
<1> HIDE DEF m
<1>3. FaultOk(t, m)
  BY <1>1, FatOpsAssumption DEF FaultOk
<1>4. Nearly(t, m) /\ Held(m)
  BY <1>1, <1>2, <1>3 DEF Nearly, Held
<1> QED BY <1>4 DEF Sound, m

\* and the parts from the machine.
LEMMA Together ==
  ASSUME NEW t \in FatTypes, NEW m, Sound(t, m), m.fault.kind # "cut"
  PROVE  /\ m.disk \in [0..CardSize-1 -> Windows] /\ m.fp \in FIL /\ VolumeOk(t, m.fs)
         /\ WindowOk(t, m.fs) /\ BootOk(t, m.disk) /\ (m.fs.wflag => m.fs.winsect # 0)
         /\ (m.fs.winsect # 0 /\ ~m.fs.wflag => m.fs.win = m.disk[m.fs.winsect])
  BY Typed DEF Sound, Nearly, Held, Off

\* The state of the volume and a call that begins in it.
LEMMA Begins ==
  ASSUME IInv, NEW p \in FIL, NEW f \in [kind : Kinds, left : Nat],
         type = 32 => f.kind \in {"none", "cut"}
  PROVE  LET m == Machine(disk, fs, p, logOn, f) IN
         /\ Sound(type, m) /\ m.fault = f /\ m.log = logOn /\ m.fs = fs /\ m.fp = p /\ m.disk = disk
<1>1. /\ Idle.disk = disk /\ Idle.fs = fs /\ Idle.fp = elf /\ Idle.fault.kind = "none"
  BY DEF Idle, Machine, NoFault
<1>2. Sound(type, Idle) /\ type \in FatTypes /\ logOn \in BOOLEAN
  BY DEF IInv, Rest
<1>3. /\ disk \in [0..CardSize-1 -> Windows] /\ VolumeOk(type, fs)
      /\ WindowOk(type, fs) /\ BootOk(type, disk) /\ (fs.wflag => fs.winsect # 0)
      /\ (fs.winsect # 0 /\ ~fs.wflag => fs.win = disk[fs.winsect])
  BY <1>1, <1>2, Together
<1>4. Sound(type, Machine(disk, fs, p, logOn, f))
  BY <1>2, <1>3, Apart
<1> QED BY <1>4 DEF Machine

\* A volume that is not mounted.
LEMMA NoFsOk ==
  ASSUME NEW t \in FatTypes
  PROVE  NoFs \in FATFS /\ VolumeOk(t, NoFs) /\ WindowOk(t, NoFs) /\ ~NoFs.wflag /\ NoFs.winsect = 0
         /\ NoFs.fs_type = 0
<1>1. NoFs \in FATFS
  BY BlankTyped DEF NoFs, FATFS
<1>2. 0 \in 0..MaxClust(t)-1 /\ 0 \in FreeCounts(t) /\ t # 0
  BY Bounds, TypeSome DEF FreeCounts
<1> QED BY <1>1, <1>2 DEF NoFs, VolumeOk, WindowOk

\* The faults that a call may meet.
LEMMA FaultsTyped ==
  ASSUME IInv, OnlyCuts, NEW s \in Machines, NEW f \in Faults(s)
  PROVE  /\ f \in [kind : Kinds, left : Nat] /\ (type = 32 => f.kind \in {"none", "cut"})
         /\ (f.kind = "pull" => "pull" \in FaultKinds[type])
         /\ (card = "out" => f.kind = "pull")
<1>1. FaultKinds[type] \subseteq {"once", "wrote", "pull", "cut"} /\ type \in FatTypes
  BY FatAssumption DEF IInv, Rest
<1>2. s.fault.left \in Nat /\ MaxAccess \in Nat
  BY Typed, FatAssumption
<1>3. CASE card = "out"
  <2>1. f = [kind |-> "pull", left |-> 0] /\ "pull" \in FaultKinds[type]
    BY <1>3 DEF Faults, IInv, Rest
  <2>2. type # 32
    BY <2>1 DEF OnlyCuts, IInv, Rest
  <2> QED BY <2>1, <2>2 DEF Kinds
<1>4. CASE card # "out"
  <2>1. f = NoFault \/ f \in [kind : FaultKinds[type], left : 0..MaxAccess - s.fault.left - 1]
    BY <1>4 DEF Faults
  <2>2. CASE f = NoFault
    BY <1>4, <2>2 DEF NoFault, Kinds
  <2>3. CASE f \in [kind : FaultKinds[type], left : 0..MaxAccess - s.fault.left - 1]
    <3>1. f.kind \in FaultKinds[type] /\ f.left \in Nat /\ f = [kind |-> f.kind, left |-> f.left]
      BY <1>2, <2>3
    <3>2. f.kind \in Kinds
      BY <1>1, <3>1 DEF Kinds
    <3>3. f \in [kind : Kinds, left : Nat]
      BY <3>1, <3>2
    <3>4. type = 32 => f.kind \in {"none", "cut"}
      BY <1>1, <3>1 DEF OnlyCuts
    <3> QED BY <1>4, <3>1, <3>3, <3>4
  <2> QED BY <2>1, <2>2, <2>3
<1> QED BY <1>3, <1>4

\* What a call leaves, but for the file it was given.
LEMMA Ends ==
  ASSUME IInv, NEW p \in FIL, NEW f, f \in [kind : Kinds, left : Nat],
         f.kind = "pull" => "pull" \in FaultKinds[type], card = "out" => f.kind = "pull",
         NEW n, Sound(type, n), Kept(type, Machine(disk, fs, p, logOn, f), n), After(f, n),
         type' = type, logOn' \in BOOLEAN, dead' => logOn', lines' \in Nat,
         last'.res \in FRESULT \cup {"none"}, elf' \in FIL
  PROVE  Rest' /\ Sound(type, Idle)' /\ (n.fault.kind = "cut" => fs' = NoFs /\ elf' = NoFil)
         /\ (n.fault.kind # "cut" => fs' = n.fs /\ disk' = n.disk)
<1>1. type \in FatTypes /\ n \in Machines /\ dead' = n.dead /\ disk' = n.disk
      /\ disk' \in [0..CardSize-1 -> Windows] /\ BootOk(type, disk') /\ card \in {"in", "out"}
      /\ dead' \in BOOLEAN
  BY Typed DEF IInv, Rest, Sound, Nearly, After
<1>2. n.dead => n.fault.kind = "pull"
  BY DEF Sound, Nearly, FaultOk
<1>3. n.fault.kind \in {f.kind, "none", "cut"}
  BY DEF Kept, Machine
<1>4. NoFault \in [kind : Kinds, left : Nat] /\ NoFault.kind = "none"
  BY DEF NoFault, Kinds
<1>5. CASE n.fault.kind = "cut"
  <2>1. fs' = NoFs /\ elf' = NoFil /\ card' = card /\ ~dead'
    BY <1>1, <1>2, <1>5 DEF After
  <2>2. Rest'
    BY <1>1, <2>1 DEF Rest, IInv
  <2>3. Sound(type', Machine(disk', fs', elf', logOn', NoFault))
    BY <1>1, <1>4, <2>1, Apart, NoFsOk
  <2> QED BY <1>5, <2>1, <2>2, <2>3 DEF Idle
<1>6. CASE n.fault.kind # "cut"
  <2>1. fs' = n.fs /\ card' = IF f.kind = "pull" THEN "out" ELSE card
    BY <1>6 DEF After
  <2>2. dead' => card' = "out"
    BY <1>1, <1>2, <1>3, <2>1
  <2>3. Rest'
    BY <1>1, <2>1, <2>2 DEF Rest, IInv
  <2>4. /\ VolumeOk(type, n.fs) /\ WindowOk(type, n.fs) /\ (n.fs.wflag => n.fs.winsect # 0)
        /\ (n.fs.winsect # 0 /\ ~n.fs.wflag => n.fs.win = n.disk[n.fs.winsect])
    BY <1>1, <1>6, Together
  <2>5. Sound(type', Machine(disk', fs', elf', logOn', NoFault))
    BY <1>1, <1>4, <2>1, <2>4, Apart
  <2> QED BY <1>1, <1>6, <2>1, <2>3, <2>5 DEF Idle
<1> QED BY <1>5, <1>6

-----------------------------------------------------------------------------
(***************************************************************************)
(* The card as it was prepared.                                            *)
(***************************************************************************)
\* The card as it was prepared is a card: its cells are tuples of numbers.
LEMMA ElfClusters ==
  ASSUME NEW t \in FatTypes
  PROVE  Layout[t].elf[1] \in Nat /\ Layout[t].elf[2] \in Nat
<1>1. Layout[t].elf \in Seq(Nat) /\ Len(Layout[t].elf) = 2
  BY Fields
<1> QED BY <1>1

\* The FAT of the card is made of numbers.
LEMMA LinkTyped ==
  ASSUME NEW t \in FatTypes, NEW i \in Nat
  PROVE  FirstLink(t, i) \in Nat /\ FatCell(t, i) \in Nat
<1>1. ASSUME NEW c PROVE FirstLink(t, c) \in Nat
  <2>1. Layout[t].elf[2] \in Nat /\ t \in {12, 16, 32}
    BY ElfClusters, TypeSome
  <2>2. EocOf(t) \in Nat
    BY <2>1 DEF EocOf, Eoc
  <2> QED BY <2>1, <2>2 DEF FirstLink
<1>2. CASE t # 12
  BY <1>1, <1>2 DEF FatCell
<1>3. CASE t = 12
  <2> DEFINE even == FirstLink(t, 2 * (i \div 3))
             odd  == FirstLink(t, 2 * (i \div 3) + 1)
  <2>1. even \in Nat /\ odd \in Nat
    BY <1>1
  <2>2. FatCell(t, i) = CASE i % 3 = 0 -> even % 256
            [] i % 3 = 1 -> (even \div 256) + 16 * (odd % 16)
            [] i % 3 = 2 -> odd \div 16
    BY <1>3 DEF FatCell
  <2> HIDE DEF even, odd
  <2>3. i % 3 \in 0..2
    OBVIOUS
  <2>4. /\ (even % 256) \in Nat /\ (even \div 256) \in Nat
        /\ (odd % 16) \in Nat /\ (odd \div 16) \in Nat
    BY <2>1
  <2>5. (even \div 256) + 16 * (odd % 16) \in Nat
    BY <2>4
  <2>6. FatCell(t, i) \in Nat
    BY <2>2, <2>3, <2>4, <2>5
  <2> QED BY <1>1, <2>6
<1> QED BY <1>1, <1>2, <1>3

\* So are its records,
LEMMA RecordsTyped ==
  ASSUME NEW t \in FatTypes
  PROVE  BootRecord(t) \in Seq(Nat) /\ RootEntry(t) \in Seq(Nat) /\ ElfEntry(t) \in Seq(Nat)
<1>1. /\ Layout[t].part \in Nat /\ Layout[t].rsvd \in Nat /\ Layout[t].nfat \in Nat
      /\ Layout[t].fatsz \in Nat /\ Layout[t].spc \in Nat /\ Layout[t].roots \in Nat
      /\ Layout[t].root \in Nat /\ Layout[t].dir \in Nat /\ Layout[t].elf[1] \in Nat
      /\ t \in Nat /\ SS \in Nat \ {0}
  <2>1. /\ Layout[t].part \in Nat /\ Layout[t].rsvd \in Nat /\ Layout[t].nfat \in Nat
        /\ Layout[t].fatsz \in Nat /\ Layout[t].spc \in Nat /\ Layout[t].roots \in Nat
        /\ Layout[t].root \in Nat
    BY Fields
  <2>2. Layout[t].dir \in Nat
    <3>1. Layout[t].dir \in 2..MaxClust(t)-1
      BY Fields
    <3>2. MaxClust(t) \in Nat
      BY Bounds
    <3> QED BY <3>1, <3>2
  <2> QED BY <2>1, <2>2, ElfClusters, TypeSome, FatOpsAssumption, SMTT(30)
<1>2. Sectors(t) - Layout[t].part \in Nat
  <2>1. /\ Layout[t].part < FatBase(t) /\ FatBase(t) \in Nat /\ Sectors(t) \in Nat
        /\ FatEnd(t) <= RootBase(t) /\ RootBase(t) <= DataBase(t) /\ DataBase(t) <= Sectors(t)
        /\ RootBase(t) \in Nat /\ DataBase(t) \in Nat
    BY Bounds
  <2>2. FatBase(t) <= FatEnd(t) /\ FatEnd(t) \in Nat
    BY <1>1, <2>1 DEF FatEnd
  <2> HIDE DEF FatEnd
  <2> QED BY <1>1, <2>1, <2>2
<1>3. ElfSize(t) \in Nat
  <2>1. 2 * SS * Layout[t].spc \in Nat /\ 2 * SS * Layout[t].spc > 0
    <3> DEFINE a == SS * Layout[t].spc
    <3>1. a \in Nat \ {0} /\ 2 * SS * Layout[t].spc = 2 * a
      BY CellsOf, <1>1 DEF ClusterCells
    <3> HIDE DEF a
    <3> QED BY <3>1
  <2> QED BY <2>1 DEF ElfSize
<1>4. BootRecord(t) \in Seq(Nat)
  BY <1>1, <1>2 DEF BootRecord, BootSig
<1>5. RootEntry(t) \in Seq(Nat)
  BY <1>1 DEF RootEntry, BootDir
<1>6. ElfEntry(t) \in Seq(Nat)
  BY <1>1, <1>3 DEF ElfEntry, ElfName
<1> QED BY <1>4, <1>5, <1>6

\* its clusters,
LEMMA DataTyped ==
  ASSUME NEW t \in FatTypes, NEW c \in Nat, NEW i \in Nat
  PROVE  DataCell(t, c, i) \in Seq(Nat)
<1> DEFINE l == Layout[t]
           at == IF c = l.elf[1] THEN i ELSE i + SS * l.spc
<1>1. at \in Nat
  BY CellsOf DEF ClusterCells
<1>2. at < ElfSize(t) => Byte(ElfBytes(t)[at + 1]) \in Seq(Nat)
  <2> HIDE DEF at
  <2>1. ElfSize(t) \in Int
    <3>1. SS * l.spc \in Nat /\ 2 * SS * l.spc = 2 * (SS * l.spc)
      BY CellsOf DEF ClusterCells
    <3> QED BY <3>1 DEF ElfSize
  <2>2. ASSUME at < ElfSize(t) PROVE ElfBytes(t)[at + 1] = 200 + (at + 1)
    <3>1. at + 1 \in 1..ElfSize(t)
      BY <1>1, <2>1, <2>2
    <3> QED BY <3>1 DEF ElfBytes
  <2> QED BY <1>1, <2>2 DEF Byte
<1>3. <<Dot, 1, c, 0>> \in Seq(Nat) /\ Byte(0) \in Seq(Nat) /\ Byte(99) \in Seq(Nat)
  BY DEF Dot, Byte
<1>4. i = 0 \/ i = 1 \/ i > 1
  OBVIOUS
<1>5. DataCell(t, c, i) =
        CASE c = l.root -> IF i = 0 THEN RootEntry(t) ELSE Byte(0)
       [] c = l.dir /\ i = 0 -> <<Dot, 1, c, 0>>
       [] c = l.dir /\ i = 1 -> ElfEntry(t)
       [] c = l.dir /\ i > 1 -> Byte(0)
       [] c \in {l.elf[1], l.elf[2]} /\ at < ElfSize(t) -> Byte(ElfBytes(t)[at + 1])
       [] OTHER -> Byte(99)
  BY DEF DataCell
<1> HIDE DEF at
<1> QED BY <1>2, <1>3, <1>4, <1>5, RecordsTyped

\* and all its cells.
LEMMA CellTyped ==
  ASSUME NEW t \in FatTypes, NEW s \in Nat, NEW i \in Nat
  PROVE  Cell(t, s, i) \in Seq(Nat)
<1> DEFINE l == Layout[t]
           d == s - DataBase(t)
<1>0. /\ DataBase(t) \in Nat /\ FatBase(t) \in Nat /\ RootBase(t) \in Nat /\ l.part \in Nat
      /\ l.part < FatBase(t) /\ l.spc \in Nat \ {0} /\ l.fatsz \in Nat \ {0} /\ SS \in Nat \ {0}
      /\ l.clusters \in Nat /\ l.clusters >= 4
  BY Bounds, Fields
<1>1. Byte(0) \in Seq(Nat) /\ <<BootSig, 0, l.part>> \in Seq(Nat)
      /\ <<InfoSig, l.clusters - 4, 2>> \in Seq(Nat)
  BY <1>0 DEF Byte, BootSig, InfoSig
<1>2. s >= FatBase(t) => Byte(FatCell(t, ((s - FatBase(t)) % l.fatsz) * SS + i)) \in Seq(Nat)
  <2> SUFFICES ASSUME s >= FatBase(t)
               PROVE  Byte(FatCell(t, ((s - FatBase(t)) % l.fatsz) * SS + i)) \in Seq(Nat)
    OBVIOUS
  <2>1. s - FatBase(t) \in Nat
    BY <1>0
  <2>2. ((s - FatBase(t)) % l.fatsz) \in Nat
    <3> DEFINE a == s - FatBase(t)
               b == l.fatsz
    <3>1. a \in Nat /\ b \in Nat \ {0}
      BY <1>0, <2>1
    <3> HIDE DEF a, b
    <3>2. (a % b) \in Nat
      BY <3>1
    <3> QED BY <3>2 DEF a, b
  <2>3. ((s - FatBase(t)) % l.fatsz) * SS + i \in Nat
    <3> DEFINE q == (s - FatBase(t)) % l.fatsz
    <3>1. q \in Nat
      BY <2>2
    <3> HIDE DEF q
    <3>2. q * SS \in Nat
      BY <1>0, <3>1, Times
    <3>3. q * SS + i \in Nat
      BY <3>2
    <3> QED BY <3>3 DEF q
  <2> QED BY <2>3, LinkTyped DEF Byte
<1>3. d >= 0 => DataCell(t, (d \div l.spc) + 2, (d % l.spc) * SS + i) \in Seq(Nat)
  <2> SUFFICES ASSUME d >= 0
               PROVE  DataCell(t, (d \div l.spc) + 2, (d % l.spc) * SS + i) \in Seq(Nat)
    OBVIOUS
  <2>1. d \in Nat
    BY <1>0
  <2> HIDE DEF d
  <2>2. (d \div l.spc) \in Nat /\ (d % l.spc) \in Nat
    <3> DEFINE b == l.spc
    <3>1. b \in Nat \ {0}
      BY <1>0
    <3> HIDE DEF b
    <3>2. (d \div b) \in Nat /\ (d % b) \in Nat
      BY <2>1, <3>1
    <3> QED BY <3>2 DEF b
  <2>3. (d % l.spc) * SS + i \in Nat
    <3> DEFINE q == d % l.spc
    <3>1. q \in Nat
      BY <2>2
    <3> HIDE DEF q
    <3>2. q * SS \in Nat
      BY <1>0, <3>1, Times
    <3>3. q * SS + i \in Nat
      BY <3>2
    <3> QED BY <3>3 DEF q
  <2> QED BY <2>2, <2>3, DataTyped
<1>4. Cell(t, s, i) =
   CASE s = l.part -> IF i = 0 THEN BootRecord(t) ELSE Byte(0)
       [] s < l.part -> IF i = 0 THEN <<BootSig, 0, l.part>> ELSE Byte(0)
       [] s > l.part /\ s < FatBase(t) ->
            IF i = 0 THEN <<InfoSig, l.clusters - 4, 2>> ELSE Byte(0)
       [] s >= FatBase(t) /\ s < RootBase(t) ->
            Byte(FatCell(t, ((s - FatBase(t)) % l.fatsz) * SS + i))
       [] s >= RootBase(t) /\ d < 0 -> IF s = RootBase(t) /\ i = 0 THEN RootEntry(t) ELSE Byte(0)
       [] d >= 0 -> DataCell(t, (d \div l.spc) + 2, (d % l.spc) * SS + i)
  BY DEF Cell
<1>5. d \in Int /\ (d < 0 <=> s < DataBase(t))
  BY <1>0
<1> HIDE DEF d
<1>6. s = l.part \/ s < l.part \/ (s > l.part /\ s < FatBase(t))
      \/ (s >= FatBase(t) /\ s < RootBase(t)) \/ (s >= RootBase(t) /\ d < 0) \/ d >= 0
  BY <1>0, <1>5
<1> QED BY <1>0, <1>1, <1>2, <1>3, <1>4, <1>6, RecordsTyped

\* The card is one, with its boot record and FSInfo in place.
LEMMA CardTyped ==
  ASSUME NEW t \in FatTypes
  PROVE  Card(t) \in [0..CardSize-1 -> Windows] /\ BootOk(t, Card(t))
<1>1. Card(t) \in [0..CardSize-1 -> Windows]
  BY CellTyped, Bounds DEF Card, Windows
<1>2. /\ 0 \in 0..CardSize-1 /\ Layout[t].part \in 0..CardSize-1 /\ 0 \in 0..SS-1
      /\ t = 32 => Layout[t].part + 1 \in 0..CardSize-1 /\ Layout[t].part + 1 < FatBase(t)
                   /\ Layout[t].part \in Nat
  <2>1. /\ Layout[t].part < FatBase(t) /\ FatBase(t) \in Nat /\ Sectors(t) \in Nat
        /\ FatEnd(t) <= RootBase(t) /\ RootBase(t) <= DataBase(t) /\ DataBase(t) <= Sectors(t)
        /\ RootBase(t) \in Nat /\ DataBase(t) \in Nat /\ Sectors(t) <= CardSize
        /\ Layout[t].part \in Nat /\ CardSize \in Nat /\ SS \in Nat \ {0, 1}
        /\ (t = 32 => Layout[t].part + 1 < FatBase(t)) /\ Layout[t].fatsz \in Nat
    BY Bounds
  <2>2. FatBase(t) <= FatEnd(t) /\ FatEnd(t) \in Nat
    BY <2>1 DEF FatEnd
  <2> HIDE DEF FatEnd
  <2> QED BY <2>1, <2>2
<1>3. \A s \in 0..CardSize-1 : Card(t)[s][0] = Cell(t, s, 0)
  BY <1>2 DEF Card
<1>4. t = 32 => LET info == Card(t)[Layout[t].part + 1][0] IN
       Part(info, 2) \in FreeCounts(t) /\ Part(info, 3) \in 0..MaxClust(t)-1
  <2> SUFFICES ASSUME t = 32
               PROVE  LET info == Cell(t, Layout[t].part + 1, 0) IN
                      Part(info, 2) \in FreeCounts(t) /\ Part(info, 3) \in 0..MaxClust(t)-1
    BY <1>2, <1>3
  <2>1. Layout[t].part + 1 > Layout[t].part /\ Layout[t].part + 1 < FatBase(t)
        /\ Layout[t].part \in Nat /\ ~(Layout[t].part + 1 = Layout[t].part)
        /\ ~(Layout[t].part + 1 < Layout[t].part) /\ FatBase(t) \in Nat
    BY <1>2, Bounds
  <2>2. Cell(t, Layout[t].part + 1, 0) = <<InfoSig, Layout[t].clusters - 4, 2>>
    <3> DEFINE s == Layout[t].part + 1
    <3>1. s > Layout[t].part /\ s < FatBase(t) /\ ~(s = Layout[t].part) /\ ~(s < Layout[t].part)
          /\ ~(s >= FatBase(t)) /\ ~(s >= RootBase(t)) /\ ~(s - DataBase(t) >= 0)
      <4>1. FatEnd(t) <= RootBase(t) /\ RootBase(t) <= DataBase(t) /\ RootBase(t) \in Nat
            /\ DataBase(t) \in Nat /\ Layout[t].fatsz \in Nat
        BY Bounds
      <4>2. FatBase(t) <= FatEnd(t) /\ FatEnd(t) \in Nat
        BY <2>1, <4>1 DEF FatEnd
      <4> HIDE DEF FatEnd
      <4> QED BY <2>1, <4>1, <4>2
    <3> HIDE DEF s
    <3>2. Cell(t, s, 0) = <<InfoSig, Layout[t].clusters - 4, 2>>
      BY <3>1 DEF Cell
    <3> QED BY <3>2 DEF s
  <2>3. Layout[t].clusters - 4 \in FreeCounts(t) /\ 2 \in 0..MaxClust(t)-1
    <3>1. /\ Layout[t].clusters \in Nat /\ Layout[t].clusters >= 4
          /\ MaxClust(t) = Layout[t].clusters + 2
      BY Fields DEF MaxClust
    <3> QED BY <3>1 DEF FreeCounts
  <2> DEFINE info == <<InfoSig, Layout[t].clusters - 4, 2>>
  <2>4. Part(info, 2) = Layout[t].clusters - 4 /\ Part(info, 3) = 2
    BY DEF Part
  <2> QED BY <2>2, <2>3, <2>4
<1> QED BY <1>1, <1>2, <1>3, <1>4 DEF BootOk

\* The invariant holds in the beginning.
LEMMA Starts == ASSUME Init PROVE IInv
<1>1. type \in FatTypes /\ disk = Card(type) /\ fs = NoFs /\ elf = NoFil /\ logOn \in BOOLEAN
      /\ NoFault \in [kind : Kinds, left : Nat] /\ NoFault.kind = "none"
  BY DEF Init, NoFault, Kinds
<1>2. Sound(type, Idle)
  BY <1>1, CardTyped, NoFsOk, NoFilTyped, Apart DEF Idle
<1>3. ElfOk
  BY <1>1, NoFilTyped DEF ElfOk, NoFil
<1>4. Rest
  BY <1>1 DEF Init, Rest, NoRead
<1> QED BY <1>2, <1>3, <1>4 DEF IInv

-----------------------------------------------------------------------------
(***************************************************************************)
(* The steps of FatFs.                                                     *)
(***************************************************************************)
\* All that the calls of a step rely on.
LEMMA Calls ==
  ASSUME NEW t \in FatTypes
  PROVE  LET F == Level[Fuel] IN
         DirIo(t, F) /\ ScanGood(t, F) /\ SeekIo(t, F) /\ PutsGood(t, F) /\ ReadGood(t, F)
  BY LevelGood, FatOpsAssumption DEF AllGood, DirIo, SeekIo, Io

\* Counting accesses is no fault.
LEMMA CountingTyped ==
  /\ Counting \in [kind : Kinds, left : Nat] /\ Counting.kind = "none"
  BY FatAssumption DEF Counting, Kinds

\* Between two calls.
LEMMA IdleIs ==
  Idle.fs = fs /\ Idle.disk = disk /\ Idle.fp = elf /\ Idle.log = logOn
  BY DEF Idle, Machine

\* A call with the ELF leaves the card and the file in order.
LEMMA ReadKeeps ==
  ASSUME IInv, OnlyCuts, NEW s \in Machines, NEW f \in Faults(s), NEW n, Sound(type, n),
         Kept(type, Machine(disk, fs, elf, logOn, f), n), n.fp.mode = "r",
         n.fp.open => Up(type, n) /\ Live(type, n) /\ FileOk(type, n.fp),
         ~n.fp.open => n.fp = NoFil, After(f, n),
         last' = IF n.fault.kind = "cut" THEN NoRead
                 ELSE [res |-> n.res, at |-> elf.fptr, data |-> n.data],
         n.fault.kind # "cut" => elf' = n.fp,
         UNCHANGED <<type, logOn, kept, lines>>
  PROVE  IInv'
<1>1. /\ f \in [kind : Kinds, left : Nat] /\ (f.kind = "pull" => "pull" \in FaultKinds[type])
      /\ (card = "out" => f.kind = "pull")
  BY FaultsTyped
<1>2. n \in Machines /\ n.fp \in FIL /\ n.res \in FRESULT /\ n.log = logOn
      /\ elf \in FIL /\ logOn \in BOOLEAN /\ lines \in Nat /\ type \in FatTypes
  BY Typed DEF Sound, Nearly, Kept, Machine, IInv, ElfOk, Rest
<1>3. last'.res \in FRESULT \cup {"none"}
  BY <1>2 DEF NoRead
<1>4. elf' \in FIL
  BY <1>2, NoFilTyped DEF After
<1>5. dead' => logOn'
  BY <1>2 DEF Sound, Nearly, FaultOk, After
<1>6. type' = type /\ logOn' \in BOOLEAN /\ lines' \in Nat
  BY <1>2
<1>7. Rest' /\ Sound(type, Idle)' /\ (n.fault.kind = "cut" => fs' = NoFs /\ elf' = NoFil)
      /\ (n.fault.kind # "cut" => fs' = n.fs /\ disk' = n.disk)
  BY <1>1, <1>2, <1>3, <1>4, <1>5, <1>6, Ends
<1>8. CASE n.fault.kind = "cut"
  <2>1. ElfOk'
    BY <1>4, <1>7, <1>8 DEF ElfOk, NoFil
  <2> QED BY <1>7, <2>1 DEF IInv
<1>9. CASE n.fault.kind # "cut"
  <2>1. elf' = n.fp /\ Idle'.fs = n.fs
    BY <1>7, <1>9 DEF Idle, Machine
  <2>2. ASSUME elf'.open PROVE Up(type, Idle)' /\ Live(type, Idle)' /\ FileOk(type, elf)'
    BY <1>6, <1>7, <2>1, <2>2 DEF Up, Mounted, Live
  <2>3. ElfOk'
    BY <1>4, <2>1, <2>2 DEF ElfOk
  <2> QED BY <1>7, <2>3 DEF IInv
<1> QED BY <1>8, <1>9

\* powerpc_load_elf opens the ELF (powerpc_elf.c:539-541).
LEMMA OpenKeeps ==
  ASSUME IInv, OnlyCuts, OpenElf(Level[Fuel])
  PROVE  IInv'
<1> DEFINE Op(m) == FOpen(Level[Fuel], m, ElfName, "r")
           start == Machine(disk, fs, elf, logOn, Counting)
<1>1. type \in FatTypes /\ elf \in FIL /\ elf = NoFil
  BY DEF IInv, Rest, ElfOk, OpenElf
<1>2. ElfName \in Nat /\ "r" \in {"r", "w"} /\ "OK" \in FRESULT
  BY DEF ElfName, FRESULT
<1>3. ASSUME NEW f \in [kind : Kinds, left : Nat], type = 32 => f.kind \in {"none", "cut"}
      PROVE  LET n == Op(Machine(disk, fs, elf, logOn, f)) IN
             /\ Sound(type, n) /\ Kept(type, Machine(disk, fs, elf, logOn, f), n)
             /\ n.fp.mode = "r"
             /\ n.fp.open => Up(type, n) /\ Live(type, n) /\ FileOk(type, n.fp)
             /\ ~n.fp.open => n.fp = NoFil
  <2> DEFINE m == Machine(disk, fs, elf, logOn, f)
             n == FOpen(Level[Fuel], m, ElfName, "r")
  <2>1. Sound(type, m)
    BY <1>1, <1>3, Begins
  <2>2. /\ Sound(type, n) /\ Kept(type, m, n)
        /\ n.res = "OK" => /\ Up(type, n) /\ Live(type, n) /\ FileOk(type, n.fp) /\ n.fp.open
                           /\ n.fp.mode = "r" /\ n.fp.fptr = 0
        /\ n.res # "OK" => n.fp = NoFil
    <3> HIDE DEF m
    <3> QED BY <1>1, <1>2, <2>1, Calls, FOpenSound
  <2> HIDE DEF m, n
  <2>3. n.fp.mode = "r" /\ (n.fp.open => Up(type, n) /\ Live(type, n) /\ FileOk(type, n.fp))
        /\ (~n.fp.open => n.fp = NoFil)
    BY <2>2 DEF NoFil
  <2> QED BY <2>2, <2>3 DEF m, n
<1>4. Op(start) \in Machines
  BY <1>3, CountingTyped DEF Sound, Nearly
<1> HIDE DEF start
<1>5. PICK f \in Faults(Op(start)) :
        LET n == Op(Machine(disk, fs, elf, logOn, f)) IN
        /\ After(f, n)
        /\ last' = IF n.fault.kind = "cut" THEN NoRead
                   ELSE [res |-> n.res, at |-> elf.fptr, data |-> n.data]
        /\ n.fault.kind # "cut" => elf' = n.fp
  BY DEF OpenElf, Read, start
<1>6. UNCHANGED <<type, logOn, kept, lines>>
  BY DEF OpenElf, Read
<1>7. f \in [kind : Kinds, left : Nat] /\ (type = 32 => f.kind \in {"none", "cut"})
  BY <1>4, FaultsTyped
<1> DEFINE n == Op(Machine(disk, fs, elf, logOn, f))
<1>8. /\ Sound(type, n) /\ Kept(type, Machine(disk, fs, elf, logOn, f), n) /\ n.fp.mode = "r"
      /\ n.fp.open => Up(type, n) /\ Live(type, n) /\ FileOk(type, n.fp)
      /\ ~n.fp.open => n.fp = NoFil
  BY <1>3, <1>7
<1> HIDE DEF n, Op
<1> QED BY <1>4, <1>5, <1>6, <1>8, ReadKeeps DEF n

\* What the open file allows a call to begin with, and what a call then returns.
LEMMA FileBegins ==
  ASSUME IInv, elf.open, NEW f \in [kind : Kinds, left : Nat],
         type = 32 => f.kind \in {"none", "cut"}
  PROVE  ReadPre(type, Machine(disk, fs, elf, logOn, f))
<1> DEFINE m == Machine(disk, fs, elf, logOn, f)
<1>1. elf \in FIL /\ elf.mode = "r" /\ Up(type, Idle) /\ Live(type, Idle) /\ FileOk(type, elf)
  BY DEF IInv, ElfOk
<1>2. Sound(type, m) /\ m.fs = fs /\ m.fp = elf
  BY <1>1, Begins
<1> HIDE DEF m
<1>3. Up(type, m) /\ Live(type, m)
  BY <1>1, <1>2, IdleIs DEF Up, Mounted, Live
<1> QED BY <1>1, <1>2, <1>3 DEF ReadPre, FileUp, m

\* A call with an open file leaves it open.
LEMMA FileEnds ==
  ASSUME NEW t, NEW m, NEW n, ReadPre(t, m), m.fp.open, Handled(t, m, n)
  PROVE  /\ Sound(t, n) /\ Kept(t, m, n) /\ n.fp.mode = "r" /\ n \in Machines
         /\ n.fp.open => Up(t, n) /\ Live(t, n) /\ FileOk(t, n.fp)
         /\ ~n.fp.open => n.fp = NoFil
BY DEF ReadPre, Handled, FileUp, Up, Sound, Nearly

\* powerpc_load_elf reads (powerpc_elf.c:601-605).
LEMMA ReadElfKeeps ==
  ASSUME IInv, OnlyCuts, ReadElf(Level[Fuel])
  PROVE  IInv'
<1>1. type \in FatTypes /\ elf \in FIL /\ elf.open
  BY DEF IInv, Rest, ElfOk, ReadElf
<1>2. PICK len \in ReadLens : Read(LAMBDA m : FRead(Level[Fuel], m, len))
  BY DEF ReadElf
<1> DEFINE Op(m) == FRead(Level[Fuel], m, len)
           start == Machine(disk, fs, elf, logOn, Counting)
<1>3. ASSUME NEW f \in [kind : Kinds, left : Nat], type = 32 => f.kind \in {"none", "cut"}
      PROVE  LET n == Op(Machine(disk, fs, elf, logOn, f)) IN
             /\ Sound(type, n) /\ Kept(type, Machine(disk, fs, elf, logOn, f), n)
             /\ n.fp.mode = "r" /\ n \in Machines
             /\ n.fp.open => Up(type, n) /\ Live(type, n) /\ FileOk(type, n.fp)
             /\ ~n.fp.open => n.fp = NoFil
  <2> DEFINE m == Machine(disk, fs, elf, logOn, f)
  <2>1. ReadPre(type, m) /\ m.fp.open /\ len \in Nat
    <3>1. m.fp = elf
      BY DEF Machine
    <3> QED BY <1>1, <1>3, <3>1, FileBegins, FatAssumption
  <2> HIDE DEF m
  <2>2. Handled(type, m, Op(m))
    BY <1>1, <2>1, Calls, FReadUp
  <2> HIDE DEF Op
  <2> QED BY <2>1, <2>2, FileEnds DEF m
<1>4. Op(start) \in Machines
  BY <1>3, CountingTyped
<1> HIDE DEF start
<1>5. PICK f \in Faults(Op(start)) :
        LET n == Op(Machine(disk, fs, elf, logOn, f)) IN
        /\ After(f, n)
        /\ last' = IF n.fault.kind = "cut" THEN NoRead
                   ELSE [res |-> n.res, at |-> elf.fptr, data |-> n.data]
        /\ n.fault.kind # "cut" => elf' = n.fp
  BY <1>2 DEF Read, start
<1>6. UNCHANGED <<type, logOn, kept, lines>>
  BY <1>2 DEF Read
<1>7. f \in [kind : Kinds, left : Nat] /\ (type = 32 => f.kind \in {"none", "cut"})
  BY <1>4, FaultsTyped
<1> DEFINE n == Op(Machine(disk, fs, elf, logOn, f))
<1>8. /\ Sound(type, n) /\ Kept(type, Machine(disk, fs, elf, logOn, f), n) /\ n.fp.mode = "r"
      /\ n.fp.open => Up(type, n) /\ Live(type, n) /\ FileOk(type, n.fp)
      /\ ~n.fp.open => n.fp = NoFil
  BY <1>3, <1>7
<1> HIDE DEF n, Op
<1> QED BY <1>4, <1>5, <1>6, <1>8, ReadKeeps DEF n

\* powerpc_load_elf seeks (powerpc_elf.c:598-600).
LEMMA SeekElfKeeps ==
  ASSUME IInv, OnlyCuts, SeekElf(Level[Fuel])
  PROVE  IInv'
<1>1. type \in FatTypes /\ elf \in FIL /\ elf.open
  BY DEF IInv, Rest, ElfOk, SeekElf
<1>2. PICK pos \in SeekTo : Read(LAMBDA m : FLseek(Level[Fuel], m, pos))
  BY DEF SeekElf
<1> DEFINE Op(m) == FLseek(Level[Fuel], m, pos)
           start == Machine(disk, fs, elf, logOn, Counting)
<1>3. ASSUME NEW f \in [kind : Kinds, left : Nat], type = 32 => f.kind \in {"none", "cut"}
      PROVE  LET n == Op(Machine(disk, fs, elf, logOn, f)) IN
             /\ Sound(type, n) /\ Kept(type, Machine(disk, fs, elf, logOn, f), n)
             /\ n.fp.mode = "r" /\ n \in Machines
             /\ n.fp.open => Up(type, n) /\ Live(type, n) /\ FileOk(type, n.fp)
             /\ ~n.fp.open => n.fp = NoFil
  <2> DEFINE m == Machine(disk, fs, elf, logOn, f)
  <2>1. ReadPre(type, m) /\ m.fp.open /\ pos \in Nat
    <3>1. m.fp = elf
      BY DEF Machine
    <3> QED BY <1>1, <1>3, <3>1, FileBegins, FatAssumption
  <2> HIDE DEF m
  <2>2. Handled(type, m, Op(m))
    BY <1>1, <2>1, Calls, FLseekUp DEF ReadPre
  <2> HIDE DEF Op
  <2> QED BY <2>1, <2>2, FileEnds DEF m
<1>4. Op(start) \in Machines
  BY <1>3, CountingTyped
<1> HIDE DEF start
<1>5. PICK f \in Faults(Op(start)) :
        LET n == Op(Machine(disk, fs, elf, logOn, f)) IN
        /\ After(f, n)
        /\ last' = IF n.fault.kind = "cut" THEN NoRead
                   ELSE [res |-> n.res, at |-> elf.fptr, data |-> n.data]
        /\ n.fault.kind # "cut" => elf' = n.fp
  BY <1>2 DEF Read, start
<1>6. UNCHANGED <<type, logOn, kept, lines>>
  BY <1>2 DEF Read
<1>7. f \in [kind : Kinds, left : Nat] /\ (type = 32 => f.kind \in {"none", "cut"})
  BY <1>4, FaultsTyped
<1> DEFINE n == Op(Machine(disk, fs, elf, logOn, f))
<1>8. /\ Sound(type, n) /\ Kept(type, Machine(disk, fs, elf, logOn, f), n) /\ n.fp.mode = "r"
      /\ n.fp.open => Up(type, n) /\ Live(type, n) /\ FileOk(type, n.fp)
      /\ ~n.fp.open => n.fp = NoFil
  BY <1>3, <1>7
<1> HIDE DEF n, Op
<1> QED BY <1>4, <1>5, <1>6, <1>8, ReadKeeps DEF n

\* gecko_printf appends a line (gecko.c:245-263).
LEMMA LogKeeps ==
  ASSUME IInv, OnlyCuts, Log(Level[Fuel])
  PROVE  IInv'
<1>1. /\ type \in FatTypes /\ elf \in FIL /\ lines \in Nat /\ lines' = lines + 1
      /\ UNCHANGED <<type, last, reads>> /\ logOn \in BOOLEAN /\ logOn = TRUE
      /\ logOn' \in IF dead' THEN {TRUE} ELSE BOOLEAN
  BY DEF IInv, Rest, ElfOk, Log
<1>2. PICK len \in LineLens :
     LET str == [i \in 1..len |-> 10 * lines + i]
         call(f) == LogLine(Level[Fuel], Machine(disk, fs, NoFil, logOn, f), str)
     IN \E f \in Faults(call(Counting)) :
       LET n == call(f)
       IN After(f, n) /\ (IF n.fault.kind = "cut" THEN TRUE ELSE elf' = elf)
  BY DEF Log
<1> DEFINE str == [i \in 1..len |-> 10 * lines + i]
           Op(m) == LogLine(Level[Fuel], m, str)
           start == Machine(disk, fs, NoFil, logOn, Counting)
<1>3. str \in Seq(Nat)
  <2>1. len \in Nat
    BY FatAssumption
  <2>2. \A i \in 1..len : 10 * lines + i \in Nat
    BY <1>1, <2>1
  <2> QED BY <2>1, <2>2
<1> HIDE DEF str
<1>4. ASSUME NEW f \in [kind : Kinds, left : Nat], type = 32 => f.kind \in {"none", "cut"}
      PROVE  LET n == Op(Machine(disk, fs, NoFil, logOn, f)) IN
             Sound(type, n) /\ Kept(type, Machine(disk, fs, NoFil, logOn, f), n)
  <2> DEFINE m == Machine(disk, fs, NoFil, logOn, f)
  <2>1. Sound(type, m)
    BY <1>4, Begins, NoFilTyped
  <2> HIDE DEF m
  <2>2. Sound(type, Op(m)) /\ Kept(type, m, Op(m))
    BY <1>1, <1>3, <2>1, Calls, LogLineSound
  <2> HIDE DEF Op
  <2> QED BY <2>2 DEF m
<1>5. Op(start) \in Machines
  BY <1>4, CountingTyped DEF Sound, Nearly
<1> HIDE DEF start
<1>6. PICK f \in Faults(Op(start)) :
        LET n == Op(Machine(disk, fs, NoFil, logOn, f)) IN
        After(f, n) /\ (n.fault.kind # "cut" => elf' = elf)
  BY <1>2 DEF str, start
<1>7. /\ f \in [kind : Kinds, left : Nat] /\ (type = 32 => f.kind \in {"none", "cut"})
      /\ (f.kind = "pull" => "pull" \in FaultKinds[type]) /\ (card = "out" => f.kind = "pull")
  BY <1>5, FaultsTyped
<1> DEFINE m == Machine(disk, fs, NoFil, logOn, f)
           n == Op(m)
<1>8. Sound(type, n) /\ Kept(type, m, n) /\ After(f, n) /\ (n.fault.kind # "cut" => elf' = elf)
  BY <1>4, <1>6, <1>7
<1> HIDE DEF n, Op
<1>9. elf' \in FIL
  BY <1>1, <1>8, NoFilTyped DEF After
<1>10. logOn' \in BOOLEAN /\ (dead' => logOn') /\ lines' \in Nat /\ type' = type
       /\ last'.res \in FRESULT \cup {"none"}
  <2>1. CASE dead'
    BY <1>1, <2>1 DEF IInv, Rest
  <2>2. CASE ~dead'
    BY <1>1, <2>2 DEF IInv, Rest
  <2> QED BY <2>1, <2>2
<1>11. Rest' /\ Sound(type, Idle)' /\ (n.fault.kind = "cut" => fs' = NoFs /\ elf' = NoFil)
       /\ (n.fault.kind # "cut" => fs' = n.fs /\ disk' = n.disk)
  BY <1>7, <1>8, <1>9, <1>10, Ends, NoFilTyped
<1>12. CASE n.fault.kind = "cut"
  <2>1. ElfOk'
    BY <1>9, <1>11, <1>12 DEF ElfOk, NoFil
  <2> QED BY <1>11, <2>1 DEF IInv
<1>13. CASE n.fault.kind # "cut"
  <2>1. elf' = elf /\ Idle'.fs = n.fs /\ m.fs = fs
    BY <1>8, <1>11, <1>13 DEF Idle, Machine
  <2>2. ASSUME elf.open PROVE Up(type, Idle)' /\ Live(type, Idle)' /\ FileOk(type, elf)'
    <3>1. fs.fs_type = type /\ (type # 32 => fs.winsect # 0) /\ FileOk(type, elf)
      BY <2>2, IdleIs DEF IInv, ElfOk, Up, Mounted, Live
    <3>2. n.fs.fs_type # 0 /\ (type # 32 => n.fs.winsect # 0)
      BY <1>1, <1>8, <2>1, <3>1, TypeSome DEF Kept
    <3>3. n.fs.fs_type = type
      BY <1>8, <3>2 DEF Sound, Nearly, VolumeOk
    <3> QED BY <1>10, <1>11, <2>1, <3>1, <3>2, <3>3 DEF Up, Mounted, Live
  <2>3. ElfOk'
    BY <2>1, <2>2 DEF ElfOk, IInv
  <2> QED BY <1>11, <2>3 DEF IInv
<1> QED BY <1>12, <1>13

-----------------------------------------------------------------------------
(***************************************************************************)
(* The theorems.                                                           *)
(***************************************************************************)
\* Steps without a call: the card goes and comes back, the power is cut.
LEMMA QuietKeeps ==
  ASSUME IInv, Eject \/ Insert \/ PowerCycle \/ UNCHANGED vars
  PROVE  IInv'
<1>1. type \in FatTypes /\ type' = type
  BY DEF IInv, Rest, Eject, Insert, PowerCycle, vars
<1>2. CASE Eject \/ Insert \/ UNCHANGED vars
  <2>1. UNCHANGED <<type, disk, fs, elf, logOn, last, lines>>
    BY <1>2 DEF Eject, Insert, vars
  <2>2. Idle' = Idle
    BY <2>1 DEF Idle
  <2>3. Sound(type, Idle)' /\ ElfOk'
    BY <2>1, <2>2 DEF IInv, ElfOk
  <2>4. Rest'
    BY <1>2, <2>1 DEF IInv, Rest, Eject, Insert, vars
  <2> QED BY <2>3, <2>4 DEF IInv
<1>3. CASE PowerCycle
  <2>1. fs' = NoFs /\ elf' = NoFil /\ disk' = disk /\ logOn' \in BOOLEAN
    BY <1>3 DEF PowerCycle
  <2>2. disk \in [0..CardSize-1 -> Windows] /\ BootOk(type, disk)
    BY <1>1, IdleIs, Together DEF IInv, Idle, Machine, NoFault
  <2>3. NoFault \in [kind : Kinds, left : Nat] /\ NoFault.kind = "none"
    BY DEF NoFault, Kinds
  <2>4. Sound(type', Machine(disk', fs', elf', logOn', NoFault))
    BY <1>1, <2>1, <2>2, <2>3, Apart, NoFsOk, NoFilTyped
  <2>5. ElfOk'
    BY <2>1, NoFilTyped DEF ElfOk, NoFil
  <2>6. Rest'
    BY <1>1, <1>3, <2>1 DEF IInv, Rest, PowerCycle, NoRead
  <2> QED BY <2>4, <2>5, <2>6 DEF IInv, Idle
<1> QED BY <1>2, <1>3

\* Between two calls of the file system the volume in RAM is the one on the card, its
\* window is coherent, the boot records are intact, and an open ELF addresses the volume
\* (ff.c, sdmmc.c:317-352, gecko.c:259): for every layout of the card, every length of a
\* line or read, every depth of nested messages and every amount of fuel. FAT12 and FAT16
\* may meet any fault, FAT32 a power cut.
THEOREM CardInvariant == Spec /\ OnlyCuts => []IInv
<1>1. Init => IInv
  BY Starts
<1>2. IInv /\ OnlyCuts /\ [Next]_vars => IInv' /\ OnlyCuts'
  <2> SUFFICES ASSUME IInv, OnlyCuts, [Next]_vars
               PROVE  IInv' /\ OnlyCuts'
    OBVIOUS
  <2>1. type' = type
    BY DEF Next, Log, OpenElf, ReadElf, SeekElf, Read, Eject, Insert, PowerCycle, vars
  <2>2. OnlyCuts'
    BY <2>1 DEF OnlyCuts
  <2>3. IInv'
    <3>1. CASE Log(Level[Fuel])
      BY <3>1, LogKeeps
    <3>2. CASE OpenElf(Level[Fuel])
      BY <3>2, OpenKeeps
    <3>3. CASE ReadElf(Level[Fuel])
      BY <3>3, ReadElfKeeps
    <3>4. CASE SeekElf(Level[Fuel])
      BY <3>4, SeekElfKeeps
    <3>5. CASE Eject \/ Insert \/ PowerCycle \/ UNCHANGED vars
      BY <3>5, QuietKeeps
    <3> QED BY <3>1, <3>2, <3>3, <3>4, <3>5 DEF Next
  <2> QED BY <2>2, <2>3
<1> QED BY <1>1, <1>2, PTL DEF Spec

\* No field of FATFS or FIL leaves the volume (ff.h), at any depth of loops and messages.
THEOREM AddressesInside == Spec /\ OnlyCuts => []TypeOK
<1>1. IInv => TypeOK
  <2> SUFFICES ASSUME IInv PROVE TypeOK
    OBVIOUS
  <2>1. type \in FatTypes /\ Sound(type, Idle) /\ elf \in FIL
    BY DEF IInv, Rest, ElfOk
  <2>2. /\ disk \in [0..CardSize-1 -> Windows] /\ VolumeOk(type, fs) /\ WindowOk(type, fs)
    BY <2>1, IdleIs, Together DEF Idle, Machine, NoFault
  <2>3. DOMAIN disk = 0..CardSize-1
    BY <2>2
  <2>4. Vol(type) \subseteq 0..Sectors(type)-1 /\ 0 \in 0..Sectors(type)-1
    <3>1. /\ FatBase(type) \in Nat /\ Sectors(type) \in Nat /\ DataBase(type) \in Nat
          /\ DataBase(type) <= Sectors(type)
      BY <2>1, Bounds
    <3>2. Sectors(type) > 0
      <4>1. FirstSect(type, 2) + 0 \in DataBase(type)..Sectors(type)-1
        <5>1. 2 \in 2..MaxClust(type)-1 /\ 0 \in 0..Layout[type].spc-1
          BY <2>1, Bounds
        <5> QED BY <2>1, <5>1, ClusterSects
      <4> QED BY <3>1, <4>1
    <3> QED BY <3>1, <3>2 DEF Vol
  <2>5. fs.winsect \in 0..Sectors(type)-1 /\ fs.fs_type \in {0, type}
        /\ fs.last_clust \in 0..MaxClust(type)-1
        /\ fs.free_clust \in (0..MaxClust(type)) \cup {Unknown}
    BY <2>2, <2>4 DEF VolumeOk, WindowOk, FreeCounts
  <2>6. elf.dsect \in 0..Sectors(type)-1 /\ elf.fptr \in 0..elf.fsize
    <3>1. CASE elf.open
      <4>1. FileOk(type, elf) /\ elf.mode = "r"
        BY <3>1 DEF IInv, ElfOk
      <4>2. elf.fptr \in Nat /\ elf.fsize \in Nat
        BY <2>1 DEF FIL
      <4> QED BY <2>4, <4>1, <4>2 DEF FileOk
    <3>2. CASE ~elf.open
      <4>1. elf = NoFil
        BY <3>2 DEF IInv, ElfOk
      <4> QED BY <2>4, <4>1 DEF NoFil
    <3> QED BY <3>1, <3>2
  <2> QED BY <2>3, <2>5, <2>6 DEF TypeOK, IInv, Rest
<1> QED BY <1>1, CardInvariant, PTL

\* A clean window holds the sector it is named after, whoever moved it and whatever failed
\* on the way (move_window, ff.c:208-243).
THEOREM WindowNamed == Spec /\ OnlyCuts => []WindowCoherent
<1>1. IInv => WindowCoherent
  BY IdleIs DEF IInv, Sound, Held, WindowCoherent
<1> QED BY <1>1, CardInvariant, PTL

\* No step writes the partition table or the boot record (sync, ff.c:250-277, and
\* move_window, ff.c:208-243, reach them only under a wrong name).
THEOREM BootRecordsKept == Spec /\ OnlyCuts => []BootKept
<1>1. IInv => BootKept
  BY IdleIs DEF IInv, Sound, Nearly, BootOk, BootKept
<1> QED BY <1>1, CardInvariant, PTL

\* Printing about failed accesses uses the stack up only when the card is gone
\* (sdmmc.c:317-352, gecko.c:259).
THEOREM StackKept == Spec /\ OnlyCuts => []DeadOnlyWithoutCard
<1>1. IInv => DeadOnlyWithoutCard
  BY DEF IInv, Rest, DeadOnlyWithoutCard
<1> QED BY <1>1, CardInvariant, PTL
=============================================================================
