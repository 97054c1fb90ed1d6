------------------------------- MODULE FatOps -------------------------------
(***************************************************************************)
(* The file system calls mini makes, src/ff.c as ff.h configures it: one   *)
(* sector window per volume that FAT, directory and file data share        *)
(* (_FS_TINY), short names, no locking.  An operator takes the machine m   *)
(* and returns it as the C function leaves it; m.res is an FRESULT, m.val  *)
(* a cluster or offset the function returns.                               *)
(*                                                                         *)
(* A sector has SS cells.  A cell is a tuple: a byte of data or of a       *)
(* FAT12, or an entry of another FAT, <<v>>; a directory entry, <<name,    *)
(* isDir, cluster, size>>; the fields of a boot record or of an FSInfo.    *)
(*                                                                         *)
(* A disk access can fail.  sdmmc.c then prints, and gecko_printf appends  *)
(* a line to a file of the same volume, inside the call that failed.       *)
(***************************************************************************)
EXTENDS Integers, Sequences

CONSTANTS SS,        \* cells of a sector
          CardSize,  \* sectors of the card
          MaxNest,   \* failing accesses inside failing accesses that we follow
          Fuel,      \* rounds of loops and nested calls, one below the other
          ErrLine    \* what sdmmc.c prints about a failed access

ASSUME FatOpsAssumption ==
  /\ SS \in Nat \ {0, 1} /\ CardSize \in Nat /\ MaxNest \in Nat \ {0} /\ Fuel \in Nat
  /\ ErrLine \in Seq(Nat)

\* 0xFFFFFFFF, above every other number: no cluster, from get_cluster and
\* create_chain, and the number of free clusters while it is not known.
DiskErr == 2147483647
Unknown == DiskErr
Eoc     == 268435455 \* 0x0FFFFFFF
BootSig == 85
InfoSig == 82

BootDir == 1
LogName == 2
ElfName == 3
Dot     == 46
Deleted == 229

Byte(v)  == <<v>>
Blank    == [i \in 0..SS-1 |-> Byte(0)]
Part(cell, i) == IF i <= Len(cell) THEN cell[i] ELSE 0

NoFil == [open |-> FALSE, mode |-> "r", org_clust |-> 0, fsize |-> 0, fptr |-> 0,
          curr_clust |-> 0, csect |-> 255, dsect |-> 0, dir_sect |-> 0, dir_idx |-> 0,
          written |-> FALSE, err |-> FALSE]

\* FATFS as it is before the first mount.
NoFs == [fs_type |-> 0, csize |-> 0, n_fats |-> 0, fatbase |-> 0, dirbase |-> 0,
         database |-> 0, sects_fat |-> 0, n_rootdir |-> 0, max_clust |-> 0,
         last_clust |-> 0, free_clust |-> 0, fsi_sector |-> 0, fsi_flag |-> FALSE,
         winsect |-> 0, wflag |-> FALSE, win |-> Blank]

NoDir == [sclust |-> 0, clust |-> 0, sect |-> 0, index |-> 0]
NoFault == [kind |-> "none", left |-> 0]

\* A call begins: disk and volume as they are, the fault that will meet it.
Machine(disk, fs, fp, log, fault) ==
  [disk |-> disk, fs |-> fs, fp |-> fp, dj |-> NoDir, log |-> log, fault |-> fault,
   depth |-> 0, dead |-> FALSE, res |-> "OK", val |-> 0, data |-> <<>>]

Ok(m)       == [m EXCEPT !.res = "OK"]
Fail(m, r)  == [m EXCEPT !.res = r]
Val(m, v)   == [m EXCEPT !.val = v]
\* What is done with m, the machine that a call left; Then: if it succeeded.
On(m, Op(_)) == Op(m)
Then(m, Op(_)) == IF m.res = "OK" THEN Op(m) ELSE m
Abort(m, r) == [m EXCEPT !.res = r, !.fp.err = TRUE]

\* What the structures of ff.h can hold.
Windows == [0..SS-1 -> Seq(Nat)]
FATFS ==
  [fs_type : Nat, csize : Nat, n_fats : Nat, fatbase : Nat, dirbase : Nat, database : Nat,
   sects_fat : Nat, n_rootdir : Nat, max_clust : Nat, last_clust : Nat, free_clust : Nat,
   fsi_sector : Nat, fsi_flag : BOOLEAN, winsect : Nat, wflag : BOOLEAN, win : Windows]
FIL ==
  [open : BOOLEAN, mode : {"r", "w"}, org_clust : Nat, fsize : Nat, fptr : Nat,
   curr_clust : Nat, csect : Nat, dsect : Nat, dir_sect : Nat, dir_idx : Nat,
   written : BOOLEAN, err : BOOLEAN]
DIR == [sclust : Nat, clust : Nat, sect : Nat, index : Nat]
\* "FULL" is a write that ended short, EOF of f_putc.
FRESULT == {"OK", "DISK_ERR", "INT_ERR", "NOT_READY", "NO_FILE", "NO_PATH", "DENIED",
            "FULL", "NO_FILESYSTEM"}
Kinds == {"none", "once", "wrote", "pull", "cut"}
Machines ==
  [disk : [0..CardSize-1 -> Windows], fs : FATFS, fp : FIL, dj : DIR, log : BOOLEAN,
   fault : [kind : Kinds, left : Nat], depth : Nat, dead : BOOLEAN, res : FRESULT,
   val : Nat, data : Seq(Nat)]

\* What is called again below itself: the loops, round by round, and gecko_printf,
\* which an access that fails leads back to. F is what they do one level down.
Deeper == {"gecko_printf", "mirror", "find_free", "clear", "scan", "seek", "f_puts",
           "f_read"}
Call(F, f, m, arg) == F[f][m][arg]

(***************************************************************************)
(* The disk. Fault kinds: "once" and "wrote" fail one access, the second   *)
(* after it took effect; "pull" fails every access from there on; "cut" is *)
(* the power going off, after which nothing happens at all.                *)
(***************************************************************************)
Hit(m) == m.fault.kind # "none" /\ m.fault.left = 0
\* The card refuses an address that it does not have.
Beyond(sect) == sect \notin 0..CardSize-1

\* The access failed: one line about it goes the same way. The card is gone
\* for good when a line about a line about a line fails: the calls nest until
\* the stack is used up.
Failed(F, m) ==
  LET n == [m EXCEPT !.res = "DISK_ERR",
                     !.fault = IF @.kind \in {"once", "wrote"} THEN NoFault ELSE @]
  IN IF m.fault.kind = "cut" \/ m.dead \/ ~m.log THEN n
     ELSE IF m.depth = MaxNest THEN [n EXCEPT !.dead = TRUE]
     ELSE [Call(F, "gecko_printf", [n EXCEPT !.depth = @ + 1], ErrLine)
             EXCEPT !.fp = m.fp, !.dj = m.dj, !.depth = m.depth, !.val = m.val,
                    !.res = "DISK_ERR"]

Tick(m) == [m EXCEPT !.res = "OK", !.fault.left = IF @ > 0 THEN @ - 1 ELSE 0]

DiskWrite(F, m, sect) ==
  LET stored == [m EXCEPT !.disk[sect] = m.fs.win] IN
  IF Hit(m) \/ Beyond(sect) THEN Failed(F, IF m.fault.kind = "wrote" THEN stored ELSE m)
                            ELSE Tick(stored)

\* A message about every access, left over from debugging.
Access_traced(F, m, sect) ==
  IF Hit(m) \/ Beyond(sect) THEN Failed(F, m) ELSE Ok(Failed(F, Tick(m)))
\* A read into the window does not move the window by itself.
Access(F, m, sect) == IF Hit(m) \/ Beyond(sect) THEN Failed(F, m) ELSE Tick(m)
DiskRead(F, m, sect) ==
  Then(Access(F, m, sect), LAMBDA n : [n EXCEPT !.fs.win = n.disk[sect]])

(***************************************************************************)
(* The window.                                                             *)
(***************************************************************************)
\* The results of the copies' writes are ignored.
Mirror(F, m, sect, k) ==
  IF k >= m.fs.n_fats THEN Ok(m)
  ELSE Call(F, "mirror", DiskWrite(F, m, sect + k * m.fs.sects_fat), <<sect, k + 1>>)

WriteBack(F, m) ==
  LET sect == m.fs.winsect IN
  Then(DiskWrite(F, m, sect),
       LAMBDA n : LET c == [n EXCEPT !.fs.wflag = FALSE] IN
                  IF sect < c.fs.fatbase + c.fs.sects_fat
                  THEN Call(F, "mirror", c, <<sect, 1>>) ELSE c)

\* The window takes its new name before the read has succeeded.
MoveWindow_named(F, m, sect) ==
  IF m.fs.winsect = sect THEN Ok(m)
  ELSE Then(IF m.fs.wflag THEN WriteBack(F, m) ELSE Ok(m),
            LAMBDA n : IF sect = 0 THEN n
                       ELSE DiskRead(F, [n EXCEPT !.fs.winsect = sect], sect))
MoveWindow(F, m, sect) ==
  IF m.fs.winsect = sect THEN Ok(m)
  ELSE Then(IF m.fs.wflag THEN WriteBack(F, m) ELSE Ok(m),
            LAMBDA n : IF sect = 0 THEN n
                       ELSE Then(DiskRead(F, n, sect),
                                 LAMBDA r : [r EXCEPT !.fs.winsect = sect]))

Change(m, i, cell) == [m EXCEPT !.fs.win[i] = cell, !.fs.wflag = TRUE]

\* FSInfo is left in the window for the next move to write.
Sync_lazy(F, m) ==
  Then(MoveWindow(F, m, 0),
       LAMBDA n : IF n.fs.fs_type = 32 /\ n.fs.fsi_flag
                  THEN [n EXCEPT !.fs.winsect = 0,
                                 !.fs.win = [Blank EXCEPT ![0] =
                                     <<InfoSig, n.fs.free_clust, n.fs.last_clust>>],
                                 !.fs.wflag = TRUE, !.fs.fsi_flag = FALSE]
                  ELSE n)
Sync(F, m) ==
  Then(MoveWindow(F, m, 0),
       LAMBDA n : IF n.fs.fs_type = 32 /\ n.fs.fsi_flag
                  THEN LET info == <<InfoSig, n.fs.free_clust, n.fs.last_clust>>
                           w == DiskWrite(F, [n EXCEPT !.fs.winsect = 0,
                                                    !.fs.win = [Blank EXCEPT ![0] = info]],
                                          n.fs.fsi_sector)
                       IN Ok([w EXCEPT !.fs.fsi_flag = FALSE])
                  ELSE n)

(***************************************************************************)
(* The FAT. FAT12 packs two entries into three bytes, so an entry may      *)
(* straddle two sectors; the other FATs have one cell per entry.           *)
(***************************************************************************)
InRange(fs, c)  == c >= 2 /\ c < fs.max_clust
FatSect(fs, i)  == fs.fatbase + (i \div SS)
FatByte(fs, i)  == Part(fs.win[i % SS], 1)

GetCluster(F, m, c) ==
  LET i == IF m.fs.fs_type = 12 THEN (c * 3) \div 2 ELSE c
      word(lo, hi) == IF c % 2 = 1 THEN (lo + 256 * hi) \div 16 ELSE (lo + 256 * hi) % 4096
  IN IF ~InRange(m.fs, c) THEN Val(m, 1)
     ELSE On(MoveWindow(F, m, FatSect(m.fs, i)), LAMBDA a :
       IF a.res # "OK" THEN Val(a, DiskErr)
       ELSE IF m.fs.fs_type # 12 THEN Val(a, FatByte(a.fs, i))
       ELSE On(MoveWindow(F, a, FatSect(a.fs, i + 1)), LAMBDA b :
         IF b.res # "OK" THEN Val(b, DiskErr)
         ELSE Val(b, word(FatByte(a.fs, i), FatByte(b.fs, i + 1)))))

\* wflag is set even when the window could not be moved.
Marked(m) == [m EXCEPT !.fs.wflag = TRUE]

PutCluster(F, m, c, v) ==
  LET odd == c % 2 = 1
      i == IF m.fs.fs_type = 12 THEN (c * 3) \div 2 ELSE c
      lo(old) == IF odd THEN (old % 16) + (v % 16) * 16 ELSE v % 256
      hi(old) == IF odd THEN (v \div 16) % 256
                 ELSE (old - (old % 16)) + ((v \div 256) % 16)
      word == IF m.fs.fs_type = 16 THEN v % 65536 ELSE v
  IN IF ~InRange(m.fs, c) THEN Fail(m, "INT_ERR")
     ELSE On(MoveWindow(F, m, FatSect(m.fs, i)), LAMBDA a :
       IF a.res # "OK" THEN Marked(a)
       ELSE IF m.fs.fs_type # 12 THEN Change(a, i % SS, Byte(word))
       ELSE On(MoveWindow(F, Change(a, i % SS, Byte(lo(FatByte(a.fs, i)))),
                          FatSect(a.fs, i + 1)), LAMBDA b :
         IF b.res # "OK" THEN Marked(b)
         ELSE Change(b, (i + 1) % SS, Byte(hi(FatByte(b.fs, i + 1))))))

\* The next free cluster after ncl, wrapping around to scl; 0 when there is none.
FindFree(F, m, scl, ncl) ==
  LET n == IF ncl + 1 >= m.fs.max_clust THEN 2 ELSE ncl + 1 IN
  IF n # ncl + 1 /\ n > scl THEN Val(m, 0)
  ELSE On(GetCluster(F, m, n), LAMBDA a :
    CASE a.val = 0 -> Val(a, n)
      [] a.val \in {1, DiskErr} -> a
      [] a.val \notin {0, 1, DiskErr} ->
           IF n = scl THEN Val(a, 0) ELSE Call(F, "find_free", a, <<scl, n>>))

\* The new cluster is marked as an end before anything links to it.
Take_linkfirst(F, m, c, n) ==
  On(Then(IF c = 0 THEN Ok(m) ELSE PutCluster(F, m, c, n),
          LAMBDA x : PutCluster(F, x, n, Eoc)), LAMBDA b :
    IF b.res # "OK" THEN Val(b, DiskErr) ELSE Val([b EXCEPT !.fs.last_clust = n], n))
Take(F, m, c, n) ==
  On(Then(PutCluster(F, m, n, Eoc),
          LAMBDA x : IF c = 0 THEN x ELSE PutCluster(F, x, c, n)), LAMBDA b :
    LET known == b.fs.free_clust # Unknown IN
    IF b.res # "OK" THEN Val(b, DiskErr)
    ELSE Val([b EXCEPT !.fs.last_clust = n,
                       !.fs.free_clust = IF ~known THEN @
                                         ELSE IF @ = 0 THEN Unknown ELSE @ - 1,
                       !.fs.fsi_flag = known \/ @], n))

Search(F, m, c, scl) ==
  LET f == Call(F, "find_free", m, <<scl, scl>>) IN
  IF f.val \in {0, 1, DiskErr} THEN f ELSE Take(F, f, c, f.val)

\* Every call takes a new cluster, also where the chain goes on.
CreateChain_blind(F, m, c) == Search(F, m, c, IF c = 0 THEN 1 ELSE c)
\* A disk error from get_cluster is taken for the end of the chain: it is
\* neither below 2 nor below max_clust.
CreateChain(F, m, c) ==
  LET last == m.fs.last_clust
      scl == IF c # 0 THEN c ELSE IF last = 0 \/ last >= m.fs.max_clust THEN 1 ELSE last
  IN On(IF c = 0 THEN m ELSE GetCluster(F, m, c), LAMBDA a :
       IF c # 0 /\ a.val \in {0, 1} THEN Val(a, 1)
       ELSE IF c # 0 /\ a.val < m.fs.max_clust THEN a
       ELSE Search(F, a, c, scl))

Clust2Sect(fs, c) == IF InRange(fs, c) THEN (c - 2) * fs.csize + fs.database ELSE 0

(***************************************************************************)
(* Directories.                                                            *)
(***************************************************************************)
\* Only ever called to rewind.
DirSeek(m) ==
  LET c == m.dj.sclust IN
  IF c = 0 /\ m.fs.n_rootdir > 0
  THEN Ok([m EXCEPT !.dj.index = 0, !.dj.sect = m.fs.dirbase])
  ELSE IF InRange(m.fs, c)
  THEN Ok([m EXCEPT !.dj.index = 0, !.dj.clust = c, !.dj.sect = Clust2Sect(m.fs, c)])
  ELSE Fail(m, "INT_ERR")

\* Write zeros over the sectors of a cluster that was just linked to the table,
\* from its sector k on; the window is blank.
Clear(F, m, first, k) ==
  Then(WriteBack(F, [m EXCEPT !.fs.winsect = first + k, !.fs.wflag = TRUE]),
       LAMBDA n : IF k + 1 >= n.fs.csize THEN [n EXCEPT !.fs.winsect = first]
                  ELSE Call(F, "clear", n, <<first, k + 1>>))

EnterCluster(m, c) ==
  Ok([m EXCEPT !.dj.clust = c, !.dj.sect = Clust2Sect(m.fs, c), !.dj.index = @ + 1])

StretchDir(F, m) ==
  On(CreateChain(F, m, m.dj.clust), LAMBDA a :
    CASE a.val = 0 -> Fail(a, "DENIED")
      [] a.val = 1 -> Fail(a, "INT_ERR")
      [] a.val = DiskErr -> Fail(a, "DISK_ERR")
      [] a.val \notin {0, 1, DiskErr} ->
           Then(MoveWindow(F, a, 0),
                LAMBDA n :
                  Then(Clear(F, [n EXCEPT !.fs.win = Blank], Clust2Sect(n.fs, a.val), 0),
                       LAMBDA x : EnterCluster(x, a.val))))

\* The next cluster of the table, a.val from get_cluster.
NextTable(F, a, stretch) ==
  CASE a.val \in {0, 1} -> Fail(a, "INT_ERR")
    [] a.val = DiskErr -> Fail(a, "DISK_ERR")
    [] InRange(a.fs, a.val) -> EnterCluster(a, a.val)
    [] a.val >= a.fs.max_clust /\ a.val # DiskErr ->
         IF stretch THEN StretchDir(F, a) ELSE Fail(a, "NO_FILE")

DirNext(F, m, stretch) ==
  LET i == m.dj.index + 1
      next == [m EXCEPT !.dj.index = i, !.dj.sect = IF i % SS = 0 THEN @ + 1 ELSE @]
  IN IF m.dj.sect = 0 THEN Fail(m, "NO_FILE")
     ELSE IF m.dj.sclust = 0
     THEN IF i % SS = 0 /\ i >= m.fs.n_rootdir THEN Fail(m, "NO_FILE") ELSE Ok(next)
     ELSE IF i % (SS * m.fs.csize) # 0 THEN Ok(next)
     ELSE NextTable(F, GetCluster(F, m, m.dj.clust), stretch)

Entry(m) == m.fs.win[m.dj.index % SS]

\* The loops of dir_find (name > 0) and of dir_register (name = 0), which takes
\* a blank entry and stretches the table to have one.
Scan(F, m, name) ==
  LET a == MoveWindow(F, m, m.dj.sect)
      here == Part(Entry(a), 1)
  IN IF a.res # "OK" THEN a
     ELSE IF name = 0 /\ here \in {0, Deleted} THEN a
     ELSE IF name > 0 /\ here = 0 THEN Fail(a, "NO_FILE")
     ELSE IF name > 0 /\ here = name THEN a
     ELSE Then(DirNext(F, a, name = 0), LAMBDA n : Call(F, "scan", n, <<name>>))

DirFind(F, m, name) == Then(DirSeek(m), LAMBDA n : Call(F, "scan", n, <<name>>))

DirRegister(F, m, name) ==
  Then(DirFind(F, m, 0), LAMBDA n : Change(n, n.dj.index % SS, <<name, 0, 0, 0>>))

\* The path is /bootmii/name.
FollowPath(F, m, name) ==
  LET root == [m EXCEPT !.dj.sclust = IF m.fs.fs_type = 32 THEN m.fs.dirbase ELSE 0]
  IN On(DirFind(F, root, BootDir), LAMBDA a :
       IF a.res = "NO_FILE" THEN Fail(a, "NO_PATH")
       ELSE Then(a, LAMBDA n :
              IF Part(Entry(n), 2) = 0 THEN Fail(n, "NO_PATH")
              ELSE DirFind(F, [n EXCEPT !.dj.sclust = Part(Entry(n), 3)], name)))

(***************************************************************************)
(* Mounting.                                                               *)
(***************************************************************************)
\* check_fs: 0 a FAT volume, 1 a boot record of another kind, 2 none, 3 error.
CheckFs(F, m, sect) ==
  On(DiskRead(F, m, sect), LAMBDA a :
    LET boot == a.fs.win[0] IN
    IF a.res # "OK" THEN Val(a, 3)
    ELSE IF Part(boot, 1) # BootSig THEN Val(a, 2)
    ELSE Val(a, IF Part(boot, 2) = 1 THEN 0 ELSE 1))

\* The clusters counted from 1 and not from 0.
Geometry_offbyone(fs, bsect) ==
  LET b(i) == Part(fs.win[0], i)
      fatarea == b(4) * b(5)
      roots == b(7) \div SS
  IN [fs EXCEPT !.sects_fat = b(5), !.n_fats = b(4), !.fatbase = bsect + b(3),
                !.csize = b(6), !.n_rootdir = b(7),
                !.max_clust = (b(8) - b(3) - fatarea - roots) \div b(6) + 3,
                !.dirbase = IF b(11) = 32 THEN b(9) ELSE bsect + b(3) + fatarea,
                !.database = bsect + b(3) + fatarea + roots,
                !.free_clust = Unknown, !.wflag = FALSE, !.fsi_sector = bsect + b(10),
                !.fsi_flag = IF b(11) = 32 THEN FALSE ELSE @]
\* A boot record is <<BootSig, 1, reserved, FATs, sectors of a FAT, sectors of a
\* cluster, root entries, sectors, root cluster, FSInfo sector, FAT type>>; a
\* partition table is <<BootSig, 0, first sector of the partition>>. The type
\* stands for the comparison of the number of clusters with the two limits.
Geometry(fs, bsect) ==
  LET b(i) == Part(fs.win[0], i)
      fatarea == b(4) * b(5)
      roots == b(7) \div SS
  IN [fs EXCEPT !.sects_fat = b(5), !.n_fats = b(4), !.fatbase = bsect + b(3),
                !.csize = b(6), !.n_rootdir = b(7),
                !.max_clust = (b(8) - b(3) - fatarea - roots) \div b(6) + 2,
                !.dirbase = IF b(11) = 32 THEN b(9) ELSE bsect + b(3) + fatarea,
                !.database = bsect + b(3) + fatarea + roots,
                !.free_clust = Unknown, !.wflag = FALSE, !.fsi_sector = bsect + b(10),
                !.fsi_flag = IF b(11) = 32 THEN FALSE ELSE @]

LoadInfo(F, m) ==
  On(DiskRead(F, m, m.fs.fsi_sector), LAMBDA a :
    LET info == a.fs.win[0] IN
    IF a.res = "OK" /\ Part(info, 1) = InfoSig
    THEN [a EXCEPT !.fs.free_clust = Part(info, 2), !.fs.last_clust = Part(info, 3)]
    ELSE a)

\* disk_status never reports a card that has to be initialised again, so a
\* volume that is mounted stays so.
AutoMount(F, m) ==
  IF m.fs.fs_type # 0 THEN Ok(m)
  ELSE IF m.fault = [kind |-> "pull", left |-> 0] THEN Fail(m, "NOT_READY")
  ELSE On(CheckFs(F, [m EXCEPT !.fs.fs_type = 0], 0), LAMBDA first :
    LET bsect == IF first.val = 1 THEN Part(first.fs.win[0], 3) ELSE 0 IN
    On(IF bsect # 0 THEN CheckFs(F, first, bsect) ELSE first, LAMBDA boot :
      LET type == Part(boot.fs.win[0], 11)
          geo == [boot EXCEPT !.fs = Geometry(@, bsect)]
      IN IF boot.val = 3 THEN Fail(boot, "DISK_ERR")
         ELSE IF boot.val # 0 THEN Fail(boot, "NO_FILESYSTEM")
         ELSE On(IF type = 32 THEN LoadInfo(F, geo) ELSE geo, LAMBDA info :
           Ok([info EXCEPT !.fs.winsect = 0, !.fs.fs_type = type]))))

(***************************************************************************)
(* Files.                                                                  *)
(***************************************************************************)
Opened(m, mode, written) ==
  Ok([m EXCEPT !.fp = [NoFil EXCEPT !.open = TRUE, !.mode = mode,
                         !.written = written,
                         !.dir_sect = m.fs.winsect, !.dir_idx = m.dj.index % SS,
                         !.org_clust = Part(Entry(m), 3), !.fsize = Part(Entry(m), 4)]])

\* Mode "w" is FA_OPEN_ALWAYS|FA_WRITE, mode "r" FA_READ.
FOpen(F, m, name, mode) ==
  On(Then(AutoMount(F, [m EXCEPT !.fp = NoFil]), LAMBDA n : FollowPath(F, n, name)),
     LAMBDA found :
       IF mode = "w" /\ found.res = "NO_FILE"
       THEN Then(DirRegister(F, found, name), LAMBDA n : Opened(n, mode, TRUE))
       ELSE Then(found, LAMBDA n : IF Part(Entry(n), 2) = 1
                                   THEN Fail(n, IF mode = "w" THEN "DENIED" ELSE "NO_FILE")
                                   ELSE Opened(n, mode, FALSE)))

\* The cluster that follows in a file that is written at a cluster boundary.
WriteCluster(F, m) ==
  IF m.fp.fptr = 0 /\ m.fp.org_clust # 0 THEN Val(m, m.fp.org_clust)
  ELSE On(CreateChain(F, m, IF m.fp.fptr = 0 THEN 0 ELSE m.fp.curr_clust), LAMBDA a :
    IF m.fp.fptr = 0 THEN [a EXCEPT !.fp.org_clust = a.val] ELSE a)

NextCluster(F, m) ==
  IF m.fp.csect < m.fs.csize THEN Ok(m)
  ELSE On(WriteCluster(F, m), LAMBDA a :
    CASE a.val = 0 -> Fail([a EXCEPT !.fp.written = TRUE], "FULL")
      [] a.val = 1 -> Abort(a, "INT_ERR")
      [] a.val = DiskErr -> Abort(a, "DISK_ERR")
      [] a.val \notin {0, 1, DiskErr} ->
           Ok([a EXCEPT !.fp.curr_clust = a.val, !.fp.csect = 0]))

Guarded(m) == IF m.res = "OK" THEN m ELSE Abort(m, m.res)

\* At the growing edge of a file the window is moved without reading.
NextSector(F, m) ==
  Then(IF m.fs.winsect = m.fp.dsect THEN Guarded(MoveWindow(F, m, 0)) ELSE m, LAMBDA a :
    LET sect == Clust2Sect(a.fs, a.fp.curr_clust) + a.fp.csect IN
    IF Clust2Sect(a.fs, a.fp.curr_clust) = 0 THEN Abort(a, "INT_ERR")
    ELSE Then(IF a.fp.fptr >= a.fp.fsize
              THEN Then(Guarded(MoveWindow(F, a, 0)),
                        LAMBDA x : [x EXCEPT !.fs.winsect = sect])
              ELSE a,
              LAMBDA y : [y EXCEPT !.fp.dsect = sect, !.fp.csect = @ + 1]))

\* f_write of one byte, as f_putc calls it.
FWrite(F, m, byte) ==
  IF m.fp.err THEN Fail(m, "INT_ERR")
  ELSE Then(IF m.fp.fptr % SS = 0
            THEN Then(NextCluster(F, m), LAMBDA n : NextSector(F, n)) ELSE Ok(m),
            LAMBDA e :
    Then(Guarded(MoveWindow(F, e, e.fp.dsect)), LAMBDA n :
      [Change(n, n.fp.fptr % SS, Byte(byte))
         EXCEPT !.fp.fptr = @ + 1, !.fp.written = TRUE,
                !.fp.fsize = IF n.fp.fptr + 1 > @ THEN n.fp.fptr + 1 ELSE @]))

FPuts(F, m, str) ==
  IF str = <<>> THEN Ok(m)
  ELSE Then(FWrite(F, m, Head(str)), LAMBDA n : Call(F, "f_puts", n, Tail(str)))

\* The entry stays in the window.
FClose_unsynced(F, m) ==
  IF ~m.fp.written THEN Ok(m)
  ELSE Then(MoveWindow(F, m, m.fp.dir_sect),
            LAMBDA n : LET e == n.fs.win[n.fp.dir_idx] IN
              Change(n, n.fp.dir_idx, <<Part(e, 1), Part(e, 2), n.fp.org_clust, n.fp.fsize>>))
\* f_close; f_sync does not look at the error flag of the file.
FClose(F, m) ==
  IF ~m.fp.written THEN Ok(m)
  ELSE Then(MoveWindow(F, m, m.fp.dir_sect),
            LAMBDA n : LET e == n.fs.win[n.fp.dir_idx]
                           entry == <<Part(e, 1), Part(e, 2), n.fp.org_clust, n.fp.fsize>>
                       IN Sync(F, [Change(n, n.fp.dir_idx, entry) EXCEPT !.fp.written = FALSE]))

\* Follow the chain until ofs lies in the current cluster; in write mode the
\* chain is stretched, and what does not fit on the disk is cut off.
SeekLoop(F, m, clst, ofs) ==
  LET bcs == m.fs.csize * SS
      sect == Clust2Sect(m.fs, clst)
      end == [m EXCEPT !.res = "OK", !.fp.fptr = @ + ofs, !.fp.csect = ofs \div SS]
  IN IF ofs > bcs
     THEN On(IF m.fp.mode = "w" THEN CreateChain(F, m, clst) ELSE GetCluster(F, m, clst),
             LAMBDA a :
       IF m.fp.mode = "w" /\ a.val = 0
       THEN [a EXCEPT !.res = "OK", !.fp.fptr = @ + bcs, !.fp.csect = m.fs.csize]
       ELSE IF a.val = DiskErr THEN Abort(a, "DISK_ERR")
       ELSE IF ~InRange(a.fs, a.val) THEN Abort(a, "INT_ERR")
       ELSE Call(F, "seek", [a EXCEPT !.fp.curr_clust = a.val, !.fp.fptr = @ + bcs],
                 <<a.val, ofs - bcs>>))
     ELSE IF ofs % SS = 0 THEN end
     ELSE IF sect = 0 THEN Abort(m, "INT_ERR")
     ELSE [end EXCEPT !.fp.csect = @ + 1, !.fp.dsect = sect + ofs \div SS]

FLseek(F, m, pos) ==
  LET ofs == IF pos > m.fp.fsize /\ m.fp.mode = "r" THEN m.fp.fsize ELSE pos
      bcs == m.fs.csize * SS
      near == m.fp.fptr > 0 /\ (ofs - 1) \div bcs >= (m.fp.fptr - 1) \div bcs
      base == ((m.fp.fptr - 1) \div bcs) * bcs
      top == [m EXCEPT !.fp.fptr = 0, !.fp.csect = 255]
      start(n, c) == IF c = 0 THEN Ok(n)
                     ELSE Call(F, "seek", [n EXCEPT !.fp.curr_clust = c], <<c, ofs>>)
  IN IF m.fp.err THEN Fail(m, "INT_ERR")
     ELSE IF ofs = 0 THEN Ok(top)
     ELSE Then(IF near
               THEN Call(F, "seek", [top EXCEPT !.fp.fptr = base],
                         <<m.fp.curr_clust, ofs - base>>)
               ELSE IF m.fp.org_clust # 0 THEN start(top, m.fp.org_clust)
               ELSE On(CreateChain(F, top, 0), LAMBDA new :
                 IF new.val = 1 THEN Abort(new, "INT_ERR")
                 ELSE IF new.val = DiskErr THEN Abort(new, "DISK_ERR")
                 ELSE start([new EXCEPT !.fp.org_clust = new.val], new.val)),
               LAMBDA n : IF n.fp.fptr > n.fp.fsize
                          THEN [n EXCEPT !.fp.fsize = n.fp.fptr, !.fp.written = TRUE]
                          ELSE n)

ReadCluster(F, m) ==
  IF m.fp.csect < m.fs.csize THEN Ok(m)
  ELSE On(IF m.fp.fptr = 0 THEN Val(m, m.fp.org_clust)
          ELSE GetCluster(F, m, m.fp.curr_clust), LAMBDA a :
    IF a.val = DiskErr THEN Abort(a, "DISK_ERR")
    ELSE IF a.val \in {0, 1} THEN Abort(a, "INT_ERR")
    ELSE Ok([a EXCEPT !.fp.curr_clust = a.val, !.fp.csect = 0]))

\* Whole sectors are read past the window, straight into the caller's buffer;
\* parts of one through the window. A sector at a time.
Direct(F, m, sect) ==
  Then(Guarded(Access(F, m, sect)),
       LAMBDA n : [n EXCEPT !.fp.csect = @ + 1, !.fp.fptr = @ + SS,
                            !.data = @ \o [i \in 1..SS |-> Part(n.disk[sect][i-1], 1)]])
\* Inside a sector the window is taken to hold it still.
Partial_cached(F, m, n) ==
  LET a == IF m.fp.fptr % SS # 0 THEN Ok(m) ELSE Guarded(MoveWindow(F, m, m.fp.dsect))
      at == m.fp.fptr % SS
  IN Then(a, LAMBDA x : [x EXCEPT !.fp.fptr = @ + n,
                         !.data = @ \o [i \in 1..n |-> Part(x.fs.win[at + i - 1], 1)]])
Partial(F, m, n) ==
  LET a == Guarded(MoveWindow(F, m, m.fp.dsect))
      at == m.fp.fptr % SS
  IN Then(a, LAMBDA x : [x EXCEPT !.fp.fptr = @ + n,
                         !.data = @ \o [i \in 1..n |-> Part(x.fs.win[at + i - 1], 1)]])

FRead(F, m, len) ==
  LET left == m.fp.fsize - m.fp.fptr
      btr == IF len > left THEN left ELSE len
      rest == SS - (m.fp.fptr % SS)
      n == IF rest > btr THEN btr ELSE rest
      next(x, got) == Call(F, "f_read", x, <<btr - got>>)
  IN IF m.fp.err THEN Fail(m, "INT_ERR")
     ELSE IF btr = 0 THEN Ok(m)
     ELSE IF m.fp.fptr % SS # 0
     THEN Then(Partial(F, m, n), LAMBDA x : next(x, n))
     ELSE Then(ReadCluster(F, m), LAMBDA y :
            LET sect == Clust2Sect(y.fs, y.fp.curr_clust)
                at == [y EXCEPT !.fp.dsect = sect + y.fp.csect, !.fp.csect = @ + 1]
            IN IF sect = 0 THEN Abort(y, "INT_ERR")
               ELSE IF btr >= SS
               THEN Then(Direct(F, y, sect + y.fp.csect), LAMBDA x : next(x, SS))
               ELSE Then(Partial(F, at, n), LAMBDA x : next(x, n)))

\* gecko_printf: the line goes to the end of the log; no result is looked at.
AddLine(F, m, str) ==
  On(FLseek(F, m, m.fp.fsize), LAMBDA b :
    On(Call(F, "f_puts", b, str), LAMBDA c :
      On(FClose(F, c), LAMBDA d :
        IF b.res # "OK" THEN Fail(d, b.res)
        ELSE IF c.res # "OK" THEN Fail(d, c.res) ELSE d)))
LogLine(F, m, str) ==
  IF m.log THEN Then(FOpen(F, m, LogName, "w"), LAMBDA a : AddLine(F, a, str)) ELSE m

(***************************************************************************)
(* What the functions and rounds of Deeper do, k levels above the bottom.  *)
(* Fuel bounds the levels: a call that needs more of them ends where they  *)
(* are used up as if the power went off there.                             *)
(***************************************************************************)
Body(F, f, m, a) ==
  CASE f = "gecko_printf" -> LogLine(F, m, a)
    [] f = "mirror" -> Mirror(F, m, a[1], a[2])
    [] f = "find_free" -> FindFree(F, m, a[1], a[2])
    [] f = "clear" -> Clear(F, m, a[1], a[2])
    [] f = "scan" -> Scan(F, m, a[1])
    [] f = "seek" -> SeekLoop(F, m, a[1], a[2])
    [] f = "f_puts" -> FPuts(F, m, a)
    [] f = "f_read" -> FRead(F, m, a[1])

Spent(m) == [m EXCEPT !.res = "DISK_ERR", !.val = DiskErr, !.dead = FALSE,
                      !.fault = [kind |-> "cut", left |-> 0]]

Level[k \in Nat] ==
  [f \in Deeper |-> [m \in Machines |-> [a \in Seq(Nat) |->
     IF k = 0 THEN Spent(m) ELSE Body(Level[k - 1], f, m, a)]]]
=============================================================================
