------------------------------- MODULE FatFs -------------------------------
(***************************************************************************)
(* The volume on the SD card as mini uses it: gecko_printf appends lines   *)
(* to /bootmii/log.txt, powerpc_load_elf reads /bootmii/ppcboot.elf, and   *)
(* both share the one sector window.  A call of the file system is one     *)
(* action; the fault that meets it strikes at any of its disk accesses.    *)
(* The power may go off there too: RAM is lost and the card keeps what was *)
(* written so far.                                                         *)
(***************************************************************************)
EXTENDS FatOps, SequencesExt

CONSTANTS FatTypes,    \* FAT types of the volumes
          Layout,      \* how the card of a FAT type is laid out
          FaultKinds,  \* what may go wrong in a call, by FAT type
          MaxFaults, MaxLines, MaxReads, MaxAccess,
          LineLens, ReadLens, SeekTo

ASSUME FatAssumption ==
  /\ FatTypes \subseteq {12, 16, 32}
  /\ FaultKinds \in [FatTypes -> SUBSET {"once", "wrote", "pull", "cut"}]
  /\ MaxAccess \in Nat
  /\ LineLens \subseteq Nat /\ ReadLens \subseteq Nat /\ SeekTo \subseteq Nat

VARIABLES
  type,    \* the FAT type of the card's volume
  disk,    \* sectors of the card
  fs,      \* the mounted volume in RAM, FatFs[0]
  elf,     \* the open ELF file of powerpc_load_elf
  logOn,   \* gecko_enabled
  card,    \* "in" or "out"
  dead,    \* the stack is used up
  kept,    \* history: bytes of the log that were stored without an error
  last,    \* what the last read of the ELF returned
  faults, lines, reads

vars == <<type, disk, fs, elf, logOn, card, dead, kept, last, faults, lines, reads>>

(***************************************************************************)
(* The card as it was prepared: the directory has the ELF, in two clusters *)
(* out of order, and no log. Free clusters hold old data.                  *)
(***************************************************************************)
MaxClust(t) == Layout[t].clusters + 2
FatBase(t)  == Layout[t].part + Layout[t].rsvd
RootBase(t) == FatBase(t) + Layout[t].nfat * Layout[t].fatsz
DataBase(t) == RootBase(t) + Layout[t].roots \div SS
Sectors(t)  == DataBase(t) + Layout[t].spc * Layout[t].clusters
ElfSize(t)  == 2 * SS * Layout[t].spc - 1
ElfBytes(t) == [i \in 1..ElfSize(t) |-> 200 + i]

\* The volume fits the card and its FAT the volume; FAT32 has its root directory in
\* a cluster and FSInfo behind the boot record.
ASSUME LayoutAssumption ==
  \A t \in FatTypes :
    LET l == Layout[t] IN
    /\ l \in [part : Nat, rsvd : Nat \ {0}, nfat : Nat \ {0}, fatsz : Nat, spc : Nat \ {0},
             roots : Nat, clusters : Nat, root : Nat, dir : Nat, elf : Seq(Nat)]
    /\ l.spc <= 128 /\ Sectors(t) <= CardSize /\ MaxClust(t) <= Eoc
    /\ SS * l.fatsz >= IF t = 12 THEN (3 * MaxClust(t) + 1) \div 2 ELSE MaxClust(t)
    /\ l.roots % SS = 0 /\ (t = 32) = (l.roots = 0)
    /\ IF t = 32 THEN l.rsvd > 1 /\ l.root \in 2..MaxClust(t)-1 ELSE l.root = 0
    /\ Len(l.elf) = 2 /\ {l.dir, l.elf[1], l.elf[2]} \subseteq 2..MaxClust(t)-1
    /\ l.clusters >= 4

EocOf(t) == CASE t = 12 -> 4095 [] t = 16 -> 65535 [] t = 32 -> Eoc
FirstLink(t, c) ==
  CASE c = Layout[t].elf[1] -> Layout[t].elf[2]
    [] c \in {Layout[t].elf[2], Layout[t].dir} \cup ({Layout[t].root} \ {0}) -> EocOf(t)
    [] OTHER -> 0
FatCell(t, i) ==
  LET even == FirstLink(t, 2 * (i \div 3))
      odd  == FirstLink(t, 2 * (i \div 3) + 1)
  IN IF t # 12 THEN FirstLink(t, i)
     ELSE CASE i % 3 = 0 -> even % 256
            [] i % 3 = 1 -> (even \div 256) + 16 * (odd % 16)
            [] i % 3 = 2 -> odd \div 16

BootRecord(t) ==
  LET l == Layout[t] IN
  <<BootSig, 1, l.rsvd, l.nfat, l.fatsz, l.spc, l.roots,
    Sectors(t) - l.part, l.root, 1, t>>
RootEntry(t) == <<BootDir, 1, Layout[t].dir, 0>>
ElfEntry(t)  == <<ElfName, 0, Layout[t].elf[1], ElfSize(t)>>

\* Cell i of the data area of cluster c.
DataCell(t, c, i) ==
  LET l == Layout[t]
      at == IF c = l.elf[1] THEN i ELSE i + SS * l.spc
  IN CASE c = l.root -> IF i = 0 THEN RootEntry(t) ELSE Byte(0)
       [] c = l.dir /\ i = 0 -> <<Dot, 1, c, 0>>
       [] c = l.dir /\ i = 1 -> ElfEntry(t)
       [] c = l.dir /\ i > 1 -> Byte(0)
       [] c \in {l.elf[1], l.elf[2]} /\ at < ElfSize(t) -> Byte(ElfBytes(t)[at + 1])
       [] OTHER -> Byte(99)

Cell(t, s, i) ==
  LET l == Layout[t]
      d == s - DataBase(t)
  IN CASE s = l.part -> IF i = 0 THEN BootRecord(t) ELSE Byte(0)
       [] s < l.part -> IF i = 0 THEN <<BootSig, 0, l.part>> ELSE Byte(0)
       [] s > l.part /\ s < FatBase(t) ->
            IF i = 0 THEN <<InfoSig, l.clusters - 4, 2>> ELSE Byte(0)
       [] s >= FatBase(t) /\ s < RootBase(t) ->
            Byte(FatCell(t, ((s - FatBase(t)) % l.fatsz) * SS + i))
       [] s >= RootBase(t) /\ d < 0 ->
            IF s = RootBase(t) /\ i = 0 THEN RootEntry(t) ELSE Byte(0)
       [] d >= 0 -> DataCell(t, (d \div l.spc) + 2, (d % l.spc) * SS + i)

Card(t) == [s \in 0..CardSize-1 |-> [i \in 0..SS-1 |-> Cell(t, s, i)]]

NoRead == [res |-> "none", at |-> 0, data |-> <<>>]

Init ==
  /\ type \in FatTypes
  /\ disk = Card(type)
  /\ fs = NoFs /\ elf = NoFil /\ logOn \in BOOLEAN /\ card = "in" /\ dead = FALSE
  /\ kept = <<>> /\ last = NoRead
  /\ faults = 0 /\ lines = 0 /\ reads = 0

(***************************************************************************)
(* What the card holds, read past the driver.                              *)
(***************************************************************************)
OnDisk(t, d, i) == d[FatBase(t) + (i \div SS)][i % SS][1]
Link(t, d, c) ==
  LET i == IF t = 12 THEN (c * 3) \div 2 ELSE c
      w == OnDisk(t, d, i) + 256 * OnDisk(t, d, i + 1)
  IN IF t # 12 THEN OnDisk(t, d, i) ELSE IF c % 2 = 1 THEN w \div 16 ELSE w % 4096

Clusters(t) == 2..MaxClust(t)-1

\* The clusters from c on, as far as links lead to clusters, none twice.
Chain(t, d, c) ==
  LET chain[s \in Seq(Clusters(t))] ==
        LET next == IF s = <<>> THEN c ELSE Link(t, d, s[Len(s)]) IN
        IF next \notin Clusters(t) \/ next \in {s[k] : k \in DOMAIN s} THEN s
        ELSE chain[Append(s, next)]
  IN chain[<<>>]

\* The cells of a file or directory that starts at c.
Cells(t, d, c) ==
  LET ch == Chain(t, d, c)
      bcs == SS * Layout[t].spc
      sect(k) == DataBase(t) + (ch[k] - 2) * Layout[t].spc
  IN [n \in 1..Len(ch) * bcs |->
        d[sect((n - 1) \div bcs + 1) + ((n - 1) % bcs) \div SS][(n - 1) % SS]]

DirCells(t, d) == Cells(t, d, Layout[t].dir)
LogAt(t, d) ==
  LET cells == DirCells(t, d) IN
  {k \in DOMAIN cells : cells[k][1] = LogName /\ \A j \in 1..k-1 : cells[j][1] # 0}
HasLog(t, d)   == LogAt(t, d) # {}
LogEntry(t, d) == DirCells(t, d)[CHOOSE k \in LogAt(t, d) : TRUE]
LogStart(t, d) == IF HasLog(t, d) THEN LogEntry(t, d)[3] ELSE 0
LogSize(t, d)  == IF HasLog(t, d) THEN LogEntry(t, d)[4] ELSE 0
LogCells(t, d) == Cells(t, d, LogStart(t, d))
LogBytes(t, d) ==
  LET cells == LogCells(t, d) IN
  [i \in 1..LogSize(t, d) |-> IF i <= Len(cells) THEN cells[i][1] ELSE -1]

(***************************************************************************)
(* Calls.                                                                  *)
(***************************************************************************)
\* What may meet a call; sound is what it does when nothing fails, up to the
\* first MaxAccess accesses.
Counting == [kind |-> "none", left |-> MaxAccess]
Faults(sound) ==
  IF card = "out" THEN {[kind |-> "pull", left |-> 0]}
  ELSE IF faults = MaxFaults THEN {NoFault}
  ELSE {NoFault} \cup [kind : FaultKinds[type], left : 0..MaxAccess - sound.fault.left - 1]

\* How a call that met fault f leaves the world; n is the machine it returns.
After(f, n) ==
  /\ disk' = n.disk /\ dead' = n.dead
  /\ faults' = IF f = NoFault \/ card = "out" THEN faults ELSE faults + 1
  /\ IF n.fault.kind = "cut"
     THEN fs' = NoFs /\ elf' = NoFil /\ card' = card
     ELSE fs' = n.fs /\ card' = IF f.kind = "pull" THEN "out" ELSE card

\* gecko_printf; afterwards a console nobody reads switches the log off.
Log(F) ==
  /\ ~dead /\ logOn /\ lines < MaxLines /\ lines' = lines + 1
  /\ \E len \in LineLens :
     LET str == [i \in 1..len |-> 10 * lines + i]
         call(f) == LogLine(F, Machine(disk, fs, NoFil, logOn, f), str)
     IN \E f \in Faults(call(Counting)) :
       LET n == call(f)
       IN /\ After(f, n)
          /\ kept' = IF f.kind \in {"once", "wrote"} THEN <<>>
                     ELSE IF n.res = "OK" /\ n.fault.kind # "cut"
                     THEN LogBytes(type, disk) \o str ELSE kept
          /\ IF n.fault.kind = "cut" THEN TRUE ELSE elf' = elf
  /\ logOn' \in IF dead' THEN {TRUE} ELSE BOOLEAN
  /\ UNCHANGED <<type, last, reads>>

Read(Op(_)) ==
  /\ ~dead /\ reads < MaxReads /\ reads' = reads + 1
  /\ \E f \in Faults(Op(Machine(disk, fs, elf, logOn, Counting))) :
       LET n == Op(Machine(disk, fs, elf, logOn, f))
       IN /\ After(f, n)
          /\ last' = IF n.fault.kind = "cut" THEN NoRead
                     ELSE [res |-> n.res, at |-> elf.fptr, data |-> n.data]
          /\ IF n.fault.kind = "cut" THEN TRUE ELSE elf' = n.fp
  /\ UNCHANGED <<type, logOn, kept, lines>>

OpenElf(F) == ~elf.open /\ Read(LAMBDA m : FOpen(F, m, ElfName, "r"))
ReadElf(F) == elf.open /\ \E len \in ReadLens : Read(LAMBDA m : FRead(F, m, len))
SeekElf(F) == elf.open /\ \E pos \in SeekTo : Read(LAMBDA m : FLseek(F, m, pos))

Eject ==
  /\ ~dead /\ card = "in" /\ "pull" \in FaultKinds[type] /\ faults < MaxFaults
  /\ card' = "out" /\ faults' = faults + 1
  /\ UNCHANGED <<type, disk, fs, elf, logOn, dead, kept, last, lines, reads>>
\* The same card comes back and is acknowledged.
Insert ==
  /\ ~dead /\ card = "out" /\ card' = "in"
  /\ UNCHANGED <<type, disk, fs, elf, logOn, dead, kept, last, faults, lines, reads>>
\* The power goes off between two calls.
PowerCycle ==
  /\ "cut" \in FaultKinds[type] /\ fs.fs_type # 0
  /\ fs' = NoFs /\ elf' = NoFil /\ last' = NoRead /\ dead' = FALSE /\ logOn' \in BOOLEAN
  /\ UNCHANGED <<type, disk, card, kept, faults, lines, reads>>

Next ==
  \/ Log(Level[Fuel]) \/ OpenElf(Level[Fuel]) \/ ReadElf(Level[Fuel]) \/ SeekElf(Level[Fuel])
  \/ Eject \/ Insert \/ PowerCycle

Spec == Init /\ [][Next]_vars
-----------------------------------------------------------------------------
(***************************************************************************)
(* Properties.                                                             *)
(***************************************************************************)
\* The fields of FATFS and FIL that address clusters and sectors (ff.h) stay
\* inside the volume.
TypeOK ==
  /\ DOMAIN disk = 0..CardSize-1 /\ fs.winsect \in 0..Sectors(type)-1
  /\ fs.fs_type \in {0, type} /\ fs.last_clust \in 0..MaxClust(type)-1
  /\ fs.free_clust \in (0..MaxClust(type)) \cup {Unknown}
  /\ elf.dsect \in 0..Sectors(type)-1 /\ elf.fptr \in 0..elf.fsize
  /\ card \in {"in", "out"} /\ dead \in BOOLEAN /\ last.res \in FRESULT \cup {"none"}

\* A window that is not marked as changed holds the sector it is named after
\* (ff.c:208-243): none of its users leaves another's data under the name.
WindowCoherent ==
  fs.winsect # 0 /\ ~fs.wflag => fs.win = disk[fs.winsect]

\* The chains end, meet no cluster twice and never meet each other.
SoundChains(t, d, chains) ==
  /\ \A i, j \in DOMAIN chains :
       i # j => {chains[i][k] : k \in DOMAIN chains[i]}
                  \cap {chains[j][k] : k \in DOMAIN chains[j]} = {}
  /\ \A i \in DOMAIN chains :
       chains[i] # <<>> => Link(t, d, chains[i][Len(chains[i])]) >= MaxClust(t)

\* On the card, whenever the power goes off, the chains of the directory, the
\* ELF and the log end, meet no cluster twice and never meet each other
\* (create_chain, ff.c:433-488).
ChainsSound ==
  LET start == <<Layout[type].dir, Layout[type].elf[1], LogStart(type, disk), Layout[type].root>>
  IN SoundChains(type, disk, [i \in 1..4 |-> Chain(type, disk, start[i])])

\* Lines that were stored without an error stay in the log, whole and in order,
\* whatever happens to later ones (gecko.c:259-263), and the log's chain is as
\* long as its directory entry says (f_sync after f_write, ff.c:1738-1893).
LogKept ==
  /\ IsPrefix(kept, LogBytes(type, disk))
  /\ kept # <<>> => LogSize(type, disk) <= Len(LogCells(type, disk))

\* A read that reports success returns the bytes of the ELF at its position,
\* however log lines moved the window meanwhile (f_read, ff.c:1651-1730).
ReadsRight ==
  last.res = "OK" => last.data = SubSeq(ElfBytes(type), last.at + 1, last.at + Len(last.data))

\* The boot record and the partition table are never written.
BootKept == \A s \in {0, Layout[type].part} : disk[s][0] = Cell(type, s, 0)

\* Printing about a failed access uses the stack up only when the card is gone
\* (sdmmc.c:317-352 and gecko.c:259).
DeadOnlyWithoutCard == dead => card = "out" /\ logOn

\* A cluster that has a successor keeps it: nothing mini does cuts a chain, as
\* long as no single access fails (create_chain takes a read error for the end
\* of the chain, ff.c:448-450).
LinksKept ==
  [][kept' # <<>> =>
       \A c \in Clusters(type) : Link(type, disk, c) \in Clusters(type)
         => Link(type, disk', c) = Link(type, disk, c)]_vars
=============================================================================
