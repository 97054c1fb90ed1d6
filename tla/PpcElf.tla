------------------------------- MODULE PpcElf -------------------------------
(***************************************************************************)
(* The memory mini and the PowerPC share, and the ELF images that          *)
(* src/powerpc_elf.c loads into it.  An address is a number of as many     *)
(* bits as a u32 has, scaled down; a cell of memory is a tuple that says   *)
(* what was last stored there.                                             *)
(***************************************************************************)
EXTENDS Integers, Sequences

CONSTANTS Word,            \* 2^32: addresses wrap here
          PPC_MEM1_END, PPC_MEM2_START, PPC_MEM2_END,
          PHDR_MAX,
          Elfs             \* the images there are

Addr == 0..Word-1
PpcMemory  == {a \in Addr : a < PPC_MEM1_END \/ a \in PPC_MEM2_START..PPC_MEM2_END-1}
MiniMemory == {a \in Addr : a >= PPC_MEM2_END}

ASSUME AddressAssumption ==
  /\ Word \in Nat /\ PPC_MEM1_END \in Nat /\ PPC_MEM2_START \in Nat /\ PPC_MEM2_END \in Nat
  /\ 0 < PPC_MEM1_END /\ PPC_MEM1_END < PPC_MEM2_START /\ PPC_MEM2_START < PPC_MEM2_END
  /\ PPC_MEM2_END < Word

\* An image is [ident: the first bytes are right; entry; phoff: it has a program
\* header table; fits: the table lies inside the file; segs: its program headers,
\* [load, at, file, mem]]. The linker lets no segment reach past the last address or have more
\* bytes in the file than in memory.
ASSUME ElfAssumption ==
  \A e \in Elfs : /\ e.entry \in Addr
                 /\ e.segs \in Seq([load : BOOLEAN, at : Addr, file : Nat, mem : Nat])
                 /\ \A i \in DOMAIN e.segs : /\ e.segs[i].file <= e.segs[i].mem
                                              /\ e.segs[i].at + e.segs[i].mem < Word

CheckPhysaddr(addr) ==
  CASE addr \in PPC_MEM2_START..PPC_MEM2_END -> 2
    [] addr < PPC_MEM1_END -> 1
    [] OTHER -> -1

\* Only the first byte is looked at.
CheckPhysrange_first(addr, len) == CheckPhysaddr(addr)
CheckPhysrange(addr, len) ==
  LET end == (addr + len) % Word
      at == CheckPhysaddr(addr)
  IN IF (at = 1 /\ end < PPC_MEM1_END) \/ (at = 2 /\ end < PPC_MEM2_END) THEN at ELSE -1

\* The checks of powerpc_load_elf and powerpc_boot_mem before the first segment;
\* short: fewer bytes than a header.
HeaderError(e, short) ==
  CASE short -> -100
    [] ~short /\ ~e.ident -> -101
    [] ~short /\ e.ident /\ CheckPhysaddr(e.entry) < 0 -> -102
    [] OTHER -> IF ~e.phoff \/ e.segs = <<>> THEN -103
                ELSE IF Len(e.segs) > PHDR_MAX THEN -104
                ELSE IF ~e.fits THEN -105 ELSE 0

SegmentError(s) == IF s.load /\ CheckPhysrange(s.at, s.mem) < 0 THEN -106 ELSE 0

\* The cells that a segment fills, and with what.
SegmentCells(s) == IF s.load THEN s.at..s.at + s.file - 1 ELSE {}
Loaded(e, i, a) == <<"segment", e.name, i, a - e.segs[i].at>>
StoreSegment(mem, e, i) ==
  [a \in Addr |-> IF a \in SegmentCells(e.segs[i]) THEN Loaded(e, i, a) ELSE mem[a]]
=============================================================================
