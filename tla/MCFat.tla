------------------------------- MODULE MCFat -------------------------------
\* FatFs for TLC: a short message about a failed access; FAT32 without single
\* failing accesses (MCFatBoot has those).
EXTENDS FatFs

\* The cards, named twice: TLC evaluates what stands for a constant whenever the
\* constant is named, but a definition only once.
Formats ==
  12 :> [part |-> 1, rsvd |-> 1, nfat |-> 2, fatsz |-> 9, spc |-> 1, roots |-> SS,
         clusters |-> 8, root |-> 0, dir |-> 2, elf |-> <<5, 3>>] @@
  16 :> [part |-> 0, rsvd |-> 1, nfat |-> 1, fatsz |-> 4, spc |-> 2, roots |-> SS,
         clusters |-> 6, root |-> 0, dir |-> 3, elf |-> <<2, 5>>] @@
  32 :> [part |-> 0, rsvd |-> 2, nfat |-> 2, fatsz |-> 6, spc |-> 1, roots |-> 0,
         clusters |-> 10, root |-> 2, dir |-> 4, elf |-> <<3, 6>>]

MCLayout == Formats
MCErr == <<90, 91, 92>>
MCFaults == [t \in FatTypes |-> IF t = 32 THEN {"cut", "pull"}
                                         ELSE {"once", "wrote", "cut", "pull"}]
OneFailure == [t \in FatTypes |-> {"once"}]
=============================================================================
