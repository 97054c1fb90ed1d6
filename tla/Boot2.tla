------------------------------- MODULE Boot2 -------------------------------
(***************************************************************************)
(* The loader of src/boot2.c: boot2_init finds the newest block map in the *)
(* NAND flash, lists the blocks it marks as good and reads copy 0 of boot2 *)
(* from them in ascending order, or else copy 1 in descending order. One   *)
(* page is one step.                                                       *)
(*                                                                         *)
(* The flash is external: what its pages hold and which of them nand_read_ *)
(* page and nand_correct can deliver is chosen with the console.           *)
(***************************************************************************)
EXTENDS Integers, FiniteSets

CONSTANTS BOOT2_END,    \* the blocks of boot2 are BOOT2_START..BOOT2_END
          BLOCK_SIZE,   \* pages of a block
          Counts,       \* what a u8 counts, 256; as many pages fit into boot2[]
          Flashes       \* consoles: the first blocks of their flash

BOOT2_START == 1
Blocks == BOOT2_START..BOOT2_END
Pages  == 0..Counts-1

\* A flash is [map: three submaps for each block, at its last page; good: the
\* blocks boot2 was stored in; bad: pages that cannot be corrected; data_offset,
\* size: pages before the content, pages of content; matches: how often the
\* content holds the title that boot2_run looks for; console: what it belongs to].
ASSUME BlockAssumption ==
  /\ BOOT2_END \in Nat \ {0} /\ BLOCK_SIZE \in Nat \ {0} /\ Counts \in Nat \ {0}
\* The boot2 of a console has content and is shorter than the 255 pages that
\* pages_read counts.
ASSUME FlashAssumption ==
  \A f \in Flashes : /\ f.data_offset \in Nat \ {0} /\ f.size \in Nat \ {0}
                     /\ f.data_offset + f.size < Counts

VARIABLES
  flash,
  copy,        \* the copy that boot2_load was called for
  stage,       \* "start", what read_to is reading, then "loaded" or "failed"
  boot2_blocks, valid_blocks,
  pages_read, page_ptr,
  bytes,       \* read_to's argument, in pages
  boot2,       \* the pages in boot2[]
  boot2_initialized

loaderVars == <<flash, copy, stage, boot2_blocks, valid_blocks, pages_read, page_ptr,
                bytes, boot2, boot2_initialized>>

(***************************************************************************)
(* What the pages hold. A page of a copy is <<copy, number>>, page 0 the   *)
(* header; every other page is Junk.                                       *)
(***************************************************************************)
Junk == <<9, 0>>
Rank(S, b)     == Cardinality({c \in S : c < b})
BackRank(S, b) == Cardinality({c \in S : c > b})
Length(f)      == f.data_offset + f.size

PageAt(f, page) ==
  LET b == page \div BLOCK_SIZE
      up == Rank(f.good, b) * BLOCK_SIZE + (page % BLOCK_SIZE)
      down == BackRank(f.good, b) * BLOCK_SIZE + (page % BLOCK_SIZE)
  IN IF b \in f.good /\ up < Length(f) THEN <<0, up>>
     ELSE IF b \in f.good /\ down < Length(f) THEN <<1, down>>
     ELSE Junk

(***************************************************************************)
(* The block map. Of the candidates with the greatest generation the last  *)
(* one wins; a page that cannot be corrected is used all the same.         *)
(***************************************************************************)
\* Two of the three submaps must be equal and valid; 0 when none are.
FindValidMap(maps) ==
  IF maps[1].signature /\ maps[1] \in {maps[2], maps[3]} THEN 1
  ELSE IF maps[2].signature /\ maps[2] = maps[3] THEN 2 ELSE 0

Candidates(f) == {b \in Blocks : FindValidMap(f.map[b]) # 0}
MapOf(f, b)   == f.map[b][FindValidMap(f.map[b])]

\* The first valid map is kept.
GoodBlockmap_first(f) ==
  MapOf(f, CHOOSE b \in Candidates(f) : \A c \in Candidates(f) : b <= c)
GoodBlockmap(f) ==
  MapOf(f, CHOOSE b \in Candidates(f) :
             \A c \in Candidates(f) : \/ MapOf(f, c).generation < MapOf(f, b).generation
                                      \/ MapOf(f, c).generation = MapOf(f, b).generation /\ c <= b)

Listed(f) == GoodBlockmap(f).blocks \cap Blocks
BlockList(f, c) ==
  [i \in 0..Cardinality(Listed(f))-1 |->
     CHOOSE b \in Listed(f) : (IF c = 0 THEN Rank(Listed(f), b) ELSE BackRank(Listed(f), b)) = i]

\* If boot2 was ever stored, it lies in the blocks that the newest map lists; where
\* they hold a copy at all, there is room for both.
ASSUME StoredAssumption ==
  \A f \in Flashes :
    Candidates(f) # {} /\ f.good # {} =>
      /\ f.good = Listed(f)
      /\ Length(f) <= Cardinality(f.good) * BLOCK_SIZE =>
           \E k \in 0..Cardinality(f.good) : /\ Length(f) <= k * BLOCK_SIZE
                                             /\ 2 * k <= Cardinality(f.good)

Translate(page) == boot2_blocks[page \div BLOCK_SIZE] * BLOCK_SIZE + (page % BLOCK_SIZE)

(***************************************************************************)
(* boot2_load.                                                             *)
(***************************************************************************)
LoaderInit ==
  /\ flash \in Flashes
  /\ copy = 0 /\ stage = "start"
  /\ boot2_blocks = <<>> /\ valid_blocks = 0
  /\ pages_read = 0 /\ page_ptr = 0 /\ bytes = 0
  /\ boot2 = [p \in Pages |-> Junk] /\ boot2_initialized = FALSE

\* A call of read_to: more than the listed blocks hold is refused.
CallReadTo(next, n, valid) ==
  IF n > valid * BLOCK_SIZE THEN stage' = "failed" /\ bytes' = bytes
                            ELSE stage' = next /\ bytes' = n

\* The buffer pointer stays where the copy before left it.
ListBlocks_keepptr ==
  /\ stage = "start"
  /\ pages_read' = 0 /\ page_ptr' = page_ptr
  /\ IF Candidates(flash) = {}
     THEN stage' = "failed" /\ bytes' = bytes /\ boot2_blocks' = <<>> /\ valid_blocks' = 0
     ELSE /\ boot2_blocks' = BlockList(flash, copy)
          /\ valid_blocks' = Cardinality(Listed(flash))
          /\ CallReadTo("header", 1, Cardinality(Listed(flash)))
  /\ UNCHANGED <<flash, copy, boot2, boot2_initialized>>
ListBlocks ==
  /\ stage = "start"
  /\ pages_read' = 0 /\ page_ptr' = 0
  /\ IF Candidates(flash) = {}
     THEN stage' = "failed" /\ bytes' = bytes /\ boot2_blocks' = <<>> /\ valid_blocks' = 0
     ELSE /\ boot2_blocks' = BlockList(flash, copy)
          /\ valid_blocks' = Cardinality(Listed(flash))
          /\ CallReadTo("header", 1, Cardinality(Listed(flash)))
  /\ UNCHANGED <<flash, copy, boot2, boot2_initialized>>

Reading == stage \in {"header", "certs", "content"}

\* The loop of read_to.
ReadPage ==
  /\ Reading /\ bytes > pages_read
  /\ IF Translate(pages_read) \in flash.bad
     THEN stage' = "failed" /\ UNCHANGED <<pages_read, page_ptr, boot2>>
     ELSE /\ boot2' = [boot2 EXCEPT ![page_ptr] = PageAt(flash, Translate(pages_read))]
          /\ page_ptr' = page_ptr + 1
          /\ pages_read' = (pages_read + 1) % Counts
          /\ stage' = stage
  /\ UNCHANGED <<flash, copy, boot2_blocks, valid_blocks, bytes, boot2_initialized>>

\* The lengths in the header say whether it is one.
HeaderRead ==
  /\ stage = "header" /\ bytes <= pages_read
  /\ IF boot2[0] \in {<<0, 0>>, <<1, 0>>} THEN CallReadTo("certs", flash.data_offset, valid_blocks)
                                          ELSE stage' = "failed" /\ bytes' = bytes
  /\ UNCHANGED <<flash, copy, boot2_blocks, valid_blocks, pages_read, page_ptr, boot2,
                 boot2_initialized>>

CertsRead ==
  /\ stage = "certs" /\ bytes <= pages_read
  /\ CallReadTo("content", Length(flash), valid_blocks)
  /\ UNCHANGED <<flash, copy, boot2_blocks, valid_blocks, pages_read, page_ptr, boot2,
                 boot2_initialized>>

ContentRead ==
  /\ stage = "content" /\ bytes <= pages_read
  /\ stage' = "loaded" /\ boot2_initialized' = TRUE
  /\ UNCHANGED <<flash, copy, boot2_blocks, valid_blocks, pages_read, page_ptr, bytes, boot2>>

\* boot2_init: after copy 0 the other one.
NextCopy ==
  /\ stage = "failed" /\ copy = 0
  /\ copy' = 1 /\ stage' = "start"
  /\ UNCHANGED <<flash, boot2_blocks, valid_blocks, pages_read, page_ptr, bytes, boot2,
                 boot2_initialized>>

LoaderNext ==
  ListBlocks \/ ReadPage \/ HeaderRead \/ CertsRead \/ ContentRead \/ NextCopy

LoaderSpec == LoaderInit /\ [][LoaderNext]_loaderVars

LoaderDone == stage = "loaded" \/ (stage = "failed" /\ copy = 1)
-----------------------------------------------------------------------------
\* While boot2 is read, page_ptr keeps in step with the eight-bit pages_read,
\* stays inside boot2[], and what lies behind it are the pages of the listed
\* blocks in their order, also when an earlier copy broke off half-way
\* (boot2.c:98-108, 177, 245-248).
LoaderInStep ==
  Reading \/ stage = "loaded" =>
    /\ page_ptr = pages_read /\ pages_read < Counts /\ pages_read <= bytes
    /\ \A p \in 0..pages_read-1 : boot2[p] = PageAt(flash, Translate(p))
=============================================================================
