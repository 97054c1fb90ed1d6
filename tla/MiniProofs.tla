----------------------------- MODULE MiniProofs -----------------------------
(***************************************************************************)
(* Proofs about the boot2 loader - page_ptr keeps in step with pages_read, *)
(* and what is loaded is all of one copy of boot2 - and about mini's       *)
(* memory, the programs it loads and where it jumps.                       *)
(***************************************************************************)
EXTENDS Mini, TLAPS, FiniteSetTheorems

(***************************************************************************)
(* The order of the listed blocks.                                         *)
(***************************************************************************)
\* Counting the members of a finite set of numbers below and above one of them.
LEMMA Ranks ==
  ASSUME NEW S \in SUBSET Int, IsFiniteSet(S), NEW b \in S
  PROVE  /\ Rank(S, b) \in 0..Cardinality(S)-1
         /\ BackRank(S, b) = Cardinality(S) - 1 - Rank(S, b)
         /\ Cardinality(S) \in Nat
<1> DEFINE low == {c \in S : c < b}
           high == {c \in S : c > b}
<1>1. /\ IsFiniteSet(low) /\ IsFiniteSet(high) /\ Cardinality(S) \in Nat
      /\ Cardinality(low) \in Nat /\ Cardinality(high) \in Nat
  <2>1. low \in SUBSET S /\ high \in SUBSET S
    OBVIOUS
  <2>2. IsFiniteSet(low) /\ IsFiniteSet(high)
    BY <2>1, FS_Subset
  <2> HIDE DEF low, high
  <2> QED
    BY <2>2, FS_CardinalityType
<1>2. low \cap high = {} /\ (low \cup high) = S \ {b}
  <2>1. \A c \in S : c \in Int /\ b \in Int
    OBVIOUS
  <2>2. \A c \in S : ~(c < b /\ c > b) /\ ((c < b \/ c > b) <=> c # b)
    BY <2>1
  <2> QED
    BY <2>2
<1>3. Cardinality(S \ {b}) = Cardinality(S) - 1
  BY FS_RemoveElement
<1>4. Cardinality(low \cup high) = Cardinality(low) + Cardinality(high)
  <2> HIDE DEF low, high
  <2>1. Cardinality(low \cup high) = Cardinality(low) + Cardinality(high) - Cardinality(low \cap high)
    BY <1>1, FS_Union
  <2>2. Cardinality(low \cap high) = 0
    BY <1>2, FS_EmptySet
  <2> QED
    BY <1>1, <2>1, <2>2
<1>5. Rank(S, b) = Cardinality(low) /\ BackRank(S, b) = Cardinality(high)
  BY DEF Rank, BackRank
<1>6. Cardinality(low) + Cardinality(high) = Cardinality(S) - 1
  BY <1>2, <1>3, <1>4
<1> HIDE DEF low, high
<1> QED
  BY <1>1, <1>5, <1>6

LEMMA RankIncreases ==
  ASSUME NEW S \in SUBSET Int, IsFiniteSet(S), NEW a \in S, NEW b \in S, a < b
  PROVE  Rank(S, a) < Rank(S, b)
<1> DEFINE A == {c \in S : c < a}
           B == {c \in S : c < b}
<1>1. A \in SUBSET B /\ B \in SUBSET S /\ A # B
  <2>1. \A c \in S : c \in Int
    OBVIOUS
  <2>2. a \in B /\ a \notin A
    BY <2>1
  <2>3. \A c \in S : c < a => c < b
    BY <2>1
  <2>4. A \in SUBSET B
    BY <2>3
  <2> QED
    BY <2>2, <2>4
<1>2. IsFiniteSet(B) /\ IsFiniteSet(A)
  <2> HIDE DEF A, B
  <2> QED
    BY <1>1, FS_Subset
<1>3. Cardinality(A) <= Cardinality(B) /\ Cardinality(A) # Cardinality(B)
  <2> HIDE DEF A, B
  <2> QED
    BY <1>1, <1>2, FS_Subset
<1>4. Cardinality(A) \in Nat /\ Cardinality(B) \in Nat
  <2> HIDE DEF A, B
  <2> QED
    BY <1>2, FS_CardinalityType
<1>5. Rank(S, a) = Cardinality(A) /\ Rank(S, b) = Cardinality(B)
  BY DEF Rank
<1> HIDE DEF A, B
<1> QED
  BY <1>3, <1>4, <1>5

\* Every rank is taken by a member: there are as many ranks as members.
LEMMA RankTaken ==
  ASSUME NEW S \in SUBSET Int, IsFiniteSet(S), NEW i \in 0..Cardinality(S)-1
  PROVE  \E b \in S : Rank(S, b) = i
<1> DEFINE T == 0..Cardinality(S)-1
           f == [b \in S |-> Rank(S, b)]
<1>1. \A b \in S : Rank(S, b) \in T
  BY Ranks
<1>2. Cardinality(S) \in Nat
  BY FS_CardinalityType
<1>3. IsFiniteSet(T) /\ Cardinality(T) = Cardinality(S)
  <2>1. Cardinality(S) - 1 \in Int /\ 0 \in Int
    BY <1>2
  <2>2. IsFiniteSet(T)
    BY <2>1, FS_Interval
  <2>3. Cardinality(T) = IF 0 > Cardinality(S) - 1 THEN 0 ELSE (Cardinality(S) - 1) - 0 + 1
    BY <2>1, FS_Interval
  <2> QED
    BY <1>2, <2>2, <2>3
<1>4. \A a, b \in S : Rank(S, a) = Rank(S, b) => a = b
  <2> SUFFICES ASSUME NEW a \in S, NEW b \in S, a # b PROVE Rank(S, a) # Rank(S, b)
    OBVIOUS
  <2>1. a < b \/ b < a
    OBVIOUS
  <2>2. Rank(S, a) \in Int /\ Rank(S, b) \in Int
    BY <1>2, Ranks
  <2> QED
    BY <2>1, <2>2, RankIncreases
<1>5. f \in Injection(S, T)
  <2>1. f \in [S -> T]
    BY <1>1
  <2>2. \A a, b \in S : f[a] = f[b] => a = b
    BY <1>4
  <2> HIDE DEF f
  <2> QED
    BY <2>1, <2>2 DEF Injection, IsInjective
<1>6. f \in Surjection(S, T)
  <2> HIDE DEF f, T
  <2> QED
    BY <1>3, <1>5, FS_Injection
<1>7. \E b \in S : f[b] = i
  <2> HIDE DEF f
  <2> QED
    BY <1>6 DEF Surjection
<1> QED
  BY <1>7

\* Listing the good blocks upwards or downwards lists each at its rank.
LEMMA BlockListed ==
  ASSUME NEW f, NEW c, NEW i \in 0..Cardinality(Listed(f))-1
  PROVE  /\ BlockList(f, c)[i] \in Listed(f)
         /\ c = 0 => Rank(Listed(f), BlockList(f, c)[i]) = i
         /\ c # 0 => BackRank(Listed(f), BlockList(f, c)[i]) = i
<1> DEFINE S == Listed(f)
<1>1. S \in SUBSET Int /\ IsFiniteSet(S) /\ Cardinality(S) \in Nat
  <2>1. IsFiniteSet(Blocks)
    BY BlockAssumption, FS_Interval DEF Blocks, BOOT2_START
  <2>2. S \in SUBSET Blocks /\ Blocks \in SUBSET Int
    BY DEF Listed, Blocks
  <2> HIDE DEF S
  <2> QED
    BY <2>1, <2>2, FS_Subset, FS_CardinalityType
<1>2. BlockList(f, c)[i] =
        CHOOSE b \in S : (IF c = 0 THEN Rank(S, b) ELSE BackRank(S, b)) = i
  BY DEF BlockList
<1> HIDE DEF S
<1>3. CASE c = 0
  <2>1. \E b \in S : Rank(S, b) = i
    BY <1>1, RankTaken DEF S
  <2> QED
    BY <1>2, <1>3, <2>1 DEF S
<1>4. CASE c # 0
  <2>1. Cardinality(S) - 1 - i \in 0..Cardinality(S)-1 /\ i \in Int
    BY <1>1 DEF S
  <2>2. PICK b \in S : Rank(S, b) = Cardinality(S) - 1 - i
    BY <1>1, <2>1, RankTaken
  <2>3. BackRank(S, b) = Cardinality(S) - 1 - Rank(S, b)
    BY <1>1, Ranks
  <2>4. BackRank(S, b) = i
    BY <1>1, <2>1, <2>2, <2>3
  <2> QED
    BY <1>2, <1>4, <2>4 DEF S
<1> QED
  BY <1>3, <1>4

LEMMA Division ==
  ASSUME NEW a \in Nat, NEW b \in Nat \ {0}
  PROVE  /\ a \div b \in Nat /\ a % b \in 0..b-1
         /\ a = (a \div b) * b + (a % b)
BY SMTT(30)

LEMMA Quotient ==
  ASSUME NEW q \in Nat, NEW b \in Nat \ {0}, NEW r \in 0..b-1
  PROVE  q * b + r \in Nat /\ (q * b + r) \div b = q /\ (q * b + r) % b = r
BY SMTT(30)

LEMMA TimesMonotone ==
  ASSUME NEW x \in Nat, NEW y \in Nat, NEW b \in Nat, x <= y
  PROVE  x * b <= y * b /\ x * b \in Nat /\ y * b \in Nat
BY SMTT(30)

\* The pages of a copy in the order in which the listed blocks hold them.
LEMMA PagesOfCopy ==
  ASSUME NEW f \in Flashes, NEW c \in {0, 1}, Candidates(f) # {}, f.good # {},
         Length(f) <= Cardinality(Listed(f)) * BLOCK_SIZE, NEW p \in 0..Length(f)-1
  PROVE  PageAt(f, BlockList(f, c)[p \div BLOCK_SIZE] * BLOCK_SIZE + (p % BLOCK_SIZE)) = <<c, p>>
<1> DEFINE S == Listed(f)
           q == p \div BLOCK_SIZE
           r == p % BLOCK_SIZE
           b == BlockList(f, c)[q]
           n == Cardinality(S)
<1>1. /\ BLOCK_SIZE \in Nat \ {0} /\ Length(f) \in Nat /\ p \in Nat /\ p < Length(f)
      /\ S \in SUBSET Nat /\ IsFiniteSet(S) /\ n \in Nat /\ S \in SUBSET Int
  <2>1. IsFiniteSet(Blocks) /\ Blocks \in SUBSET Nat
    BY BlockAssumption, FS_Interval DEF Blocks, BOOT2_START
  <2>2. S \in SUBSET Blocks
    BY DEF Listed
  <2>3. IsFiniteSet(S) /\ n \in Nat
    <3> HIDE DEF S
    <3> QED
      BY <2>1, <2>2, FS_Subset, FS_CardinalityType
  <2>4. f.data_offset \in Nat /\ f.size \in Nat
    BY FlashAssumption
  <2>5. Length(f) \in Nat
    BY <2>4 DEF Length
  <2>6. p \in Nat /\ p < Length(f)
    BY <2>5
  <2>7. S \in SUBSET Nat /\ S \in SUBSET Int
    <3>1. \A s \in S : s \in Nat
      BY <2>1, <2>2
    <3>2. \A s \in Nat : s \in Int
      OBVIOUS
    <3> HIDE DEF S
    <3> QED
      BY <3>1, <3>2
  <2> HIDE DEF S, n
  <2> QED
    BY <2>3, <2>5, <2>6, <2>7, BlockAssumption
<1>2. PICK k \in 0..n : f.good = S /\ Length(f) <= k * BLOCK_SIZE /\ 2 * k <= n
  BY StoredAssumption
<1>3. q \in Nat /\ r \in 0..BLOCK_SIZE-1 /\ p = q * BLOCK_SIZE + r
  BY <1>1, Division
<1>4. q < k
  <2> HIDE DEF q, r, S, n
  <2>1. CASE k <= q
    <3>1. k * BLOCK_SIZE <= q * BLOCK_SIZE /\ q * BLOCK_SIZE \in Nat /\ k * BLOCK_SIZE \in Nat
      BY <1>1, <1>3, <2>1, TimesMonotone
    <3> QED
      BY <1>1, <1>2, <1>3, <3>1
  <2> QED
    BY <1>1, <1>2, <1>3, <2>1
<1>5. q \in 0..n-1
  <2> HIDE DEF q, r, S, n
  <2> QED
    BY <1>1, <1>2, <1>3, <1>4
<1>6. b \in S /\ (c = 0 => Rank(S, b) = q) /\ (c = 1 => BackRank(S, b) = q)
  BY <1>5, BlockListed
<1>7. (b * BLOCK_SIZE + r) \div BLOCK_SIZE = b /\ (b * BLOCK_SIZE + r) % BLOCK_SIZE = r
  <2> HIDE DEF q, r, S, n, b
  <2> QED
    BY <1>1, <1>3, <1>6, Quotient
<1>8. /\ Rank(S, b) \in Nat /\ BackRank(S, b) = n - 1 - Rank(S, b)
  <2> HIDE DEF q, r, b
  <2>1. b \in S
    BY <1>6
  <2> QED
    BY <1>1, <2>1, Ranks
<1> DEFINE up == Rank(S, b) * BLOCK_SIZE + r
           down == BackRank(S, b) * BLOCK_SIZE + r
<1>9. PageAt(f, b * BLOCK_SIZE + r) =
        IF up < Length(f) THEN <<0, up>> ELSE IF down < Length(f) THEN <<1, down>> ELSE Junk
  <2> HIDE DEF q, r, b, S
  <2> QED
    BY <1>2, <1>6, <1>7 DEF PageAt
<1>10. CASE c = 0
  <2>1. up = p
    BY <1>3, <1>6, <1>10
  <2> HIDE DEF up, down, b, q, r
  <2>2. PageAt(f, b * BLOCK_SIZE + r) = <<0, p>>
    BY <1>1, <1>9, <2>1
  <2> QED
    BY <1>10, <2>2 DEF b, q, r
<1>11. CASE c = 1
  <2>1. down = p
    BY <1>3, <1>6, <1>11
  <2>2. k <= Rank(S, b)
    <3> HIDE DEF q, r, b, S, n
    <3> QED
      BY <1>1, <1>2, <1>3, <1>4, <1>6, <1>8, <1>11
  <2>3. k * BLOCK_SIZE <= Rank(S, b) * BLOCK_SIZE /\ Rank(S, b) * BLOCK_SIZE \in Nat
        /\ k * BLOCK_SIZE \in Nat
    <3> HIDE DEF q, r, b, S, n
    <3> QED
      BY <1>1, <1>2, <1>8, <2>2, TimesMonotone
  <2>4. ~(up < Length(f))
    <3> DEFINE z == Rank(S, b) * BLOCK_SIZE
    <3>1. up = z + r
      OBVIOUS
    <3> HIDE DEF q, r, b, S, n, up
    <3>2. z >= Length(f) /\ z \in Nat /\ r \in Nat
      BY <1>1, <1>2, <1>3, <2>3
    <3> HIDE DEF z
    <3> QED
      BY <1>1, <3>1, <3>2
  <2> HIDE DEF up, down, b, q, r
  <2>5. PageAt(f, b * BLOCK_SIZE + r) = <<1, p>>
    BY <1>1, <1>9, <2>1, <2>4
  <2> QED
    BY <1>11, <2>5 DEF b, q, r
<1> QED
  BY <1>10, <1>11

-----------------------------------------------------------------------------
(***************************************************************************)
(* What read_to has read lies in boot2[] in its order.                     *)
(***************************************************************************)
\* How much of boot2[] is filled, and up to where.
Filled ==
  /\ page_ptr = pages_read /\ pages_read <= bytes
  /\ \A p \in 0..pages_read-1 : boot2[p] = PageAt(flash, Translate(p))

\* The length that read_to was called with.
Asked ==
  /\ stage = "header" => bytes = 1
  /\ stage = "certs" => bytes = flash.data_offset

LoaderTypes ==
  /\ flash \in Flashes
  /\ stage \in {"start", "header", "certs", "content", "loaded", "failed"}
  /\ pages_read \in Nat /\ bytes \in Nat /\ bytes < Counts
  /\ DOMAIN boot2 = Pages

LoaderInv == LoaderTypes /\ Asked /\ (Reading \/ stage = "loaded" => Filled)

LEMMA Below == ASSUME NEW a \in Nat, NEW b \in Nat, a < b PROVE a % b = a
BY SMTT(60)

LEMMA FlashSizes ==
  ASSUME NEW f \in Flashes
  PROVE  /\ f.data_offset \in Nat \ {0} /\ Length(f) \in Nat /\ f.data_offset <= Length(f)
         /\ Length(f) < Counts /\ 1 < Counts /\ Counts \in Nat
BY FlashAssumption, BlockAssumption DEF Length

LEMMA LoaderInit_Inv == LoaderInit => LoaderInv
<1> SUFFICES ASSUME LoaderInit PROVE LoaderInv
  OBVIOUS
<1>1. 1 < Counts /\ Counts \in Nat
  BY FlashSizes DEF LoaderInit
<1>2. DOMAIN boot2 = Pages
  BY DEF LoaderInit
<1> QED
  BY <1>1, <1>2 DEF LoaderInit, LoaderInv, LoaderTypes, Asked, Reading

LEMMA ReadPageKeeps ==
  ASSUME LoaderInv, ReadPage
  PROVE  LoaderInv'
<1>1. PICK f \in Flashes : f = flash
  BY DEF LoaderInv, LoaderTypes
<1>2. /\ Filled /\ LoaderTypes /\ Asked /\ pages_read < bytes
  BY DEF LoaderInv, ReadPage
<1>3. CASE Translate(pages_read) \in flash.bad
  BY <1>2, <1>3 DEF ReadPage, LoaderInv, LoaderTypes, Asked, Reading, Filled
<1>4. CASE Translate(pages_read) \notin flash.bad
  <2>1. /\ boot2' = [boot2 EXCEPT ![pages_read] = PageAt(flash, Translate(pages_read))]
        /\ page_ptr' = pages_read + 1 /\ stage' = stage
        /\ pages_read' = (pages_read + 1) % Counts
        /\ UNCHANGED <<flash, copy, boot2_blocks, valid_blocks, bytes, boot2_initialized>>
    BY <1>2, <1>4 DEF ReadPage, Filled
  <2>2. pages_read' = pages_read + 1 /\ pages_read \in Pages
    <3>1. /\ pages_read \in Pages /\ pages_read + 1 \in Nat /\ Counts \in Nat
          /\ pages_read + 1 < Counts
      BY <1>2, BlockAssumption DEF LoaderTypes, Pages
    <3> QED
      BY <2>1, <3>1, Below
  <2>3. LoaderTypes'
    BY <1>2, <2>1, <2>2 DEF LoaderTypes, Pages
  <2>4. Asked'
    BY <1>2, <2>1 DEF Asked
  <2>5. ASSUME NEW p \in 0..pages_read'-1
        PROVE  boot2'[p] = PageAt(flash, Translate(p))
    <3>1. p \in 0..pages_read-1 \/ p = pages_read
      BY <1>2, <2>2 DEF LoaderTypes
    <3>2. p \in Pages
      BY <2>2, <3>1, BlockAssumption DEF Pages
    <3>3. CASE p = pages_read
      BY <2>1, <2>2, <3>3, <1>2 DEF LoaderTypes
    <3>4. CASE p \in 0..pages_read-1
      BY <2>1, <3>2, <3>4, <1>2 DEF LoaderTypes, Filled
    <3> QED
      BY <3>1, <3>3, <3>4
  <2>6. Filled'
    <3>1. \A p : Translate(p)' = Translate(p)
      BY <2>1 DEF Translate
    <3>2. \A p \in 0..pages_read'-1 : boot2'[p] = PageAt(flash', Translate(p)')
      BY <2>1, <2>5, <3>1
    <3>3. page_ptr' = pages_read' /\ pages_read' <= bytes'
      BY <1>2, <2>1, <2>2 DEF LoaderTypes
    <3> QED
      BY <3>2, <3>3 DEF Filled
  <2> QED
    BY <2>3, <2>4, <2>6 DEF LoaderInv
<1> QED
  BY <1>3, <1>4

LEMMA LoaderStep == ASSUME LoaderInv, [LoaderNext]_loaderVars PROVE LoaderInv'
<1>1. PICK f \in Flashes : f = flash
  BY DEF LoaderInv, LoaderTypes
<1>2. /\ f.data_offset \in Nat \ {0} /\ Length(f) \in Nat /\ f.data_offset <= Length(f)
      /\ Length(f) < Counts /\ 1 < Counts /\ Counts \in Nat
  BY FlashSizes
<1>3. ASSUME UNCHANGED <<flash, boot2_blocks, pages_read, page_ptr, boot2>>
      PROVE  (\A p : Translate(p)' = Translate(p)) /\ (Filled /\ pages_read' <= bytes' => Filled')
  <2>1. \A p : Translate(p)' = Translate(p)
    BY <1>3 DEF Translate
  <2> QED
    BY <1>3, <2>1 DEF Filled
<1>4. CASE ListBlocks
  <2>1. pages_read' = 0 /\ page_ptr' = 0 /\ flash' = flash /\ boot2' = boot2
    BY <1>4 DEF ListBlocks
  <2>2. \/ stage' = "failed" /\ bytes' = bytes
        \/ stage' = "header" /\ bytes' = 1
    BY <1>4 DEF ListBlocks, CallReadTo
  <2>3. LoaderTypes' /\ Asked'
    BY <1>1, <1>2, <2>1, <2>2 DEF LoaderInv, LoaderTypes, Asked
  <2>4. bytes' >= 0
    BY <2>3 DEF LoaderTypes
  <2>5. Filled'
    BY <2>1, <2>4 DEF Filled
  <2> QED
    BY <2>3, <2>5 DEF LoaderInv
<1>5. CASE ReadPage
  BY <1>5, ReadPageKeeps
<1>6. CASE HeaderRead
  <2>1. /\ UNCHANGED <<flash, boot2_blocks, pages_read, page_ptr, boot2>>
        /\ Filled /\ bytes = 1 /\ LoaderTypes
    BY <1>6 DEF HeaderRead, LoaderInv, Reading, Asked
  <2>2. \/ stage' = "failed" /\ bytes' = bytes
        \/ stage' = "certs" /\ bytes' = flash.data_offset
    BY <1>6 DEF HeaderRead, CallReadTo
  <2>3. LoaderTypes' /\ Asked'
    BY <1>1, <1>2, <2>1, <2>2 DEF LoaderTypes, Asked
  <2>4. pages_read' <= bytes'
    BY <1>1, <1>2, <2>1, <2>2 DEF LoaderTypes, Filled
  <2> QED
    BY <1>3, <2>1, <2>3, <2>4 DEF LoaderInv
<1>7. CASE CertsRead
  <2>1. /\ UNCHANGED <<flash, boot2_blocks, pages_read, page_ptr, boot2>>
        /\ Filled /\ bytes = flash.data_offset /\ LoaderTypes
    BY <1>7 DEF CertsRead, LoaderInv, Reading, Asked
  <2>2. \/ stage' = "failed" /\ bytes' = bytes
        \/ stage' = "content" /\ bytes' = Length(flash)
    BY <1>7 DEF CertsRead, CallReadTo
  <2>3. LoaderTypes' /\ Asked'
    BY <1>1, <1>2, <2>1, <2>2 DEF LoaderTypes, Asked
  <2>4. pages_read' <= bytes'
    BY <1>1, <1>2, <2>1, <2>2 DEF LoaderTypes, Filled
  <2> QED
    BY <1>3, <2>1, <2>3, <2>4 DEF LoaderInv
<1>8. CASE ContentRead
  <2>1. /\ UNCHANGED <<flash, boot2_blocks, pages_read, page_ptr, boot2>>
        /\ bytes' = bytes /\ stage' = "loaded" /\ Filled /\ LoaderTypes
    BY <1>8 DEF ContentRead, LoaderInv, Reading
  <2>2. pages_read' <= bytes'
    BY <2>1 DEF Filled
  <2>3. LoaderTypes' /\ Asked'
    BY <2>1 DEF LoaderTypes, Asked
  <2> QED
    BY <1>3, <2>1, <2>2, <2>3 DEF LoaderInv
<1>9. CASE NextCopy
  BY <1>9 DEF NextCopy, LoaderInv, LoaderTypes, Asked, Reading
<1>10. CASE UNCHANGED loaderVars
  <2>1. /\ UNCHANGED <<flash, boot2_blocks, pages_read, page_ptr, boot2>>
        /\ bytes' = bytes /\ stage' = stage
    BY <1>10 DEF loaderVars
  <2>2. LoaderTypes' /\ Asked'
    BY <2>1 DEF LoaderInv, LoaderTypes, Asked
  <2>3. (Reading \/ stage = "loaded")' => Filled'
    BY <1>3, <2>1 DEF LoaderInv, Reading, Filled
  <2> QED
    BY <2>2, <2>3 DEF LoaderInv
<1> QED
  BY <1>4, <1>5, <1>6, <1>7, <1>8, <1>9, <1>10 DEF LoaderNext

LEMMA LoaderInv_InStep == LoaderInv => LoaderInStep
<1> SUFFICES ASSUME LoaderInv, Reading \/ stage = "loaded"
             PROVE  Filled /\ pages_read < Counts
  BY DEF LoaderInStep, Filled
<1> QED
  BY BlockAssumption DEF LoaderInv, LoaderTypes, Filled

\* For every flash whose boot2 is shorter than 255 pages, whatever its block maps
\* list and whichever of its pages cannot be read: boot2_load fills boot2[] with the
\* pages of the listed blocks in their order and never past the eight-bit count.
THEOREM LoaderKeepsStep == LoaderSpec => []LoaderInStep
<1>1. LoaderInit => LoaderInv
  BY LoaderInit_Inv
<1>2. LoaderInv /\ [LoaderNext]_loaderVars => LoaderInv'
  BY LoaderStep
<1>3. LoaderInv => LoaderInStep
  BY LoaderInv_InStep
<1> QED
  BY <1>1, <1>2, <1>3, PTL DEF LoaderSpec

-----------------------------------------------------------------------------
(***************************************************************************)
(* What is loaded is a copy of boot2.                                      *)
(***************************************************************************)
\* While a list is read, and afterwards, it is the newest map's.
ListKept ==
  Reading \/ stage = "loaded" =>
    /\ Candidates(flash) # {} /\ boot2_blocks = BlockList(flash, copy)
    /\ valid_blocks = Cardinality(Listed(flash))
\* Behind the header the first listed block is known to begin with one.
HeaderSeen ==
  stage \in {"certs", "content", "loaded"} =>
    PageAt(flash, Translate(0)) \in {<<0, 0>>, <<1, 0>>}
\* The listed blocks are enough for what is asked of them.
Enough ==
  /\ stage \in {"content", "loaded"} =>
       bytes = Length(flash) /\ bytes <= valid_blocks * BLOCK_SIZE
  /\ stage = "loaded" => bytes <= pages_read
CopyInv ==
  /\ copy \in {0, 1} /\ (boot2_initialized <=> stage = "loaded")
  /\ ListKept /\ HeaderSeen /\ Enough

LEMMA CopyInit == LoaderInit => CopyInv
BY DEF LoaderInit, CopyInv, ListKept, HeaderSeen, Enough, Reading

LEMMA CopyStep ==
  ASSUME LoaderInv, CopyInv, [LoaderNext]_loaderVars
  PROVE  CopyInv'
<1>1. CASE ListBlocks
  <2>1. flash' = flash /\ copy' = copy /\ boot2_initialized' = boot2_initialized /\ stage = "start"
    BY <1>1 DEF ListBlocks
  <2>2. \/ stage' = "failed"
        \/ /\ stage' = "header" /\ Candidates(flash) # {}
           /\ boot2_blocks' = BlockList(flash, copy) /\ valid_blocks' = Cardinality(Listed(flash))
    BY <1>1 DEF ListBlocks, CallReadTo
  <2>3. ListKept'
    BY <2>1, <2>2 DEF ListKept, Reading
  <2>4. HeaderSeen' /\ Enough'
    BY <2>2 DEF HeaderSeen, Enough
  <2> QED
    BY <2>1, <2>2, <2>3, <2>4 DEF CopyInv
<1>2. ASSUME UNCHANGED <<flash, copy, boot2_blocks, valid_blocks>>
      PROVE  /\ (Reading \/ stage = "loaded") => ListKept'
             /\ PageAt(flash, Translate(0))' = PageAt(flash, Translate(0))
  BY <1>2 DEF CopyInv, ListKept, Translate
<1>3. CASE ReadPage
  <2>1. /\ UNCHANGED <<flash, copy, boot2_blocks, valid_blocks, bytes, boot2_initialized>>
        /\ Reading /\ stage' \in {stage, "failed"}
    BY <1>3 DEF ReadPage
  <2> QED
    BY <1>2, <2>1 DEF CopyInv, HeaderSeen, Enough, Reading
<1>4. CASE HeaderRead
  <2>1. /\ UNCHANGED <<flash, copy, boot2_blocks, valid_blocks, boot2_initialized>>
        /\ Reading /\ stage = "header" /\ bytes <= pages_read
        /\ \/ stage' = "failed"
           \/ stage' = "certs" /\ boot2[0] \in {<<0, 0>>, <<1, 0>>}
    BY <1>4 DEF HeaderRead, CallReadTo, Reading
  <2>2. boot2[0] = PageAt(flash, Translate(0))
    <3>1. Filled /\ bytes = 1 /\ pages_read \in Nat
      BY <2>1 DEF LoaderInv, LoaderTypes, Asked
    <3>2. 0 \in 0..pages_read-1
      BY <2>1, <3>1
    <3> QED
      BY <3>1, <3>2 DEF Filled
  <2> QED
    BY <1>2, <2>1, <2>2 DEF CopyInv, HeaderSeen, Enough, Reading
<1>5. CASE CertsRead
  <2>1. /\ UNCHANGED <<flash, copy, boot2_blocks, valid_blocks, boot2_initialized>>
        /\ Reading /\ stage = "certs"
        /\ \/ stage' = "failed"
           \/ /\ stage' = "content" /\ bytes' = Length(flash)
              /\ ~(Length(flash) > valid_blocks * BLOCK_SIZE)
    BY <1>5 DEF CertsRead, CallReadTo, Reading
  <2>2. Length(flash) \in Nat /\ valid_blocks * BLOCK_SIZE \in Int
    <3>1. Length(flash) \in Nat
      BY FlashSizes DEF LoaderInv, LoaderTypes
    <3>2. Cardinality(Listed(flash)) \in Nat
      <4>1. IsFiniteSet(Blocks)
        BY BlockAssumption, FS_Interval DEF Blocks, BOOT2_START
      <4>2. Listed(flash) \in SUBSET Blocks
        BY DEF Listed
      <4> QED
        BY <4>1, <4>2, FS_Subset, FS_CardinalityType
    <3>3. valid_blocks \in Nat
      BY <2>1, <3>2 DEF CopyInv, ListKept
    <3> QED
      BY <3>1, <3>3, BlockAssumption
  <2>3. stage' = "content" => bytes' <= valid_blocks' * BLOCK_SIZE
    BY <2>1, <2>2
  <2> QED
    BY <1>2, <2>1, <2>3 DEF CopyInv, HeaderSeen, Enough, Reading
<1>6. CASE ContentRead
  <2>1. /\ UNCHANGED <<flash, copy, boot2_blocks, valid_blocks, bytes, pages_read>>
        /\ Reading /\ stage = "content" /\ stage' = "loaded" /\ boot2_initialized'
        /\ bytes <= pages_read
    BY <1>6 DEF ContentRead, Reading
  <2> QED
    BY <1>2, <2>1 DEF CopyInv, HeaderSeen, Enough, Reading
<1>7. CASE NextCopy
  BY <1>7 DEF NextCopy, CopyInv, ListKept, HeaderSeen, Enough, Reading
<1>8. CASE UNCHANGED loaderVars
  <2>1. /\ UNCHANGED <<flash, copy, boot2_blocks, valid_blocks, bytes, pages_read, stage,
                      boot2_initialized>>
    BY <1>8 DEF loaderVars
  <2> QED
    BY <1>2, <2>1 DEF CopyInv, ListKept, HeaderSeen, Enough, Reading
<1> QED
  BY <1>1, <1>3, <1>4, <1>5, <1>6, <1>7, <1>8 DEF LoaderNext

\* The counters stay inside boot2[] also where reading has broken off.
Counted == pages_read \in Pages /\ page_ptr \in 0..Counts

LEMMA CountedInit == LoaderInit => Counted
<1> SUFFICES ASSUME LoaderInit PROVE Counted
  OBVIOUS
<1> QED
  BY BlockAssumption DEF LoaderInit, Counted, Pages

LEMMA CountedStep ==
  ASSUME LoaderInv, Counted, [LoaderNext]_loaderVars
  PROVE  Counted'
<1>1. CASE ReadPage
  <2>1. Filled /\ pages_read < bytes /\ LoaderTypes /\ page_ptr = pages_read
    BY <1>1 DEF ReadPage, LoaderInv, LoaderTypes, Filled
  <2>2. \/ UNCHANGED <<pages_read, page_ptr>>
        \/ page_ptr' = page_ptr + 1 /\ pages_read' = (pages_read + 1) % Counts
    BY <1>1 DEF ReadPage
  <2>3. /\ pages_read \in Nat /\ pages_read + 1 \in Nat /\ pages_read + 1 < Counts
        /\ Counts \in Nat
    BY <2>1, BlockAssumption DEF LoaderTypes
  <2>4. (pages_read + 1) % Counts = pages_read + 1
    BY <2>3, Below
  <2> QED
    BY <2>1, <2>2, <2>3, <2>4 DEF Counted, Pages
<1>2. CASE ListBlocks
  BY <1>2, BlockAssumption DEF ListBlocks, Counted, Pages
<1>3. CASE HeaderRead \/ CertsRead \/ ContentRead \/ NextCopy \/ UNCHANGED loaderVars
  BY <1>3 DEF HeaderRead, CertsRead, ContentRead, NextCopy, loaderVars, Counted
<1> QED
  BY <1>1, <1>2, <1>3 DEF LoaderNext

\* All of boot2, from the copy that was read.
Whole == \A p \in 0..Length(flash)-1 : boot2[p] = <<copy, p>>

LEMMA LoadedWhole ==
  ASSUME LoaderInv, CopyInv, stage = "loaded"
  PROVE  Whole
<1>1. /\ flash \in Flashes /\ copy \in {0, 1} /\ Candidates(flash) # {}
      /\ boot2_blocks = BlockList(flash, copy)
      /\ Length(flash) <= Cardinality(Listed(flash)) * BLOCK_SIZE
      /\ PageAt(flash, Translate(0)) \in {<<0, 0>>, <<1, 0>>}
  BY DEF LoaderInv, LoaderTypes, CopyInv, ListKept, HeaderSeen, Enough
<1>2. flash.good # {}
  BY <1>1 DEF PageAt, Junk
<1>3. pages_read = Length(flash) /\ Filled
  <2>1. Filled /\ bytes = Length(flash) /\ bytes <= pages_read /\ pages_read \in Nat /\ bytes \in Nat
    BY DEF LoaderInv, LoaderTypes, CopyInv, Enough
  <2> QED
    BY <2>1 DEF Filled
<1>4. ASSUME NEW p \in 0..Length(flash)-1
      PROVE  boot2[p] = <<copy, p>>
  <2>1. boot2[p] = PageAt(flash, Translate(p))
    BY <1>3 DEF Filled
  <2>2. Translate(p) = BlockList(flash, copy)[p \div BLOCK_SIZE] * BLOCK_SIZE + (p % BLOCK_SIZE)
    BY <1>1 DEF Translate
  <2> QED
    BY <1>1, <1>2, <2>1, <2>2, PagesOfCopy
<1> QED
  BY <1>4 DEF Whole

\* For every console whose boot2, if it has one, lies in the blocks that its newest map
\* lists: when boot2_init has loaded something, boot2[] holds all the pages of one of
\* the two copies in their order, copy 0 from the lowest block upwards or copy 1 from
\* the highest downwards, whatever other maps the flash holds, whichever pages cannot
\* be read, and also when copy 0 broke off half-way (boot2.c:112-256).
THEOREM LoadsOneCopy == LoaderSpec => [](stage = "loaded" => Whole)
<1>1. LoaderInit => LoaderInv /\ CopyInv
  BY LoaderInit_Inv, CopyInit
<1>2. LoaderInv /\ CopyInv /\ [LoaderNext]_loaderVars => (LoaderInv /\ CopyInv)'
  BY LoaderStep, CopyStep
<1>3. LoaderInv /\ CopyInv => (stage = "loaded" => Whole)
  BY LoadedWhole
<1> QED
  BY <1>1, <1>2, <1>3, PTL DEF LoaderSpec

-----------------------------------------------------------------------------
(***************************************************************************)
(* Mini: the loader within it, programs and memory.                        *)
(***************************************************************************)
LEMMA MiniStepLoads == [Next]_vars => [LoaderNext]_loaderVars
BY DEF Next, Main, Others, Load, Mount, BootFile, Segment, Start, RaceWon, Failed,
       ServeQuery, ServeDropped, ServeBootFile, ServeBootMem, ServeJump,
       Gecko, Alarm, Woken, PpcRequest, PpcRead, PpcWrite, RomDecrypts, HostStart,
       HostSend, vars

\* Within mini as a whole boot2[] stays as the loader left it: nothing that runs
\* afterwards reads it again or writes to it (main.c:64-127).
THEOREM MiniLoads == Spec => []LoaderInStep
<1>1. Init => LoaderInit
  BY DEF Init
<1>2. [Next]_vars => [LoaderNext]_loaderVars
  BY MiniStepLoads
<1>3. Spec => LoaderSpec
  BY <1>1, <1>2, PTL DEF Spec, LoaderSpec
<1> QED
  BY <1>3, LoaderKeepsStep

-----------------------------------------------------------------------------
\* What is loaded, uploaded or written never reaches mini.
LEMMA SegmentInside ==
  ASSUME NEW e \in Elfs, NEW i \in DOMAIN e.segs, SegmentError(e.segs[i]) = 0
  PROVE  SegmentCells(e.segs[i]) \cap MiniMemory = {}
<1>1. CASE ~e.segs[i].load
  BY <1>1 DEF SegmentCells
<1>2. CASE e.segs[i].load
  <2> DEFINE s == e.segs[i]
  <2>a. s \in [load : BOOLEAN, at : Addr, file : Nat, mem : Nat]
    <3> DEFINE R == [load : BOOLEAN, at : Addr, file : Nat, mem : Nat]
    <3>1. e.segs \in Seq(R)
      BY ElfAssumption
    <3> HIDE DEF R
    <3>2. i \in 1..Len(e.segs)
      BY <3>1
    <3>3. e.segs[i] \in R
      BY <3>1, <3>2
    <3> QED
      BY <3>3 DEF R
  <2>1. /\ s.at \in Nat /\ s.file \in Nat /\ s.mem \in Nat /\ Word \in Nat
        /\ s.file <= s.mem /\ s.at + s.mem < Word
    <3>1. s.at \in Addr /\ s.file \in Nat /\ s.mem \in Nat
      BY <2>a
    <3>2. s.file <= s.mem /\ s.at + s.mem < Word
      BY ElfAssumption
    <3> QED
      BY <3>1, <3>2, AddressAssumption DEF Addr
  <2>b. CheckPhysrange(s.at, s.mem) # -1
    BY <1>2 DEF SegmentError
  <2>2. \/ (s.at + s.mem) % Word < PPC_MEM1_END
        \/ (s.at + s.mem) % Word < PPC_MEM2_END
    BY <2>b DEF CheckPhysrange
  <2>3. (s.at + s.mem) % Word = s.at + s.mem
    <3> HIDE DEF s
    <3>1. s.at + s.mem \in Nat
      BY <2>1
    <3> QED
      BY <3>1, <2>1, Below
  <2>4. s.at + s.mem < PPC_MEM2_END
    BY <2>1, <2>2, <2>3, AddressAssumption
  <2> QED
    BY <2>1, <2>4, AddressAssumption DEF SegmentCells, MiniMemory, Addr
<1> QED
  BY <1>1, <1>2

LEMMA MiniApart == \A a \in MiniMemory : a \in Addr /\ a \notin PpcMemory
BY AddressAssumption DEF MiniMemory, PpcMemory, Addr

LEMMA StartApart == 0 \notin MiniMemory /\ UpBuf \notin MiniMemory /\ Vec \notin MiniMemory
<1>1. 0 \notin MiniMemory
  BY AddressAssumption DEF MiniMemory
<1>2. UpBuf \notin MiniMemory
  BY AddressAssumption, BufferAssumption DEF MiniMemory
<1>3. Vec \notin MiniMemory
  BY MiniApart, MiniAssumption
<1> QED
  BY <1>1, <1>2, <1>3

MemoryInv == MiniKept /\ DOMAIN mem = Addr
JobInv == pc = "job" => /\ DOMAIN job = {"kind", "elf", "next", "from"}
                        /\ job.elf \in Elfs /\ job.next \in Nat \ {0}
HostInv == /\ gst \in {"none", "size", "buffer"}
           /\ glen \in 0..BufferMax /\ gleft \in 0..glen
           /\ usb \in Seq(HostWords) /\ todo \in Seq(HostWords)
KeptInv == MemoryInv /\ JobInv /\ HostInv

LEMMA OneCell ==
  ASSUME MemoryInv, NEW a, a \notin MiniMemory, NEW x, mem' = [mem EXCEPT ![a] = x]
  PROVE  MemoryInv'
BY MiniApart DEF MemoryInv, MiniKept

LEMMA BootKeeps == ASSUME MemoryInv, NEW t, Boot2Run(t) PROVE MemoryInv'
<1>1. PICK x : mem' = [mem EXCEPT ![Vec] = x]
  BY DEF Boot2Run
<1> QED
  BY <1>1, OneCell, StartApart

LEMMA BeginJob ==
  ASSUME NEW kind, NEW e \in Elfs \cup {NoElf}, NEW from, NEW short \in BOOLEAN,
         Begin(kind, e, from, short)
  PROVE  JobInv'
<1>1. CASE HeaderError(e, short) = 0
  <2>1. e # NoElf
    BY <1>1 DEF HeaderError, NoElf
  <2> QED
    BY <1>1, <2>1 DEF Begin, JobInv
<1>2. CASE HeaderError(e, short) # 0
  BY <1>2 DEF Begin, JobInv
<1> QED
  BY <1>1, <1>2

LEMMA SegmentKeeps ==
  ASSUME KeptInv, Segment
  PROVE  MemoryInv' /\ JobInv'
<1>1. /\ DOMAIN job = {"kind", "elf", "next", "from"} /\ job.elf \in Elfs
      /\ job.next \in Nat \ {0} /\ job.next <= Len(job.elf.segs)
  BY DEF KeptInv, JobInv, Segment
<1>2. CASE pc' = "failed"
  <2>1. mem' = mem
    BY <1>2 DEF Segment
  <2> QED
    BY <1>2, <2>1 DEF KeptInv, MemoryInv, MiniKept, JobInv
<1>3. CASE pc' # "failed"
  <2>1. /\ SegmentError(job.elf.segs[job.next]) = 0 /\ pc' = pc
        /\ mem' = StoreSegment(mem, job.elf, job.next)
        /\ job' = [job EXCEPT !.next = @ + 1]
    BY <1>3 DEF Segment
  <2>2. job.next \in DOMAIN job.elf.segs
    <3> DEFINE R == [load : BOOLEAN, at : Addr, file : Nat, mem : Nat]
    <3>1. job.elf.segs \in Seq(R)
      BY <1>1, ElfAssumption
    <3> HIDE DEF R
    <3> QED
      BY <1>1, <3>1
  <2>3. SegmentCells(job.elf.segs[job.next]) \cap MiniMemory = {}
    BY <1>1, <2>1, <2>2, SegmentInside
  <2>4. MemoryInv'
    BY <2>1, <2>3, MiniApart DEF KeptInv, MemoryInv, MiniKept, StoreSegment
  <2>5. JobInv'
    BY <1>1, <2>1 DEF JobInv
  <2> QED
    BY <2>4, <2>5
<1> QED
  BY <1>2, <1>3

LEMMA SizeInNat == \A w \in HostWords : SizeIn(w) \in Nat
BY UploadAssumption, BufferAssumption DEF HostWords, SizeIn

LEMMA GeckoKeeps ==
  ASSUME KeptInv, GeckoProcess, todo' = todo
  PROVE  MemoryInv' /\ HostInv'
<1> USE DEF KeptInv
<1>1. CASE TimedOut
  <2>1. Cleanup /\ mem' = mem
    BY <1>1 DEF GeckoProcess
  <2>2. MemoryInv'
    BY <2>1 DEF MemoryInv, MiniKept
  <2>3. HostInv'
    BY <2>1, BufferAssumption DEF Cleanup, HostInv
  <2> QED
    BY <2>2, <2>3
<1>2. CASE ReceiveNone
  <2>1. MemoryInv'
    BY <1>2 DEF ReceiveNone, MemoryInv, MiniKept
  <2>2. usb' \in Seq(HostWords)
    BY <1>2, SMTT(30) DEF ReceiveNone, Silence, NextWord, HostInv
  <2>3. gst' \in {"none", "size", "buffer"} /\ glen' = glen /\ gleft' = gleft
    BY <1>2 DEF ReceiveNone, Silence, HostInv
  <2> QED
    BY <2>1, <2>2, <2>3 DEF HostInv
<1>3. CASE ReceiveSize
  <2>1. MemoryInv'
    BY <1>3 DEF ReceiveSize, MemoryInv, MiniKept
  <2>2. CASE Silence
    BY <2>1, <2>2 DEF Silence, HostInv
  <2>3. CASE Cleanup
    BY <2>1, <2>3, BufferAssumption DEF Cleanup, HostInv
  <2>4. CASE /\ NextWord /\ SizeIn(Head(usb)) <= BufferMax
             /\ gst' = "buffer" /\ glen' = SizeIn(Head(usb)) /\ gleft' = glen'
    <3>1. Head(usb) \in HostWords /\ usb' \in Seq(HostWords)
      BY <2>4 DEF NextWord, HostInv
    <3>2. SizeIn(Head(usb)) \in Nat
      BY <3>1, SizeInNat
    <3> QED
      BY <2>1, <2>4, <3>1, <3>2, BufferAssumption DEF HostInv
  <2> QED
    BY <1>3, <2>1, <2>2, <2>3, <2>4 DEF ReceiveSize
<1>4. CASE ReceiveBuffer
  <2> DEFINE n == IF Len(usb) < gleft THEN Len(usb) ELSE gleft
             at == Base + glen - gleft
  <2>1. /\ Len(usb) \in Nat /\ glen \in 0..BufferMax /\ gleft \in 0..glen /\ BufferMax \in Nat
    BY BufferAssumption DEF HostInv
  <2>2. n \in 0..gleft
    BY <2>1
  <2>3. Base \in Nat /\ Base + BufferMax <= PPC_MEM2_END /\ PPC_MEM2_END \in Nat
    BY BufferAssumption, AddressAssumption DEF Base
  <2>4. \A a \in at..at+n-1 : a \notin MiniMemory
    <3>1. at \in Int /\ at + n <= PPC_MEM2_END
      <4> HIDE DEF n
      <4>1. n \in Int /\ n <= gleft /\ glen <= BufferMax /\ gleft \in Int /\ glen \in Int
        BY <2>1, <2>2
      <4> QED
        BY <2>1, <2>3, <4>1
    <3>2. n \in Nat
      BY <2>1, <2>2
    <3> HIDE DEF at, n
    <3> QED
      BY <2>3, <3>1, <3>2 DEF MiniMemory
  <2>5. mem' = [a \in Addr |-> IF a \in at..at+n-1 THEN usb[a - at + 1] ELSE mem[a]]
    BY <1>4 DEF ReceiveBuffer
  <2>6. MemoryInv'
    BY <2>4, <2>5, MiniApart DEF MemoryInv, MiniKept
  <2>7. CASE n < gleft
    <3>1. gleft' = gleft - n /\ usb' = <<>> /\ UNCHANGED <<gst, glen>>
      BY <1>4, <2>7 DEF ReceiveBuffer
    <3>2. gleft' \in 0..glen'
      BY <2>1, <2>2, <3>1
    <3> QED
      BY <2>6, <3>1, <3>2 DEF HostInv
  <2>8. CASE ~(n < gleft)
    <3>1. Cleanup
      BY <1>4, <2>8 DEF ReceiveBuffer
    <3> QED
      BY <2>6, <3>1, BufferAssumption DEF Cleanup, HostInv
  <2> QED
    BY <2>7, <2>8
<1> QED
  BY <1>1, <1>2, <1>3, <1>4 DEF GeckoProcess, HostInv

HostSteps == HostStart \/ HostSend
MemorySteps == PpcRequest \/ PpcWrite
BootSteps == Mount \/ Failed
JobSteps == BootFile \/ ServeBootFile \/ ServeBootMem
OtherSteps == Load \/ Start \/ RaceWon \/ ServeQuery \/ ServeDropped \/ ServeJump
                \/ Alarm \/ Woken \/ PpcRead \/ RomDecrypts

LEMMA HostSame ==
  ASSUME HostInv, UNCHANGED upVars
  PROVE  HostInv'
BY DEF HostInv, upVars

LEMMA MemorySame == ASSUME MemoryInv, mem' = mem PROVE MemoryInv'
BY DEF MemoryInv, MiniKept

LEMMA KeptInit == Init => KeptInv
<1> SUFFICES ASSUME Init PROVE KeptInv
  OBVIOUS
<1>1. MemoryInv
  BY MiniApart DEF Init, MemoryInv, MiniKept
<1>2. JobInv
  BY DEF Init, JobInv
<1>3. HostInv
  BY BufferAssumption DEF Init, HostInv
<1> QED
  BY <1>1, <1>2, <1>3 DEF KeptInv

LEMMA KeptStep == ASSUME KeptInv, [Next]_vars PROVE KeptInv'
<1> USE DEF KeptInv
<1>1. CASE HostSteps
  <2>1. MemoryInv'
    BY <1>1, MemorySame DEF HostSteps, HostStart, HostSend, memVars
  <2>2. JobInv'
    BY <1>1 DEF HostSteps, HostStart, HostSend, JobInv
  <2>3. CASE HostStart
    <3>1. PICK u \in Uploads :
            todo' = <<<<"cmd", IF u.what = ArmImage THEN "arm" ELSE "ppc">>,
                      <<"size", u.size>>, u.what, <<"more">>>>
      BY <2>3 DEF HostStart
    <3>2. /\ <<"cmd", IF u.what = ArmImage THEN "arm" ELSE "ppc">> \in HostWords
          /\ <<"size", u.size>> \in HostWords /\ u.what \in HostWords /\ <<"more">> \in HostWords
      BY DEF HostWords
    <3>3. todo' \in Seq(HostWords)
      BY <3>1, <3>2
    <3> QED
      BY <2>1, <2>2, <2>3, <3>3 DEF HostStart, HostInv
  <2>4. CASE HostSend
    <3>1. todo' \in Seq(HostWords) /\ usb' \in Seq(HostWords)
      BY <2>4 DEF HostSend, HostInv
    <3> QED
      BY <2>1, <2>2, <2>4, <3>1 DEF HostSend, HostInv
  <2> QED
    BY <1>1, <2>3, <2>4 DEF HostSteps
<1>2. CASE MemorySteps
  <2>1. HostInv' /\ JobInv'
    BY <1>2, HostSame DEF MemorySteps, PpcRequest, PpcWrite, JobInv
  <2>2. PICK a \in {0, UpBuf, Vec} : mem' = mem \/ \E x : mem' = [mem EXCEPT ![a] = x]
    BY <1>2 DEF MemorySteps, PpcRequest, PpcWrite
  <2>3. MemoryInv'
    BY <2>2, OneCell, MemorySame, StartApart
  <2> QED
    BY <2>1, <2>3
<1>3. CASE BootSteps
  <2>1. HostInv'
    BY <1>3, HostSame DEF BootSteps, Mount, Failed
  <2>2. JobInv'
    BY <1>3 DEF BootSteps, Mount, Failed, Boot2Run, JobInv
  <2>3. mem' = mem \/ \E t : Boot2Run(t)
    BY <1>3 DEF BootSteps, Mount, Failed
  <2>4. MemoryInv'
    BY <2>3, BootKeeps, MemorySame
  <2> QED
    BY <2>1, <2>2, <2>4
<1>4. CASE JobSteps
  <2>1. HostInv'
    BY <1>4, HostSame DEF JobSteps, BootFile, ServeBootFile, ServeBootMem
  <2>2. mem' = mem
    BY <1>4 DEF JobSteps, BootFile, ServeBootFile, ServeBootMem, memVars
  <2>3. PICK e \in Elfs \cup {NoElf}, short \in BOOLEAN : \E kind, from : Begin(kind, e, from, short)
    <3>1. CASE BootFile \/ ServeBootFile
      BY <3>1 DEF BootFile, ServeBootFile
    <3>2. CASE ServeBootMem
      <4>1. ImageAt(mem[UpBuf]) \in Elfs \cup {NoElf}
        BY MiniAssumption DEF ImageAt
      <4> QED
        BY <3>2, <4>1 DEF ServeBootMem
    <3> QED
      BY <1>4, <3>1, <3>2 DEF JobSteps
  <2>4. JobInv'
    BY <2>3, BeginJob
  <2> QED
    BY <2>1, <2>2, <2>4, MemorySame
<1>5. CASE Segment
  BY <1>5, SegmentKeeps, HostSame DEF Segment
<1>6. CASE Gecko
  <2>1. MemoryInv' /\ HostInv'
    BY <1>6, GeckoKeeps DEF Gecko
  <2>2. JobInv'
    BY <1>6 DEF Gecko, JobInv
  <2> QED
    BY <2>1, <2>2
<1>7. CASE OtherSteps
  <2>1. UNCHANGED upVars
    BY <1>7 DEF OtherSteps, Load, Start, RaceWon, ServeQuery, ServeDropped, ServeJump, Alarm, Woken,
                PpcRead, RomDecrypts
  <2>2. mem' = mem
    BY <1>7 DEF OtherSteps, Load, Start, RaceWon, ServeQuery, ServeDropped, ServeJump, Alarm, Woken,
                PpcRead, RomDecrypts, memVars
  <2>3. JobInv'
    BY <1>7 DEF OtherSteps, Load, Start, RaceWon, ServeQuery, ServeDropped, ServeJump, Alarm, Woken,
                PpcRead, RomDecrypts, JobInv
  <2> QED
    BY <2>1, <2>2, <2>3, HostSame, MemorySame
<1>8. CASE UNCHANGED vars
  <2>1. UNCHANGED upVars /\ mem' = mem /\ pc' = pc /\ job' = job
    BY <1>8 DEF vars, memVars
  <2>2. JobInv'
    BY <2>1 DEF JobInv
  <2> QED
    BY <2>1, <2>2, HostSame, MemorySame
<1> QED
  BY <1>1, <1>2, <1>3, <1>4, <1>5, <1>6, <1>7, <1>8
  DEF Next, Main, Others, HostSteps, MemorySteps, BootSteps, JobSteps, OtherSteps

\* For every size of memory and every set of well-formed images and uploads: neither
\* a program that is loaded nor an upload nor the jump to boot2 writes to mini's own
\* memory (_check_physrange, powerpc_elf.c:58-71; GECKO_BUFFER_MAX, gecko.c:314).
THEOREM MiniStaysKept == Spec => []MiniKept
<1>1. Init => KeptInv
  BY KeptInit
<1>2. KeptInv /\ [Next]_vars => KeptInv'
  BY KeptStep
<1>3. KeptInv => MiniKept
  BY DEF KeptInv, MemoryInv
<1> QED
  BY <1>1, <1>2, <1>3, PTL DEF Spec

-----------------------------------------------------------------------------
\* What the loops of powerpc_load_elf and powerpc_boot_mem have stored so far.
Foreign == {<<"ppc">>} \cup {Image(e) : e \in Images}
InPlace(i, next, m) ==
  \A a \in SegmentCells(job.elf.segs[i]) :
    \/ \E k \in i..next-1 : a \in SegmentCells(job.elf.segs[k]) /\ m[a] = Loaded(job.elf, k, a)
    \/ job.kind = "file" /\ m[a] \in Foreign
Placed == \A i \in DOMAIN job.elf.segs : i < job.next => InPlace(i, job.next, mem)
PlacedInv == pc = "job" => /\ job.kind \in {"file", "mem"} /\ (job.kind = "mem" => ppc = "held")
                           /\ job.next <= Len(job.elf.segs) + 1 /\ Placed
WholeInv == KeptInv /\ PlacedInv

LEMMA Headers ==
  ASSUME NEW e \in Elfs
  PROVE  /\ DOMAIN e.segs = 1..Len(e.segs) /\ Len(e.segs) \in Nat
         /\ \A i \in DOMAIN e.segs : SegmentCells(e.segs[i]) \subseteq Addr
<1> DEFINE R == [load : BOOLEAN, at : Addr, file : Nat, mem : Nat]
<1>1. e.segs \in Seq(R)
  BY ElfAssumption
<1>2. DOMAIN e.segs = 1..Len(e.segs) /\ Len(e.segs) \in Nat
  <2> HIDE DEF R
  <2> QED
    BY <1>1
<1>3. \A i \in DOMAIN e.segs : e.segs[i] \in R
  <2> HIDE DEF R
  <2> QED
    BY <1>1, <1>2
<1>4. ASSUME NEW i \in DOMAIN e.segs
      PROVE  SegmentCells(e.segs[i]) \subseteq Addr
  <2>1. /\ e.segs[i].at \in Addr /\ e.segs[i].file \in Nat /\ e.segs[i].mem \in Nat
    BY <1>3
  <2>2. e.segs[i].file <= e.segs[i].mem /\ e.segs[i].at + e.segs[i].mem < Word
    BY ElfAssumption
  <2> QED
    BY <2>1, <2>2, AddressAssumption DEF SegmentCells, Addr
<1> QED
  BY <1>2, <1>4

LEMMA SegmentPlaces ==
  ASSUME WholeInv, Segment
  PROVE  PlacedInv'
<1>1. /\ DOMAIN job = {"kind", "elf", "next", "from"} /\ job.elf \in Elfs
      /\ job.next \in Nat \ {0} /\ job.next <= Len(job.elf.segs)
      /\ DOMAIN mem = Addr /\ ppc' = ppc /\ pc = "job"
  BY DEF WholeInv, KeptInv, MemoryInv, JobInv, Segment, ppcVars
<1>2. CASE pc' = "failed"
  BY <1>2 DEF PlacedInv
<1>3. CASE pc' # "failed"
  <2> DEFINE n == job.next
             segs == job.elf.segs
  <2>1. mem' = StoreSegment(mem, job.elf, n) /\ job' = [job EXCEPT !.next = @ + 1]
    BY <1>3 DEF Segment
  <2>2. job'.next = n + 1 /\ job'.elf = job.elf /\ job'.kind = job.kind
    BY <1>1, <2>1
  <2>3. DOMAIN segs = 1..Len(segs) /\ Len(segs) \in Nat
        /\ \A i \in DOMAIN segs : SegmentCells(segs[i]) \subseteq Addr
    BY <1>1, Headers
  <2>4. ASSUME NEW i \in DOMAIN segs, i < n + 1, NEW a \in SegmentCells(segs[i])
        PROVE  \/ \E k \in i..n : a \in SegmentCells(segs[k]) /\ mem'[a] = Loaded(job.elf, k, a)
               \/ job.kind = "file" /\ mem'[a] \in Foreign
    <3>1. a \in Addr /\ i \in Int /\ i <= n /\ n \in Int
      BY <1>1, <2>3, <2>4
    <3>2. CASE a \in SegmentCells(segs[n])
      <4>1. mem'[a] = Loaded(job.elf, n, a)
        BY <2>1, <3>1, <3>2 DEF StoreSegment
      <4> QED
        BY <3>1, <3>2, <4>1
    <3>3. CASE a \notin SegmentCells(segs[n])
      <4>1. mem'[a] = mem[a] /\ i # n
        BY <2>1, <2>4, <3>1, <3>3 DEF StoreSegment
      <4>2. InPlace(i, n, mem)
        BY <1>1, <3>1, <4>1 DEF WholeInv, PlacedInv, Placed
      <4>3. \/ \E k \in i..n-1 : a \in SegmentCells(segs[k]) /\ mem[a] = Loaded(job.elf, k, a)
            \/ job.kind = "file" /\ mem[a] \in Foreign
        BY <2>4, <4>2 DEF InPlace
      <4> QED
        BY <3>1, <4>1, <4>3
    <3> QED
      BY <3>2, <3>3
  <2>5. \A i \in DOMAIN segs : i < n + 1 =>
          \A a \in SegmentCells(segs[i]) :
            \/ \E k \in i..(n+1)-1 : a \in SegmentCells(segs[k]) /\ mem'[a] = Loaded(job.elf, k, a)
            \/ job.kind = "file" /\ mem'[a] \in Foreign
    <3>1. (n + 1) - 1 = n
      BY <1>1
    <3> QED
      BY <2>4, <3>1
  <2>6. Placed'
    BY <2>2, <2>5 DEF Placed, InPlace
  <2> QED
    BY <1>1, <2>2, <2>3, <2>6 DEF WholeInv, PlacedInv
<1> QED
  BY <1>2, <1>3

LEMMA WritesPlace ==
  ASSUME WholeInv, pc' = pc, job' = job, ppc' = ppc,
         NEW a, NEW x \in Foreign, mem' = [mem EXCEPT ![a] = x],
         ppc \in {"loader", "running"}
  PROVE  PlacedInv'
<1> SUFFICES ASSUME pc = "job" PROVE PlacedInv'
  BY DEF PlacedInv
<1>1. /\ DOMAIN mem = Addr /\ job.elf \in Elfs /\ job.kind = "file" /\ Placed
      /\ job.next <= Len(job.elf.segs) + 1
  BY DEF WholeInv, KeptInv, MemoryInv, JobInv, PlacedInv
<1>2. ASSUME NEW i \in DOMAIN job.elf.segs, i < job.next, NEW b \in SegmentCells(job.elf.segs[i])
      PROVE  \/ \E k \in i..job.next-1 : /\ b \in SegmentCells(job.elf.segs[k])
                                         /\ mem'[b] = Loaded(job.elf, k, b)
             \/ mem'[b] \in Foreign
  <2>1. b \in Addr
    BY <1>1, Headers
  <2>2. CASE b = a
    BY <1>1, <2>1, <2>2
  <2>3. CASE b # a
    <3>1. mem'[b] = mem[b]
      BY <1>1, <2>1, <2>3
    <3>2. InPlace(i, job.next, mem)
      BY <1>1, <1>2 DEF Placed
    <3> QED
      BY <1>2, <3>1, <3>2 DEF InPlace
  <2> QED
    BY <2>2, <2>3
<1>3. Placed'
  BY <1>1, <1>2 DEF Placed, InPlace
<1> QED
  BY <1>1, <1>3 DEF PlacedInv

LEMMA BeginPlaces ==
  ASSUME NEW kind \in {"file", "mem"}, NEW e \in Elfs \cup {NoElf}, NEW from,
         NEW short \in BOOLEAN, Begin(kind, e, from, short)
  PROVE  PlacedInv'
<1>1. CASE HeaderError(e, short) = 0
  <2>1. e \in Elfs
    BY <1>1 DEF HeaderError, NoElf
  <2>2. job' = [kind |-> kind, elf |-> e, next |-> 1, from |-> from] /\ (kind = "mem" => ppc' = "held")
    BY <1>1 DEF Begin, PowerpcHang
  <2>3. DOMAIN e.segs = 1..Len(e.segs) /\ Len(e.segs) \in Nat
    BY <2>1, Headers
  <2>4. Placed'
    BY <2>2, <2>3 DEF Placed
  <2> QED
    BY <2>2, <2>3, <2>4 DEF PlacedInv
<1>2. CASE HeaderError(e, short) # 0
  BY <1>2 DEF Begin, PowerpcHang, PlacedInv
<1> QED
  BY <1>1, <1>2

LEMMA PlacedStep == ASSUME WholeInv, [Next]_vars PROVE PlacedInv'
<1>1. CASE Segment
  BY <1>1, SegmentPlaces
<1>2. CASE JobSteps
  <2>1. PICK kind \in {"file", "mem"}, e \in Elfs \cup {NoElf}, short \in BOOLEAN :
          \E from : Begin(kind, e, from, short)
    <3>1. CASE BootFile \/ ServeBootFile
      BY <3>1 DEF BootFile, ServeBootFile
    <3>2. CASE ServeBootMem
      <4>1. ImageAt(mem[UpBuf]) \in Elfs \cup {NoElf}
        BY MiniAssumption DEF ImageAt
      <4> QED
        BY <3>2, <4>1 DEF ServeBootMem
    <3> QED
      BY <1>2, <3>1, <3>2 DEF JobSteps
  <2> QED
    BY <2>1, BeginPlaces
<1>3. CASE MemorySteps
  <2>1. ppc \in {"loader", "running"} /\ pc' = pc /\ job' = job /\ ppc' = ppc
    BY <1>3 DEF MemorySteps, PpcRequest, PpcWrite, ppcVars
  <2>2. mem' = mem \/ \E a : \E x \in Foreign : mem' = [mem EXCEPT ![a] = x]
    BY <1>3 DEF MemorySteps, PpcRequest, PpcWrite, Foreign
  <2>3. CASE mem' = mem
    BY <2>1, <2>3 DEF WholeInv, PlacedInv, Placed, InPlace
  <2>4. CASE \E a : \E x \in Foreign : mem' = [mem EXCEPT ![a] = x]
    BY <2>1, <2>4, WritesPlace
  <2> QED
    BY <2>2, <2>3, <2>4
<1>4. CASE BootSteps \/ Start \/ RaceWon \/ ServeQuery \/ ServeDropped \/ ServeJump \/ Gecko
             \/ Alarm \/ Woken \/ HostSteps \/ Load \/ RomDecrypts
  <2>1. pc' # "job"
    BY <1>4 DEF BootSteps, Mount, Failed, Serving, Boot2Run, Start, RaceWon, ServeQuery,
                ServeDropped, ServeJump, Gecko, Alarm, Woken, HostSteps, HostStart, HostSend, Load,
                RomDecrypts
  <2> QED
    BY <2>1 DEF PlacedInv
<1>5. CASE PpcRead \/ UNCHANGED vars
  <2>1. pc' = pc /\ job' = job /\ ppc' = ppc /\ mem' = mem
    BY <1>5 DEF PpcRead, vars, ppcVars, memVars
  <2> QED
    BY <2>1 DEF WholeInv, PlacedInv, Placed, InPlace
<1> QED
  BY <1>1, <1>2, <1>3, <1>4, <1>5
  DEF Next, Main, Others, HostSteps, MemorySteps, BootSteps, JobSteps

LEMMA OnlyStart ==
  ASSUME KeptInv, [Next]_vars, pc = "job", pc' # "job", pc' # "failed"
  PROVE  Start
BY DEF Next, Main, Others, Load, Mount, BootFile, Segment, RaceWon, Failed, Serving,
       ServeQuery, ServeDropped, ServeBootFile, ServeBootMem, ServeJump,
       Gecko, Alarm, Woken, PpcRequest, PpcRead, PpcWrite, RomDecrypts, HostStart,
       HostSend, vars

\* For every set of well-formed images: when the PowerPC is let go, every segment of
\* its program lies in memory behind mini's cache as the image has it, whatever the
\* PowerPC asked for and wrote while a program was loaded (powerpc_elf.c:584-613,
\* 706-737).
THEOREM StartsWithWholeProgram == Spec => StartsWhole
<1>1. Init => WholeInv
  BY KeptInit DEF WholeInv, PlacedInv, Init
<1>2. ASSUME WholeInv, [Next]_vars PROVE WholeInv'
  BY <1>2, KeptStep, PlacedStep DEF WholeInv
<1>3. ASSUME WholeInv, [Next]_vars, pc = "job", pc' # "job", ppc' = "running", pc' # "failed",
             NEW i \in DOMAIN job.elf.segs, NEW a \in SegmentCells(job.elf.segs[i])
      PROVE  /\ \/ \E k \in i..Len(job.elf.segs) : /\ a \in SegmentCells(job.elf.segs[k])
                                                   /\ mem'[a] = Loaded(job.elf, k, a)
                \/ job.kind = "file" /\ mem'[a] \in Foreign
             /\ a \notin dirty'
  <2>1. Start
    BY <1>3, OnlyStart DEF WholeInv
  <2>2. /\ mem' = mem /\ dirty' = {} /\ job.next > Len(job.elf.segs) /\ job.elf \in Elfs
        /\ job.next <= Len(job.elf.segs) + 1 /\ Placed /\ job.next \in Nat
    BY <1>3, <2>1 DEF Start, WholeInv, KeptInv, JobInv, PlacedInv
  <2>3. DOMAIN job.elf.segs = 1..Len(job.elf.segs) /\ Len(job.elf.segs) \in Nat
    BY <2>2, Headers
  <2>4. i < job.next /\ job.next - 1 = Len(job.elf.segs)
    BY <1>3, <2>2, <2>3
  <2>5. InPlace(i, job.next, mem)
    BY <1>3, <2>2, <2>4 DEF Placed
  <2> QED
    BY <1>3, <2>2, <2>4, <2>5 DEF InPlace
<1>4. ASSUME WholeInv, [Next]_vars
      PROVE  pc = "job" /\ pc' # "job" /\ ppc' = "running" /\ pc' # "failed" =>
               \A i \in DOMAIN job.elf.segs : \A a \in SegmentCells(job.elf.segs[i]) :
                 /\ \/ \E k \in i..Len(job.elf.segs) : /\ a \in SegmentCells(job.elf.segs[k])
                                                       /\ mem'[a] = Loaded(job.elf, k, a)
                    \/ job.kind = "file" /\ mem'[a] \in Foreign
                 /\ a \notin dirty'
  BY <1>3, <1>4
<1> QED
  <2>1. WholeInv /\ [Next]_vars => WholeInv'
    BY <1>2
  <2>2. WholeInv /\ [Next]_vars =>
          [pc = "job" /\ pc' # "job" /\ ppc' = "running" /\ pc' # "failed" =>
             \A i \in DOMAIN job.elf.segs : \A a \in SegmentCells(job.elf.segs[i]) :
               /\ \/ \E k \in i..Len(job.elf.segs) : /\ a \in SegmentCells(job.elf.segs[k])
                                                     /\ mem'[a] = Loaded(job.elf, k, a)
                  \/ job.kind = "file" /\ mem'[a] \in {<<"ppc">>} \cup {Image(e) : e \in Images}
               /\ a \notin dirty']_vars
    BY <1>4 DEF Foreign
  <2> QED
    BY <1>1, <2>1, <2>2, PTL DEF Spec, StartsWhole

-----------------------------------------------------------------------------
(***************************************************************************)
(* The types.                                                              *)
(***************************************************************************)
PlaceTyped ==
  /\ pc \in {"load", "boot", "job", "race", "failed", "loop", "idle", "done", "panic"}
  /\ vector \in {"none", "boot2", "arm"} /\ (vector # "none" <=> pc = "done")
  /\ protect \in BOOLEAN
PpcTyped == ppc \in {"loader", "held", "running"} /\ stub \in {-1} \cup Addr
CacheTyped == dirty \subseteq Addr
ClockTyped == out \in 0..OutSize /\ timer \in 0..Timers-1 /\ gstart \in 0..Timers-1

LEMMA PlaceStep == ASSUME PlaceTyped, [Next]_vars PROVE PlaceTyped'
<1>1. CASE BootSteps
  BY <1>1 DEF BootSteps, Mount, Failed, Boot2Run, PlaceTyped
<1>2. CASE JobSteps
  BY <1>2 DEF JobSteps, BootFile, ServeBootFile, ServeBootMem, Begin, Serving, PlaceTyped,
              restVars, memVars
<1>3. CASE Segment \/ Gecko
  BY <1>3 DEF Segment, Gecko, PlaceTyped, restVars
<1>4. CASE HostSteps \/ MemorySteps \/ UNCHANGED vars
  BY <1>4 DEF HostSteps, HostStart, HostSend, MemorySteps, PpcRequest, PpcWrite, PlaceTyped,
              restVars, memVars, vars
<1>5. CASE OtherSteps
  BY <1>5 DEF OtherSteps, Load, Start, RaceWon, ServeQuery, ServeDropped, ServeJump, Serving,
              Alarm, Woken, PpcRead, RomDecrypts, PlaceTyped, restVars, memVars
<1> QED
  BY <1>1, <1>2, <1>3, <1>4, <1>5
  DEF Next, Main, Others, HostSteps, MemorySteps, BootSteps, JobSteps, OtherSteps

LEMMA PpcStep == ASSUME KeptInv, PpcTyped, [Next]_vars PROVE PpcTyped'
<1>1. CASE Start
  <2>1. job.elf.entry \in Addr
    BY <1>1, ElfAssumption DEF Start, KeptInv, JobInv
  <2> QED
    BY <1>1, <2>1 DEF Start, PowerpcReset, PpcTyped
<1>2. CASE Gecko
  <2>1. ppc' \in {ppc, "held"}
    BY <1>2 DEF Gecko, GeckoProcess, ReceiveNone, ReceiveSize, ReceiveBuffer, Silence,
                PowerpcHang, KeptInv, HostInv
  <2> QED
    BY <1>2, <2>1 DEF Gecko, PpcTyped
<1>3. CASE JobSteps
  BY <1>3 DEF JobSteps, BootFile, ServeBootFile, ServeBootMem, Begin, PowerpcHang, PpcTyped
<1>4. CASE ~Start /\ ~Gecko /\ ~JobSteps
  <2>1. UNCHANGED <<ppc, stub>>
    BY <1>4 DEF Next, Main, Others, JobSteps, Load, Mount, Segment, RaceWon, Failed,
                ServeQuery, ServeDropped, ServeJump, Alarm, Woken, PpcRequest, PpcRead, PpcWrite,
                RomDecrypts, HostStart, HostSend, vars, ppcVars
  <2> QED
    BY <2>1 DEF PpcTyped
<1> QED
  BY <1>1, <1>2, <1>3, <1>4

\* The cells that a run of received data fills.
LEMMA ReceivedCells ==
  ASSUME HostInv, NEW n \in Nat, n <= gleft, NEW a \in (Base + glen - gleft)..(Base + glen - gleft + n - 1)
  PROVE  a \in Addr
<1>1. /\ glen \in Nat /\ glen <= BufferMax /\ gleft \in Nat /\ gleft <= glen /\ BufferMax \in Nat
  BY BufferAssumption DEF HostInv
<1>2. Base \in Nat /\ Base + BufferMax <= PPC_MEM2_END /\ PPC_MEM2_END \in Nat
  BY BufferAssumption, AddressAssumption DEF Base
<1>3. a \in Nat /\ a < PPC_MEM2_END
  BY <1>1, <1>2
<1> QED
  BY <1>2, <1>3, AddressAssumption DEF Addr

LEMMA CacheStep == ASSUME KeptInv, CacheTyped, [Next]_vars PROVE CacheTyped'
<1>1. CASE Segment
  <2>1. CASE dirty' = dirty
    BY <2>1 DEF CacheTyped
  <2>2. CASE dirty' = dirty \cup SegmentCells(job.elf.segs[job.next])
    <3>1. job.elf \in Elfs /\ job.next \in 1..Len(job.elf.segs)
      <4>1. job.elf \in Elfs /\ job.next \in Nat \ {0} /\ job.next <= Len(job.elf.segs)
        BY <1>1 DEF Segment, KeptInv, JobInv
      <4>2. Len(job.elf.segs) \in Nat
        BY <4>1, Headers
      <4> QED
        BY <4>1, <4>2
    <3>2. SegmentCells(job.elf.segs[job.next]) \subseteq Addr
      BY <3>1, Headers
    <3> QED
      BY <2>2, <3>2 DEF CacheTyped
  <2> QED
    BY <1>1, <2>1, <2>2 DEF Segment
<1>2. CASE Gecko
  <2>1. dirty' = dirty \/ (gst = "buffer" /\ ReceiveBuffer)
    BY <1>2 DEF Gecko, GeckoProcess, ReceiveNone, ReceiveSize, KeptInv, HostInv
  <2>2. CASE dirty' = dirty
    BY <2>2 DEF CacheTyped
  <2>3. CASE ReceiveBuffer
    <3> DEFINE n == IF Len(usb) < gleft THEN Len(usb) ELSE gleft
               at == Base + glen - gleft
    <3>1. HostInv /\ Len(usb) \in Nat /\ gleft \in Nat
      BY BufferAssumption DEF KeptInv, HostInv
    <3>2. n \in Nat /\ n <= gleft
      BY <3>1
    <3>3. dirty' = dirty \cup (at..at+n-1)
      BY <2>3 DEF ReceiveBuffer
    <3> HIDE DEF n
    <3>4. at..at+n-1 \subseteq Addr
      BY <3>1, <3>2, ReceivedCells
    <3> QED
      BY <3>3, <3>4 DEF CacheTyped
  <2> QED
    BY <2>1, <2>2, <2>3
<1>3. CASE ~Segment /\ ~Gecko
  <2>1. dirty' \subseteq dirty
    BY <1>3 DEF Next, Main, Others, Load, Mount, BootFile, Start, RaceWon, Failed,
                ServeQuery, ServeDropped, ServeBootFile, ServeBootMem, ServeJump, Alarm, Woken,
                PpcRequest, PpcRead, PpcWrite, RomDecrypts, HostStart, HostSend, vars, memVars
  <2> QED
    BY <2>1 DEF CacheTyped
<1> QED
  BY <1>1, <1>2, <1>3

LEMMA Wraps == ASSUME NEW a \in Nat, NEW b \in Nat \ {0} PROVE a % b \in 0..b-1
BY Division

LEMMA ClockStep == ASSUME KeptInv, ClockTyped, [Next]_vars PROVE ClockTyped'
<1>0. Timers \in Nat \ {0} /\ OutSize \in Nat
  BY MiniAssumption
<1>1. CASE Alarm
  <2>1. (timer + 1) % Timers \in 0..Timers-1
    BY <1>0, Wraps DEF ClockTyped
  <2> QED
    BY <1>1, <2>1 DEF Alarm, ClockTyped, upVars
<1>2. CASE Gecko
  <2>1. gstart' \in {gstart, timer, 0}
    BY <1>2 DEF Gecko, GeckoProcess, ReceiveNone, ReceiveSize, ReceiveBuffer, Silence, Cleanup,
                KeptInv, HostInv
  <2> QED
    BY <1>0, <1>2, <2>1 DEF Gecko, ClockTyped, counts
<1>3. CASE ServeQuery \/ Failed \/ PpcRead
  <2>1. UNCHANGED <<timer, gstart>>
    BY <1>3 DEF ServeQuery, Failed, PpcRead, upVars, counts
  <2>2. out' = out \/ (out < OutSize /\ out' = out + 1) \/ (out > 0 /\ out' = out - 1)
    BY <1>3 DEF ServeQuery, Post, Failed, PpcRead
  <2> QED
    BY <1>0, <2>1, <2>2 DEF ClockTyped
<1>4. CASE ~Alarm /\ ~Gecko /\ ~ServeQuery /\ ~Failed /\ ~PpcRead
  <2>1. UNCHANGED <<out, timer, gstart>>
    BY <1>4 DEF Next, Main, Others, Load, Mount, BootFile, Segment, Start, RaceWon,
                ServeDropped, ServeBootFile, ServeBootMem, ServeJump, Woken,
                PpcRequest, PpcWrite, RomDecrypts, HostStart, HostSend, vars, upVars, counts
  <2> QED
    BY <2>1 DEF ClockTyped
<1> QED
  BY <1>1, <1>2, <1>3, <1>4

TypedInv ==
  /\ LoaderInv /\ Counted /\ KeptInv
  /\ PlaceTyped /\ PpcTyped /\ CacheTyped /\ ClockTyped

LEMMA TypedInit == Init => TypedInv
<1> SUFFICES ASSUME Init PROVE TypedInv
  OBVIOUS
<1>1. LoaderInv /\ Counted /\ KeptInv
  BY LoaderInit_Inv, CountedInit, KeptInit DEF Init
<1>2. PlaceTyped /\ PpcTyped /\ CacheTyped
  BY DEF Init, PlaceTyped, PpcTyped, CacheTyped
<1>3. ClockTyped
  BY MiniAssumption DEF Init, ClockTyped
<1> QED
  BY <1>1, <1>2, <1>3 DEF TypedInv

LEMMA TypedStep == ASSUME TypedInv, [Next]_vars PROVE TypedInv'
<1>1. [LoaderNext]_loaderVars
  BY MiniStepLoads
<1>2. LoaderInv' /\ Counted'
  BY <1>1, LoaderStep, CountedStep DEF TypedInv
<1>3. KeptInv' /\ PlaceTyped' /\ PpcTyped' /\ CacheTyped' /\ ClockTyped'
  BY KeptStep, PlaceStep, PpcStep, CacheStep, ClockStep DEF TypedInv
<1> QED
  BY <1>2, <1>3 DEF TypedInv

\* For every console, image and upload the state keeps its type; mini jumps when it is
\* done and not before (main.c:122-136).
THEOREM MiniTyped == Spec => []TypeOK
<1>1. Init => TypedInv
  BY TypedInit
<1>2. TypedInv /\ [Next]_vars => TypedInv'
  BY TypedStep
<1>3. TypedInv => TypeOK
  BY DEF TypedInv, TypeOK, LoaderInv, LoaderTypes, Counted, KeptInv, MemoryInv, HostInv,
         PlaceTyped, PpcTyped, CacheTyped, ClockTyped
<1> QED
  BY <1>1, <1>2, <1>3, PTL DEF Spec

-----------------------------------------------------------------------------
(***************************************************************************)
(* Where mini jumps.                                                       *)
(***************************************************************************)
Decrypted == <<"boot2", [i \in 1..flash.size |-> Plain(copy, i)], title>>
VectorInv == vector = "boot2" => protect /\ (boot2_initialized => mem[Vec] = Decrypted)
JumpInv == TypedInv /\ CopyInv /\ VectorInv

LEMMA ContentDecrypted ==
  ASSUME LoaderInv, CopyInv, boot2_initialized
  PROVE  /\ Content # <<>>
         /\ AesDecrypt(<<"title">>, <<"content">>, Content) = [i \in 1..flash.size |-> Plain(copy, i)]
<1>1. flash \in Flashes /\ stage = "loaded" /\ Whole
  BY LoadedWhole DEF LoaderInv, LoaderTypes, CopyInv
<1>2. flash.data_offset \in Nat \ {0} /\ flash.size \in Nat \ {0}
  BY <1>1, FlashAssumption
<1>3. Content = [i \in 1..flash.size |-> boot2[flash.data_offset + i - 1]]
  BY DEF Content
<1>4. \A i \in 1..flash.size : Content[i] = <<copy, flash.data_offset + i - 1>>
  <2> SUFFICES ASSUME NEW i \in 1..flash.size
               PROVE  Content[i] = <<copy, flash.data_offset + i - 1>>
    OBVIOUS
  <2>1. flash.data_offset + i - 1 \in 0..Length(flash)-1
    BY <1>2 DEF Length
  <2> QED
    BY <1>1, <1>3, <2>1 DEF Whole
<1>5. DOMAIN Content = 1..flash.size
  BY <1>3
<1>6. Content # <<>>
  BY <1>2, <1>5
<1>7. ASSUME NEW i \in 1..flash.size
      PROVE  <<Content[i], <<"title">>, IF i > 1 THEN Content[i-1] ELSE <<"content">>>> = Plain(copy, i)
  <2>1. CASE i = 1
    BY <1>4, <2>1 DEF Plain
  <2>2. CASE i > 1
    <3>1. i - 1 \in 1..flash.size /\ flash.data_offset + (i - 1) - 1 = flash.data_offset + i - 2
      BY <1>2, <2>2
    <3>2. Content[i-1] = <<copy, flash.data_offset + i - 2>>
      BY <1>4, <3>1
    <3> QED
      BY <1>4, <2>2, <3>2 DEF Plain
  <2> QED
    BY <1>2, <2>1, <2>2
<1> QED
  BY <1>5, <1>6, <1>7 DEF AesDecrypt

LEMMA RunDecrypts ==
  ASSUME JumpInv, pc # "done", NEW t, Boot2Run(t), UNCHANGED loaderVars
  PROVE  VectorInv'
<1>1. vector = "none" /\ DOMAIN mem = Addr /\ Vec \in Addr
  BY MiniAssumption DEF JumpInv, TypedInv, PlaceTyped, KeptInv, MemoryInv, PpcMemory
<1>2. CASE vector' = "boot2"
  <2>1. protect' /\ title' = t
    BY DEF Boot2Run
  <2>2. mem' = [mem EXCEPT ![Vec] =
                  IF Content = <<>> THEN @
                  ELSE <<"boot2", AesDecrypt(<<"title">>, <<"content">>, Content), t>>]
    BY <1>1, <1>2 DEF Boot2Run
  <2>3. /\ flash' = flash /\ copy' = copy /\ boot2_initialized' = boot2_initialized
    BY DEF loaderVars
  <2>4. ASSUME boot2_initialized
        PROVE  mem'[Vec] = <<"boot2", [i \in 1..flash.size |-> Plain(copy, i)], t>>
    BY <1>1, <2>2, <2>4, ContentDecrypted DEF JumpInv, TypedInv
  <2>5. boot2_initialized' => mem'[Vec] = Decrypted'
    BY <2>1, <2>3, <2>4 DEF Decrypted, Plain
  <2> QED
    BY <2>1, <2>5 DEF VectorInv
<1> QED
  BY <1>2 DEF VectorInv

LEMMA VectorStep == ASSUME JumpInv, [Next]_vars PROVE VectorInv'
<1>1. CASE BootSteps
  <2>1. UNCHANGED loaderVars /\ pc # "done"
    BY <1>1 DEF BootSteps, Mount, Failed
  <2>2. (\E t : Boot2Run(t)) \/ vector' = vector
    BY <1>1 DEF BootSteps, Mount, Failed
  <2>3. vector = "none"
    BY <2>1 DEF JumpInv, TypedInv, PlaceTyped
  <2> QED
    BY <2>1, <2>2, <2>3, RunDecrypts DEF VectorInv
<1>2. CASE ~BootSteps /\ pc = "done"
  <2>1. UNCHANGED <<loaderVars, vector, title, protect>>
    BY <1>2 DEF Next, Main, Others, BootSteps, Load, BootFile, Segment, Start, RaceWon, Serving,
                ServeQuery, ServeDropped, ServeBootFile, ServeBootMem, ServeJump, Gecko,
                Alarm, Woken, PpcRequest, Alive, PpcRead, PpcWrite, RomDecrypts, HostStart,
                HostSend, vars, restVars, memVars
  <2>2. mem' = mem \/ \E a \in {0, Vec} : ~(protect /\ a = Vec) /\ mem' = [mem EXCEPT ![a] = <<"ppc">>]
    BY <1>2 DEF Next, Main, Others, BootSteps, Load, BootFile, Segment, Start, RaceWon, Serving,
                ServeQuery, ServeDropped, ServeBootFile, ServeBootMem, ServeJump, Gecko,
                Alarm, Woken, PpcRequest, Alive, PpcRead, PpcWrite, RomDecrypts, HostStart,
                HostSend, vars, memVars
  <2>3. protect => mem'[Vec] = mem[Vec]
    <3>1. DOMAIN mem = Addr /\ Vec \in Addr
      BY MiniAssumption DEF JumpInv, TypedInv, KeptInv, MemoryInv, PpcMemory
    <3> QED
      BY <2>2, <3>1
  <2>4. flash' = flash /\ copy' = copy /\ boot2_initialized' = boot2_initialized
    BY <2>1 DEF loaderVars
  <2>5. Decrypted' = Decrypted
    BY <2>1, <2>4 DEF Decrypted, Plain
  <2> QED
    BY <2>1, <2>3, <2>4, <2>5 DEF JumpInv, VectorInv
<1>3. CASE ~BootSteps /\ pc # "done"
  <2>1. vector' \in {vector, "arm"}
    BY <1>3 DEF Next, Main, Others, BootSteps, Load, BootFile, Segment, Start, RaceWon,
                ServeQuery, ServeDropped, ServeBootFile, ServeBootMem, ServeJump, Gecko,
                Alarm, Woken, PpcRequest, PpcRead, PpcWrite, RomDecrypts, HostStart,
                HostSend, vars, restVars
  <2>2. vector = "none"
    BY <1>3 DEF JumpInv, TypedInv, PlaceTyped
  <2> QED
    BY <2>1, <2>2 DEF VectorInv
<1> QED
  BY <1>1, <1>2, <1>3

\* For every console whose boot2, if it has one, lies in the blocks that its newest map
\* lists: where mini jumps to boot2 lies all of one copy's content in its order, each
\* page decrypted with the page before it, patched for the title that was asked for,
\* and it stays so whatever the PowerPC writes (boot2.c:112-316, crypto.c:118-143).
THEOREM JumpsIntoBoot2 == Spec => []VectorSound
<1>1. Init => JumpInv
  BY TypedInit, CopyInit DEF Init, JumpInv, VectorInv
<1>2. ASSUME JumpInv, [Next]_vars PROVE JumpInv'
  <2>1. TypedInv' /\ VectorInv'
    BY <1>2, TypedStep, VectorStep DEF JumpInv
  <2>2. [LoaderNext]_loaderVars
    BY <1>2, MiniStepLoads
  <2>3. CopyInv'
    BY <1>2, <2>2, CopyStep DEF JumpInv, TypedInv
  <2> QED
    BY <2>1, <2>3 DEF JumpInv
<1>3. JumpInv => VectorSound
  BY DEF JumpInv, VectorInv, VectorSound, Decrypted
<1> QED
  BY <1>1, <1>2, <1>3, PTL DEF Spec
=============================================================================
