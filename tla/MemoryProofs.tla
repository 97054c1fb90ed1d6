---------------------------- MODULE MemoryProofs ----------------------------
(***************************************************************************)
(* Proofs about the caches and buffers for every size of the memory, every *)
(* flush limit and every placing of the buffers.  The first part is what   *)
(* they rest on: words and lines, the rounding of memory_asm.S, the order  *)
(* of a transfer's calls, types, and what each step does to a single word. *)
(***************************************************************************)
EXTENDS Memory, TLAPS

Contexts == {"main", "irq"}
Doing(c) == IF job[c].todo = <<>> THEN "none" ELSE Head(job[c].todo)

\* The calls of a transfer one after the other, and what is left of a program
\* from each of them on.
After == [
  sdRead    |-> [inval |-> "start", start |-> "run", run |-> "from", from |-> "none"],
  sdWrite   |-> [flush |-> "to", to |-> "start", start |-> "run", run |-> "none"],
  nandRead  |-> [inval |-> "start", start |-> "run", run |-> "from", from |-> "toarm",
                 toarm |-> "none"],
  nandWrite |-> [flush |-> "to", to |-> "start", start |-> "run", run |-> "from",
                 from |-> "toarm", toarm |-> "none"],
  aes       |-> [flush |-> "inval", inval |-> "to", to |-> "start", start |-> "run",
                 run |-> "from", from |-> "toarm", toarm |-> "none"],
  ppc       |-> [flushall |-> "start", start |-> "run", run |-> "none"]]
Rests == [
  sdRead    |-> {<<"inval", "start", "run", "from">>, <<"start", "run", "from">>,
                 <<"run", "from">>, <<"from">>},
  sdWrite   |-> {<<"flush", "to", "start", "run">>, <<"to", "start", "run">>,
                 <<"start", "run">>, <<"run">>},
  nandRead  |-> {<<"inval", "start", "run", "from", "toarm">>,
                 <<"start", "run", "from", "toarm">>, <<"run", "from", "toarm">>,
                 <<"from", "toarm">>, <<"toarm">>},
  nandWrite |-> {<<"flush", "to", "start", "run", "from", "toarm">>,
                 <<"to", "start", "run", "from", "toarm">>,
                 <<"start", "run", "from", "toarm">>, <<"run", "from", "toarm">>,
                 <<"from", "toarm">>, <<"toarm">>},
  aes       |-> {<<"flush", "inval", "to", "start", "run", "from", "toarm">>,
                 <<"inval", "to", "start", "run", "from", "toarm">>,
                 <<"to", "start", "run", "from", "toarm">>,
                 <<"start", "run", "from", "toarm">>, <<"run", "from", "toarm">>,
                 <<"from", "toarm">>, <<"toarm">>},
  ppc       |-> {<<"flushall", "start", "run">>, <<"start", "run">>, <<"run">>}]

\* A context without a transfer, or one that has some of its program to go; the
\* device takes or gives the words while it runs.
Jobs ==
  /\ job \in [Contexts -> [kind : Kinds \cup {"none"}, todo : Seq(Calls), left : SUBSET Words]]
  /\ \A c \in Contexts :
       \/ job[c] = NoJob
       \/ /\ job[c].kind \in KindsOf[c] /\ job[c].todo \in Rests[job[c].kind]
          /\ job[c].left \subseteq Span(job[c].kind)
          /\ Doing(c) \in {"from", "toarm"} => job[c].left = {}
          /\ Doing(c) \notin {"run", "from", "toarm"} => job[c].left = Span(job[c].kind)

-----------------------------------------------------------------------------
(***************************************************************************)
(* Words and lines.                                                        *)
(***************************************************************************)
LEMMA Division ==
  ASSUME NEW a \in Nat, NEW b \in Nat \ {0}
  PROVE  a \div b \in Nat /\ (a \div b) * b <= a /\ a < (a \div b + 1) * b
BY SMTT(30)

LEMMA TimesMonotone ==
  ASSUME NEW x \in Nat, NEW y \in Nat, NEW b \in Nat, x <= y
  PROVE  x * b <= y * b /\ x * b \in Nat
BY SMTT(30)

\* Dividing finds the only line that holds a word.
LEMMA OneQuotient ==
  ASSUME NEW a \in Nat, NEW b \in Nat \ {0}, NEW q \in Nat, q * b <= a, a < (q + 1) * b
  PROVE  a \div b = q
<1> DEFINE d == a \div b
<1>1. d \in Nat /\ d * b <= a /\ a < (d + 1) * b
  BY Division
<1>2. CASE d < q
  <2>1. (d + 1) * b <= q * b
    BY <1>1, <1>2, TimesMonotone
  <2> QED
    BY <2>1, <1>1, SMT
<1>3. CASE q < d
  <2>1. (q + 1) * b <= d * b
    BY <1>1, <1>3, TimesMonotone
  <2> QED
    BY <2>1, <1>1, SMT
<1> QED
  BY <1>1, <1>2, <1>3

LEMMA LineOf ==
  ASSUME NEW w \in Words
  PROVE  Line(w) \in Lines /\ w \in WordsOf(Line(w))
<1>1. /\ w \in Nat /\ w < NLines * LineSize /\ Line(w) \in Nat
      /\ Line(w) * LineSize <= w /\ w < (Line(w) + 1) * LineSize
  BY Division, MemoryAssumption DEF Words, Line
<1>2. Line(w) < NLines
  <2> SUFFICES ASSUME NLines <= Line(w) PROVE FALSE
    BY <1>1, MemoryAssumption
  <2>1. NLines * LineSize <= Line(w) * LineSize
    BY <1>1, TimesMonotone, MemoryAssumption
  <2> QED
    BY <1>1, <2>1, MemoryAssumption
<1> QED
  BY <1>1, <1>2, MemoryAssumption DEF Lines, WordsOf

LEMMA WordsOfLine ==
  ASSUME NEW l \in Lines, NEW w \in WordsOf(l)
  PROVE  w \in Words /\ Line(w) = l
<1>1. /\ l \in Nat /\ l + 1 <= NLines /\ NLines \in Nat /\ LineSize \in Nat \ {0}
      /\ l * LineSize <= w /\ w \in Int /\ w < (l + 1) * LineSize
  BY MemoryAssumption DEF Lines, WordsOf
<1>2. l * LineSize \in Nat /\ (l + 1) * LineSize <= NLines * LineSize
  BY <1>1, TimesMonotone
<1>3. w \in Nat /\ w < NLines * LineSize
  BY <1>1, <1>2
<1> QED
  BY <1>1, <1>3, OneQuotient DEF Words, Line

LEMMA InLines ==
  ASSUME NEW ls \in SUBSET Lines, NEW w
  PROVE  w \in WordsIn(ls) <=> w \in Words /\ Line(w) \in ls
BY LineOf, WordsOfLine DEF WordsIn

LEMMA QuotientMonotone ==
  ASSUME NEW v \in Nat, NEW w \in Nat, NEW b \in Nat \ {0}, v <= w
  PROVE  v \div b \in Nat /\ w \div b \in Nat /\ v \div b <= w \div b
<1> DEFINE p == v \div b  q == w \div b
<1>1. p \in Nat /\ q \in Nat /\ p * b <= v /\ w < (q + 1) * b
  BY Division
<1>2. CASE q < p
  <2>1. (q + 1) * b <= p * b
    BY <1>1, <1>2, TimesMonotone
  <2>2. (q + 1) * b \in Nat /\ p * b \in Nat
    BY <1>1, TimesMonotone
  <2> HIDE DEF p, q
  <2> QED
    BY <2>1, <2>2, <1>1, SMT
<1> HIDE DEF p, q
<1>3. p <= q
  BY <1>1, <1>2
<1> QED
  BY <1>1, <1>3 DEF p, q

\* Rounding an end up: one line past the line of the last word.
LEMMA RoundedUp ==
  ASSUME NEW e \in Nat, NEW b \in Nat \ {0}
  PROVE  (e + b) \div b = e \div b + 1
<1> DEFINE q == e \div b
<1>1. q \in Nat /\ q * b <= e /\ e < (q + 1) * b
  BY Division
<1> HIDE DEF q
<1>2. (q + 1) * b = q * b + b /\ (q + 1 + 1) * b = (q + 1) * b + b
  BY <1>1, SMTT(30)
<1>3. q * b \in Nat /\ (q + 1) * b \in Nat
  BY <1>1, TimesMonotone
<1>4. (q + 1) * b <= e + b /\ e + b < (q + 1 + 1) * b
  <2> DEFINE x == q * b  y == (q + 1) * b  z == (q + 1 + 1) * b
  <2>1. x \in Nat /\ y \in Nat /\ y = x + b /\ z = y + b /\ x <= e /\ e < y
    BY <1>1, <1>2, <1>3
  <2> HIDE DEF x, y, z
  <2>2. y <= e + b /\ e + b < z
    BY <2>1
  <2> QED
    BY <2>2 DEF y, z
<1>5. (e + b) \div b = q + 1
  BY <1>1, <1>4, OneQuotient
<1> QED
  BY <1>5 DEF q

LEMMA EntriesRange ==
  ASSUME NEW s \in Nat, NEW n \in Nat \ {0}, NEW e \in Nat, e = s + n - 1
  PROVE  Entries(s, n) = Line(s)..Line(e)
<1> DEFINE p == s \div LineSize  q == (s + n + LineSize - 1) \div LineSize
<1>1. Entries(s, n) = IF q - p = 0 THEN Lines ELSE p..p + (q - p) - 1
  BY DEF Entries
<1>2. LineSize \in Nat \ {0} /\ s <= e /\ s + n + LineSize - 1 = e + LineSize
  BY MemoryAssumption
<1>3. q = Line(e) + 1 /\ p = Line(s)
  BY <1>2, RoundedUp DEF Line
<1>4. Line(s) \in Nat /\ Line(e) \in Nat /\ Line(s) <= Line(e)
  BY <1>2, QuotientMonotone DEF Line
<1> HIDE DEF p, q
<1>5. q - p # 0 /\ p + (q - p) - 1 = Line(e)
  BY <1>3, <1>4
<1> QED
  BY <1>1, <1>3, <1>5

\* The lines of a buffer, as memory_asm.S rounds them: all of it is in them, and
\* a buffer that a device writes is all there is in them.
LEMMA SpanRange ==
  ASSUME NEW k \in Kinds
  PROVE  \E s \in Nat, e \in Nat :
           /\ s <= e /\ s \in Words /\ e \in Words
           /\ Span(k) = s..e /\ Span(k) \subseteq Words
           /\ Entries(Buffer[k].start, Buffer[k].size) = Line(s)..Line(e)
<1> DEFINE s == Buffer[k].start  n == Buffer[k].size  e == s + n - 1
<1>1. s \in Words /\ n \in Nat \ {0} /\ Span(k) \subseteq Words
  BY BufferAssumption
<1>2. s \in Nat /\ LineSize \in Nat \ {0}
  BY <1>1, MemoryAssumption DEF Words
<1>3. Span(k) = s..e
  BY DEF Span
<1>4. e \in Nat /\ s <= e /\ s + n + LineSize - 1 = e + LineSize
  BY <1>1, <1>2
<1>5. e \in Words
  <2>1. e \in s..e
    BY <1>2, <1>4
  <2> QED
    BY <2>1, <1>1, <1>3
<1>8. Entries(s, n) = Line(s)..Line(e)
  BY <1>1, <1>2, <1>4, EntriesRange
<1> HIDE DEF s, n, e
<1> QED
  BY <1>1, <1>2, <1>3, <1>4, <1>5, <1>8 DEF s, n

LEMMA WholeLines ==
  ASSUME NEW s \in Words, NEW e \in Words, s <= e,
         WordsOf(Line(s)) \subseteq s..e, WordsOf(Line(e)) \subseteq s..e,
         NEW w \in Words, Line(s) <= Line(w), Line(w) <= Line(e)
  PROVE  w \in s..e
<1> DEFINE i == Line(s)  j == Line(w)  k == Line(e)
<1>1. i \in Nat /\ j \in Nat /\ k \in Nat /\ LineSize \in Nat \ {0}
  BY LineOf, MemoryAssumption DEF Lines
<1>2. w \in Nat /\ s \in Nat /\ e \in Nat
  BY DEF Words
<1>3. j * LineSize <= w /\ w < (j + 1) * LineSize
  BY <1>1, <1>2, Division DEF Line
<1>4. s \in WordsOf(i) /\ e \in WordsOf(k)
  BY LineOf
<1> HIDE DEF i, j, k
<1>5. i * LineSize <= j * LineSize /\ (j + 1) * LineSize <= (k + 1) * LineSize
  <2>1. i <= j /\ j <= k
    BY DEF i, j, k
  <2> QED
    BY <2>1, <1>1, TimesMonotone
<1> DEFINE a == i * LineSize  b == j * LineSize  c == (j + 1) * LineSize
           d == (k + 1) * LineSize
<1>6. a \in Nat /\ b \in Nat /\ c \in Nat /\ d \in Nat
  BY <1>1, TimesMonotone
<1>7. a \in s..e /\ d - 1 \in s..e
  <2>1. WordsOf(i) = a..(i + 1) * LineSize - 1 /\ WordsOf(k) = (k * LineSize)..d - 1
    BY DEF WordsOf
  <2>2. (i + 1) * LineSize \in Nat /\ k * LineSize \in Nat
    BY <1>1, TimesMonotone
  <2>3. a <= s /\ s <= (i + 1) * LineSize - 1 /\ k * LineSize <= e /\ e <= d - 1
    BY <2>1, <2>2, <1>4, <1>6
  <2>4. a \in WordsOf(i) /\ d - 1 \in WordsOf(k)
    <3> DEFINE f == (i + 1) * LineSize  g == k * LineSize
    <3> HIDE DEF a, d, f, g
    <3>1. f \in Nat /\ g \in Nat /\ a <= s /\ s <= f - 1 /\ g <= e /\ e <= d - 1
      BY <2>2, <2>3 DEF f, g
    <3>2. a \in a..f - 1 /\ d - 1 \in g..d - 1
      BY <3>1, <1>6, <1>2
    <3> QED
      BY <3>2, <2>1 DEF f, g
  <2> QED
    BY <2>4 DEF i, k
<1> HIDE DEF a, b, c, d
<1>8. s <= w /\ w <= e
  <2>1. b <= w /\ w < c
    BY <1>3 DEF b, c, j
  <2>2. a <= b /\ c <= d
    BY <1>5 DEF a, b, c, d
  <2> QED
    BY <2>1, <2>2, <1>2, <1>6, <1>7
<1> QED
  BY <1>8, <1>2

LEMMA EntriesOf ==
  ASSUME NEW k \in Kinds
  PROVE  LET ls == Entries(Buffer[k].start, Buffer[k].size) IN
         /\ ls \subseteq Lines
         /\ \A w \in Span(k) : w \in Words /\ Line(w) \in ls
         /\ k \in Incoming => \A w \in Words : Line(w) \in ls => w \in Span(k)
<1>1. PICK s \in Nat, e \in Nat :
           /\ s <= e /\ s \in Words /\ e \in Words
           /\ Span(k) = s..e /\ Span(k) \subseteq Words
           /\ Entries(Buffer[k].start, Buffer[k].size) = Line(s)..Line(e)
  BY SpanRange
<1>2. \A v, w \in Words : v <= w => Line(v) <= Line(w)
  BY QuotientMonotone, MemoryAssumption DEF Line, Words
<1>3. \A w \in Words : Line(w) \in Nat /\ Line(w) < NLines
  BY LineOf, MemoryAssumption DEF Lines
<1>4. Line(s)..Line(e) \subseteq Lines
  BY <1>1, <1>3, MemoryAssumption DEF Lines
<1>5. ASSUME NEW w \in Span(k) PROVE w \in Words /\ Line(w) \in Line(s)..Line(e)
  <2>1. w \in Words /\ s <= w /\ w <= e
    BY <1>1
  <2> QED
    BY <2>1, <1>1, <1>2, <1>3
<1>6. ASSUME k \in Incoming, NEW w \in Words, Line(w) \in Line(s)..Line(e)
      PROVE  w \in Span(k)
  <2>1. s \in Span(k) /\ e \in Span(k)
    BY <1>1
  <2>2. WordsOf(Line(s)) \subseteq s..e /\ WordsOf(Line(e)) \subseteq s..e
    BY <2>1, <1>1, <1>6, BufferAssumption
  <2>3. Line(s) <= Line(w) /\ Line(w) <= Line(e)
    BY <1>1, <1>3, <1>6
  <2> QED
    BY <2>2, <2>3, <1>1, WholeLines
<1> QED
  BY <1>1, <1>4, <1>5, <1>6

\* A transfer begins with its whole program and goes on call by call.
LEMMA ProgramIsRest ==
  ASSUME NEW k \in Kinds
  PROVE  Program(k) \in Rests[k]
<1> USE DEF Program, Rests, Device, SdCalls, NandCalls, AesCalls, PpcCalls
<1>1. CASE k = "sdRead"
  BY <1>1
<1>2. CASE k = "sdWrite"
  BY <1>2
<1>3. CASE k = "nandRead"
  BY <1>3
<1>4. CASE k = "nandWrite"
  BY <1>4
<1>5. CASE k = "aes"
  BY <1>5
<1>6. CASE k = "ppc"
  BY <1>6
<1> QED
  BY <1>1, <1>2, <1>3, <1>4, <1>5, <1>6 DEF Kinds, Incoming, Outgoing

LEMMA RestGoesOn ==
  ASSUME NEW k \in Kinds, NEW t \in Rests[k]
  PROVE  /\ t \in Seq(Calls) /\ t # <<>> /\ Head(t) \in Calls
         /\ Len(t) = 1 => After[k][Head(t)] = "none"
         /\ Len(t) # 1 => /\ Tail(t) \in Rests[k] /\ Tail(t) # <<>>
                          /\ Head(Tail(t)) = After[k][Head(t)]
<1> USE DEF Rests, After, Calls
<1>1. CASE k = "sdRead"
  <2>1. CASE t = <<"inval", "start", "run", "from">>
    BY <1>1, <2>1
  <2>2. CASE t = <<"start", "run", "from">>
    BY <1>1, <2>2
  <2>3. CASE t = <<"run", "from">>
    BY <1>1, <2>3
  <2>4. CASE t = <<"from">>
    BY <1>1, <2>4
  <2> QED
    BY <1>1, <2>1, <2>2, <2>3, <2>4
<1>2. CASE k = "sdWrite"
  <2>1. CASE t = <<"flush", "to", "start", "run">>
    BY <1>2, <2>1
  <2>2. CASE t = <<"to", "start", "run">>
    BY <1>2, <2>2
  <2>3. CASE t = <<"start", "run">>
    BY <1>2, <2>3
  <2>4. CASE t = <<"run">>
    BY <1>2, <2>4
  <2> QED
    BY <1>2, <2>1, <2>2, <2>3, <2>4
<1>3. CASE k = "nandRead"
  <2>1. CASE t = <<"inval", "start", "run", "from", "toarm">>
    BY <1>3, <2>1
  <2>2. CASE t = <<"start", "run", "from", "toarm">>
    BY <1>3, <2>2
  <2>3. CASE t = <<"run", "from", "toarm">>
    BY <1>3, <2>3
  <2>4. CASE t = <<"from", "toarm">>
    BY <1>3, <2>4
  <2>5. CASE t = <<"toarm">>
    BY <1>3, <2>5
  <2> QED
    BY <1>3, <2>1, <2>2, <2>3, <2>4, <2>5
<1>4. CASE k = "nandWrite"
  <2>1. CASE t = <<"flush", "to", "start", "run", "from", "toarm">>
    BY <1>4, <2>1
  <2>2. CASE t = <<"to", "start", "run", "from", "toarm">>
    BY <1>4, <2>2
  <2>3. CASE t = <<"start", "run", "from", "toarm">>
    BY <1>4, <2>3
  <2>4. CASE t = <<"run", "from", "toarm">>
    BY <1>4, <2>4
  <2>5. CASE t = <<"from", "toarm">>
    BY <1>4, <2>5
  <2>6. CASE t = <<"toarm">>
    BY <1>4, <2>6
  <2> QED
    BY <1>4, <2>1, <2>2, <2>3, <2>4, <2>5, <2>6
<1>5. CASE k = "aes"
  <2>1. CASE t = <<"flush", "inval", "to", "start", "run", "from", "toarm">>
    BY <1>5, <2>1
  <2>2. CASE t = <<"inval", "to", "start", "run", "from", "toarm">>
    BY <1>5, <2>2
  <2>3. CASE t = <<"to", "start", "run", "from", "toarm">>
    BY <1>5, <2>3
  <2>4. CASE t = <<"start", "run", "from", "toarm">>
    BY <1>5, <2>4
  <2>5. CASE t = <<"run", "from", "toarm">>
    BY <1>5, <2>5
  <2>6. CASE t = <<"from", "toarm">>
    BY <1>5, <2>6
  <2>7. CASE t = <<"toarm">>
    BY <1>5, <2>7
  <2> QED
    BY <1>5, <2>1, <2>2, <2>3, <2>4, <2>5, <2>6, <2>7
<1>6. CASE k = "ppc"
  <2>1. CASE t = <<"flushall", "start", "run">>
    BY <1>6, <2>1
  <2>2. CASE t = <<"start", "run">>
    BY <1>6, <2>2
  <2>3. CASE t = <<"run">>
    BY <1>6, <2>3
  <2> QED
    BY <1>6, <2>1, <2>2, <2>3
<1> QED
  BY <1>1, <1>2, <1>3, <1>4, <1>5, <1>6 DEF Kinds, Incoming, Outgoing

-----------------------------------------------------------------------------
(***************************************************************************)
(* Types.                                                                  *)
(***************************************************************************)
LEMMA CopiesClosed ==
  /\ Empty \in Copies
  /\ \A ws \in SUBSET Words : \A from : Copy(ws, from) \in Copies
  /\ \A c \in Copies : \A ws : Older(c, ws) \in Copies /\ Without(c, ws) \in Copies
  /\ \A c \in Copies, d \in Copies : Over(c, d) \in Copies
BY DEF Copies, Empty, Copy, Older, Without, Over

LEMMA OlderIs ==
  ASSUME NEW c \in Copies, NEW ws
  PROVE  Older(c, ws).has = c.has /\ Older(c, ws).new = c.new \ ws
BY DEF Copies, Older

LEMMA CopyParts ==
  ASSUME NEW c \in Copies
  PROVE  c.has \subseteq Words /\ c.new \subseteq c.has /\ c = [has |-> c.has, new |-> c.new]
BY DEF Copies

LEMMA InLine ==
  ASSUME NEW l \in Lines, NEW w
  PROVE  w \in WordsOf(l) <=> w \in Words /\ Line(w) = l
BY LineOf, WordsOfLine

\* Every line has words.
LEMMA LinesHaveWords ==
  ASSUME NEW l \in Lines
  PROVE  \E w \in WordsOf(l) : TRUE
<1>1. l * LineSize \in Nat /\ (l + 1) * LineSize = l * LineSize + LineSize
      /\ LineSize \in Nat \ {0}
  <2>1. l \in Nat /\ LineSize \in Nat \ {0}
    BY MemoryAssumption DEF Lines
  <2> QED
    BY <2>1, SMTT(30)
<1> DEFINE a == l * LineSize  b == (l + 1) * LineSize
<1>2. a \in Nat /\ b = a + LineSize /\ LineSize \in Nat \ {0} /\ WordsOf(l) = a..b - 1
  BY <1>1 DEF WordsOf
<1> HIDE DEF a, b
<1> QED
  BY <1>2

\* The cache: whole lines, and every dirty line is in it.
CacheTyped ==
  /\ cache \in Copies /\ dirty \subseteq Lines
  /\ \A w \in Words : Line(w) \in dirty => w \in cache.has
  /\ \A v, w \in Words : Line(v) = Line(w) => (v \in cache.has <=> w \in cache.has)
  /\ enabled = "down" => cache = Empty
PlacesTyped ==
  /\ enabled \in {"boot", "on", "down"} /\ memory \subseteq Words
  /\ pending \in [Masters -> Copies] /\ ahead \in [Masters -> Copies]
JobsTyped ==
  \A c \in DOMAIN KindsOf :
       /\ job[c].kind \in KindsOf[c] \cup {"none"} /\ job[c].todo \in Seq(Calls)
       /\ job[c].left \subseteq Words

LEMMA TypedParts == TypeOK <=> CacheTyped /\ PlacesTyped /\ JobsTyped
<1>1. dirty \subseteq Lines =>
        (WordsIn(dirty) \subseteq cache.has <=>
           \A w \in Words : Line(w) \in dirty => w \in cache.has)
  BY InLines
<1>2. (\A l \in Lines : WordsOf(l) \cap cache.has \in {{}, WordsOf(l)}) <=>
      \A v, w \in Words : Line(v) = Line(w) => (v \in cache.has <=> w \in cache.has)
  <2>1. ASSUME \A l \in Lines : WordsOf(l) \cap cache.has \in {{}, WordsOf(l)},
               NEW v \in Words, NEW w \in Words, Line(v) = Line(w), v \in cache.has
        PROVE  w \in cache.has
    BY <2>1, LineOf
  <2>2. ASSUME \A v, w \in Words : Line(v) = Line(w) =>
                                     (v \in cache.has <=> w \in cache.has),
               NEW l \in Lines, WordsOf(l) \cap cache.has # {}
        PROVE  WordsOf(l) \cap cache.has = WordsOf(l)
    <3>1. PICK v \in WordsOf(l) : v \in cache.has
      BY <2>2
    <3> QED
      BY <2>2, <3>1, InLine
  <2> QED
    BY <2>1, <2>2
<1> QED
  BY <1>1, <1>2 DEF TypeOK, CacheTyped, PlacesTyped, JobsTyped

LEMMA TypedInit == Init => CacheTyped /\ PlacesTyped
<1> SUFFICES ASSUME Init PROVE CacheTyped /\ PlacesTyped
  OBVIOUS
<1>1. PICK ls \in SUBSET Lines :
        cache = Copy(UNION {WordsOf(l) : l \in ls}, {}) /\ dirty = ls
  BY DEF Init
<1>2. cache = Copy(WordsIn(ls), {}) /\ WordsIn(ls) \subseteq Words
  BY <1>1, InLines DEF WordsIn
<1>3. cache.has = WordsIn(ls) /\ cache \in Copies
  BY <1>2, CopiesClosed DEF Copy
<1>4. CacheTyped
  BY <1>1, <1>3, InLines DEF CacheTyped, Init
<1>5. PlacesTyped
  BY CopiesClosed DEF PlacesTyped, Init
<1> QED
  BY <1>4, <1>5

LEMMA LinesIn ==
  ASSUME NEW k \in Kinds
  PROVE  Entries(Buffer[k].start, Buffer[k].size) \subseteq Lines
BY EntriesOf

-----------------------------------------------------------------------------
(***************************************************************************)
(* Transfers.                                                              *)
(***************************************************************************)
\* What each call belongs to, and what follows it.
LEMMA CallsFollow ==
  ASSUME NEW k \in Kinds, NEW t \in Rests[k]
  PROVE  LET h == Head(t)  a == After[k][h] IN
         /\ h \in Calls
         /\ h = "flush" => k \in {"sdWrite", "nandWrite", "aes"}
                           /\ a = IF k = "aes" THEN "inval" ELSE "to"
         /\ h = "flushall" => k = "ppc" /\ a = "start"
         /\ h = "inval" => k \in Incoming /\ a = IF k = "aes" THEN "to" ELSE "start"
         /\ h = "to" => k \in {"sdWrite", "nandWrite", "aes"} /\ a = "start"
         /\ h = "start" => a = "run"
         /\ h = "run" => a = IF k \in {"sdWrite", "ppc"} THEN "none" ELSE "from"
         /\ h = "from" => k \in {"sdRead", "nandRead", "nandWrite", "aes"}
                          /\ a = IF k = "sdRead" THEN "none" ELSE "toarm"
         /\ h = "toarm" => k \in {"nandRead", "nandWrite", "aes"} /\ a = "none"
<1> USE DEF Rests, After, Calls, Incoming
<1>1. CASE k = "sdRead"
  BY <1>1
<1>2. CASE k = "sdWrite"
  BY <1>2
<1>3. CASE k = "nandRead"
  BY <1>3
<1>4. CASE k = "nandWrite"
  BY <1>4
<1>5. CASE k = "aes"
  BY <1>5
<1>6. CASE k = "ppc"
  BY <1>6
<1> QED
  BY <1>1, <1>2, <1>3, <1>4, <1>5, <1>6 DEF Kinds, Outgoing

LEMMA ContextsAre == DOMAIN KindsOf = Contexts /\ \A c \in Contexts : KindsOf[c] \subseteq Kinds
BY DEF KindsOf, Contexts, Kinds, Incoming, Outgoing

LEMMA JobNow ==
  ASSUME Jobs, NEW c \in Contexts, job[c] # NoJob
  PROVE  /\ job[c].kind \in KindsOf[c] /\ job[c].kind \in Kinds /\ job[c].kind # "none"
         /\ job[c].todo \in Rests[job[c].kind] /\ job[c].todo # <<>>
         /\ Doing(c) = Head(job[c].todo) /\ Doing(c) \in Calls
         /\ job[c].left \subseteq Span(job[c].kind)
<1>1. job[c].kind \in KindsOf[c] /\ job[c].todo \in Rests[job[c].kind]
      /\ job[c].left \subseteq Span(job[c].kind)
  BY DEF Jobs
<1>2. job[c].kind \in Kinds
  BY <1>1, ContextsAre
<1>3. job[c].kind # "none"
  BY <1>2 DEF Kinds, Incoming, Outgoing
<1> QED
  BY <1>1, <1>2, <1>3, RestGoesOn DEF Doing

LEMMA JobNone ==
  ASSUME NEW c, job[c] = NoJob
  PROVE  job[c].kind = "none" /\ job[c].todo = <<>> /\ job[c].left = {}
         /\ Doing(c) = "none" /\ job[c].kind \notin Incoming /\ job[c].kind \notin Outgoing
BY DEF NoJob, Doing, Incoming, Outgoing

\* A step of a transfer: it ends or it goes on with the next call.
LEMMA Advanced ==
  ASSUME Jobs, NEW c \in Contexts, job[c].todo # <<>>, Advance(c)
  PROVE  /\ job' \in [Contexts -> [kind : Kinds \cup {"none"}, todo : Seq(Calls),
                                   left : SUBSET Words]]
         /\ \A d \in Contexts : d # c => job'[d] = job[d]
         /\ \/ job'[c] = NoJob /\ After[job[c].kind][Doing(c)] = "none"
            \/ /\ job'[c].kind = job[c].kind /\ job'[c].left = job[c].left
               /\ job'[c].todo \in Rests[job[c].kind] /\ job'[c].todo # <<>>
               /\ Head(job'[c].todo) = After[job[c].kind][Doing(c)]
<1>1. job[c] # NoJob
  BY DEF NoJob
<1>2. /\ job[c].kind \in Kinds /\ job[c].todo \in Rests[job[c].kind]
      /\ Doing(c) = Head(job[c].todo)
  BY <1>1, JobNow
<1>3. job \in [Contexts -> [kind : Kinds \cup {"none"}, todo : Seq(Calls), left : SUBSET Words]]
  BY DEF Jobs
<1> DEFINE j == IF Len(job[c].todo) = 1 THEN NoJob ELSE [job[c] EXCEPT !.todo = Tail(@)]
<1>4. job' = [job EXCEPT ![c] = j]
  BY DEF Advance
<1>5. CASE Len(job[c].todo) = 1
  <2>1. NoJob \in [kind : Kinds \cup {"none"}, todo : Seq(Calls), left : SUBSET Words]
    BY DEF NoJob
  <2> QED
    BY <1>2, <1>3, <1>4, <1>5, <2>1, RestGoesOn
<1>6. CASE Len(job[c].todo) # 1
  <2>1. j = [kind |-> job[c].kind, todo |-> Tail(job[c].todo), left |-> job[c].left]
    BY <1>3, <1>6
  <2>2. Tail(job[c].todo) \in Rests[job[c].kind] /\ Tail(job[c].todo) # <<>>
        /\ Head(Tail(job[c].todo)) = After[job[c].kind][Doing(c)]
    BY <1>2, <1>6, RestGoesOn
  <2>3. Tail(job[c].todo) \in Seq(Calls)
    BY <1>2, <2>2, RestGoesOn
  <2> HIDE DEF j
  <2>4. j \in [kind : Kinds \cup {"none"}, todo : Seq(Calls), left : SUBSET Words]
    BY <1>3, <2>1, <2>3
  <2>5. job'[c] = j
    BY <1>3, <1>4
  <2> QED
    BY <1>3, <1>4, <2>1, <2>2, <2>4, <2>5
<1> QED
  BY <1>5, <1>6

\* The same, said of the parts the invariants look at.
LEMMA AdvancedParts ==
  ASSUME Jobs, NEW c \in Contexts, job[c].todo # <<>>, Advance(c)
  PROVE  LET a == After[job[c].kind][Doing(c)] IN
         /\ \A d \in Contexts : d # c => job'[d] = job[d] /\ Doing(d)' = Doing(d)
         /\ Doing(c)' = a
         /\ a = "none" => job'[c] = NoJob /\ job'[c].kind = "none" /\ job'[c].left = {}
         /\ a # "none" => job'[c].kind = job[c].kind /\ job'[c].left = job[c].left
<1>1. job[c] # NoJob
  BY DEF NoJob
<1>2. job[c].kind \in Kinds
  BY <1>1, JobNow
<1>3. \A d \in Contexts : d # c => job'[d] = job[d] /\ Doing(d)' = Doing(d)
  BY Advanced DEF Doing
<1>4. CASE job'[c] = NoJob /\ After[job[c].kind][Doing(c)] = "none"
  <2>1. job'[c].kind = "none" /\ job'[c].left = {} /\ job'[c].todo = <<>>
    BY <1>4 DEF NoJob
  <2>2. Doing(c)' = "none"
    BY <2>1 DEF Doing
  <2> QED
    BY <1>3, <1>4, <2>1, <2>2
<1>5. CASE /\ job'[c].kind = job[c].kind /\ job'[c].left = job[c].left
           /\ job'[c].todo \in Rests[job[c].kind] /\ job'[c].todo # <<>>
           /\ Head(job'[c].todo) = After[job[c].kind][Doing(c)]
  <2>1. Head(job'[c].todo) # "none"
    BY <1>2, <1>5, RestGoesOn DEF Calls
  <2>2. Doing(c)' = After[job[c].kind][Doing(c)]
    BY <1>5 DEF Doing
  <2> QED
    BY <1>3, <1>5, <2>1, <2>2
<1> QED
  BY <1>4, <1>5, Advanced

LEMMA AdvanceJobs ==
  ASSUME Jobs, NEW c \in Contexts, job[c].todo # <<>>, Advance(c),
         Doing(c) = "run" => job[c].left = {}
  PROVE  Jobs'
<1>1. job[c] # NoJob
  BY DEF NoJob
<1>2. /\ job[c].kind \in KindsOf[c] /\ job[c].kind \in Kinds
      /\ job[c].todo \in Rests[job[c].kind] /\ Doing(c) = Head(job[c].todo)
      /\ job[c].left \subseteq Span(job[c].kind)
      /\ Doing(c) \in {"from", "toarm"} => job[c].left = {}
      /\ Doing(c) \notin {"run", "from", "toarm"} => job[c].left = Span(job[c].kind)
  BY <1>1, JobNow DEF Jobs
<1>3. LET a == After[job[c].kind][Doing(c)] IN
      /\ a \in {"from", "toarm"} => Doing(c) \in {"run", "from"}
      /\ a # "none" /\ a \notin {"run", "from", "toarm"} =>
           Doing(c) \notin {"run", "from", "toarm"}
  BY <1>2, CallsFollow DEF Calls
<1>4. ASSUME NEW d \in Contexts, d # c
      PROVE  \/ job'[d] = NoJob
             \/ /\ job'[d].kind \in KindsOf[d] /\ job'[d].todo \in Rests[job'[d].kind]
                /\ job'[d].left \subseteq Span(job'[d].kind)
                /\ Doing(d)' \in {"from", "toarm"} => job'[d].left = {}
                /\ Doing(d)' \notin {"run", "from", "toarm"} => job'[d].left = Span(job'[d].kind)
  <2>1. job'[d] = job[d] /\ Doing(d)' = Doing(d)
    BY <1>4, AdvancedParts
  <2> QED
    BY <2>1 DEF Jobs
<1>5. \/ job'[c] = NoJob
      \/ /\ job'[c].kind \in KindsOf[c] /\ job'[c].todo \in Rests[job'[c].kind]
         /\ job'[c].left \subseteq Span(job'[c].kind)
         /\ Doing(c)' \in {"from", "toarm"} => job'[c].left = {}
         /\ Doing(c)' \notin {"run", "from", "toarm"} => job'[c].left = Span(job'[c].kind)
  <2> DEFINE a == After[job[c].kind][Doing(c)]
  <2>1. Doing(c)' = a /\ (a = "none" => job'[c] = NoJob)
    BY AdvancedParts
  <2>2. CASE a # "none"
    <3>1. job'[c].kind = job[c].kind /\ job'[c].left = job[c].left
          /\ job'[c].todo \in Rests[job[c].kind]
      BY <2>2, Advanced
    <3> HIDE DEF a
    <3>2. Doing(c)' \in {"from", "toarm"} => Doing(c) \in {"run", "from"}
      BY <1>3, <2>1 DEF a
    <3>3. Doing(c)' \notin {"run", "from", "toarm"} => Doing(c) \notin {"run", "from", "toarm"}
      BY <1>3, <2>1, <2>2 DEF a
    <3> QED
      BY <1>2, <3>1, <3>2, <3>3
  <2> QED
    BY <2>1, <2>2
<1>6. job' \in [Contexts -> [kind : Kinds \cup {"none"}, todo : Seq(Calls),
                             left : SUBSET Words]]
  BY Advanced
<1> QED
  BY <1>4, <1>5, <1>6 DEF Jobs

LEMMA JobsSame == ASSUME Jobs, UNCHANGED job PROVE Jobs'
BY DEF Jobs, Doing

LEMMA JobsInit == Init => Jobs
<1> SUFFICES ASSUME Init PROVE Jobs
  OBVIOUS
<1>1. NoJob \in [kind : Kinds \cup {"none"}, todo : Seq(Calls), left : SUBSET Words]
  BY DEF NoJob
<1>2. job = [c \in Contexts |-> NoJob]
  BY ContextsAre DEF Init
<1> QED
  BY <1>1, <1>2 DEF Jobs

LEMMA BeginJobs ==
  ASSUME Jobs, NEW c \in Contexts, NEW k \in Kinds, Begin(c, k)
  PROVE  /\ Jobs' /\ job[c] = NoJob
         /\ \A d \in Contexts : d # c => job'[d] = job[d] /\ Doing(d)' = Doing(d)
         /\ job'[c].kind = k /\ job'[c].left = Span(k) /\ k \in KindsOf[c]
         /\ Doing(c)' = IF k \in {"sdRead", "nandRead"} THEN "inval"
                        ELSE IF k = "ppc" THEN "flushall" ELSE "flush"
<1> DEFINE j == [kind |-> k, todo |-> Program(k), left |-> Span(k)]
<1>1. job' = [job EXCEPT ![c] = j] /\ job[c] = NoJob /\ k \in KindsOf[c]
  BY DEF Begin
<1>2. Program(k) \in Rests[k] /\ Program(k) \in Seq(Calls) /\ Program(k) # <<>>
  BY ProgramIsRest, RestGoesOn
<1>3. j \in [kind : Kinds \cup {"none"}, todo : Seq(Calls), left : SUBSET Words]
  BY <1>2, BufferAssumption
<1>4. job \in [Contexts -> [kind : Kinds \cup {"none"}, todo : Seq(Calls), left : SUBSET Words]]
  BY DEF Jobs
<1>5. j.kind = k /\ j.left = Span(k) /\ j.todo = Program(k)
  OBVIOUS
<1> HIDE DEF j
<1>6. job'[c] = j /\ \A d \in Contexts : d # c => job'[d] = job[d]
  BY <1>1, <1>4
<1>7. \A d \in Contexts : d # c => Doing(d)' = Doing(d)
  BY <1>6 DEF Doing
<1>8. Head(Program(k)) = IF k \in {"sdRead", "nandRead"} THEN "inval"
                         ELSE IF k = "ppc" THEN "flushall" ELSE "flush"
  <2> USE DEF Program, Device, SdCalls, NandCalls, AesCalls, PpcCalls
  <2>1. CASE k = "sdRead"
    BY <2>1
  <2>2. CASE k = "sdWrite"
    BY <2>2
  <2>3. CASE k = "nandRead"
    BY <2>3
  <2>4. CASE k = "nandWrite"
    BY <2>4
  <2>5. CASE k = "aes"
    BY <2>5
  <2>6. CASE k = "ppc"
    BY <2>6
  <2> QED
    BY <2>1, <2>2, <2>3, <2>4, <2>5, <2>6 DEF Kinds, Incoming, Outgoing
<1>9. Doing(c)' = Head(Program(k))
  BY <1>2, <1>5, <1>6 DEF Doing
<1>10. job' \in [Contexts -> [kind : Kinds \cup {"none"}, todo : Seq(Calls),
                              left : SUBSET Words]]
  BY <1>1, <1>3, <1>4
<1>11. Jobs'
  <2>1. ASSUME NEW d \in Contexts, d # c
        PROVE  \/ job'[d] = NoJob
               \/ /\ job'[d].kind \in KindsOf[d] /\ job'[d].todo \in Rests[job'[d].kind]
                  /\ job'[d].left \subseteq Span(job'[d].kind)
                  /\ Doing(d)' \in {"from", "toarm"} => job'[d].left = {}
                  /\ Doing(d)' \notin {"run", "from", "toarm"} => job'[d].left = Span(job'[d].kind)
    BY <1>6, <1>7, <2>1 DEF Jobs
  <2>2. /\ job'[c].kind \in KindsOf[c] /\ job'[c].todo \in Rests[job'[c].kind]
        /\ job'[c].left \subseteq Span(job'[c].kind)
        /\ Doing(c)' \notin {"from", "toarm"} /\ job'[c].left = Span(job'[c].kind)
    BY <1>1, <1>2, <1>5, <1>6, <1>8, <1>9
  <2> QED
    BY <1>10, <2>1, <2>2 DEF Jobs
<1> QED
  BY <1>1, <1>5, <1>6, <1>7, <1>8, <1>9, <1>11

\* A step of the device: some of the words of its transfer are done.
LEMMA TransferJobs ==
  ASSUME Jobs, NEW c \in Contexts, NEW l \in Lines, Transfer(c, l)
  PROVE  /\ Jobs' /\ job[c] # NoJob /\ Doing(c) = "run"
         /\ \A d \in Contexts : /\ job'[d].kind = job[d].kind /\ Doing(d)' = Doing(d)
                                /\ d # c => job'[d] = job[d]
         /\ job'[c].left = job[c].left \ WordsOf(l)
<1>1. /\ job[c].todo # <<>> /\ Head(job[c].todo) = "run"
      /\ job' = [job EXCEPT ![c].left = @ \ (job[c].left \cap WordsOf(l))]
  BY DEF Transfer
<1>2. job \in [Contexts -> [kind : Kinds \cup {"none"}, todo : Seq(Calls), left : SUBSET Words]]
  BY DEF Jobs
<1> DEFINE j == [job[c] EXCEPT !.left = job[c].left \ WordsOf(l)]
<1>3. /\ j \in [kind : Kinds \cup {"none"}, todo : Seq(Calls), left : SUBSET Words]
      /\ j.kind = job[c].kind /\ j.todo = job[c].todo /\ j.left = job[c].left \ WordsOf(l)
  BY <1>2
<1>4. job' = [job EXCEPT ![c] = j]
  <2>1. job[c].left \ (job[c].left \cap WordsOf(l)) = job[c].left \ WordsOf(l)
    OBVIOUS
  <2> QED
    BY <1>1, <1>2, <2>1
<1> HIDE DEF j
<1>5. job'[c] = j /\ \A d \in Contexts : d # c => job'[d] = job[d]
  BY <1>2, <1>4
<1>6. Doing(c) = "run" /\ job[c] # NoJob
  BY <1>1 DEF Doing, NoJob
<1>7. \A d \in Contexts : job'[d].kind = job[d].kind /\ job'[d].todo = job[d].todo
  BY <1>3, <1>5
<1>8. \A d \in Contexts : Doing(d)' = Doing(d)
  BY <1>7 DEF Doing
<1>9. Jobs'
  <2>1. job' \in [Contexts -> [kind : Kinds \cup {"none"}, todo : Seq(Calls),
                               left : SUBSET Words]]
    BY <1>2, <1>3, <1>4
  <2>2. ASSUME NEW d \in Contexts, d # c
        PROVE  \/ job'[d] = NoJob
               \/ /\ job'[d].kind \in KindsOf[d] /\ job'[d].todo \in Rests[job'[d].kind]
                  /\ job'[d].left \subseteq Span(job'[d].kind)
                  /\ Doing(d)' \in {"from", "toarm"} => job'[d].left = {}
                  /\ Doing(d)' \notin {"run", "from", "toarm"} => job'[d].left = Span(job'[d].kind)
    BY <1>5, <1>8, <2>2 DEF Jobs
  <2>3. /\ job'[c].kind \in KindsOf[c] /\ job'[c].todo \in Rests[job'[c].kind]
        /\ job'[c].left \subseteq Span(job'[c].kind)
        /\ Doing(c)' = "run"
    <3>1. /\ job[c].kind \in KindsOf[c] /\ job[c].todo \in Rests[job[c].kind]
          /\ job[c].left \subseteq Span(job[c].kind)
      BY <1>6, JobNow
    <3> QED
      BY <3>1, <1>3, <1>5, <1>6, <1>7, <1>8
  <2> QED
    BY <2>1, <2>2, <2>3 DEF Jobs
<1> QED
  BY <1>3, <1>5, <1>6, <1>7, <1>8, <1>9

LEMMA AtIs ==
  ASSUME NEW c, NEW call, At(c, call)
  PROVE  job[c].todo # <<>> /\ Doing(c) = call /\ enabled = "on"
BY DEF At, Doing

LEMMA JobsStep == ASSUME Jobs, [Next]_vars PROVE Jobs'
<1>1. ASSUME NEW m \in Masters, NEW l \in Lines, ReadAhead(m, l) PROVE Jobs'
  BY <1>1, JobsSame DEF ReadAhead
<1>2. ASSUME NEW m \in Masters, Post(m) PROVE Jobs'
  BY <1>2, JobsSame DEF Post
<1>3. ASSUME NEW l \in Lines, Evict(l) PROVE Jobs'
  BY <1>3, JobsSame DEF Evict
<1>4. ASSUME NEW w \in Words, Load(w) PROVE Jobs'
  BY <1>4, JobsSame DEF Load
<1>5. ASSUME NEW w \in Words, Store(w) PROVE Jobs'
  BY <1>5, JobsSame DEF Store
<1>6. ASSUME NEW c \in Contexts, NEW k \in Kinds, Begin(c, k) PROVE Jobs'
  BY <1>6, BeginJobs
<1>7. ASSUME NEW c \in Contexts, StartDevice(c) PROVE Jobs'
  BY <1>7, AtIs, AdvanceJobs DEF StartDevice
<1>8. ASSUME NEW c \in Contexts, Call(c) PROVE Jobs'
  <2>1. Advance(c) /\ job[c].todo # <<>> /\ Doing(c) # "run"
    BY <1>8, AtIs DEF Call
  <2> QED
    BY <2>1, AdvanceJobs
<1>9. ASSUME NEW c \in Contexts, Complete(c) PROVE Jobs'
  BY <1>9, AtIs, AdvanceJobs DEF Complete
<1>10. ASSUME NEW c \in Contexts, NEW l \in Lines, Transfer(c, l) PROVE Jobs'
  BY <1>10, TransferJobs
<1>11. CASE MemInitialize
  BY <1>11, JobsSame DEF MemInitialize
<1>12. CASE MemShutdown
  BY <1>12, JobsSame DEF MemShutdown
<1>13. CASE UNCHANGED vars
  BY <1>13, JobsSame DEF vars
<1> QED
  BY <1>1, <1>2, <1>3, <1>4, <1>5, <1>6, <1>7, <1>8, <1>9, <1>10, <1>11, <1>12, <1>13,
     ContextsAre DEF Next, Bus, Accesses, Transfers

\* Two transfers at a time share no word and no device.
LEMMA Apart ==
  ASSUME Jobs, NEW c \in Contexts, NEW d \in Contexts, c # d,
         job[c].kind # "none", job[d].kind # "none"
  PROVE  /\ \A w \in Span(job[c].kind) : w \notin Span(job[d].kind)
         /\ Device[job[c].kind] # Device[job[d].kind]
<1>1. job[c] # NoJob /\ job[d] # NoJob
  BY DEF NoJob
<1>2. job[c].kind \in KindsOf[c] /\ job[d].kind \in KindsOf[d]
  BY <1>1, JobNow
<1>3. ASSUME NEW k \in KindsOf["main"], NEW n \in KindsOf["irq"]
      PROVE  Device[k] # Device[n] /\ \A w \in Span(k) : w \notin Span(n)
  <2>1. Span(k) \cap Span(n) = {}
    BY BufferAssumption
  <2>2. Device[k] # Device[n]
    BY DEF KindsOf, Device
  <2> QED
    BY <2>1, <2>2
<1>4. (c = "main" /\ d = "irq") \/ (c = "irq" /\ d = "main")
  BY DEF Contexts
<1>5. CASE c = "main" /\ d = "irq"
  BY <1>2, <1>3, <1>5
<1>6. CASE c = "irq" /\ d = "main"
  BY <1>2, <1>3, <1>6
<1> QED
  BY <1>4, <1>5, <1>6

LEMMA DeviceIs ==
  ASSUME NEW k \in Kinds
  PROVE  Device[k] \in Devices /\ Device[k] \in Masters /\ Device[k] # "arm"
BY DEF Kinds, Incoming, Outgoing, Device, Devices, Masters

\* The words that draining the write buffer and some lines changes.
LEMMA Drained ==
  ASSUME CacheTyped, PlacesTyped, NEW ls \in SUBSET Lines, DrainWriteBuffer(ls)
  PROVE  /\ \A w \in Words : w \in memory' <=>
              IF Line(w) \in ls /\ Line(w) \in dirty THEN w \in cache.new
              ELSE w \in pending["arm"].new \/ (w \in memory /\ w \notin pending["arm"].has)
         /\ memory' \subseteq Words /\ pending' \in [Masters -> Copies]
         /\ pending'["arm"] = Empty /\ \A d \in Devices : pending'[d] = pending[d]
         /\ dirty' = dirty \ ls
<1>1. pending["arm"] \in Copies /\ cache \in Copies /\ memory \subseteq Words
  BY DEF PlacesTyped, CacheTyped, Masters
<1>2. \A w : w \in WordsIn(ls \cap dirty) <=> w \in Words /\ Line(w) \in ls /\ Line(w) \in dirty
  BY InLines DEF CacheTyped
<1>3. \A w : w \in memory' <=>
        IF w \in WordsIn(ls \cap dirty) THEN w \in cache.new
        ELSE w \in pending["arm"].new \/ (w \in memory /\ w \notin pending["arm"].has)
  BY DEF DrainWriteBuffer, Written, Cleaned
<1>4. /\ pending' = [pending EXCEPT !["arm"] = Empty] /\ dirty' = dirty \ ls
      /\ pending \in [Masters -> Copies] /\ Empty \in Copies
  BY CopiesClosed DEF DrainWriteBuffer, PlacesTyped
<1>5. /\ pending' \in [Masters -> Copies]
      /\ pending'["arm"] = Empty /\ \A d \in Devices : pending'[d] = pending[d]
  BY <1>4 DEF Masters, Devices
<1>6. memory' \subseteq Words
  BY <1>1, <1>2, <1>3, CopyParts
<1> QED
  BY <1>2, <1>3, <1>4, <1>5, <1>6

LEMMA AheadTyped ==
  ASSUME PlacesTyped, NEW m \in Masters
  PROVE  /\ [ahead EXCEPT ![m] = Empty] \in [Masters -> Copies]
         /\ [ahead EXCEPT !["arm"] = Empty] \in [Masters -> Copies]
         /\ [ahead EXCEPT ![m] = Empty, !["arm"] = Empty] \in [Masters -> Copies]
         /\ \A ws : [ahead EXCEPT !["arm"] = Without(@, ws)] \in [Masters -> Copies]
<1>1. "arm" \in Masters /\ ahead \in [Masters -> Copies] /\ Empty \in Copies
  BY CopiesClosed DEF Masters, PlacesTyped
<1>2. ASSUME NEW ws PROVE [ahead EXCEPT !["arm"] = Without(@, ws)] \in [Masters -> Copies]
  <2>1. Without(ahead["arm"], ws) \in Copies
    BY <1>1, CopiesClosed
  <2> QED
    BY <1>1, <2>1
<1> QED
  BY <1>1, <1>2

\* The types of the places hold across every step.
LEMMA PlacesStep ==
  ASSUME CacheTyped, PlacesTyped, Jobs, [Next]_vars
  PROVE  PlacesTyped'
<1>0. /\ enabled \in {"boot", "on", "down"} /\ memory \subseteq Words
      /\ pending \in [Masters -> Copies] /\ ahead \in [Masters -> Copies]
      /\ cache \in Copies /\ dirty \subseteq Lines /\ "arm" \in Masters
      /\ \A m \in Masters : pending[m].new \subseteq Words /\ pending[m].has \subseteq Words
  BY CopyParts DEF PlacesTyped, CacheTyped, Masters
<1> USE DEF PlacesTyped
<1>1. ASSUME NEW m \in Masters, NEW l \in Lines, ReadAhead(m, l) PROVE PlacesTyped'
  <2>1. Copy(WordsOf(l) \cap ReadBy(m), memory) \in Copies
    BY InLine, CopiesClosed
  <2> QED
    BY <1>0, <1>1, <2>1 DEF ReadAhead
<1>2. ASSUME NEW m \in Masters, Post(m) PROVE PlacesTyped'
  <2>1. memory' \subseteq Words
    BY <1>0, <1>2 DEF Post, Written
  <2>2. pending' \in [Masters -> Copies]
    BY <1>0, <1>2, CopiesClosed DEF Post
  <2>3. ahead' \in [Masters -> Copies]
    BY <1>0, <1>2, AheadTyped DEF Post
  <2> QED
    BY <1>0, <1>2, <2>1, <2>2, <2>3 DEF Post
<1>3. ASSUME NEW l \in Lines, Evict(l) PROVE PlacesTyped'
  <2>1. [has |-> WordsOf(l), new |-> cache.new \cap WordsOf(l)] \in Copies
    BY InLine DEF Copies
  <2>2. Over(pending["arm"], [has |-> WordsOf(l), new |-> cache.new \cap WordsOf(l)]) \in Copies
    BY <1>0, <2>1, CopiesClosed
  <2> QED
    BY <1>0, <1>3, <2>2 DEF Evict
<1>4. ASSUME NEW w \in Words, Load(w) PROVE PlacesTyped'
  BY <1>0, <1>4 DEF Load
<1>5. ASSUME NEW w \in Words, Store(w) PROVE PlacesTyped'
  <2>1. memory' \subseteq Words
    BY <1>0, <1>5 DEF Store
  <2>2. [has |-> {w}, new |-> {w}] \in Copies
    BY DEF Copies
  <2>3. \A m \in Masters : /\ Over(pending[m], [has |-> {w}, new |-> {w}]) \in Copies
                           /\ Older(pending[m], {w}) \in Copies
                           /\ Older(ahead[m], {w}) \in Copies
    BY <1>0, <2>2, CopiesClosed
  <2> QED
    BY <1>0, <1>5, <2>1, <2>3 DEF Store
<1>6. ASSUME NEW c \in Contexts, NEW k \in Kinds, Begin(c, k) PROVE PlacesTyped'
  BY <1>0, <1>6 DEF Begin
<1>7. ASSUME NEW c \in Contexts, StartDevice(c) PROVE PlacesTyped'
  <2>1. memory' \subseteq Words /\ pending' \in [Masters -> Copies]
    BY <1>7, Drained DEF StartDevice
  <2> QED
    BY <1>0, <1>7, <2>1, AheadTyped DEF StartDevice
<1>8. ASSUME NEW c \in Contexts, Call(c) PROVE PlacesTyped'
  <2>1. job[c] # NoJob /\ enabled' = enabled
    BY <1>8 DEF Call, At, NoJob
  <2>2. job[c].kind \in Kinds
    BY <2>1, JobNow
  <2>3. Device[job[c].kind] \in Masters
    BY <2>2, DeviceIs
  <2>4. Entries(Buffer[job[c].kind].start, Buffer[job[c].kind].size) \subseteq Lines
    BY <2>2, LinesIn
  <2>5. CASE DcFlushRange(Buffer[job[c].kind])
    <3>1. memory' \subseteq Words /\ pending' \in [Masters -> Copies]
      BY <2>4, <2>5, Drained DEF DcFlushRange
    <3> QED
      BY <1>0, <2>1, <2>5, <3>1, AheadTyped DEF DcFlushRange
  <2>6. CASE DcFlushAll
    <3>1. memory' \subseteq Words /\ pending' \in [Masters -> Copies]
      BY <2>6, Drained DEF DcFlushAll
    <3> QED
      BY <1>0, <2>1, <2>6, <3>1, AheadTyped DEF DcFlushAll
  <2>7. CASE DcInvalidateRange(Buffer[job[c].kind])
    BY <1>0, <2>1, <2>7, AheadTyped DEF DcInvalidateRange, AhbFlushTo
  <2>8. CASE AhbFlushTo(Device[job[c].kind]) /\ UNCHANGED <<memory, cache, dirty, pending>>
    BY <1>0, <2>1, <2>3, <2>8, AheadTyped DEF AhbFlushTo
  <2>9. CASE AhbFlushFrom(Device[job[c].kind])
    <3>1. memory' \subseteq Words
      BY <1>0, <2>3, <2>9 DEF AhbFlushFrom, Written
    <3>2. pending' \in [Masters -> Copies]
      BY <1>0, <2>3, <2>9, CopiesClosed DEF AhbFlushFrom
    <3> QED
      BY <1>0, <2>1, <2>9, <3>1, <3>2, AheadTyped DEF AhbFlushFrom
  <2>10. CASE AhbFlushTo("arm") /\ UNCHANGED <<memory, cache, dirty, pending>>
    BY <1>0, <2>1, <2>10, AheadTyped DEF AhbFlushTo
  <2> QED
    BY <1>8, <2>5, <2>6, <2>7, <2>8, <2>9, <2>10 DEF Call
<1>9. ASSUME NEW c \in Contexts, Complete(c) PROVE PlacesTyped'
  BY <1>0, <1>9 DEF Complete
<1>10. ASSUME NEW c \in Contexts, NEW l \in Lines, Transfer(c, l) PROVE PlacesTyped'
  <2> DEFINE ws == job[c].left \cap WordsOf(l)
  <2>1. ws \subseteq Words
    BY InLine
  <2>2. \A m \in Masters : /\ Over(pending[m], Copy(ws, ws)) \in Copies
                           /\ Older(pending[m], ws) \in Copies
                           /\ Older(ahead[m], ws) \in Copies
    BY <1>0, <2>1, CopiesClosed
  <2> QED
    BY <1>0, <1>10, <2>2, ZenonT(60) DEF Transfer
<1>11. CASE MemInitialize
  BY <1>0, <1>11 DEF MemInitialize
<1>12. CASE MemShutdown
  <2>1. memory' \subseteq Words /\ pending' \in [Masters -> Copies]
    BY <1>12, Drained DEF MemShutdown
  <2> QED
    BY <1>0, <1>12, <2>1, AheadTyped DEF MemShutdown
<1>13. CASE UNCHANGED vars
  BY <1>0, <1>13 DEF vars
<1> QED
  BY <1>1, <1>2, <1>3, <1>4, <1>5, <1>6, <1>7, <1>8, <1>9, <1>10, <1>11, <1>12, <1>13,
     ContextsAre DEF Next, Bus, Accesses, Transfers

LEMMA CacheStep ==
  ASSUME CacheTyped, PlacesTyped, Jobs, [Next]_vars
  PROVE  CacheTyped'
<1>0. /\ cache \in Copies /\ dirty \subseteq Lines /\ Empty \in Copies
      /\ \A w \in Words : Line(w) \in Lines /\ (Line(w) \in dirty => w \in cache.has)
      /\ \A v, w \in Words : Line(v) = Line(w) => (v \in cache.has <=> w \in cache.has)
      /\ enabled = "down" => cache = Empty
      /\ Empty.has = {} /\ Empty.new = {}
  BY LineOf, CopiesClosed DEF CacheTyped, Empty
<1>same. ASSUME UNCHANGED <<enabled, cache, dirty>> PROVE CacheTyped'
  BY <1>0, <1>same DEF CacheTyped
<1>clean. ASSUME UNCHANGED <<enabled, cache>>, dirty' \subseteq dirty PROVE CacheTyped'
  BY <1>0, <1>clean DEF CacheTyped
<1>older. ASSUME NEW ws, cache' = Older(cache, ws), UNCHANGED <<enabled, dirty>> PROVE CacheTyped'
  <2>1. cache' \in Copies /\ cache'.has = cache.has
    BY <1>0, <1>older, CopiesClosed, OlderIs
  <2>2. enabled' # "down" \/ cache' = Empty
    <3> SUFFICES ASSUME enabled = "down" PROVE cache' = Empty
      BY <1>0, <1>older
    <3> QED
      BY <1>0, <1>older DEF Empty, Older
  <2> QED
    BY <1>0, <1>older, <2>1, <2>2 DEF CacheTyped
\* Lines leave the cache whole, and then they are not dirty.
<1>out. ASSUME NEW ls \in SUBSET Lines, cache' = Without(cache, WordsIn(ls)), dirty' = dirty \ ls,
               enabled' = enabled, enabled # "down"
        PROVE  CacheTyped'
  <2>1. cache' \in Copies /\ cache'.has = cache.has \ WordsIn(ls)
    BY <1>0, <1>out, CopiesClosed DEF Without
  <2>2. \A w \in Words : w \in cache'.has <=> w \in cache.has /\ Line(w) \notin ls
    BY <2>1, <1>out, InLines
  <2> QED
    BY <1>0, <1>out, <2>1, <2>2 DEF CacheTyped
<1>1. ASSUME NEW m \in Masters, NEW l \in Lines, ReadAhead(m, l) PROVE CacheTyped'
  BY <1>1, <1>same DEF ReadAhead
<1>2. ASSUME NEW m \in Masters, Post(m) PROVE CacheTyped'
  BY <1>2, <1>same DEF Post
<1>3. ASSUME NEW l \in Lines, Evict(l) PROVE CacheTyped'
  <2>1. WordsIn({l}) = WordsOf(l)
    BY DEF WordsIn
  <2> QED
    BY <1>3, <1>out, <2>1 DEF Evict
<1>4. ASSUME NEW x \in Words, Load(x) PROVE CacheTyped'
  <2>1. Line(x) \in Lines /\ WordsOf(Line(x)) \subseteq Words
    BY LineOf, InLine
  <2>2. Copy(WordsOf(Line(x)), ProcessorView) \in Copies
    BY <2>1, CopiesClosed
  <2>3. cache' \in Copies
    BY <1>0, <1>4, <2>2, CopiesClosed DEF Load
  <2>4. cache'.has = cache.has \cup WordsOf(Line(x)) /\ dirty' = dirty /\ enabled' = "on"
    BY <1>4 DEF Load, Over, Copy
  <2>5. \A w \in Words : w \in cache'.has <=> w \in cache.has \/ Line(w) = Line(x)
    BY <2>1, <2>4, InLine
  <2> QED
    BY <1>0, <2>3, <2>4, <2>5 DEF CacheTyped
<1>5. ASSUME NEW x \in Words, Store(x) PROVE CacheTyped'
  <2>1. /\ enabled' = "on"
        /\ cache' = IF x \in cache.has THEN [cache EXCEPT !.new = @ \cup {x}] ELSE cache
        /\ dirty' = IF x \in cache.has THEN dirty \cup {Line(x)} ELSE dirty
    BY <1>5 DEF Store
  <2>2. cache' \in Copies /\ cache'.has = cache.has
    BY <1>0, <2>1 DEF Copies
  <2>3. dirty' \subseteq Lines /\ \A w \in Words : Line(w) \in dirty' => w \in cache.has
    BY <1>0, <2>1
  <2> QED
    BY <1>0, <2>1, <2>2, <2>3 DEF CacheTyped
<1>6. ASSUME NEW c \in Contexts, NEW k \in Kinds, Begin(c, k) PROVE CacheTyped'
  BY <1>6, <1>same DEF Begin
<1>7. ASSUME NEW c \in Contexts, StartDevice(c) PROVE CacheTyped'
  BY <1>7, <1>clean, Drained DEF StartDevice
<1>8. ASSUME NEW c \in Contexts, Call(c) PROVE CacheTyped'
  <2>1. job[c] # NoJob /\ enabled' = enabled /\ enabled = "on"
    BY <1>8 DEF Call, At, NoJob
  <2>2. job[c].kind \in Kinds
    BY <2>1, JobNow
  <2> DEFINE ls == Entries(Buffer[job[c].kind].start, Buffer[job[c].kind].size)
  <2>4. ls \subseteq Lines
    BY <2>2, LinesIn
  <2>5. CASE DcFlushRange(Buffer[job[c].kind])
    BY <1>clean, <2>1, <2>4, <2>5, Drained DEF DcFlushRange
  <2>6. CASE DcFlushAll
    BY <1>clean, <2>1, <2>6, Drained DEF DcFlushAll
  <2>7. CASE DcInvalidateRange(Buffer[job[c].kind])
    BY <1>out, <2>1, <2>4, <2>7 DEF DcInvalidateRange
  <2>8. CASE AhbFlushTo(Device[job[c].kind]) /\ UNCHANGED <<memory, cache, dirty, pending>>
    BY <1>same, <2>1, <2>8
  <2>9. CASE AhbFlushFrom(Device[job[c].kind])
    BY <1>same, <2>1, <2>9 DEF AhbFlushFrom
  <2>10. CASE AhbFlushTo("arm") /\ UNCHANGED <<memory, cache, dirty, pending>>
    BY <1>same, <2>1, <2>10
  <2> QED
    BY <1>8, <2>5, <2>6, <2>7, <2>8, <2>9, <2>10 DEF Call
<1>9. ASSUME NEW c \in Contexts, Complete(c) PROVE CacheTyped'
  BY <1>9, <1>same DEF Complete
<1>10. ASSUME NEW c \in Contexts, NEW l \in Lines, Transfer(c, l) PROVE CacheTyped'
  BY <1>10, <1>same, <1>older DEF Transfer
<1>11. CASE MemInitialize
  BY <1>0, <1>11 DEF MemInitialize, CacheTyped
<1>12. CASE MemShutdown
  <2>1. dirty' = dirty \ Lines /\ cache' = Empty
    BY <1>12 DEF MemShutdown, DrainWriteBuffer
  <2> QED
    BY <1>0, <2>1 DEF CacheTyped
<1>13. CASE UNCHANGED vars
  BY <1>13, <1>same DEF vars
<1> QED
  BY <1>1, <1>2, <1>3, <1>4, <1>5, <1>6, <1>7, <1>8, <1>9, <1>10, <1>11, <1>12, <1>13,
     ContextsAre DEF Next, Bus, Accesses, Transfers

-----------------------------------------------------------------------------
(***************************************************************************)
(* What the steps do to a word.                                            *)
(***************************************************************************)
LEMMA Masterly ==
  ASSUME PlacesTyped
  PROVE  /\ \A m \in Masters : pending[m] \in Copies /\ ahead[m] \in Copies
         /\ "arm" \in Masters /\ \A d \in Devices : d \in Masters /\ d # "arm"
         /\ \A m \in Masters : m = "arm" \/ m \in Devices
BY DEF PlacesTyped, Masters, Devices

\* Where the latest values of words disappear, copies grow older.
LEMMA OlderAll ==
  ASSUME PlacesTyped, NEW ws, NEW m \in Masters
  PROVE  /\ Older(ahead[m], ws).has = ahead[m].has
         /\ Older(ahead[m], ws).new = ahead[m].new \ ws
         /\ Older(pending[m], ws).has = pending[m].has
         /\ Older(pending[m], ws).new = pending[m].new \ ws
BY Masterly, OlderIs

LEMMA WholeLine ==
  ASSUME NEW k \in Incoming, NEW v \in Span(k), NEW w \in Words, Line(w) = Line(v)
  PROVE  w \in Span(k)
<1>1. v \in Words /\ WordsOf(Line(v)) \subseteq Span(k)
  BY BufferAssumption DEF Kinds
<1>2. w \in WordsOf(Line(v))
  BY LineOf
<1> QED
  BY <1>1, <1>2

\* The program keeps off the buffers of transfers, and off their lines where a
\* device writes.
LEMMA KeptOff ==
  ASSUME Jobs, NEW x \in Words, x \notin InFlight, NEW c \in Contexts, job[c].kind # "none"
  PROVE  /\ x \notin Span(job[c].kind)
         /\ job[c].kind \in Incoming =>
              \A w \in Words : Line(w) = Line(x) => w \notin Span(job[c].kind)
<1>1. DOMAIN job = Contexts
  BY DEF Jobs
<1>2. x \notin Span(job[c].kind)
  BY <1>1 DEF InFlight
<1> QED
  BY <1>2, WholeLine

LEMMA Loaded ==
  ASSUME CacheTyped, NEW x \in Words, Load(x), NEW w \in Words
  PROVE  /\ enabled = "on" /\ enabled' = "on" /\ x \notin InFlight
         /\ UNCHANGED <<memory, dirty, pending, ahead, job>>
         /\ Line(w) = Line(x) => /\ w \notin cache.has
                                 /\ w \in cache'.has /\ (w \in cache'.new <=> w \in ProcessorView)
         /\ Line(w) # Line(x) => /\ w \in cache'.has <=> w \in cache.has
                                 /\ w \in cache'.new <=> w \in cache.new
<1>1. /\ enabled = "on" /\ enabled' = "on" /\ x \notin InFlight /\ x \notin cache.has
      /\ UNCHANGED <<memory, dirty, pending, ahead, job>>
      /\ cache' = Over(cache, Copy(WordsOf(Line(x)), ProcessorView))
  BY DEF Load
<1>2. w \in WordsOf(Line(x)) <=> Line(w) = Line(x)
  BY LineOf, InLine
<1>3. Line(w) = Line(x) => w \notin cache.has
  BY <1>1 DEF CacheTyped
<1>4. /\ cache'.has = cache.has \cup WordsOf(Line(x))
      /\ cache'.new = (cache.new \ WordsOf(Line(x))) \cup (WordsOf(Line(x)) \cap ProcessorView)
  BY <1>1 DEF Over, Copy
<1> QED
  BY <1>1, <1>2, <1>3, <1>4

LEMMA Stored ==
  ASSUME CacheTyped, PlacesTyped, NEW x \in Words, Store(x), NEW w \in Words
  PROVE  /\ enabled = "on" /\ enabled' = "on" /\ x \notin InFlight /\ UNCHANGED job
         /\ cache'.has = cache.has /\ dirty \subseteq dirty'
         /\ Line(x) \in dirty' <=> x \in cache.has
         /\ \A m \in Masters : ahead'[m].has = ahead[m].has
         /\ \A d \in Devices : pending'[d].has = pending[d].has
         /\ w # x => /\ w \in memory' <=> w \in memory
                     /\ w \in cache'.new <=> w \in cache.new
                     /\ \A m \in Masters : /\ w \in pending'[m].has <=> w \in pending[m].has
                                           /\ w \in pending'[m].new <=> w \in pending[m].new
                                           /\ w \in ahead'[m].new <=> w \in ahead[m].new
         /\ w = x /\ w \in cache.has => w \in cache'.new
         /\ w = x /\ w \notin cache.has => w \in pending'["arm"].new /\ w \in pending'["arm"].has
<1>0. /\ "arm" \in Masters /\ cache \in Copies /\ \A d \in Devices : d \in Masters /\ d # "arm"
      /\ \A m \in Masters : pending[m] \in Copies /\ ahead[m] \in Copies
  BY Masterly DEF CacheTyped
<1>1. /\ enabled = "on" /\ enabled' = "on" /\ x \notin InFlight /\ UNCHANGED job
      /\ cache' = IF x \in cache.has THEN [cache EXCEPT !.new = @ \cup {x}] ELSE cache
      /\ dirty' = IF x \in cache.has THEN dirty \cup {Line(x)} ELSE dirty
      /\ memory' = memory \ {x}
      /\ \A m \in Masters : ahead'[m] = Older(ahead[m], {x})
      /\ \A m \in Masters : pending'[m] = IF m = "arm" /\ x \notin cache.has
                                          THEN Over(pending[m], [has |-> {x}, new |-> {x}])
                                          ELSE Older(pending[m], {x})
  BY DEF Store
<1>2. /\ cache'.has = cache.has
      /\ cache'.new = IF x \in cache.has THEN cache.new \cup {x} ELSE cache.new
  BY <1>0, <1>1 DEF Copies
<1>3. x \notin cache.has => Line(x) \notin dirty
  BY DEF CacheTyped
<1>4. ASSUME NEW m \in Masters
      PROVE  ahead'[m].has = ahead[m].has /\ ahead'[m].new = ahead[m].new \ {x}
  <2>1. ahead'[m] = Older(ahead[m], {x})
    BY <1>1
  <2> QED
    BY <1>0, <2>1, OlderIs
<1>5. ASSUME NEW m \in Masters, m # "arm" \/ x \in cache.has
      PROVE  pending'[m].has = pending[m].has /\ pending'[m].new = pending[m].new \ {x}
  <2>1. pending'[m] = Older(pending[m], {x})
    BY <1>1, <1>5
  <2> QED
    BY <1>0, <2>1, OlderIs
<1>6. ASSUME x \notin cache.has
      PROVE  /\ pending'["arm"].has = pending["arm"].has \cup {x}
             /\ pending'["arm"].new = (pending["arm"].new \ {x}) \cup {x}
  <2>1. pending'["arm"] = Over(pending["arm"], [has |-> {x}, new |-> {x}])
    BY <1>0, <1>1, <1>6
  <2> QED
    BY <2>1 DEF Over
<1>7. \A m \in Masters : w # x => /\ w \in pending'[m].has <=> w \in pending[m].has
                                  /\ w \in pending'[m].new <=> w \in pending[m].new
  BY <1>5, <1>6
<1> QED
  BY <1>0, <1>1, <1>2, <1>3, <1>4, <1>5, <1>6, <1>7

LEMMA Evicted ==
  ASSUME CacheTyped, PlacesTyped, NEW l \in Lines, Evict(l), NEW w \in Words
  PROVE  /\ enabled = "on" /\ enabled' = "on" /\ UNCHANGED <<memory, ahead, job>>
         /\ \A d \in Devices : pending'[d] = pending[d]
         /\ Line(w) # l => /\ w \in cache'.has <=> w \in cache.has
                           /\ w \in cache'.new <=> w \in cache.new
                           /\ Line(w) \in dirty' <=> Line(w) \in dirty
                           /\ w \in pending'["arm"].has <=> w \in pending["arm"].has
                           /\ w \in pending'["arm"].new <=> w \in pending["arm"].new
         /\ Line(w) = l => /\ w \in cache.has /\ w \notin cache'.has /\ Line(w) \notin dirty'
                           /\ Line(w) \notin dirty => pending'["arm"] = pending["arm"]
                           /\ Line(w) \in dirty => /\ w \in pending'["arm"].has
                                                   /\ w \in pending'["arm"].new <=> w \in cache.new
<1>0. /\ "arm" \in Masters /\ \A d \in Devices : d \in Masters /\ d # "arm"
      /\ pending \in [Masters -> Copies]
  BY Masterly DEF PlacesTyped
<1>1. w \in WordsOf(l) <=> Line(w) = l
  BY InLine
<1>2. /\ enabled = "on" /\ enabled' = "on" /\ UNCHANGED <<memory, ahead, job>>
      /\ WordsOf(l) \subseteq cache.has /\ dirty' = dirty \ {l}
      /\ cache'.has = cache.has \ WordsOf(l) /\ cache'.new = cache.new \ WordsOf(l)
      /\ pending' = IF l \in dirty
                THEN [pending EXCEPT !["arm"] =
                        Over(@, [has |-> WordsOf(l), new |-> cache.new \cap WordsOf(l)])]
                ELSE pending
  BY DEF Evict, Without
<1>3. /\ \A d \in Devices : pending'[d] = pending[d]
      /\ l \notin dirty => pending'["arm"] = pending["arm"]
      /\ l \in dirty =>
           /\ pending'["arm"].has = pending["arm"].has \cup WordsOf(l)
           /\ pending'["arm"].new = (pending["arm"].new \ WordsOf(l)) \cup (cache.new \cap WordsOf(l))
  BY <1>0, <1>2 DEF Over
<1> QED
  BY <1>1, <1>2, <1>3

\* Calling a flush, an invalidation or a handing over of the bus.
FlushCall(c) ==
  \E ls \in SUBSET Lines :
    /\ Doing(c) \in {"flush", "flushall"} /\ DrainWriteBuffer(ls)
    /\ \A w \in Span(job[c].kind) : Line(w) \in ls
    /\ cache' = cache /\ ahead' = [ahead EXCEPT !["arm"] = Empty]
InvalidateCall(c) ==
  /\ Doing(c) = "inval" /\ job[c].kind \in Incoming
  /\ \A w \in Words :
       /\ w \in cache'.has <=> w \in cache.has /\ w \notin Span(job[c].kind)
       /\ w \in cache'.new <=> w \in cache.new /\ w \notin Span(job[c].kind)
       /\ Line(w) \in dirty' <=> Line(w) \in dirty /\ w \notin Span(job[c].kind)
  /\ memory' = memory /\ pending' = pending /\ ahead' = [ahead EXCEPT !["arm"] = Empty]
ToCall(c) ==
  /\ Doing(c) = "to" /\ UNCHANGED <<memory, cache, dirty, pending>>
  /\ ahead' = [ahead EXCEPT ![Device[job[c].kind]] = Empty, !["arm"] = Empty]
FromCall(c) ==
  /\ Doing(c) = "from" /\ UNCHANGED <<cache, dirty>>
  /\ memory' = Written(memory, pending[Device[job[c].kind]])
  /\ pending' = [pending EXCEPT ![Device[job[c].kind]] = Empty]
  /\ ahead' = [ahead EXCEPT !["arm"] = Empty]
ToArmCall(c) ==
  /\ Doing(c) = "toarm" /\ UNCHANGED <<memory, cache, dirty, pending>>
  /\ ahead' = [ahead EXCEPT !["arm"] = Empty]

LEMMA Called ==
  ASSUME CacheTyped, PlacesTyped, Jobs, NEW c \in Contexts, Call(c)
  PROVE  /\ enabled = "on" /\ enabled' = "on" /\ job[c].todo # <<>> /\ Advance(c)
         /\ job[c].kind \in Kinds /\ job[c].kind # "none"
         /\ job[c].todo \in Rests[job[c].kind] /\ Doing(c) = Head(job[c].todo)
         /\ \/ FlushCall(c) \/ InvalidateCall(c) \/ ToCall(c) \/ FromCall(c) \/ ToArmCall(c)
<1> DEFINE k == job[c].kind  ls == Entries(Buffer[k].start, Buffer[k].size)
<1>1. job[c].todo # <<>> /\ enabled = "on" /\ enabled' = "on" /\ Advance(c)
  BY AtIs DEF Call
<1>2. job[c] # NoJob
  BY <1>1 DEF NoJob
<1>3. k \in Kinds /\ k # "none" /\ job[c].todo \in Rests[k] /\ Doing(c) = Head(job[c].todo)
  BY <1>2, JobNow
<1>4. /\ ls \subseteq Lines /\ \A w \in Span(k) : w \in Words /\ Line(w) \in ls
      /\ k \in Incoming => \A w \in Words : Line(w) \in ls => w \in Span(k)
  BY <1>3, EntriesOf
<1>arm. [ahead EXCEPT !["arm"] = Empty, !["arm"] = Empty] = [ahead EXCEPT !["arm"] = Empty]
  BY DEF PlacesTyped
<1>5. CASE At(c, "flush") /\ DcFlushRange(Buffer[k])
  <2> DEFINE fs == IF Buffer[k].size > FlushLimit THEN Lines ELSE ls
  <2>1. /\ DrainWriteBuffer(fs) /\ cache' = cache
        /\ ahead' = [ahead EXCEPT !["arm"] = Empty] /\ Doing(c) = "flush"
    BY <1>5, AtIs DEF DcFlushRange
  <2>2. fs \subseteq Lines /\ \A w \in Span(k) : Line(w) \in fs
    BY <1>4, LineOf
  <2> HIDE DEF fs
  <2> QED
    BY <1>1, <1>3, <2>1, <2>2 DEF FlushCall
<1>6. CASE At(c, "flushall") /\ DcFlushAll
  <2>1. /\ DrainWriteBuffer(Lines) /\ cache' = cache
        /\ ahead' = [ahead EXCEPT !["arm"] = Empty] /\ Doing(c) = "flushall"
    BY <1>6, AtIs DEF DcFlushAll
  <2>2. \A w \in Span(k) : Line(w) \in Lines
    BY <1>4
  <2> QED
    BY <1>1, <1>3, <2>1, <2>2 DEF FlushCall
<1>7. CASE At(c, "inval") /\ DcInvalidateRange(Buffer[k])
  <2>1. Doing(c) = "inval" /\ k \in Incoming
    BY <1>3, <1>7, AtIs, CallsFollow
  <2>2. \A w \in Words : w \in WordsIn(ls) <=> w \in Span(k)
    BY <1>4, <2>1, InLines
  <2>3. \A w \in Words : Line(w) \in ls <=> w \in Span(k)
    BY <1>4, <2>1
  <2>4. /\ cache'.has = cache.has \ WordsIn(ls) /\ cache'.new = cache.new \ WordsIn(ls)
        /\ dirty' = dirty \ ls /\ memory' = memory /\ pending' = pending
        /\ ahead' = [ahead EXCEPT !["arm"] = Empty]
    BY <1>7, <1>arm DEF DcInvalidateRange, Without, AhbFlushTo
  <2> HIDE DEF ls
  <2> QED
    BY <1>1, <1>3, <2>1, <2>2, <2>3, <2>4 DEF InvalidateCall
<1>8. CASE At(c, "to") /\ AhbFlushTo(Device[k]) /\ UNCHANGED <<memory, cache, dirty, pending>>
  BY <1>1, <1>3, <1>8, AtIs DEF AhbFlushTo, ToCall
<1>9. CASE At(c, "from") /\ AhbFlushFrom(Device[k])
  BY <1>1, <1>3, <1>9, AtIs DEF AhbFlushFrom, FromCall
<1>10. CASE At(c, "toarm") /\ AhbFlushTo("arm") /\ UNCHANGED <<memory, cache, dirty, pending>>
  BY <1>1, <1>3, <1>10, <1>arm, AtIs DEF AhbFlushTo, ToArmCall
<1> QED
  BY <1>5, <1>6, <1>7, <1>8, <1>9, <1>10 DEF Call

\* A transfer's step on words in memory.
LEMMA Transferred ==
  ASSUME CacheTyped, PlacesTyped, Jobs, NEW c \in Contexts, NEW l \in Lines, Transfer(c, l),
         NEW w \in Words
  PROVE  LET k == job[c].kind  ws == job[c].left \cap WordsOf(l) IN
         /\ enabled' = enabled /\ dirty' = dirty /\ k \in Kinds /\ k # "none"
         /\ ws \subseteq Span(k) /\ job'[c].left = job[c].left \ ws /\ Doing(c) = "run"
         /\ \A d \in Contexts : /\ job'[d].kind = job[d].kind /\ Doing(d)' = Doing(d)
                                /\ d # c => job'[d] = job[d]
         /\ cache'.has = cache.has
         /\ \A m \in Masters : ahead'[m].has = ahead[m].has
         /\ w \notin ws \/ k \notin Incoming =>
              /\ w \in memory' <=> w \in memory
              /\ w \in cache'.new <=> w \in cache.new
              /\ \A m \in Masters : /\ w \in pending'[m].has <=> w \in pending[m].has
                                    /\ w \in pending'[m].new <=> w \in pending[m].new
                                    /\ w \in ahead'[m].new <=> w \in ahead[m].new
         /\ w \in ws /\ k \in Incoming =>
              /\ w \in pending'[Device[k]].has /\ w \in pending'[Device[k]].new
              /\ \A m \in Masters \ {Device[k]} : w \in pending'[m].has <=> w \in pending[m].has
<1> DEFINE k == job[c].kind  ws == job[c].left \cap WordsOf(l)
<1>1. /\ Jobs' /\ job[c] # NoJob /\ Doing(c) = "run"
      /\ \A d \in Contexts : /\ job'[d].kind = job[d].kind /\ Doing(d)' = Doing(d)
                             /\ d # c => job'[d] = job[d]
      /\ job'[c].left = job[c].left \ WordsOf(l)
  BY TransferJobs
<1>2. k \in Kinds /\ k # "none" /\ ws \subseteq Span(k)
  BY <1>1, JobNow
<1>3. Device[k] \in Masters
  BY <1>2, DeviceIs
<1>4. /\ enabled' = enabled /\ dirty' = dirty
      /\ k \notin Incoming => UNCHANGED <<memory, cache, pending, ahead>>
      /\ k \in Incoming =>
           /\ memory' = memory \ ws /\ cache' = Older(cache, ws)
           /\ \A m \in Masters : ahead'[m] = Older(ahead[m], ws)
           /\ \A m \in Masters : m # Device[k] => pending'[m] = Older(pending[m], ws)
           /\ pending'[Device[k]] = Over(pending[Device[k]], Copy(ws, ws))
  BY <1>3 DEF Transfer
<1>5. job'[c].left = job[c].left \ ws
  BY <1>1
<1> HIDE DEF k, ws
<1>6. CASE k \notin Incoming
  BY <1>1, <1>2, <1>4, <1>5, <1>6 DEF k, ws
<1>7. CASE k \in Incoming
  <2>1. cache'.has = cache.has /\ cache'.new = cache.new \ ws
    BY <1>4, <1>7, OlderIs DEF CacheTyped
  <2>2. ASSUME NEW m \in Masters
        PROVE  ahead'[m].has = ahead[m].has /\ ahead'[m].new = ahead[m].new \ ws
    <3>1. ahead'[m] = Older(ahead[m], ws) /\ ahead[m] \in Copies
      BY <1>4, <1>7, Masterly
    <3> QED
      BY <3>1, OlderIs
  <2>3. ASSUME NEW m \in Masters, m # Device[k]
        PROVE  pending'[m].has = pending[m].has /\ pending'[m].new = pending[m].new \ ws
    <3>1. pending'[m] = Older(pending[m], ws) /\ pending[m] \in Copies
      BY <1>4, <1>7, <2>3, Masterly
    <3> QED
      BY <3>1, OlderIs
  <2>4. /\ pending'[Device[k]].has = pending[Device[k]].has \cup ws
        /\ pending'[Device[k]].new = (pending[Device[k]].new \ ws) \cup ws
    BY <1>4, <1>7 DEF Over, Copy
  <2>5. w \notin ws => \A m \in Masters : /\ w \in pending'[m].has <=> w \in pending[m].has
                                          /\ w \in pending'[m].new <=> w \in pending[m].new
    BY <2>3, <2>4
  <2> QED
    BY <1>1, <1>2, <1>3, <1>4, <1>5, <1>7, <2>1, <2>2, <2>3, <2>4, <2>5 DEF k, ws
<1> QED
  BY <1>6, <1>7

-----------------------------------------------------------------------------
(***************************************************************************)
(* Where the latest value of each word is.                                 *)
(***************************************************************************)
\* A word is live unless a device is to write it. The latest value of a live word
\* is in the cache; or in the write buffer or in memory, unless its line is dirty;
\* and what is read ahead is that value, or is hidden by one of them.
Live(w) == \A c \in Contexts :
             job[c].kind \in Incoming /\ Doing(c) # "flush" => w \notin Span(job[c].kind)
Kept(w) ==
  /\ enabled = "on" /\ w \in cache.has => w \in cache.new
  /\ w \in pending["arm"].has => w \in pending["arm"].new \/ Line(w) \in dirty
  /\ w \in memory \cup pending["arm"].has \/ Line(w) \in dirty
  /\ w \in ahead["arm"].has =>
       w \in ahead["arm"].new \cup pending["arm"].has \/ Line(w) \in dirty
LiveKept == \A w \in Words : Live(w) => Kept(w)

\* What a device is to take is in memory once it was flushed, nothing older is on
\* its way there, and after the device was told nothing older is read ahead for it.
Flushed(c) == job[c].kind \in Outgoing /\ Doing(c) \notin {"flush", "flushall"}
Sent(c, w) ==
  /\ w \in memory /\ (w \in cache.has => w \in cache.new)
  /\ w \in pending["arm"].has => w \in pending["arm"].new
  /\ w \notin pending[Device[job[c].kind]].has
  /\ Doing(c) \in {"start", "run"} =>
       (w \in ahead[Device[job[c].kind]].has => w \in ahead[Device[job[c].kind]].new)
SentKept == \A c \in Contexts : Flushed(c) => \A w \in job[c].left : Sent(c, w)

\* Where a device writes, the cache holds nothing after it was invalidated, and the
\* write buffer nothing once the device runs; what was written is the latest.
Received(c, w) ==
  /\ Doing(c) \in {"to", "start", "run", "from", "toarm"} => w \notin cache.has
  /\ Doing(c) \in {"run", "from", "toarm"} =>
       /\ w \notin pending["arm"].has
       /\ w \in job[c].left \/ w \in pending[Device[job[c].kind]].new
            \/ w \in memory \ pending[Device[job[c].kind]].has
ReceivedKept ==
  \A c \in Contexts : job[c].kind \in Incoming =>
                        \A w \in Span(job[c].kind) : Received(c, w)

\* A device has writes under way only of words that it has just delivered.
Posted ==
  \A d \in Devices : \A w \in pending[d].has :
    \E c \in Contexts : /\ job[c].kind \in Incoming /\ Device[job[c].kind] = d
                        /\ w \in Span(job[c].kind) \ job[c].left
                        /\ Doing(c) \in {"run", "from"}

\* The PowerPC has nothing read ahead; before the cache is on nothing has happened.
AtRest ==
  /\ ahead["ppc"] = Empty
  /\ enabled = "boot" =>
       /\ memory = Words /\ \A c \in Contexts : job[c] = NoJob
       /\ \A m \in Masters : pending[m] = Empty /\ ahead[m].has \subseteq ahead[m].new

IInv == /\ TypeOK /\ Jobs /\ LiveKept /\ SentKept /\ ReceivedKept /\ Posted /\ AtRest

-----------------------------------------------------------------------------
(***************************************************************************)
(* The parts of the invariant.                                             *)
(***************************************************************************)
LEMMA AtRestInit == Init => AtRest
BY ContextsAre DEF Init, AtRest, Empty, Masters, Devices

LEMMA AtRestStep ==
  ASSUME PlacesTyped, AtRest, [Next]_vars
  PROVE  AtRest'
<1>0. /\ ahead["ppc"] = Empty /\ "ppc" \in Masters /\ "arm" \in Masters
      /\ ahead \in [Masters -> Copies] /\ pending \in [Masters -> Copies]
  BY DEF AtRest, PlacesTyped, Masters, Devices
<1>off. ASSUME ahead'["ppc"] = Empty, enabled' # "boot" PROVE AtRest'
  BY <1>off DEF AtRest
<1>none. ASSUME NEW c \in Contexts, job[c].todo # <<>> PROVE enabled # "boot"
  BY <1>none DEF AtRest, NoJob
<1>1. ASSUME NEW m \in Masters, NEW l \in Lines, ReadAhead(m, l) PROVE AtRest'
  <2>1. m # "ppc"
    <3> SUFFICES ASSUME m = "ppc" PROVE FALSE
      OBVIOUS
    <3>1. ReadBy("ppc") = {}
      BY DEF ReadBy, Outgoing, Device
    <3> QED
      BY <1>1, <3>1 DEF ReadAhead
  <2>2. ahead'["ppc"] = Empty
    BY <1>0, <1>1, <2>1 DEF ReadAhead
  <2>3. enabled = "boot" => \A n \in Masters : ahead'[n].has \subseteq ahead'[n].new
    <3> SUFFICES ASSUME enabled = "boot", NEW n \in Masters
                 PROVE  ahead'[n].has \subseteq ahead'[n].new
      OBVIOUS
    <3>1. memory = Words /\ ahead[n].has \subseteq ahead[n].new
      BY DEF AtRest
    <3>2. WordsOf(l) \subseteq Words
      BY InLine
    <3> QED
      BY <1>0, <1>1, <3>1, <3>2 DEF ReadAhead, Copy
  <2> QED
    BY <1>1, <2>2, <2>3 DEF AtRest, ReadAhead
<1>2. ASSUME NEW m \in Masters, Post(m) PROVE AtRest'
  <2>1. enabled # "boot"
    BY <1>2 DEF AtRest, Post, Empty
  <2>2. ahead'["ppc"] = Empty /\ enabled' = enabled
    BY <1>0, <1>2 DEF Post
  <2> QED
    BY <1>off, <2>1, <2>2
<1>3. ASSUME NEW l \in Lines, Evict(l) PROVE AtRest'
  BY <1>0, <1>3, <1>off DEF Evict
<1>4. ASSUME NEW w \in Words, Load(w) PROVE AtRest'
  BY <1>0, <1>4, <1>off DEF Load
<1>older. ASSUME NEW ws PROVE Older(Empty, ws) = Empty
  BY DEF Older, Empty
<1>5. ASSUME NEW w \in Words, Store(w) PROVE AtRest'
  BY <1>0, <1>5, <1>off, <1>older DEF Store
<1>6. ASSUME NEW c \in Contexts, NEW k \in Kinds, Begin(c, k) PROVE AtRest'
  BY <1>0, <1>6, <1>off DEF Begin
<1>7. ASSUME NEW c \in Contexts, StartDevice(c) PROVE AtRest'
  BY <1>0, <1>7, <1>off DEF StartDevice, At
<1>8. ASSUME NEW c \in Contexts, Call(c) PROVE AtRest'
  <2>1. enabled' = "on"
    BY <1>8 DEF Call, At
  <2>2. ahead'["ppc"] = Empty
    BY <1>0, <1>8 DEF Call, DcFlushRange, DcFlushAll, DcInvalidateRange, AhbFlushTo, AhbFlushFrom
  <2> QED
    BY <1>off, <2>1, <2>2
<1>9. ASSUME NEW c \in Contexts, Complete(c) PROVE AtRest'
  BY <1>0, <1>9, <1>off DEF Complete, At
<1>10. ASSUME NEW c \in Contexts, NEW l \in Lines, Transfer(c, l) PROVE AtRest'
  <2>1. enabled # "boot" /\ enabled' = enabled
    BY <1>10, <1>none DEF Transfer
  <2>2. ahead'["ppc"] = Empty
    BY <1>0, <1>10, <1>older DEF Transfer
  <2> QED
    BY <1>off, <2>1, <2>2
<1>11. CASE MemInitialize
  BY <1>0, <1>11, <1>off DEF MemInitialize
<1>12. CASE MemShutdown
  BY <1>0, <1>12, <1>off DEF MemShutdown
<1>13. CASE UNCHANGED vars
  BY <1>13 DEF vars, AtRest
<1> QED
  BY <1>1, <1>2, <1>3, <1>4, <1>5, <1>6, <1>7, <1>8, <1>9, <1>10, <1>11, <1>12, <1>13,
     ContextsAre DEF Next, Bus, Accesses, Transfers

-----------------------------------------------------------------------------
LEMMA PostedInit == Init => Posted
BY DEF Init, Posted, Empty, Masters, Devices

\* A word that a device has under way belongs to the transfer of that device, which
\* is still to be reported; no other transfer has that word.
LEMMA UnderWay ==
  ASSUME Jobs, Posted, NEW d \in Devices, NEW w \in pending[d].has
  PROVE  \E c \in Contexts :
           /\ job[c].kind \in Incoming /\ job[c].kind # "none" /\ Device[job[c].kind] = d
           /\ w \in Span(job[c].kind) /\ w \notin job[c].left /\ Doing(c) \in {"run", "from"}
           /\ \A b \in Contexts : b # c /\ job[b].kind # "none" =>
                w \notin Span(job[b].kind) /\ Device[job[b].kind] # d
<1>1. PICK c \in Contexts : /\ job[c].kind \in Incoming /\ Device[job[c].kind] = d
                            /\ w \in Span(job[c].kind) \ job[c].left
                            /\ Doing(c) \in {"run", "from"}
  BY DEF Posted
<1>2. job[c].kind # "none"
  BY <1>1 DEF Incoming
<1>3. \A b \in Contexts : b # c /\ job[b].kind # "none" =>
                w \notin Span(job[b].kind) /\ Device[job[b].kind] # d
  BY <1>1, <1>2, Apart
<1> QED
  BY <1>1, <1>2, <1>3

LEMMA PostedStep ==
  ASSUME PlacesTyped, Jobs, Posted, [Next]_vars
  PROVE  Posted'
<1>0. /\ pending \in [Masters -> Copies] /\ "arm" \in Masters
      /\ \A d \in Devices : d \in Masters /\ d # "arm" /\ pending[d] \in Copies
      /\ Empty.has = {}
  BY Masterly DEF PlacesTyped, Empty
<1>same. ASSUME UNCHANGED job, \A d \in Devices : pending'[d].has \subseteq pending[d].has
         PROVE  Posted'
  BY <1>same DEF Posted, Doing
\* A transfer that goes on: what its device has under way stays under way to "from".
<1>go. ASSUME NEW c \in Contexts, job[c].todo # <<>>, Advance(c), job[c].kind \in Kinds,
              \A d \in Devices : pending'[d].has \subseteq pending[d].has,
              \/ Doing(c) \notin {"run", "from"} \/ job[c].kind \notin Incoming
              \/ Doing(c) = "run"
              \/ pending'[Device[job[c].kind]].has = {}
       PROVE  Posted'
  <2>1. \A b \in Contexts : b # c => job'[b] = job[b] /\ Doing(b)' = Doing(b)
    BY <1>go, AdvancedParts
  <2>2. Doing(c) = "run" /\ job[c].kind \in Incoming =>
          Doing(c)' = "from" /\ job'[c].kind = job[c].kind /\ job'[c].left = job[c].left
    <3>1. job[c] # NoJob
      BY <1>go DEF NoJob
    <3>2. job[c].todo \in Rests[job[c].kind] /\ Doing(c) = Head(job[c].todo)
      BY <3>1, JobNow
    <3>3. Doing(c) = "run" /\ job[c].kind \in Incoming => After[job[c].kind][Doing(c)] = "from"
      BY <1>go, <3>2, CallsFollow DEF Incoming
    <3> QED
      BY <1>go, <3>3, AdvancedParts
  <2> SUFFICES ASSUME NEW d \in Devices, NEW w \in pending'[d].has
               PROVE  \E b \in Contexts :
                        /\ job'[b].kind \in Incoming /\ Device[job'[b].kind] = d
                        /\ w \in Span(job'[b].kind) \ job'[b].left
                        /\ Doing(b)' \in {"run", "from"}
    BY DEF Posted
  <2>3. PICK b \in Contexts : /\ job[b].kind \in Incoming /\ Device[job[b].kind] = d
                              /\ w \in Span(job[b].kind) \ job[b].left
                              /\ Doing(b) \in {"run", "from"}
    BY <1>go DEF Posted
  <2>4. CASE b # c
    BY <2>1, <2>3, <2>4
  <2>5. CASE b = c
    <3>1. Doing(c) = "run"
      BY <1>go, <2>3, <2>5
    <3> QED
      BY <2>2, <2>3, <2>5, <3>1
  <2> QED
    BY <2>4, <2>5
<1>1. ASSUME NEW m \in Masters, NEW l \in Lines, ReadAhead(m, l) PROVE Posted'
  BY <1>1, <1>same DEF ReadAhead
<1>2. ASSUME NEW m \in Masters, Post(m) PROVE Posted'
  <2>1. \A d \in Devices : pending'[d].has \subseteq pending[d].has
    BY <1>0, <1>2 DEF Post
  <2> QED
    BY <1>2, <1>same, <2>1 DEF Post
<1>3. ASSUME NEW l \in Lines, Evict(l) PROVE Posted'
  <2>1. \A d \in Devices : pending'[d] = pending[d]
    BY <1>0, <1>3 DEF Evict
  <2> QED
    BY <1>3, <1>same, <2>1 DEF Evict
<1>4. ASSUME NEW w \in Words, Load(w) PROVE Posted'
  BY <1>4, <1>same DEF Load
<1>5. ASSUME NEW w \in Words, Store(w) PROVE Posted'
  <2>1. \A d \in Devices : pending'[d].has = pending[d].has
    BY <1>0, <1>5, OlderAll DEF Store
  <2> QED
    BY <1>5, <1>same, <2>1 DEF Store
<1>6. ASSUME NEW c \in Contexts, NEW k \in Kinds, Begin(c, k) PROVE Posted'
  <2>1. /\ job[c] = NoJob /\ pending' = pending
        /\ \A d \in Contexts : d # c => job'[d] = job[d] /\ Doing(d)' = Doing(d)
    BY <1>6, BeginJobs DEF Begin
  <2>2. job[c].kind \notin Incoming
    BY <2>1, JobNone
  <2> QED
    BY <2>1, <2>2 DEF Posted
<1>7. ASSUME NEW c \in Contexts, StartDevice(c) PROVE Posted'
  <2>1. \A d \in Devices : pending'[d] = pending[d]
    BY <1>0, <1>7 DEF StartDevice, DrainWriteBuffer
  <2>2. job[c].todo # <<>> /\ Doing(c) = "start" /\ Advance(c)
    BY <1>7, AtIs DEF StartDevice
  <2>3. job[c].kind \in Kinds
    BY <2>2, JobNow DEF NoJob
  <2> QED
    BY <1>go, <2>1, <2>2, <2>3
<1>8. ASSUME NEW c \in Contexts, Call(c) PROVE Posted'
  <2>1. job[c].todo # <<>> /\ Advance(c) /\ Doing(c) \in {"flush", "flushall", "inval", "to", "from", "toarm"}
    BY <1>8, AtIs DEF Call
  <2>2. job[c].kind \in Kinds
    BY <2>1, JobNow DEF NoJob
  <2>3. CASE At(c, "from") /\ AhbFlushFrom(Device[job[c].kind])
    <3>1. Device[job[c].kind] \in Masters
      BY <2>2, DeviceIs
    <3>2. pending' = [pending EXCEPT ![Device[job[c].kind]] = Empty]
      BY <2>3 DEF AhbFlushFrom
    <3>3. pending'[Device[job[c].kind]].has = {}
      BY <1>0, <3>1, <3>2
    <3>4. \A d \in Devices : pending'[d].has \subseteq pending[d].has
      BY <1>0, <3>2
    <3> QED
      BY <1>go, <2>1, <2>2, <3>3, <3>4
  <2>4. CASE ~At(c, "from")
    <3>1. Doing(c) # "from"
      BY <1>8, <2>1, <2>4 DEF Call, At, Doing
    <3>2. \A d \in Devices : pending'[d] = pending[d]
      BY <1>0, <1>8, <2>4 DEF Call, DcFlushRange, DcFlushAll, DcInvalidateRange, AhbFlushTo,
         DrainWriteBuffer
    <3> QED
      BY <1>go, <2>1, <2>2, <3>1, <3>2
  <2>5. At(c, "from") => AhbFlushFrom(Device[job[c].kind])
    BY <1>8 DEF Call, At
  <2> QED
    BY <2>3, <2>4, <2>5
<1>9. ASSUME NEW c \in Contexts, Complete(c) PROVE Posted'
  <2>1. job[c].todo # <<>> /\ Doing(c) = "run" /\ Advance(c) /\ pending' = pending
    BY <1>9, AtIs DEF Complete
  <2>2. job[c].kind \in Kinds
    BY <2>1, JobNow DEF NoJob
  <2> QED
    BY <1>go, <2>1, <2>2
<1>10. ASSUME NEW c \in Contexts, NEW l \in Lines, Transfer(c, l) PROVE Posted'
  <2> DEFINE k == job[c].kind  ws == job[c].left \cap WordsOf(l)
  <2>1. /\ Doing(c) = "run" /\ job'[c].left = job[c].left \ ws
        /\ \A b \in Contexts : /\ job'[b].kind = job[b].kind /\ Doing(b)' = Doing(b)
                               /\ b # c => job'[b] = job[b]
        /\ ws \subseteq Span(k) /\ k \in Kinds
    BY <1>10, TransferJobs, JobNow
  <2>2. \A d \in Devices : \A w \in pending'[d].has :
          w \in pending[d].has \/ (k \in Incoming /\ d = Device[k] /\ w \in ws)
    BY <1>0, <1>10, OlderAll DEF Transfer, Over, Copy
  <2> HIDE DEF ws, k
  <2> SUFFICES ASSUME NEW d \in Devices, NEW w \in pending'[d].has
               PROVE  \E b \in Contexts :
                        /\ job'[b].kind \in Incoming /\ Device[job'[b].kind] = d
                        /\ w \in Span(job'[b].kind) \ job'[b].left
                        /\ Doing(b)' \in {"run", "from"}
    BY DEF Posted
  <2>3. CASE w \in pending[d].has
    <3>1. PICK b \in Contexts : /\ job[b].kind \in Incoming /\ Device[job[b].kind] = d
                                /\ w \in Span(job[b].kind) \ job[b].left
                                /\ Doing(b) \in {"run", "from"}
      BY <2>3 DEF Posted
    <3>2. job'[b].left \subseteq job[b].left
      BY <2>1
    <3> QED
      BY <2>1, <3>1, <3>2
  <2>4. CASE k \in Incoming /\ d = Device[k] /\ w \in ws
    BY <2>1, <2>4 DEF k
  <2> QED
    BY <2>2, <2>3, <2>4
<1>11. CASE MemInitialize
  BY <1>11, <1>same DEF MemInitialize
<1>12. CASE MemShutdown
  <2>1. \A d \in Devices : pending'[d] = pending[d]
    BY <1>0, <1>12 DEF MemShutdown, DrainWriteBuffer
  <2> QED
    BY <1>12, <1>same, <2>1 DEF MemShutdown
<1>13. CASE UNCHANGED vars
  BY <1>13, <1>same DEF vars
<1> QED
  BY <1>1, <1>2, <1>3, <1>4, <1>5, <1>6, <1>7, <1>8, <1>9, <1>10, <1>11, <1>12, <1>13,
     ContextsAre DEF Next, Bus, Accesses, Transfers

-----------------------------------------------------------------------------
LEMMA NoJobs ==
  ASSUME Jobs, AtRest, enabled = "boot", NEW c \in Contexts
  PROVE  job[c].kind \notin Incoming /\ job[c].kind \notin Outgoing
BY JobNone DEF AtRest

LEMMA ReceivedInit == Init => ReceivedKept
BY ContextsAre, JobNone DEF Init, ReceivedKept

\* A context whose transfer did not move: what the step must not have done.
LEMMA ReceivedStays ==
  ASSUME PlacesTyped, ReceivedKept, NEW c \in Contexts, job[c].kind \in Incoming,
         NEW w \in Span(job[c].kind),
         job'[c].kind = job[c].kind, Doing(c)' = Doing(c),
         w \in job'[c].left <=> w \in job[c].left,
         w \notin cache.has => w \notin cache'.has,
         w \notin cache.has /\ w \notin pending["arm"].has => w \notin pending'["arm"].has,
         w \notin cache.has /\ w \notin pending["arm"].has =>
           LET p == pending[Device[job[c].kind]]  q == pending'[Device[job[c].kind]] IN
           w \in p.new \/ (w \in memory /\ w \notin p.has) =>
             w \in q.new \/ (w \in memory' /\ w \notin q.has)
  PROVE  Received(c, w)'
BY DEF ReceivedKept, Received

LEMMA ReceivedStep ==
  ASSUME CacheTyped, PlacesTyped, Jobs, AtRest, Posted, ReceivedKept, [Next]_vars
  PROVE  ReceivedKept'
<1>0. /\ pending \in [Masters -> Copies] /\ "arm" \in Masters
      /\ \A d \in Devices : d \in Masters /\ d # "arm" /\ pending[d] \in Copies
      /\ Empty.has = {} /\ Empty.new = {}
      /\ \A k \in Incoming : k \in Kinds /\ Device[k] \in Devices /\ Span(k) \subseteq Words
  BY Masterly, DeviceIs, BufferAssumption DEF PlacesTyped, Empty, Kinds
\* The step may be looked at for one transfer and one of its words.
<1>one. ASSUME \A c \in Contexts : job'[c].kind \in Incoming =>
                 \A w \in Span(job'[c].kind) : Received(c, w)'
        PROVE  ReceivedKept'
  BY <1>one DEF ReceivedKept
\* Steps that leave the transfers alone.
<1>same. ASSUME UNCHANGED job,
           \A c \in Contexts : job[c].kind \in Incoming => \A w \in Span(job[c].kind) :
             /\ w \notin cache.has => w \notin cache'.has
             /\ w \notin cache.has /\ w \notin pending["arm"].has => w \notin pending'["arm"].has
             /\ w \notin cache.has /\ w \notin pending["arm"].has =>
                  LET p == pending[Device[job[c].kind]]  q == pending'[Device[job[c].kind]] IN
                  w \in p.new \/ (w \in memory /\ w \notin p.has) =>
                    w \in q.new \/ (w \in memory' /\ w \notin q.has)
         PROVE  ReceivedKept'
  <2> SUFFICES ASSUME NEW c \in Contexts, job'[c].kind \in Incoming,
                      NEW w \in Span(job'[c].kind)
               PROVE  Received(c, w)'
    BY <1>one
  <2>1. job' = job /\ Doing(c)' = Doing(c)
    BY <1>same DEF Doing
  <2> QED
    BY <1>same, <2>1, ReceivedStays
<1>1. ASSUME NEW m \in Masters, NEW l \in Lines, ReadAhead(m, l) PROVE ReceivedKept'
  BY <1>1, <1>same DEF ReadAhead
<1>2. ASSUME NEW m \in Masters, Post(m) PROVE ReceivedKept'
  <2> SUFFICES ASSUME NEW c \in Contexts, job[c].kind \in Incoming, NEW w \in Span(job[c].kind)
        PROVE  /\ w \notin pending["arm"].has => w \notin pending'["arm"].has
               /\ w \notin pending["arm"].has =>
                    LET p == pending[Device[job[c].kind]]  q == pending'[Device[job[c].kind]] IN
                    w \in p.new \/ (w \in memory /\ w \notin p.has) =>
                      w \in q.new \/ (w \in memory' /\ w \notin q.has)
    BY <1>2, <1>same DEF Post
  <2> DEFINE d == Device[job[c].kind]
  <2>1. /\ d \in Masters /\ memory' = Written(memory, pending[m])
        /\ pending' = [pending EXCEPT ![m] = Empty]
    BY <1>0, <1>2 DEF Post
  <2>2. CASE m = d
    BY <1>0, <2>1, <2>2 DEF Written
  <2>3. CASE m # d /\ m = "arm"
    BY <1>0, <2>1, <2>3 DEF Written
  <2>4. CASE m # d /\ m # "arm"
    <3>1. m \in Devices
      BY <2>4, Masterly
    <3>2. w \notin pending[m].has
      <4>1. job[c].kind # "none"
        BY DEF Incoming
      <4> QED
        BY <2>4, <3>1, <4>1, UnderWay
    <3>3. w \notin pending[m].new
      BY <1>0, <3>1, <3>2, CopyParts
    <3> QED
      BY <1>0, <2>1, <2>4, <3>2, <3>3 DEF Written
  <2> QED
    BY <2>2, <2>3, <2>4
<1>3. ASSUME NEW l \in Lines, Evict(l) PROVE ReceivedKept'
  <2> SUFFICES ASSUME NEW c \in Contexts, job[c].kind \in Incoming, NEW w \in Span(job[c].kind)
        PROVE  /\ w \notin cache.has => w \notin cache'.has /\ Line(w) # l
               /\ w \notin cache.has /\ w \notin pending["arm"].has => w \notin pending'["arm"].has
               /\ pending'[Device[job[c].kind]] = pending[Device[job[c].kind]] /\ memory' = memory
               /\ job' = job
    BY <1>3, <1>same DEF Evict
  <2>1. w \in Words /\ Device[job[c].kind] \in Devices
    BY <1>0
  <2> QED
    BY <1>3, <2>1, Evicted
<1>4. ASSUME NEW x \in Words, Load(x) PROVE ReceivedKept'
  <2>1. UNCHANGED <<memory, pending, job>>
    BY <1>4 DEF Load
  <2> SUFFICES ASSUME NEW c \in Contexts, job[c].kind \in Incoming, NEW w \in Span(job[c].kind)
               PROVE  w \notin cache.has => w \notin cache'.has
    BY <1>same, <2>1
  <2>2. w \in Words /\ x \notin InFlight /\ job[c].kind # "none"
    BY <1>0, <1>4 DEF Load, Incoming
  <2>3. Line(w) # Line(x)
    BY <2>2, KeptOff
  <2> QED
    BY <1>4, <2>2, <2>3, Loaded
<1>5. ASSUME NEW x \in Words, Store(x) PROVE ReceivedKept'
  <2>1. job' = job /\ x \notin InFlight
    BY <1>5 DEF Store
  <2> SUFFICES ASSUME NEW c \in Contexts, job[c].kind \in Incoming, NEW w \in Span(job[c].kind)
        PROVE  /\ w \notin cache.has => w \notin cache'.has
               /\ w \notin pending["arm"].has => w \notin pending'["arm"].has
               /\ LET p == pending[Device[job[c].kind]]  q == pending'[Device[job[c].kind]] IN
                  w \in p.new \/ (w \in memory /\ w \notin p.has) =>
                    w \in q.new \/ (w \in memory' /\ w \notin q.has)
    BY <1>same, <2>1
  <2>2. w \in Words /\ job[c].kind # "none" /\ Device[job[c].kind] \in Masters
    BY <1>0 DEF Incoming
  <2>3. w # x
    BY <2>1, <2>2, KeptOff
  <2> QED
    BY <1>0, <1>5, <2>2, <2>3, Stored
<1>6. ASSUME NEW b \in Contexts, NEW k \in Kinds, Begin(b, k) PROVE ReceivedKept'
  <2> SUFFICES ASSUME NEW c \in Contexts, job'[c].kind \in Incoming, NEW w \in Span(job'[c].kind)
               PROVE  Received(c, w)'
    BY <1>one
  <2>1. UNCHANGED <<memory, cache, pending>>
    BY <1>6 DEF Begin
  <2>2. CASE c = b
    <3>1. Doing(c)' \in {"inval", "flushall", "flush"}
      BY <1>6, <2>2, BeginJobs
    <3> QED
      BY <3>1 DEF Received
  <2>3. CASE c # b
    <3>1. job'[c] = job[c] /\ Doing(c)' = Doing(c)
      BY <1>6, <2>3, BeginJobs
    <3> QED
      BY <2>1, <3>1, ReceivedStays
  <2> QED
    BY <2>2, <2>3
<1>drain. ASSUME NEW ls \in SUBSET Lines, DrainWriteBuffer(ls), NEW w \in Words, w \notin cache.has
          PROVE  /\ w \notin pending'["arm"].has /\ \A d \in Devices : pending'[d] = pending[d]
                 /\ w \notin pending["arm"].has => (w \in memory' <=> w \in memory)
  <2>1. Line(w) \notin dirty
    BY <1>drain DEF CacheTyped
  <2>2. w \notin pending["arm"].has => w \notin pending["arm"].new
    BY <1>0, CopyParts
  <2> QED
    BY <1>0, <1>drain, <2>1, <2>2, Drained
<1>7. ASSUME NEW b \in Contexts, StartDevice(b) PROVE ReceivedKept'
  <2>1. /\ job[b].todo # <<>> /\ Doing(b) = "start" /\ Advance(b) /\ job[b] # NoJob
        /\ DrainWriteBuffer({}) /\ cache' = cache
    BY <1>7, AtIs DEF StartDevice, NoJob
  <2>2. /\ job[b].kind \in Kinds /\ job[b].todo \in Rests[job[b].kind]
        /\ Doing(b) = Head(job[b].todo)
    BY <2>1, JobNow
  <2>3. After[job[b].kind][Doing(b)] = "run"
    BY <2>1, <2>2, CallsFollow
  <2>4. /\ Doing(b)' = "run" /\ job'[b].kind = job[b].kind /\ job'[b].left = job[b].left
        /\ \A d \in Contexts : d # b => job'[d] = job[d] /\ Doing(d)' = Doing(d)
        /\ job[b].left = Span(job[b].kind)
    BY <2>1, <2>3, AdvancedParts DEF Jobs
  <2> SUFFICES ASSUME NEW c \in Contexts, job'[c].kind \in Incoming, NEW w \in Span(job'[c].kind)
               PROVE  Received(c, w)'
    BY <1>one
  <2>5. /\ job'[c].kind = job[c].kind /\ w \in Words
        /\ w \in job'[c].left <=> w \in job[c].left
        /\ w \notin cache.has \/ Doing(c) \notin {"to", "start", "run", "from", "toarm"}
    BY <1>0, <2>4 DEF ReceivedKept, Received
  <2>6. CASE c = b
    <3>1. w \notin cache.has /\ w \in job'[c].left
      BY <2>1, <2>4, <2>5, <2>6
    <3>2. w \notin pending'["arm"].has
      BY <1>drain, <2>1, <2>5, <3>1
    <3> QED
      BY <2>1, <3>1, <3>2 DEF Received
  <2>7. CASE c # b
    <3>1. job'[c] = job[c] /\ Doing(c)' = Doing(c) /\ Device[job[c].kind] \in Devices
      BY <1>0, <2>4, <2>5, <2>7
    <3> QED
      BY <1>drain, <2>1, <2>5, <3>1, ReceivedStays
  <2> QED
    BY <2>6, <2>7
<1>8. ASSUME NEW b \in Contexts, Call(b) PROVE ReceivedKept'
  <2>1. /\ job[b].todo # <<>> /\ Advance(b) /\ job[b].kind \in Kinds /\ job[b].kind # "none"
        /\ job[b].todo \in Rests[job[b].kind] /\ Doing(b) = Head(job[b].todo)
        /\ FlushCall(b) \/ InvalidateCall(b) \/ ToCall(b) \/ FromCall(b) \/ ToArmCall(b)
    BY <1>8, Called
  <2>2. /\ \A d \in Contexts : d # b => job'[d] = job[d] /\ Doing(d)' = Doing(d)
        /\ Doing(b)' = After[job[b].kind][Doing(b)]
        /\ After[job[b].kind][Doing(b)] = "none" => job'[b].kind = "none"
        /\ After[job[b].kind][Doing(b)] # "none" =>
             job'[b].kind = job[b].kind /\ job'[b].left = job[b].left
    BY <2>1, AdvancedParts
  <2> SUFFICES ASSUME NEW c \in Contexts, job'[c].kind \in Incoming, NEW w \in Span(job'[c].kind)
               PROVE  Received(c, w)'
    BY <1>one
  <2>3. /\ job'[c].kind = job[c].kind /\ w \in Words
        /\ w \in job'[c].left <=> w \in job[c].left
        /\ Received(c, w) /\ Device[job[c].kind] \in Devices /\ job[c].kind # "none"
    BY <1>0, <2>2 DEF ReceivedKept, Incoming
  <2> DEFINE p == pending[Device[job[c].kind]]  q == pending'[Device[job[c].kind]]
  \* Nothing about the words of the transfer is undone, by whichever call.
  <2>4. /\ w \notin cache.has => w \notin cache'.has
        /\ w \notin cache.has /\ w \notin pending["arm"].has =>
             /\ w \notin pending'["arm"].has
             /\ w \in p.new \/ (w \in memory /\ w \notin p.has) =>
                  w \in q.new \/ (w \in memory' /\ w \notin q.has)
    <3>1. CASE FlushCall(b)
      BY <1>drain, <2>3, <3>1 DEF FlushCall
    <3>2. CASE InvalidateCall(b)
      BY <2>3, <3>2 DEF InvalidateCall
    <3>3. CASE ToCall(b) \/ ToArmCall(b)
      BY <3>3 DEF ToCall, ToArmCall
    <3>4. CASE FromCall(b)
      <4> DEFINE m == Device[job[b].kind]
      <4>1. /\ m \in Devices /\ cache' = cache /\ memory' = Written(memory, pending[m])
            /\ pending' = [pending EXCEPT ![m] = Empty]
        BY <2>1, <3>4, DeviceIs DEF FromCall
      <4> HIDE DEF m
      <4>2. pending'["arm"] = pending["arm"]
        BY <1>0, <4>1
      <4>3. CASE m = Device[job[c].kind]
        <5>1. q = Empty
          BY <1>0, <4>1, <4>3
        <5> QED
          BY <1>0, <4>1, <4>2, <4>3, <5>1 DEF Written
      <4>4. CASE m # Device[job[c].kind]
        <5>1. w \notin pending[m].has
          BY <2>3, <4>1, <4>4, UnderWay
        <5>2. w \notin pending[m].new
          BY <1>0, <4>1, <5>1, CopyParts
        <5>3. q = p
          BY <1>0, <2>3, <4>1, <4>4
        <5> QED
          BY <4>1, <4>2, <5>1, <5>2, <5>3 DEF Written
      <4> QED
        BY <4>3, <4>4
    <3> QED
      BY <2>1, <3>1, <3>2, <3>3, <3>4
  <2> HIDE DEF p, q
  <2>5. CASE c # b
    BY <2>2, <2>3, <2>4, <2>5, ReceivedStays DEF p, q
  <2>6. CASE c = b
    <3> DEFINE a == After[job[b].kind][Doing(b)]
    <3>1. /\ Doing(c)' = a /\ job'[c].kind = job[c].kind /\ a # "none"
      BY <2>2, <2>6 DEF Incoming
    <3>2. CASE Doing(b) \in {"flush", "flushall"}
      <4>1. a = "inval"
        BY <2>1, <2>3, <2>6, <3>1, <3>2, CallsFollow DEF Incoming
      <4> QED
        BY <3>1, <4>1 DEF Received
    <3>3. CASE Doing(b) = "inval"
      <4>1. a \in {"to", "start"}
        BY <2>1, <3>3, CallsFollow
      <4>2. InvalidateCall(b)
        BY <2>1, <3>3 DEF FlushCall, ToCall, FromCall, ToArmCall
      <4>3. w \notin cache'.has
        BY <2>3, <2>6, <3>1, <4>2 DEF InvalidateCall
      <4> QED
        BY <3>1, <4>1, <4>3 DEF Received
    <3>4. CASE Doing(b) = "to"
      <4>1. a = "start"
        BY <2>1, <3>4, CallsFollow
      <4> QED
        BY <2>3, <2>4, <2>6, <3>1, <3>4, <4>1 DEF Received
    <3>5. CASE Doing(b) \in {"from", "toarm"}
      <4>1. a = "toarm"
        BY <2>1, <3>1, <3>5, CallsFollow
      <4> QED
        BY <2>3, <2>4, <2>6, <3>1, <3>5, <4>1 DEF Received, p, q
    <3> QED
      BY <2>1, <3>2, <3>3, <3>4, <3>5 DEF FlushCall, InvalidateCall, ToCall, FromCall, ToArmCall
  <2> QED
    BY <2>5, <2>6
<1>9. ASSUME NEW b \in Contexts, Complete(b) PROVE ReceivedKept'
  <2>1. /\ job[b].todo # <<>> /\ Doing(b) = "run" /\ Advance(b) /\ job[b] # NoJob
        /\ UNCHANGED <<memory, cache, pending>>
    BY <1>9, AtIs DEF Complete, NoJob
  <2>2. /\ job[b].kind \in Kinds /\ job[b].todo \in Rests[job[b].kind]
        /\ Doing(b) = Head(job[b].todo)
    BY <2>1, JobNow
  <2>3. After[job[b].kind][Doing(b)] \in {"from", "none"}
    BY <2>1, <2>2, CallsFollow
  <2>4. /\ \A d \in Contexts : d # b => job'[d] = job[d] /\ Doing(d)' = Doing(d)
        /\ \/ job'[b].kind = "none"
           \/ /\ Doing(b)' = "from" /\ job'[b].kind = job[b].kind /\ job'[b].left = job[b].left
    BY <2>1, <2>3, AdvancedParts
  <2> SUFFICES ASSUME NEW c \in Contexts, job'[c].kind \in Incoming, NEW w \in Span(job'[c].kind)
               PROVE  Received(c, w)'
    BY <1>one
  <2>5. CASE c = b
    <3>1. Doing(c)' = "from" /\ job'[c].kind = job[c].kind /\ job'[c].left = job[c].left
      BY <2>4, <2>5 DEF Incoming
    <3>2. Received(c, w)
      BY <3>1 DEF ReceivedKept
    <3> QED
      BY <2>1, <2>5, <3>1, <3>2 DEF Received
  <2>6. CASE c # b
    BY <2>1, <2>4, <2>6, ReceivedStays
  <2> QED
    BY <2>5, <2>6
<1>10. ASSUME NEW b \in Contexts, NEW l \in Lines, Transfer(b, l) PROVE ReceivedKept'
  <2> SUFFICES ASSUME NEW c \in Contexts, job'[c].kind \in Incoming, NEW w \in Span(job'[c].kind)
               PROVE  Received(c, w)'
    BY <1>one
  <2> DEFINE k == job[b].kind  ws == job[b].left \cap WordsOf(l)
  <2>1. job'[c].kind = job[c].kind /\ Doing(c)' = Doing(c)
    BY <1>10, TransferJobs
  <2>2. w \in Words /\ job[c].kind # "none" /\ Device[job[c].kind] \in Devices /\ Received(c, w)
    BY <1>0, <2>1 DEF ReceivedKept, Incoming
  <2>3. /\ k \in Kinds /\ k # "none" /\ ws \subseteq Span(k) /\ job'[b].left = job[b].left \ ws
        /\ \A d \in Contexts : d # b => job'[d] = job[d]
        /\ Doing(b) = "run" /\ cache'.has = cache.has
        /\ w \notin ws \/ k \notin Incoming =>
              /\ w \in memory' <=> w \in memory
              /\ \A m \in Masters : /\ w \in pending'[m].has <=> w \in pending[m].has
                                    /\ w \in pending'[m].new <=> w \in pending[m].new
        /\ w \in ws /\ k \in Incoming =>
              /\ w \in pending'[Device[k]].has /\ w \in pending'[Device[k]].new
              /\ \A m \in Masters \ {Device[k]} : w \in pending'[m].has <=> w \in pending[m].has
    BY <1>10, <2>2, Transferred
  <2> HIDE DEF ws
  <2>4. CASE c # b
    <3>1. w \notin ws
      BY <2>1, <2>2, <2>3, <2>4, Apart
    <3> QED
      BY <1>0, <2>1, <2>2, <2>3, <2>4, <3>1, ReceivedStays
  <2>5. CASE c = b /\ w \notin ws
    <3>1. w \in job'[c].left <=> w \in job[c].left
      BY <2>3, <2>5
    <3> QED
      BY <1>0, <2>1, <2>2, <2>3, <2>5, <3>1, ReceivedStays
  <2>6. CASE c = b /\ w \in ws
    <3>1. /\ w \in pending'[Device[job[c].kind]].new
          /\ w \in pending'["arm"].has <=> w \in pending["arm"].has
      BY <1>0, <2>1, <2>2, <2>3, <2>6
    <3> QED
      BY <2>1, <2>2, <2>3, <2>6, <3>1 DEF Received
  <2> QED
    BY <2>4, <2>5, <2>6
<1>11. CASE MemInitialize
  <2>1. UNCHANGED job /\ \A c \in Contexts : job[c].kind \notin Incoming
    BY <1>11, NoJobs DEF MemInitialize
  <2> QED
    BY <2>1 DEF ReceivedKept
<1>12. CASE MemShutdown
  <2>1. DrainWriteBuffer(Lines) /\ cache' = Empty /\ UNCHANGED job
    BY <1>12 DEF MemShutdown
  <2> SUFFICES ASSUME NEW c \in Contexts, job[c].kind \in Incoming, NEW w \in Span(job[c].kind)
        PROVE  /\ w \notin cache'.has
               /\ w \notin cache.has /\ w \notin pending["arm"].has =>
                    /\ w \notin pending'["arm"].has
                    /\ pending'[Device[job[c].kind]] = pending[Device[job[c].kind]]
                    /\ w \in memory' <=> w \in memory
    BY <1>same, <2>1
  <2>2. w \in Words /\ Device[job[c].kind] \in Devices
    BY <1>0
  <2> QED
    BY <1>0, <1>drain, <2>1, <2>2
<1>13. CASE UNCHANGED vars
  BY <1>13, <1>same DEF vars
<1> QED
  BY <1>1, <1>2, <1>3, <1>4, <1>5, <1>6, <1>7, <1>8, <1>9, <1>10, <1>11, <1>12, <1>13,
     ContextsAre DEF Next, Bus, Accesses, Transfers

-----------------------------------------------------------------------------
\* A live word is read by the processor as it was last written.
LEMMA LiveSeen ==
  ASSUME CacheTyped, NEW w \in Words, Kept(w)
  PROVE  /\ w \notin cache.has => w \in Behind("arm")
         /\ enabled \in {"on", "down"} => w \in ProcessorView
<1>1. Line(w) \in dirty => w \in cache.has
  BY DEF CacheTyped
<1>2. w \notin cache.has => w \in Behind("arm")
  BY <1>1 DEF Kept, Behind
<1>3. CASE enabled = "on"
  BY <1>2, <1>3 DEF Kept, ProcessorView
<1>4. CASE enabled = "down"
  <2>1. w \notin cache.has
    BY <1>4 DEF CacheTyped, Empty
  <2> QED
    BY <1>2, <1>4, <2>1 DEF ProcessorView
<1> QED
  BY <1>2, <1>3, <1>4

LEMMA LiveInit == Init => LiveKept
<1> SUFFICES ASSUME Init, NEW w \in Words PROVE Kept(w)
  BY DEF LiveKept
<1>1. /\ enabled = "boot" /\ memory = Words /\ "arm" \in Masters
      /\ pending = [m \in Masters |-> Empty] /\ ahead = [m \in Masters |-> Empty]
  BY DEF Init, Masters
<1> QED
  BY <1>1 DEF Kept, Empty

\* The words a device has under way are not live.
LEMMA UnderWayNotLive ==
  ASSUME PlacesTyped, Jobs, Posted, NEW d \in Devices, NEW w \in Words, Live(w)
  PROVE  w \notin pending[d].has /\ w \notin pending[d].new
<1>1. w \notin pending[d].has
  BY UnderWay DEF Live
<1> QED
  BY <1>1, Masterly, CopyParts

\* Draining some lines and dropping what was read ahead keeps a live word; the lines
\* are clean after it.
LEMMA DrainKeeps ==
  ASSUME CacheTyped, PlacesTyped, NEW w \in Words, Kept(w), NEW ls \in SUBSET Lines,
         DrainWriteBuffer(ls), enabled = "on",
         ahead'["arm"].has \subseteq ahead["arm"].has \ pending["arm"].has,
         ahead'["arm"].new = ahead["arm"].new \cap ahead'["arm"].has
  PROVE  /\ w \in cache.has => w \in cache.new
         /\ w \notin pending'["arm"].has
         /\ w \in memory' \/ Line(w) \in dirty'
         /\ Line(w) \in ls => w \in memory'
         /\ w \in ahead'["arm"].has =>
              w \in ahead'["arm"].new \/ Line(w) \in dirty' \/ Line(w) \in ls \cap dirty
<1>1. /\ w \in memory' <=>
              IF Line(w) \in ls /\ Line(w) \in dirty THEN w \in cache.new
              ELSE w \in pending["arm"].new \/ (w \in memory /\ w \notin pending["arm"].has)
      /\ pending'["arm"] = Empty /\ dirty' = dirty \ ls
  BY Drained
<1>2. Line(w) \in dirty => w \in cache.has
  BY DEF CacheTyped
<1> QED
  BY <1>1, <1>2 DEF Kept, Empty

LEMMA LiveStep ==
  ASSUME CacheTyped, PlacesTyped, Jobs, AtRest, Posted, ReceivedKept, LiveKept, [Next]_vars
  PROVE  LiveKept'
<1>0. /\ pending \in [Masters -> Copies] /\ ahead \in [Masters -> Copies] /\ "arm" \in Masters
      /\ \A d \in Devices : d \in Masters /\ d # "arm" /\ pending[d] \in Copies
      /\ Empty.has = {} /\ Empty.new = {}
      /\ \A w \in Words : Line(w) \in dirty => w \in cache.has
  BY Masterly DEF PlacesTyped, Empty, CacheTyped
<1>one. ASSUME \A w \in Words : Live(w)' => Kept(w)' PROVE LiveKept'
  BY <1>one DEF LiveKept
<1>same. ASSUME UNCHANGED job, NEW w, Live(w)' PROVE Live(w)
  BY <1>same DEF Live, Doing
<1>ahead. ASSUME ahead' = [ahead EXCEPT !["arm"] = Empty]
          PROVE  ahead'["arm"].has = {} /\ ahead'["arm"].new = {}
  BY <1>0, <1>ahead
<1>without. ASSUME NEW ws, ahead' = [ahead EXCEPT !["arm"] = Without(@, ws)]
            PROVE  /\ ahead'["arm"].has = ahead["arm"].has \ ws
                   /\ ahead'["arm"].new = ahead["arm"].new \ ws
  BY <1>0, <1>without DEF Without
<1>keptsame. ASSUME UNCHANGED <<enabled, memory, cache, dirty>>,
                    pending'["arm"] = pending["arm"],
                    ahead'["arm"] = ahead["arm"] \/ ahead'["arm"] = Empty,
                    NEW w \in Words, Kept(w)
             PROVE  Kept(w)'
  BY <1>0, <1>keptsame DEF Kept
\* A transfer that moved on: a word can come alive only when its transfer ends.
<1>go. ASSUME NEW c \in Contexts, job[c].todo # <<>>, Advance(c), NEW w \in Words, Live(w)',
              ~Live(w)
       PROVE  /\ job[c].kind \in Incoming /\ w \in Span(job[c].kind)
              /\ After[job[c].kind][Doing(c)] = "none"
              /\ Doing(c) \in {"from", "toarm"}
              /\ \A b \in Contexts : b # c /\ job[b].kind # "none" => w \notin Span(job[b].kind)
  <2>1. PICK b \in Contexts : /\ job[b].kind \in Incoming /\ Doing(b) # "flush"
                              /\ w \in Span(job[b].kind)
    BY <1>go DEF Live
  <2>2. b = c
    <3> SUFFICES ASSUME b # c PROVE FALSE
      OBVIOUS
    <3>1. job'[b] = job[b] /\ Doing(b)' = Doing(b)
      BY <1>go, AdvancedParts
    <3> QED
      BY <1>go, <2>1, <3>1 DEF Live
  <2>3. job[c] # NoJob /\ job[c].kind # "none"
    <3>1. job[c] # NoJob
      BY <1>go DEF NoJob
    <3> QED
      BY <3>1, JobNow
  <2>4. /\ job[c].kind \in Kinds /\ job[c].todo \in Rests[job[c].kind]
        /\ Doing(c) = Head(job[c].todo) /\ Doing(c) \in Calls
    BY <2>3, JobNow
  <2> DEFINE a == After[job[c].kind][Doing(c)]
  <2>5. a # "flush"
    BY <2>4, CallsFollow DEF Calls
  <2>6. a = "none"
    <3> SUFFICES ASSUME a # "none" PROVE FALSE
      OBVIOUS
    <3>1. Doing(c)' = a /\ job'[c].kind = job[c].kind
      BY <1>go, AdvancedParts
    <3> QED
      BY <1>go, <2>1, <2>2, <2>5, <3>1 DEF Live
  <2>7. Doing(c) \in {"from", "toarm"}
    BY <2>1, <2>2, <2>4, <2>6, CallsFollow DEF Calls, Incoming
  <2>8. \A d \in Contexts : d # c /\ job[d].kind # "none" => w \notin Span(job[d].kind)
    BY <2>1, <2>2, <2>3, Apart
  <2> QED
    BY <2>1, <2>2, <2>6, <2>7, <2>8
<1>1. ASSUME NEW m \in Masters, NEW l \in Lines, ReadAhead(m, l) PROVE LiveKept'
  <2> SUFFICES ASSUME NEW w \in Words, Live(w)' PROVE Kept(w)'
    BY <1>one
  <2>1. Kept(w) /\ UNCHANGED <<enabled, memory, cache, dirty, pending>>
    BY <1>1, <1>same DEF ReadAhead, LiveKept
  <2>2. CASE m # "arm"
    <3>1. ahead'["arm"] = ahead["arm"]
      BY <1>0, <1>1, <2>2 DEF ReadAhead
    <3> QED
      BY <1>keptsame, <2>1, <3>1
  <2>3. CASE m = "arm"
    <3>1. /\ ahead'["arm"].has = WordsOf(l) \cap ReadBy("arm")
          /\ ahead'["arm"].new = ahead'["arm"].has \cap memory
      BY <1>0, <1>1, <2>3 DEF ReadAhead, Copy
    <3> QED
      BY <2>1, <3>1 DEF Kept
  <2> QED
    BY <2>2, <2>3
<1>2. ASSUME NEW m \in Masters, Post(m) PROVE LiveKept'
  <2> SUFFICES ASSUME NEW w \in Words, Live(w)' PROVE Kept(w)'
    BY <1>one
  <2>1. Live(w) /\ Kept(w) /\ UNCHANGED <<enabled, cache, dirty>>
    BY <1>2, <1>same DEF Post, LiveKept
  <2>2. memory' = Written(memory, pending[m]) /\ pending' = [pending EXCEPT ![m] = Empty]
    BY <1>2 DEF Post
  <2>3. CASE m = "arm"
    <3>1. /\ ahead'["arm"].has = ahead["arm"].has \ pending["arm"].has
          /\ ahead'["arm"].new = ahead["arm"].new \ pending["arm"].has
      BY <1>2, <1>without, <2>3 DEF Post
    <3>2. pending'["arm"] = Empty
      BY <1>0, <2>2, <2>3
    <3> QED
      BY <1>0, <2>1, <2>2, <2>3, <3>1, <3>2 DEF Kept, Written
  <2>4. CASE m # "arm"
    <3>1. w \notin pending[m].has /\ w \notin pending[m].new
      BY <2>1, <2>4, Masterly, UnderWayNotLive
    <3>2. pending'["arm"] = pending["arm"] /\ ahead' = ahead
      BY <1>0, <1>2, <2>2, <2>4 DEF Post
    <3> QED
      BY <2>1, <2>2, <3>1, <3>2 DEF Kept, Written
  <2> QED
    BY <2>3, <2>4
<1>3. ASSUME NEW l \in Lines, Evict(l) PROVE LiveKept'
  <2> SUFFICES ASSUME NEW w \in Words, Live(w)' PROVE Kept(w)'
    BY <1>one
  <2>1. Kept(w)
    BY <1>3, <1>same DEF Evict, LiveKept
  <2>2. /\ enabled = "on" /\ enabled' = "on" /\ UNCHANGED <<memory, ahead>>
        /\ Line(w) # l => /\ w \in cache'.has <=> w \in cache.has
                          /\ w \in cache'.new <=> w \in cache.new
                          /\ Line(w) \in dirty' <=> Line(w) \in dirty
                          /\ w \in pending'["arm"].has <=> w \in pending["arm"].has
                          /\ w \in pending'["arm"].new <=> w \in pending["arm"].new
        /\ Line(w) = l => /\ w \in cache.has /\ w \notin cache'.has /\ Line(w) \notin dirty'
                          /\ Line(w) \notin dirty => pending'["arm"] = pending["arm"]
                          /\ Line(w) \in dirty => /\ w \in pending'["arm"].has
                                                  /\ w \in pending'["arm"].new <=> w \in cache.new
    BY <1>3, Evicted
  <2>3. CASE Line(w) # l
    BY <2>1, <2>2, <2>3 DEF Kept
  <2>4. CASE Line(w) = l /\ Line(w) \notin dirty
    BY <2>1, <2>2, <2>4 DEF Kept
  <2>5. CASE Line(w) = l /\ Line(w) \in dirty
    BY <2>1, <2>2, <2>5 DEF Kept
  <2> QED
    BY <2>3, <2>4, <2>5
<1>4. ASSUME NEW x \in Words, Load(x) PROVE LiveKept'
  <2> SUFFICES ASSUME NEW w \in Words, Live(w)' PROVE Kept(w)'
    BY <1>one
  <2>1. Kept(w)
    BY <1>4, <1>same DEF Load, LiveKept
  <2>2. w \in ProcessorView
    BY <1>4, <2>1, LiveSeen DEF Load
  <2>3. /\ UNCHANGED <<memory, dirty, pending, ahead>> /\ enabled = "on" /\ enabled' = "on"
        /\ Line(w) = Line(x) => w \in cache'.new
        /\ Line(w) # Line(x) => /\ w \in cache'.has <=> w \in cache.has
                                /\ w \in cache'.new <=> w \in cache.new
    BY <1>4, <2>2, Loaded
  <2>4. CASE Line(w) = Line(x)
    BY <2>1, <2>3, <2>4 DEF Kept
  <2>5. CASE Line(w) # Line(x)
    BY <2>1, <2>3, <2>5 DEF Kept
  <2> QED
    BY <2>4, <2>5
<1>5. ASSUME NEW x \in Words, Store(x) PROVE LiveKept'
  <2> SUFFICES ASSUME NEW w \in Words, Live(w)' PROVE Kept(w)'
    BY <1>one
  <2>1. Kept(w)
    BY <1>5, <1>same DEF Store, LiveKept
  <2>2. /\ enabled = "on" /\ enabled' = "on"
        /\ cache'.has = cache.has /\ dirty \subseteq dirty'
        /\ Line(x) \in dirty' <=> x \in cache.has
        /\ ahead'["arm"].has = ahead["arm"].has
        /\ w # x => /\ w \in memory' <=> w \in memory
                    /\ w \in cache'.new <=> w \in cache.new
                    /\ w \in pending'["arm"].has <=> w \in pending["arm"].has
                    /\ w \in pending'["arm"].new <=> w \in pending["arm"].new
                    /\ w \in ahead'["arm"].new <=> w \in ahead["arm"].new
        /\ w = x /\ w \in cache.has => w \in cache'.new
        /\ w = x /\ w \notin cache.has => w \in pending'["arm"].new /\ w \in pending'["arm"].has
    BY <1>0, <1>5, Stored
  <2>3. CASE w # x
    BY <2>1, <2>2, <2>3 DEF Kept
  <2>4. CASE w = x
    BY <2>1, <2>2, <2>4 DEF Kept
  <2> QED
    BY <2>3, <2>4
<1>6. ASSUME NEW c \in Contexts, NEW k \in Kinds, Begin(c, k) PROVE LiveKept'
  <2> SUFFICES ASSUME NEW w \in Words, Live(w)' PROVE Kept(w)'
    BY <1>one
  <2>1. /\ job[c] = NoJob /\ UNCHANGED <<enabled, memory, cache, dirty, pending, ahead>>
        /\ \A d \in Contexts : d # c => job'[d] = job[d] /\ Doing(d)' = Doing(d)
    BY <1>6, BeginJobs DEF Begin
  <2>2. job[c].kind \notin Incoming
    BY <2>1, JobNone
  <2>3. Live(w)
    BY <2>1, <2>2 DEF Live
  <2> QED
    BY <1>keptsame, <2>1, <2>3 DEF LiveKept
<1>7. ASSUME NEW c \in Contexts, StartDevice(c) PROVE LiveKept'
  <2> SUFFICES ASSUME NEW w \in Words, Live(w)' PROVE Kept(w)'
    BY <1>one
  <2>1. /\ job[c].todo # <<>> /\ Doing(c) = "start" /\ Advance(c) /\ enabled = "on"
        /\ DrainWriteBuffer({}) /\ cache' = cache /\ enabled' = enabled
    BY <1>7, AtIs DEF StartDevice
  <2>2. /\ ahead'["arm"].has = ahead["arm"].has \ pending["arm"].has
        /\ ahead'["arm"].new = ahead["arm"].new \ pending["arm"].has
    BY <1>7, <1>without DEF StartDevice
  <2>3. Live(w)
    BY <1>go, <2>1
  <2>4. Kept(w) /\ ahead'["arm"].new = ahead["arm"].new \cap ahead'["arm"].has
    <3>1. ahead["arm"].new \subseteq ahead["arm"].has
      BY <1>0, CopyParts
    <3> QED
      BY <2>2, <2>3, <3>1 DEF LiveKept
  <2> QED
    BY <2>1, <2>2, <2>4, DrainKeeps DEF Kept
<1>8. ASSUME NEW c \in Contexts, Call(c) PROVE LiveKept'
  <2>1. /\ enabled = "on" /\ enabled' = "on" /\ job[c].todo # <<>> /\ Advance(c)
        /\ job[c].kind \in Kinds /\ job[c].kind # "none"
        /\ job[c].todo \in Rests[job[c].kind] /\ Doing(c) = Head(job[c].todo)
        /\ FlushCall(c) \/ InvalidateCall(c) \/ ToCall(c) \/ FromCall(c) \/ ToArmCall(c)
    BY <1>8, Called
  <2>2. Device[job[c].kind] \in Devices
    BY <2>1, DeviceIs
  <2> DEFINE m == Device[job[c].kind]
  <2> SUFFICES ASSUME NEW w \in Words, Live(w)' PROVE Kept(w)'
    BY <1>one
  <2>3. CASE Live(w)
    <3>1. Kept(w)
      BY <2>3 DEF LiveKept
    <3>2. CASE FlushCall(c)
      <4>1. PICK ls \in SUBSET Lines : DrainWriteBuffer(ls)
        BY <3>2 DEF FlushCall
      <4>2. ahead'["arm"].has = {} /\ ahead'["arm"].new = {} /\ cache' = cache
        BY <3>2, <1>ahead DEF FlushCall
      <4> QED
        BY <2>1, <3>1, <4>1, <4>2, DrainKeeps DEF Kept
    <3>3. CASE InvalidateCall(c)
      <4>1. w \notin Span(job[c].kind)
        <5>1. After[job[c].kind][Doing(c)] \in {"to", "start"}
          BY <2>1, <3>3, CallsFollow DEF InvalidateCall
        <5>2. Doing(c)' \in {"to", "start"} /\ job'[c].kind = job[c].kind
          BY <2>1, <5>1, AdvancedParts
        <5> QED
          BY <3>3, <5>2 DEF Live, InvalidateCall
      <4>2. ahead'["arm"].has = {} /\ ahead'["arm"].new = {}
        BY <3>3, <1>ahead DEF InvalidateCall
      <4> QED
        BY <2>1, <3>1, <3>3, <4>1, <4>2 DEF InvalidateCall, Kept
    <3>4. CASE ToCall(c)
      <4>1. ahead'["arm"] = Empty
        BY <1>0, <2>2, <3>4 DEF ToCall
      <4> QED
        BY <1>keptsame, <2>1, <3>1, <3>4, <4>1 DEF ToCall
    <3>5. CASE FromCall(c)
      <4>1. w \notin pending[m].has /\ w \notin pending[m].new
        BY <2>2, <2>3, UnderWayNotLive
      <4>2. /\ pending'["arm"] = pending["arm"] /\ ahead'["arm"] = Empty
            /\ w \in memory' <=> w \in memory
        BY <1>0, <2>2, <3>5, <4>1 DEF FromCall, Written
      <4> QED
        BY <1>0, <2>1, <3>1, <3>5, <4>2 DEF FromCall, Kept
    <3>6. CASE ToArmCall(c)
      <4>1. ahead'["arm"] = Empty
        BY <1>0, <3>6 DEF ToArmCall
      <4> QED
        BY <1>keptsame, <2>1, <3>1, <3>6, <4>1 DEF ToArmCall
    <3> QED
      BY <2>1, <3>2, <3>3, <3>4, <3>5, <3>6
  \* The transfer ends: what it delivered is in memory and nothing else is read.
  <2>4. CASE ~Live(w)
    <3>1. /\ job[c].kind \in Incoming /\ w \in Span(job[c].kind)
          /\ Doing(c) \in {"from", "toarm"}
          /\ \A b \in Contexts : b # c /\ job[b].kind # "none" => w \notin Span(job[b].kind)
      BY <1>go, <2>1, <2>4
    <3>2. Received(c, w) /\ job[c].left = {}
      BY <2>1, <3>1 DEF ReceivedKept, Jobs, NoJob
    <3>3. /\ w \notin cache.has /\ w \notin pending["arm"].has /\ Line(w) \notin dirty
          /\ w \in pending[m].new \/ (w \in memory /\ w \notin pending[m].has)
      BY <1>0, <3>1, <3>2 DEF Received
    <3>4. CASE FromCall(c)
      <4>1. w \in memory' /\ pending'["arm"] = pending["arm"] /\ ahead'["arm"] = Empty
        BY <1>0, <2>2, <3>3, <3>4 DEF FromCall, Written
      <4> QED
        BY <1>0, <3>3, <3>4, <4>1 DEF FromCall, Kept
    <3>5. CASE ToArmCall(c)
      <4>1. w \notin pending[m].has
        BY <2>2, <3>1, <3>5, UnderWay DEF ToArmCall
      <4>2. w \notin pending[m].new
        BY <1>0, <2>2, <4>1, CopyParts
      <4>3. ahead'["arm"] = Empty
        BY <1>0, <3>5 DEF ToArmCall
      <4> QED
        BY <1>0, <3>3, <3>5, <4>1, <4>2, <4>3 DEF ToArmCall, Kept
    <3> QED
      BY <2>1, <3>1, <3>4, <3>5 DEF FlushCall, InvalidateCall, ToCall
  <2> QED
    BY <2>3, <2>4
<1>9. ASSUME NEW c \in Contexts, Complete(c) PROVE LiveKept'
  <2> SUFFICES ASSUME NEW w \in Words, Live(w)' PROVE Kept(w)'
    BY <1>one
  <2>1. /\ job[c].todo # <<>> /\ Doing(c) = "run" /\ Advance(c)
        /\ UNCHANGED <<enabled, memory, cache, dirty, pending, ahead>>
    BY <1>9, AtIs DEF Complete
  <2>2. Live(w)
    BY <1>go, <2>1
  <2> QED
    BY <1>keptsame, <2>1, <2>2 DEF LiveKept
<1>10. ASSUME NEW c \in Contexts, NEW l \in Lines, Transfer(c, l) PROVE LiveKept'
  <2> SUFFICES ASSUME NEW w \in Words, Live(w)' PROVE Kept(w)'
    BY <1>one
  <2> DEFINE k == job[c].kind  ws == job[c].left \cap WordsOf(l)
  <2>1. \A d \in Contexts : job'[d].kind = job[d].kind /\ Doing(d)' = Doing(d)
    BY <1>10, TransferJobs
  <2>2. Live(w)
    BY <2>1 DEF Live
  <2>3. /\ enabled' = enabled /\ dirty' = dirty /\ ws \subseteq Span(k) /\ Doing(c) = "run"
        /\ cache'.has = cache.has /\ ahead'["arm"].has = ahead["arm"].has
        /\ w \notin ws \/ k \notin Incoming =>
              /\ w \in memory' <=> w \in memory
              /\ w \in cache'.new <=> w \in cache.new
              /\ w \in pending'["arm"].has <=> w \in pending["arm"].has
              /\ w \in pending'["arm"].new <=> w \in pending["arm"].new
              /\ w \in ahead'["arm"].new <=> w \in ahead["arm"].new
    BY <1>0, <1>10, Transferred
  <2> HIDE DEF ws
  <2>4. w \notin ws \/ k \notin Incoming
    BY <2>2, <2>3 DEF Live
  <2> QED
    BY <2>2, <2>3, <2>4 DEF Kept, LiveKept
<1>11. CASE MemInitialize
  <2> SUFFICES ASSUME NEW w \in Words, Live(w)' PROVE Kept(w)'
    BY <1>one
  <2>1. /\ enabled = "boot" /\ cache' = Empty /\ UNCHANGED <<memory, pending, ahead>>
    BY <1>11 DEF MemInitialize
  <2>2. memory = Words /\ pending["arm"] = Empty /\ ahead["arm"].has \subseteq ahead["arm"].new
    BY <1>0, <2>1 DEF AtRest
  <2> QED
    BY <1>0, <2>1, <2>2 DEF Kept
<1>12. CASE MemShutdown
  <2> SUFFICES ASSUME NEW w \in Words, Live(w)' PROVE Kept(w)'
    BY <1>one
  <2>1. /\ enabled = "on" /\ enabled' = "down" /\ DrainWriteBuffer(Lines) /\ cache' = Empty
        /\ UNCHANGED job
    BY <1>12 DEF MemShutdown
  <2>2. /\ ahead'["arm"].has = ahead["arm"].has \ (pending["arm"].has \cup WordsIn(dirty))
        /\ ahead'["arm"].new = ahead["arm"].new \ (pending["arm"].has \cup WordsIn(dirty))
    BY <1>12, <1>without DEF MemShutdown
  <2>3. Kept(w) /\ Line(w) \in Lines /\ (w \in WordsIn(dirty) <=> Line(w) \in dirty)
    BY <1>same, <2>1, LineOf, InLines DEF LiveKept, CacheTyped
  <2>4. ahead["arm"].new \subseteq ahead["arm"].has
    BY <1>0, CopyParts
  <2>5. w \notin pending'["arm"].has /\ w \in memory'
    <3>1. /\ w \in memory' <=>
              IF Line(w) \in Lines /\ Line(w) \in dirty THEN w \in cache.new
              ELSE w \in pending["arm"].new \/ (w \in memory /\ w \notin pending["arm"].has)
          /\ pending'["arm"] = Empty
      BY <2>1, Drained
    <3> QED
      BY <1>0, <2>1, <2>3, <3>1 DEF Kept
  <2> QED
    BY <1>0, <2>1, <2>2, <2>3, <2>5 DEF Kept
<1>13. CASE UNCHANGED vars
  <2> SUFFICES ASSUME NEW w \in Words, Live(w)' PROVE Kept(w)'
    BY <1>one
  <2>1. Live(w)
    BY <1>13, <1>same DEF vars
  <2> QED
    BY <1>13, <1>keptsame, <2>1 DEF vars, LiveKept
<1> QED
  BY <1>1, <1>2, <1>3, <1>4, <1>5, <1>6, <1>7, <1>8, <1>9, <1>10, <1>11, <1>12, <1>13,
     ContextsAre DEF Next, Bus, Accesses, Transfers

-----------------------------------------------------------------------------
LEMMA SentInit == Init => SentKept
BY ContextsAre, JobNone DEF Init, SentKept, Flushed

\* What a device is to take is in no device's writes under way.
LEMMA OutgoingApart ==
  ASSUME PlacesTyped, Jobs, Posted, NEW c \in Contexts, job[c].kind \in Outgoing,
         NEW w \in job[c].left, NEW d \in Devices
  PROVE  w \notin pending[d].has /\ w \notin pending[d].new
<1>1. job[c].kind # "none" /\ job[c] # NoJob
  BY DEF Outgoing, NoJob
<1>2. w \in Span(job[c].kind)
  BY <1>1, JobNow
<1>3. w \notin pending[d].has
  BY <1>1, <1>2, UnderWay
<1> QED
  BY <1>3, Masterly, CopyParts

\* A step that leaves the transfer where it is, or takes words from it.
LEMMA SentStays ==
  ASSUME PlacesTyped, SentKept, NEW c \in Contexts, Flushed(c), NEW w \in job[c].left,
         job'[c].kind = job[c].kind,
         Doing(c)' = Doing(c) \/ (Doing(c) = "start" /\ Doing(c)' = "run"),
         LET d == Device[job[c].kind] IN
         /\ w \in memory'
         /\ w \in cache'.has => w \in cache'.new
         /\ w \in pending'["arm"].has => w \in pending'["arm"].new
         /\ w \notin pending'[d].has
         /\ w \in ahead'[d].has => w \in ahead'[d].new \/ (w \in ahead[d].has \ ahead[d].new)
  PROVE  Sent(c, w)'
BY DEF SentKept, Sent

LEMMA SentStep ==
  ASSUME CacheTyped, PlacesTyped, Jobs, AtRest, Posted, ReceivedKept, LiveKept, SentKept,
         [Next]_vars
  PROVE  SentKept'
<1>0. /\ pending \in [Masters -> Copies] /\ ahead \in [Masters -> Copies] /\ "arm" \in Masters
      /\ \A d \in Devices : d \in Masters /\ d # "arm" /\ pending[d] \in Copies
      /\ Empty.has = {} /\ Empty.new = {}
      /\ \A w \in Words : Line(w) \in dirty => w \in cache.has
      /\ \A k \in Outgoing : k \in Kinds /\ k # "none" /\ Device[k] \in Devices
                             /\ Span(k) \subseteq Words
  BY Masterly, DeviceIs, BufferAssumption DEF PlacesTyped, Empty, CacheTyped, Kinds, Outgoing
\* What is known of a word that a device is to take.
<1>here. ASSUME NEW c \in Contexts, Flushed(c), NEW w \in job[c].left
         PROVE  /\ w \in Words /\ w \in Span(job[c].kind) /\ job[c].kind \in Outgoing
                /\ Sent(c, w) /\ Device[job[c].kind] \in Devices /\ Device[job[c].kind] \in Masters
                /\ \A d \in Devices : w \notin pending[d].has /\ w \notin pending[d].new
  <2>1. job[c].kind \in Outgoing
    BY <1>here DEF Flushed
  <2>2. job[c] # NoJob
    BY <2>1 DEF NoJob, Outgoing
  <2>3. w \in Span(job[c].kind)
    BY <2>2, JobNow
  <2> QED
    BY <1>0, <1>here, <2>1, <2>3, OutgoingApart DEF SentKept
<1>one. ASSUME \A c \in Contexts : Flushed(c)' => \A w \in job'[c].left : Sent(c, w)'
        PROVE  SentKept'
  BY <1>one DEF SentKept
<1>same. ASSUME UNCHANGED job,
           \A c \in Contexts : Flushed(c) => \A w \in job[c].left :
             LET d == Device[job[c].kind] IN
             /\ w \in memory'
             /\ w \in cache'.has => w \in cache'.new
             /\ w \in pending'["arm"].has => w \in pending'["arm"].new
             /\ w \notin pending'[d].has
             /\ w \in ahead'[d].has => w \in ahead'[d].new \/ (w \in ahead[d].has \ ahead[d].new)
         PROVE  SentKept'
  <2> SUFFICES ASSUME NEW c \in Contexts, Flushed(c)', NEW w \in job'[c].left
               PROVE  Sent(c, w)'
    BY <1>one
  <2>1. job' = job /\ Doing(c)' = Doing(c) /\ Flushed(c)
    BY <1>same DEF Doing, Flushed
  <2> QED
    BY <1>same, <2>1, SentStays
<1>drain. ASSUME NEW ls \in SUBSET Lines, DrainWriteBuffer(ls), NEW w \in Words, w \in memory,
                 w \in cache.has => w \in cache.new,
                 w \in pending["arm"].has => w \in pending["arm"].new
          PROVE  w \in memory' /\ w \notin pending'["arm"].has
  BY <1>0, <1>drain, Drained
<1>1. ASSUME NEW m \in Masters, NEW l \in Lines, ReadAhead(m, l) PROVE SentKept'
  <2>1. /\ UNCHANGED <<memory, cache, pending, job>>
        /\ ahead' = [ahead EXCEPT ![m] = Copy(WordsOf(l) \cap ReadBy(m), memory)]
    BY <1>1 DEF ReadAhead
  <2> SUFFICES ASSUME NEW c \in Contexts, Flushed(c), NEW w \in job[c].left
        PROVE  LET d == Device[job[c].kind] IN
               /\ Sent(c, w) /\ w \in memory
               /\ w \in ahead'[d].has => w \in ahead'[d].new \/ (w \in ahead[d].has \ ahead[d].new)
    BY <1>same, <2>1 DEF Sent
  <2>2. Sent(c, w) /\ w \in memory /\ Device[job[c].kind] \in Masters
    BY <1>here DEF Sent
  <2> QED
    BY <1>0, <2>1, <2>2 DEF Copy
<1>2. ASSUME NEW m \in Masters, Post(m) PROVE SentKept'
  <2>1. /\ UNCHANGED <<cache, job>> /\ memory' = Written(memory, pending[m])
        /\ pending' = [pending EXCEPT ![m] = Empty]
        /\ \A d \in Devices : ahead'[d] = ahead[d]
    BY <1>0, <1>2 DEF Post
  <2> SUFFICES ASSUME NEW c \in Contexts, Flushed(c), NEW w \in job[c].left
        PROVE  LET d == Device[job[c].kind] IN
               /\ Sent(c, w) /\ w \in memory' /\ d \in Devices
               /\ w \in pending'["arm"].has => w \in pending'["arm"].new
               /\ w \notin pending'[d].has
    BY <1>same, <2>1 DEF Sent
  <2>2. /\ Sent(c, w) /\ Device[job[c].kind] \in Devices
        /\ \A d \in Devices : w \notin pending[d].has /\ w \notin pending[d].new
    BY <1>here
  <2>3. m = "arm" \/ m \in Devices
    BY Masterly
  <2> QED
    BY <1>0, <2>1, <2>2, <2>3 DEF Sent, Written
<1>3. ASSUME NEW l \in Lines, Evict(l) PROVE SentKept'
  <2>1. UNCHANGED <<memory, ahead, job>>
    BY <1>3 DEF Evict
  <2> SUFFICES ASSUME NEW c \in Contexts, Flushed(c), NEW w \in job[c].left
        PROVE  LET d == Device[job[c].kind] IN
               /\ w \in memory /\ (w \in cache'.has => w \in cache'.new)
               /\ w \in pending'["arm"].has => w \in pending'["arm"].new
               /\ w \notin pending'[d].has
    BY <1>same, <2>1
  <2>2. Sent(c, w) /\ w \in Words /\ Device[job[c].kind] \in Devices
    BY <1>here
  <2>3. CASE Line(w) = l
    BY <1>3, <2>2, <2>3, Evicted DEF Sent
  <2>4. CASE Line(w) # l
    BY <1>3, <2>2, <2>4, Evicted DEF Sent
  <2> QED
    BY <2>3, <2>4
<1>4. ASSUME NEW x \in Words, Load(x) PROVE SentKept'
  <2>1. UNCHANGED <<memory, pending, ahead, job>> /\ x \notin InFlight
    BY <1>4 DEF Load
  <2> SUFFICES ASSUME NEW c \in Contexts, Flushed(c), NEW w \in job[c].left
        PROVE  Sent(c, w) /\ (w \in cache'.has => w \in cache'.new)
    BY <1>here, <1>same, <2>1 DEF Sent
  <2>2. Sent(c, w) /\ w \in Words
    BY <1>here
  <2>3. CASE Line(w) # Line(x)
    BY <1>4, <2>2, <2>3, Loaded DEF Sent
  \* Only a live word is on the line of a word that the program may load.
  <2>4. CASE Line(w) = Line(x)
    <3>1. Live(w)
      BY <2>1, <2>2, <2>4, KeptOff DEF Live, Incoming
    <3>2. w \in ProcessorView
      BY <1>4, <2>2, <3>1, LiveSeen DEF LiveKept, Load
    <3> QED
      BY <1>4, <2>2, <2>4, <3>2, Loaded
  <2> QED
    BY <2>3, <2>4
<1>5. ASSUME NEW x \in Words, Store(x) PROVE SentKept'
  <2>1. job' = job /\ x \notin InFlight
    BY <1>5 DEF Store
  <2> SUFFICES ASSUME NEW c \in Contexts, Flushed(c), NEW w \in job[c].left
        PROVE  LET d == Device[job[c].kind] IN
               /\ w \in memory'
               /\ w \in cache'.has => w \in cache'.new
               /\ w \in pending'["arm"].has => w \in pending'["arm"].new
               /\ w \notin pending'[d].has
               /\ w \in ahead'[d].has => w \in ahead'[d].new \/ (w \in ahead[d].has \ ahead[d].new)
    BY <1>same, <2>1
  <2>2. /\ Sent(c, w) /\ w \in Words /\ w \in Span(job[c].kind) /\ job[c].kind # "none"
        /\ Device[job[c].kind] \in Masters
    BY <1>0, <1>here
  <2>3. w # x
    BY <2>1, <2>2, KeptOff
  <2>4. /\ cache'.has = cache.has
        /\ w \in memory' <=> w \in memory
        /\ w \in cache'.new <=> w \in cache.new
        /\ \A m \in Masters : /\ ahead'[m].has = ahead[m].has
                              /\ w \in pending'[m].has <=> w \in pending[m].has
                              /\ w \in pending'[m].new <=> w \in pending[m].new
                              /\ w \in ahead'[m].new <=> w \in ahead[m].new
    BY <1>5, <2>2, <2>3, Stored
  <2> QED
    BY <1>0, <2>2, <2>4 DEF Sent
<1>6. ASSUME NEW b \in Contexts, NEW k \in Kinds, Begin(b, k) PROVE SentKept'
  <2> SUFFICES ASSUME NEW c \in Contexts, Flushed(c)', NEW w \in job'[c].left
               PROVE  Sent(c, w)'
    BY <1>one
  <2>1. /\ UNCHANGED <<memory, cache, pending, ahead>>
        /\ \A d \in Contexts : d # b => job'[d] = job[d] /\ Doing(d)' = Doing(d)
    BY <1>6, BeginJobs DEF Begin
  <2>2. c # b
    <3> SUFFICES ASSUME c = b PROVE FALSE
      OBVIOUS
    <3>1. /\ job'[b].kind = k
          /\ Doing(b)' = IF k \in {"sdRead", "nandRead"} THEN "inval"
                         ELSE IF k = "ppc" THEN "flushall" ELSE "flush"
      BY <1>6, BeginJobs
    <3> QED
      BY <3>1 DEF Flushed, Outgoing
  <2>3. job'[c] = job[c] /\ Doing(c)' = Doing(c)
    BY <2>1, <2>2
  <2>4. Flushed(c) /\ w \in job[c].left
    BY <2>3 DEF Flushed
  <2> QED
    BY <2>1, <2>3, <2>4 DEF SentKept, Sent
<1>7. ASSUME NEW b \in Contexts, StartDevice(b) PROVE SentKept'
  <2> SUFFICES ASSUME NEW c \in Contexts, Flushed(c)', NEW w \in job'[c].left
               PROVE  Sent(c, w)'
    BY <1>one
  <2>1. /\ job[b].todo # <<>> /\ Doing(b) = "start" /\ Advance(b) /\ job[b] # NoJob
        /\ DrainWriteBuffer({}) /\ cache' = cache
        /\ \A d \in Devices : ahead'[d] = ahead[d]
    BY <1>0, <1>7, AtIs DEF StartDevice, NoJob
  <2>2. /\ job[b].kind \in Kinds /\ job[b].todo \in Rests[job[b].kind]
        /\ Doing(b) = Head(job[b].todo)
    BY <2>1, JobNow
  <2>3. After[job[b].kind][Doing(b)] = "run"
    BY <2>1, <2>2, CallsFollow
  <2>4. /\ job'[c].kind = job[c].kind /\ job'[c].left = job[c].left
        /\ Doing(c)' = Doing(c) \/ (Doing(c) = "start" /\ Doing(c)' = "run")
    BY <2>1, <2>3, AdvancedParts
  <2>5. Flushed(c) /\ w \in job[c].left
    BY <2>4 DEF Flushed
  <2>6. Sent(c, w) /\ w \in Words /\ Device[job[c].kind] \in Devices
    BY <1>here, <2>5
  <2>7. /\ w \in memory' /\ w \notin pending'["arm"].has
        /\ pending'[Device[job[c].kind]] = pending[Device[job[c].kind]]
    BY <1>drain, <2>1, <2>6, Drained DEF Sent
  <2> QED
    BY <2>1, <2>4, <2>5, <2>6, <2>7, SentStays DEF Sent
<1>8. ASSUME NEW b \in Contexts, Call(b) PROVE SentKept'
  <2> SUFFICES ASSUME NEW c \in Contexts, Flushed(c)', NEW w \in job'[c].left
               PROVE  Sent(c, w)'
    BY <1>one
  <2>1. /\ enabled = "on" /\ job[b].todo # <<>> /\ Advance(b)
        /\ job[b].kind \in Kinds /\ job[b].kind # "none"
        /\ job[b].todo \in Rests[job[b].kind] /\ Doing(b) = Head(job[b].todo)
        /\ FlushCall(b) \/ InvalidateCall(b) \/ ToCall(b) \/ FromCall(b) \/ ToArmCall(b)
    BY <1>8, Called
  <2> DEFINE a == After[job[b].kind][Doing(b)]
  <2>2. /\ \A d \in Contexts : d # b => job'[d] = job[d] /\ Doing(d)' = Doing(d)
        /\ Doing(b)' = a
        /\ a = "none" => job'[b].left = {}
        /\ a # "none" => job'[b].kind = job[b].kind /\ job'[b].left = job[b].left
    BY <2>1, AdvancedParts
  <2> HIDE DEF a
  <2>3. job'[c].kind = job[c].kind /\ job'[c].left = job[c].left /\ (c = b => a # "none")
    BY <2>2
  <2>4. /\ job[c].kind \in Outgoing /\ w \in job[c].left /\ w \in Span(job[c].kind)
        /\ w \in Words /\ Device[job[c].kind] \in Devices /\ Device[job[c].kind] \in Masters
        /\ \A d \in Devices : w \notin pending[d].has /\ w \notin pending[d].new
    <3>1. job[c].kind \in Outgoing /\ w \in job[c].left
      BY <2>3 DEF Flushed
    <3>2. job[c] # NoJob
      BY <3>1 DEF NoJob, Outgoing
    <3>3. w \in Span(job[c].kind)
      BY <3>1, <3>2, JobNow
    <3> QED
      BY <1>0, <3>1, <3>3, OutgoingApart
  \* No call undoes what was sent before.
  <2>5. ASSUME Flushed(c)
        PROVE  LET d == Device[job[c].kind] IN
               /\ w \in memory' /\ (w \in cache'.has => w \in cache'.new)
               /\ w \in pending'["arm"].has => w \in pending'["arm"].new
               /\ w \notin pending'[d].has
               /\ ahead'[d] = ahead[d] \/ ahead'[d] = Empty
    <3>1. Sent(c, w)
      BY <1>here, <2>4, <2>5
    <3>2. CASE FlushCall(b)
      <4>1. PICK ls \in SUBSET Lines : DrainWriteBuffer(ls)
        BY <3>2 DEF FlushCall
      <4>2. w \in memory' /\ w \notin pending'["arm"].has
        BY <1>drain, <2>4, <3>1, <4>1 DEF Sent
      <4>3. pending'[Device[job[c].kind]] = pending[Device[job[c].kind]]
        BY <2>4, <4>1, Drained
      <4> QED
        BY <1>0, <2>4, <3>1, <3>2, <4>2, <4>3 DEF FlushCall, Sent
    <3>3. CASE InvalidateCall(b)
      BY <1>0, <2>4, <3>1, <3>3 DEF InvalidateCall, Sent
    <3>4. CASE ToCall(b) \/ ToArmCall(b)
      <4>1. LET d == Device[job[c].kind] IN ahead'[d] = ahead[d] \/ ahead'[d] = Empty
        BY <1>0, <2>4, <3>4 DEF ToCall, ToArmCall
      <4> QED
        BY <3>1, <3>4, <4>1 DEF ToCall, ToArmCall, Sent
    <3>5. CASE FromCall(b)
      <4>1. Device[job[b].kind] \in Devices
        BY <2>1, DeviceIs
      <4> DEFINE m == Device[job[b].kind]
      <4> HIDE DEF m
      <4>2. /\ m \in Devices /\ memory' = Written(memory, pending[m]) /\ cache' = cache
            /\ pending' = [pending EXCEPT ![m] = Empty]
            /\ ahead' = [ahead EXCEPT !["arm"] = Empty]
        BY <3>5, <4>1 DEF FromCall, m
      <4>3. w \in memory'
        BY <2>4, <3>1, <4>2 DEF Sent, Written
      <4>4. /\ pending'["arm"] = pending["arm"]
            /\ w \notin pending'[Device[job[c].kind]].has
            /\ ahead'[Device[job[c].kind]] = ahead[Device[job[c].kind]]
        BY <1>0, <2>4, <4>2
      <4> QED
        BY <3>1, <4>2, <4>3, <4>4 DEF Sent
    <3> QED
      BY <2>1, <3>2, <3>3, <3>4, <3>5
  <2>6. CASE c # b
    <3>1. Doing(c)' = Doing(c) /\ Flushed(c)
      BY <2>2, <2>3, <2>6 DEF Flushed
    <3> QED
      BY <1>0, <2>3, <2>4, <2>5, <3>1, SentStays
  <2>7. CASE c = b
    <3>1. Doing(c)' = a
      BY <2>2, <2>7
    \* The flush: the word was live, and memory now has its value.
    <3>2. CASE Doing(b) \in {"flush", "flushall"}
      <4>1. /\ FlushCall(b)
            /\ a = IF Doing(b) = "flushall" THEN "start"
                   ELSE IF job[b].kind = "aes" THEN "inval" ELSE "to"
            /\ Doing(b) = "flushall" => job[b].kind = "ppc"
        BY <2>1, <3>2, CallsFollow DEF InvalidateCall, ToCall, FromCall, ToArmCall, a
      <4>2. PICK ls \in SUBSET Lines : DrainWriteBuffer(ls) /\ Line(w) \in ls
        BY <2>4, <2>7, <4>1 DEF FlushCall
      <4>3. Live(w)
        <5>1. ASSUME NEW d \in Contexts, job[d].kind \in Incoming, Doing(d) # "flush"
              PROVE  w \notin Span(job[d].kind)
          <6>1. d # c
            BY <2>1, <2>7, <3>2, <5>1, CallsFollow DEF Incoming
          <6>2. job[d].kind # "none" /\ job[c].kind # "none"
            BY <2>1, <2>7, <5>1 DEF Incoming
          <6> QED
            BY <2>4, <6>1, <6>2, Apart
        <5> QED
          BY <5>1 DEF Live
      <4>4. /\ ahead' = [ahead EXCEPT !["arm"] = Empty] /\ cache' = cache
            /\ ahead'["arm"].has = {} /\ ahead'["arm"].new = {}
        BY <1>0, <4>1 DEF FlushCall
      <4>5. /\ w \in cache'.has => w \in cache'.new
            /\ w \in memory' /\ w \notin pending'["arm"].has
        BY <2>1, <2>4, <4>2, <4>3, <4>4, DrainKeeps DEF LiveKept
      <4>6. pending'[Device[job[c].kind]] = pending[Device[job[c].kind]]
        BY <2>4, <4>2, Drained
      <4>7. Doing(c)' = "start" => ahead'[Device[job[c].kind]].has = {}
        <5> SUFFICES ASSUME Doing(c)' = "start" PROVE ahead'[Device[job[c].kind]].has = {}
          OBVIOUS
        <5>1. job[c].kind = "ppc"
          BY <2>7, <3>1, <4>1
        <5>2. Device[job[c].kind] = "ppc"
          BY <5>1 DEF Device
        <5> QED
          BY <1>0, <2>4, <4>4, <5>2 DEF AtRest
      <4>8. Doing(c)' # "run"
        BY <3>1, <4>1
      <4> QED
        BY <2>3, <2>4, <4>5, <4>6, <4>7, <4>8 DEF Sent
    <3>3. CASE Doing(b) \notin {"flush", "flushall"}
      <4>1. Flushed(c)
        BY <2>4, <2>7, <3>3 DEF Flushed
      <4>2. LET d == Device[job[c].kind] IN
            /\ w \in memory' /\ (w \in cache'.has => w \in cache'.new)
            /\ w \in pending'["arm"].has => w \in pending'["arm"].new
            /\ w \notin pending'[d].has
        BY <2>5, <4>1
      <4>3. Doing(c)' \in {"start", "run"} => ahead'[Device[job[c].kind]].has = {}
        <5> SUFFICES ASSUME Doing(c)' \in {"start", "run"}
                     PROVE  ahead'[Device[job[c].kind]].has = {}
          OBVIOUS
        <5>1. Doing(b) \in {"inval", "to", "from", "toarm"}
          BY <2>1, <3>3 DEF FlushCall, InvalidateCall, ToCall, FromCall, ToArmCall
        <5>2. Doing(b) = "to"
          BY <2>1, <2>4, <2>7, <3>1, <5>1, CallsFollow DEF a, Incoming, Outgoing
        <5>3. ToCall(b)
          BY <2>1, <5>2 DEF FlushCall, InvalidateCall, FromCall, ToArmCall
        <5> QED
          BY <1>0, <2>4, <2>7, <5>3 DEF ToCall
      <4> QED
        BY <2>3, <4>2, <4>3 DEF Sent
    <3> QED
      BY <3>2, <3>3
  <2> QED
    BY <2>6, <2>7
<1>9. ASSUME NEW b \in Contexts, Complete(b) PROVE SentKept'
  <2> SUFFICES ASSUME NEW c \in Contexts, Flushed(c)', NEW w \in job'[c].left
               PROVE  Sent(c, w)'
    BY <1>one
  <2>1. /\ job[b].todo # <<>> /\ job[b].left = {} /\ Advance(b)
        /\ UNCHANGED <<memory, cache, pending, ahead>>
    BY <1>9, AtIs DEF Complete
  <2>2. c # b
    BY <2>1, AdvancedParts
  <2>3. job'[c] = job[c] /\ Doing(c)' = Doing(c)
    BY <2>1, <2>2, AdvancedParts
  <2>4. Flushed(c) /\ w \in job[c].left
    BY <2>3 DEF Flushed
  <2> QED
    BY <2>1, <2>3, <2>4 DEF SentKept, Sent
<1>10. ASSUME NEW b \in Contexts, NEW l \in Lines, Transfer(b, l) PROVE SentKept'
  <2> SUFFICES ASSUME NEW c \in Contexts, Flushed(c)', NEW w \in job'[c].left
               PROVE  Sent(c, w)'
    BY <1>one
  <2> DEFINE k == job[b].kind  ws == job[b].left \cap WordsOf(l)
  <2>1. /\ job'[c].kind = job[c].kind /\ Doing(c)' = Doing(c)
        /\ job'[c].left \subseteq job[c].left
        /\ c # b => job'[c] = job[c]
    BY <1>10, TransferJobs
  <2>2. Flushed(c) /\ w \in job[c].left
    BY <2>1 DEF Flushed
  <2>3. /\ w \in Words /\ w \in Span(job[c].kind) /\ job[c].kind # "none"
        /\ Sent(c, w) /\ Device[job[c].kind] \in Masters
    BY <1>0, <1>here, <2>2
  <2>4. /\ k # "none" /\ ws \subseteq Span(k) /\ job'[b].left = job[b].left \ ws
        /\ cache'.has = cache.has
        /\ \A m \in Masters : ahead'[m].has = ahead[m].has
        /\ w \notin ws \/ k \notin Incoming =>
              /\ w \in memory' <=> w \in memory
              /\ w \in cache'.new <=> w \in cache.new
              /\ \A m \in Masters : /\ w \in pending'[m].has <=> w \in pending[m].has
                                    /\ w \in pending'[m].new <=> w \in pending[m].new
                                    /\ w \in ahead'[m].new <=> w \in ahead[m].new
    BY <1>10, <2>3, Transferred
  <2> HIDE DEF ws, k
  <2>5. w \notin ws
    <3>1. CASE c = b
      BY <2>4, <3>1
    <3>2. CASE c # b
      BY <2>3, <2>4, <3>2, Apart DEF k
    <3> QED
      BY <3>1, <3>2
  <2> QED
    BY <1>0, <2>1, <2>2, <2>3, <2>4, <2>5, SentStays DEF Sent
<1>11. CASE MemInitialize
  <2>1. UNCHANGED job /\ \A c \in Contexts : job[c].kind \notin Outgoing
    BY <1>11, NoJobs DEF MemInitialize
  <2> QED
    BY <2>1 DEF SentKept, Flushed
<1>12. CASE MemShutdown
  <2>1. /\ DrainWriteBuffer(Lines) /\ cache' = Empty /\ UNCHANGED job
        /\ \A d \in Devices : ahead'[d] = ahead[d]
    BY <1>0, <1>12 DEF MemShutdown
  <2> SUFFICES ASSUME NEW c \in Contexts, Flushed(c), NEW w \in job[c].left
        PROVE  LET d == Device[job[c].kind] IN
               /\ w \in memory' /\ w \notin pending'["arm"].has
               /\ w \notin pending'[d].has /\ d \in Devices
    BY <1>0, <1>same, <2>1
  <2>2. Sent(c, w) /\ w \in Words /\ Device[job[c].kind] \in Devices
    BY <1>here
  <2>3. pending'[Device[job[c].kind]] = pending[Device[job[c].kind]]
    BY <2>1, <2>2, Drained
  <2> QED
    BY <1>drain, <2>1, <2>2, <2>3 DEF Sent
<1>13. CASE UNCHANGED vars
  BY <1>13 DEF vars, SentKept, Flushed, Sent, Doing
<1> QED
  BY <1>1, <1>2, <1>3, <1>4, <1>5, <1>6, <1>7, <1>8, <1>9, <1>10, <1>11, <1>12, <1>13,
     ContextsAre DEF Next, Bus, Accesses, Transfers

-----------------------------------------------------------------------------
(***************************************************************************)
(* The theorems.                                                           *)
(***************************************************************************)
LEMMA JobsGiveTypes == Jobs => JobsTyped
<1> SUFFICES ASSUME Jobs, NEW c \in Contexts
             PROVE  /\ job[c].kind \in KindsOf[c] \cup {"none"} /\ job[c].todo \in Seq(Calls)
                    /\ job[c].left \subseteq Words
  BY ContextsAre DEF JobsTyped
<1>1. job[c] \in [kind : Kinds \cup {"none"}, todo : Seq(Calls), left : SUBSET Words]
  BY DEF Jobs
<1> QED
  BY <1>1, JobNone DEF Jobs

\* The inductive invariant holds in every state, whatever the size of the memory and
\* of its lines, the flush limit and the places of the buffers.
THEOREM MemoryInvariance == Spec => []IInv
<1> DEFINE Parts == /\ CacheTyped /\ PlacesTyped /\ Jobs /\ LiveKept /\ SentKept
                    /\ ReceivedKept /\ Posted /\ AtRest
<1>1. Init => Parts
  BY TypedInit, JobsInit, LiveInit, SentInit, ReceivedInit, PostedInit, AtRestInit
<1>2. Parts /\ [Next]_vars => Parts'
  <2> SUFFICES ASSUME Parts, [Next]_vars PROVE Parts'
    OBVIOUS
  <2>1. CacheTyped' /\ PlacesTyped'
    BY CacheStep, PlacesStep
  <2>2. Jobs' /\ Posted' /\ AtRest'
    BY JobsStep, PostedStep, AtRestStep
  <2>3. ReceivedKept' /\ LiveKept' /\ SentKept'
    BY ReceivedStep, LiveStep, SentStep
  <2> QED
    BY <2>1, <2>2, <2>3
<1>3. Parts => IInv
  BY TypedParts, JobsGiveTypes DEF IInv
<1> HIDE DEF Parts
<1> QED
  BY <1>1, <1>2, <1>3, PTL DEF Spec

\* The types of the caches, buffers and transfers; the cache holds whole lines, only
\* those can be dirty, and what runs after mini finds it empty (memory.c:361-373).
THEOREM MemoryTyped == Spec => []TypeOK
<1>1. IInv => TypeOK
  BY DEF IInv
<1> QED
  BY <1>1, MemoryInvariance, PTL

\* A device that runs takes the latest value of every word it still has to take: the
\* flush before it, ahb_flush_to and the write that starts it are enough wherever
\* write-backs and lines read ahead were before (memory.c:207-230, sdhc.c:576).
THEOREM SentIsCurrent == Spec => []SentCurrent
<1>1. IInv => SentCurrent
  <2> SUFFICES ASSUME IInv, NEW c \in Contexts, job[c].kind \in Outgoing,
                      Head(job[c].todo) = "run", NEW w \in job[c].left
               PROVE  w \in Behind(Device[job[c].kind])
    BY ContextsAre DEF SentCurrent
  <2>1. job[c] # NoJob /\ Jobs
    BY DEF NoJob, Outgoing, IInv
  <2>2. Doing(c) = "run"
    BY <2>1, JobNow
  <2>3. Sent(c, w)
    BY <2>2 DEF IInv, SentKept, Flushed
  <2> QED
    BY <2>2, <2>3 DEF Sent, Behind
<1> QED
  BY <1>1, MemoryInvariance, PTL

\* The processor reads the latest value of every word that no transfer is about to
\* deliver: what a finished transfer delivered and its own stores, next to any buffer
\* that was invalidated, and across the cache's switching on and off.
THEOREM ViewIsCurrent == Spec => []ViewCurrent
<1>1. IInv => ViewCurrent
  <2> SUFFICES ASSUME IInv, NEW w \in Words, w \notin Arriving
               PROVE  w \in ProcessorView
    BY DEF ViewCurrent
  <2>1. TypeOK /\ Jobs /\ AtRest /\ LiveKept
    BY DEF IInv
  <2>2. DOMAIN job = Contexts /\ CacheTyped /\ PlacesTyped
    BY <2>1, TypedParts DEF Jobs
  <2>3. Live(w)
    BY <2>2, ContextsAre DEF Live, Arriving
  <2>4. Kept(w)
    BY <2>1, <2>3 DEF LiveKept
  <2>5. CASE enabled = "boot"
    <3>1. /\ memory = Words /\ pending["arm"] = Empty
          /\ ahead["arm"].has \subseteq ahead["arm"].new
      BY <2>1, <2>2, <2>5, Masterly DEF AtRest
    <3> QED
      BY <2>5, <3>1 DEF ProcessorView, Behind, Empty
  <2>6. CASE enabled \in {"on", "down"}
    BY <2>2, <2>4, <2>6, LiveSeen
  <2> QED
    BY <2>2, <2>5, <2>6 DEF PlacesTyped
<1> QED
  BY <1>1, MemoryInvariance, PTL
=============================================================================
