------------------------------- MODULE Memory -------------------------------
(***************************************************************************)
(* The caches and buffers between mini's processor, main memory and the    *)
(* devices that reach memory themselves, and what the code does about them *)
(* (src/memory.c, src/memory_asm.S): the sequences around every transfer   *)
(* of the SD controller, the NAND controller and the AES engine, the       *)
(* start of the PowerPC, and the two ends of the caches' life.             *)
(*                                                                         *)
(* A copy of a word is either the latest value written to it or an older   *)
(* one; which value it is makes no difference.  A place that holds copies  *)
(* is therefore a pair of sets: the words it holds, and those of them that *)
(* are the latest.                                                         *)
(*                                                                         *)
(* Every function of memory.c runs with interrupts off and is one step.    *)
(* The main context and the interrupt handler each run one transfer at a   *)
(* time, their steps in any order.  What the bus (AHB) does is documented  *)
(* nowhere ("no one can figure out", memory.c:81): lines read ahead and    *)
(* writes under way are what the comments of the flushes speak of.         *)
(***************************************************************************)
EXTENDS Integers, Sequences

CONSTANTS NLines, LineSize,  \* the memory, in lines and in words to a line
          FlushLimit,        \* a longer range flushes the whole cache, 0x4000 in the code
          Buffer             \* the range each kind of transfer uses: start and size

Lines == 0..NLines-1
Words == 0..NLines*LineSize-1
WordsOf(l) == l*LineSize..(l+1)*LineSize-1
Line(w) == w \div LineSize

Incoming == {"sdRead", "nandRead", "aes"}
Outgoing == {"sdWrite", "nandWrite", "aes", "ppc"}
Kinds == Incoming \cup Outgoing
Device == [sdRead |-> "sd", sdWrite |-> "sd", nandRead |-> "nand", nandWrite |-> "nand",
           aes |-> "aes", ppc |-> "ppc"]
Devices == {"sd", "nand", "aes", "ppc"}
KindsOf == [main |-> {"sdRead", "sdWrite", "aes", "ppc"}, irq |-> {"nandRead", "nandWrite"}]

Span(k) == Buffer[k].start .. Buffer[k].start + Buffer[k].size - 1

ASSUME MemoryAssumption == NLines \in Nat \ {0} /\ LineSize \in Nat \ {0} /\ FlushLimit \in Nat

\* Buffers lie in memory and are not empty.  Those a device writes are made of
\* whole lines (ALIGNED in diskio.c:22, nand.c:57, boot2.c:25-29), and no
\* buffer of the handler is part of one of the main context.
ASSUME BufferAssumption ==
  /\ Buffer \in [Kinds -> [start : Words, size : Nat \ {0}]]
  /\ \A k \in Kinds : Span(k) \subseteq Words
  /\ \A k \in Incoming : \A w \in Span(k) : WordsOf(Line(w)) \subseteq Span(k)
  /\ \A k \in KindsOf["main"], n \in KindsOf["irq"] : Span(k) \cap Span(n) = {}

VARIABLES enabled,  \* the processor's data cache: "boot", "on", "down"
          memory,   \* the words whose copy in main memory is the latest
          cache,    \* the data cache
          dirty,    \* its lines that memory has not seen
          pending,  \* writes under way to memory: the processor's and each device's
          ahead,    \* a line the bus has read ahead, for each of them
          job       \* the transfer of each context: kind, steps and words to go

vars == <<enabled, memory, cache, dirty, pending, ahead, job>>

Masters == Devices \cup {"arm"}
Empty == [has |-> {}, new |-> {}]
NoJob == [kind |-> "none", todo |-> <<>>, left |-> {}]

Copy(ws, from) == [has |-> ws, new |-> ws \cap from]
Older(c, ws) == [c EXCEPT !.new = @ \ ws]
Without(c, ws) == [has |-> c.has \ ws, new |-> c.new \ ws]
Over(c, d) == [has |-> c.has \cup d.has, new |-> (c.new \ d.has) \cup d.new]
Written(m, c) == (m \ c.has) \cup c.new

\* At power-on the cache holds junk, dirty or not; it is switched off.
Init ==
  /\ enabled = "boot" /\ memory = Words
  /\ \E ls \in SUBSET Lines :
       /\ cache = Copy(UNION {WordsOf(l) : l \in ls}, {})
       /\ dirty = ls
  /\ pending = [m \in Masters |-> Empty] /\ ahead = [m \in Masters |-> Empty]
  /\ job = [c \in DOMAIN KindsOf |-> NoJob]

(***************************************************************************)
(* What the processor and a device would read now.                         *)
(***************************************************************************)
Behind(m) == LET p == pending[m]  a == ahead[m] IN
  p.new \cup (a.new \ p.has) \cup (memory \ (p.has \cup a.has))
ProcessorView ==
  IF enabled = "on" THEN cache.new \cup (Behind("arm") \ cache.has) ELSE Behind("arm")

\* The words of a transfer from its first step to its last.
InFlight == UNION { IF job[c].kind = "none" THEN {} ELSE Span(job[c].kind) : c \in DOMAIN job }

(***************************************************************************)
(* The bus and the cache, on their own.                                    *)
(***************************************************************************)
\* The bus reads a line ahead for a master; of a device's line only the words it
\* is ever given to read make a difference.  The PowerPC comes out of its reset
\* with nothing read.  Bound: one device at a time has a line read ahead; they do
\* not meet otherwise.
ReadBy(m) == IF m = "arm" THEN Words
             ELSE UNION {Span(k) : k \in {o \in Outgoing \ {"ppc"} : Device[o] = m}}
ReadAhead(m, l) ==
  /\ WordsOf(l) \cap ReadBy(m) # {}
  /\ m # "arm" => \A d \in Devices \ {m} : ahead[d] = Empty
  /\ ahead' = [ahead EXCEPT ![m] = Copy(WordsOf(l) \cap ReadBy(m), memory)]
  /\ UNCHANGED <<enabled, memory, cache, dirty, pending, job>>

\* A write of the processor that gets to memory makes the line read ahead for it
\* void; lines read ahead for a device stay as they are.
Post(m) ==
  /\ pending[m].has # {}
  /\ memory' = Written(memory, pending[m])
  /\ pending' = [pending EXCEPT ![m] = Empty]
  /\ ahead' = IF m = "arm" THEN [ahead EXCEPT !["arm"] = Without(@, pending["arm"].has)]
                           ELSE ahead
  /\ UNCHANGED <<enabled, cache, dirty, job>>

\* Bound: the write buffer takes words of one line at a time.
Room(l) == pending["arm"].has \subseteq WordsOf(l)

Evict(l) ==
  /\ enabled = "on" /\ WordsOf(l) \subseteq cache.has /\ (l \in dirty => Room(l))
  /\ cache' = Without(cache, WordsOf(l)) /\ dirty' = dirty \ {l}
  /\ pending' = IF l \in dirty
                THEN [pending EXCEPT !["arm"] =
                        Over(@, [has |-> WordsOf(l), new |-> cache.new \cap WordsOf(l)])]
                ELSE pending
  /\ UNCHANGED <<enabled, memory, ahead, job>>

(***************************************************************************)
(* The program: loads and stores of words no transfer has under way.  A    *)
(* store that misses the cache goes to the write buffer.                   *)
(***************************************************************************)
Load(w) ==
  /\ enabled = "on" /\ w \notin cache.has \cup InFlight
  /\ cache' = Over(cache, Copy(WordsOf(Line(w)), ProcessorView))
  /\ UNCHANGED <<enabled, memory, dirty, pending, ahead, job>>

Store(w) ==
  /\ enabled = "on" /\ w \notin InFlight
  /\ LET hit == w \in cache.has IN
     /\ hit \/ Room(Line(w))
     /\ cache' = IF hit THEN [cache EXCEPT !.new = @ \cup {w}] ELSE cache
     /\ dirty' = IF hit THEN dirty \cup {Line(w)} ELSE dirty
     /\ pending' = [m \in Masters |->
          IF m = "arm" /\ ~hit THEN Over(pending[m], [has |-> {w}, new |-> {w}])
                               ELSE Older(pending[m], {w})]
  /\ memory' = memory \ {w}
  /\ ahead' = [m \in Masters |-> Older(ahead[m], {w})]
  /\ UNCHANGED <<enabled, job>>

(***************************************************************************)
(* The functions of memory.c, each with interrupts off.                    *)
(***************************************************************************)
\* The lines of the loops in memory_asm.S: the start rounded down, the end
\* rounded up.  The loops count down to zero before they look, so an empty
\* range that starts on a line takes the whole memory.
Entries_short(start, size) == start \div LineSize .. (start + size) \div LineSize - 1
Entries(start, size) ==
  LET count == (start + size + LineSize - 1) \div LineSize - start \div LineSize IN
  IF count = 0 THEN Lines ELSE start \div LineSize .. start \div LineSize + count - 1

WordsIn(ls) == UNION {WordsOf(l) : l \in ls}
Cleaned(ls) == LET ws == WordsIn(ls \cap dirty) IN [has |-> ws, new |-> cache.new \cap ws]

\* Write the lines back and wait until the write buffer is empty.
DrainWriteBuffer(ls) ==
  /\ memory' = Written(Written(memory, pending["arm"]), Cleaned(ls))
  /\ pending' = [pending EXCEPT !["arm"] = Empty]
  /\ dirty' = dirty \ ls

\* ahb_flush_to also drops what was read ahead for the processor.
AhbFlushTo(m) == ahead' = [ahead EXCEPT ![m] = Empty, !["arm"] = Empty]

\* The device acknowledges that its writes are in memory, then what was read
\* ahead for the processor is dropped.
AhbFlushFrom(m) ==
  /\ memory' = Written(memory, pending[m])
  /\ pending' = [pending EXCEPT ![m] = Empty]
  /\ ahead' = [ahead EXCEPT !["arm"] = Empty]
  /\ UNCHANGED <<cache, dirty>>

DcFlushRange(b) ==
  /\ DrainWriteBuffer(IF b.size > FlushLimit THEN Lines ELSE Entries(b.start, b.size))
  /\ ahead' = [ahead EXCEPT !["arm"] = Empty] /\ UNCHANGED cache

DcFlushAll ==
  /\ DrainWriteBuffer(Lines)
  /\ ahead' = [ahead EXCEPT !["arm"] = Empty] /\ UNCHANGED cache

DcInvalidateRange(b) ==
  LET ls == Entries(b.start, b.size) IN
  /\ cache' = Without(cache, WordsIn(ls)) /\ dirty' = dirty \ ls
  /\ AhbFlushTo("arm") /\ UNCHANGED <<memory, pending>>

\* mem_initialize drops the junk before it switches the cache on.
MemInitialize ==
  /\ enabled = "boot" /\ enabled' = "on"
  /\ cache' = Empty /\ dirty' = {}
  /\ UNCHANGED <<memory, pending, ahead, job>>

\* The last thing _main does before it jumps; interrupts stay off after it.
MemShutdown_kept ==
  /\ enabled = "on" /\ job["main"] = NoJob /\ enabled' = "down"
  /\ DrainWriteBuffer(Lines)
  /\ ahead' = [ahead EXCEPT !["arm"] = Without(@, pending["arm"].has \cup WordsIn(dirty))]
  /\ UNCHANGED <<cache, job>>
MemShutdown ==
  /\ enabled = "on" /\ job["main"] = NoJob /\ enabled' = "down"
  /\ DrainWriteBuffer(Lines) /\ cache' = Empty
  /\ ahead' = [ahead EXCEPT !["arm"] = Without(@, pending["arm"].has \cup WordsIn(dirty))]
  /\ UNCHANGED job

(***************************************************************************)
(* The transfers: the calls their code makes, in its order.                *)
(***************************************************************************)
SdCalls(k) == IF k = "sdRead" THEN <<"inval", "start", "run", "from">>
                              ELSE <<"flush", "to", "start", "run">>
NandCalls(k) == IF k = "nandRead" THEN <<"inval", "start", "run", "from", "toarm">>
                                  ELSE <<"flush", "to", "start", "run", "from", "toarm">>
AesCalls == <<"flush", "inval", "to", "start", "run", "from", "toarm">>
PpcCalls == <<"flushall", "start", "run">>
Program(k) == CASE Device[k] = "sd"   -> SdCalls(k)
                [] Device[k] = "nand" -> NandCalls(k)
                [] k = "aes"          -> AesCalls
                [] k = "ppc"          -> PpcCalls

Begin(c, k) ==
  /\ enabled = "on" /\ job[c] = NoJob /\ k \in KindsOf[c]
  /\ job' = [job EXCEPT ![c] = [kind |-> k, todo |-> Program(k), left |-> Span(k)]]
  /\ UNCHANGED <<enabled, memory, cache, dirty, pending, ahead>>

At(c, call) == enabled = "on" /\ job[c].todo # <<>> /\ Head(job[c].todo) = call
Advance(c) ==
  job' = [job EXCEPT ![c] = IF Len(job[c].todo) = 1 THEN NoJob
                            ELSE [job[c] EXCEPT !.todo = Tail(@)]]

\* The registers are mapped without caching or buffering: the write that starts
\* a device waits for the writes before it.
StartDevice_buffered(c) ==
  /\ At(c, "start") /\ Advance(c)
  /\ UNCHANGED <<enabled, memory, cache, dirty, pending, ahead>>
StartDevice(c) ==
  /\ At(c, "start") /\ Advance(c)
  /\ DrainWriteBuffer({})
  /\ ahead' = [ahead EXCEPT !["arm"] = Without(@, pending["arm"].has)]
  /\ UNCHANGED <<enabled, cache>>

Call(c) ==
  /\ \/ At(c, "flush") /\ DcFlushRange(Buffer[job[c].kind])
     \/ At(c, "flushall") /\ DcFlushAll
     \/ At(c, "inval") /\ DcInvalidateRange(Buffer[job[c].kind])
     \/ At(c, "to") /\ AhbFlushTo(Device[job[c].kind]) /\ UNCHANGED <<memory, cache, dirty, pending>>
     \/ At(c, "from") /\ AhbFlushFrom(Device[job[c].kind])
     \/ At(c, "toarm") /\ AhbFlushTo("arm") /\ UNCHANGED <<memory, cache, dirty, pending>>
  /\ Advance(c) /\ UNCHANGED enabled

\* A device takes the words of a line, or gives them: any copy there is of them
\* is then old.
Transfer(c, l) ==
  LET k == job[c].kind  ws == job[c].left \cap WordsOf(l) IN
  /\ job[c].todo # <<>> /\ Head(job[c].todo) = "run" /\ ws # {}
  /\ job' = [job EXCEPT ![c].left = @ \ ws]
  /\ IF k \in Incoming
     THEN /\ memory' = memory \ ws /\ cache' = Older(cache, ws)
          /\ ahead' = [m \in Masters |-> Older(ahead[m], ws)]
          /\ pending' = [m \in Masters |->
               IF m = Device[k] THEN Over(pending[m], Copy(ws, ws)) ELSE Older(pending[m], ws)]
     ELSE UNCHANGED <<memory, cache, pending, ahead>>
  /\ UNCHANGED <<enabled, dirty>>

\* The device reports the end, by interrupt or by its register.
Complete(c) ==
  /\ At(c, "run") /\ job[c].left = {} /\ Advance(c)
  /\ UNCHANGED <<enabled, memory, cache, dirty, pending, ahead>>

Bus == \/ \E m \in Masters, l \in Lines : ReadAhead(m, l)
       \/ \E m \in Masters : Post(m)
       \/ \E l \in Lines : Evict(l)
Accesses == \E w \in Words : Load(w) \/ Store(w)
Transfers == \E c \in DOMAIN KindsOf :
  \/ \E k \in Kinds : Begin(c, k)
  \/ StartDevice(c) \/ Call(c) \/ Complete(c)
  \/ \E l \in Lines : Transfer(c, l)
Next == Bus \/ Accesses \/ Transfers \/ MemInitialize \/ MemShutdown
Spec == Init /\ [][Next]_vars

-----------------------------------------------------------------------------
Copies == {c \in [has : SUBSET Words, new : SUBSET Words] : c.new \subseteq c.has}
Calls == {"flush", "flushall", "inval", "to", "from", "toarm", "start", "run"}

\* The types of the places words are held in and of the transfers; the cache
\* holds whole lines, only those can be dirty, and what runs after mini finds
\* nothing in it (memory.c:361-373).
TypeOK ==
  /\ enabled \in {"boot", "on", "down"} /\ memory \subseteq Words
  /\ cache \in Copies /\ dirty \subseteq Lines /\ WordsIn(dirty) \subseteq cache.has
  /\ \A l \in Lines : WordsOf(l) \cap cache.has \in {{}, WordsOf(l)}
  /\ enabled = "down" => cache = Empty
  /\ pending \in [Masters -> Copies] /\ ahead \in [Masters -> Copies]
  /\ \A c \in DOMAIN KindsOf :
       /\ job[c].kind \in KindsOf[c] \cup {"none"} /\ job[c].todo \in Seq(Calls)
       /\ job[c].left \subseteq Words

\* Once a device runs, every word it still has to take is the one the processor
\* stored last, wherever stores, write-backs and lines read ahead were before
\* (sdhc.c:576, nand.c:214-216, crypto.c:129-132, powerpc_elf.c:610).
SentCurrent ==
  \A c \in DOMAIN KindsOf :
    job[c].kind \in Outgoing /\ Head(job[c].todo) = "run" =>
      job[c].left \subseteq Behind(Device[job[c].kind])

Arriving == UNION { IF job[c].kind \in Incoming THEN Span(job[c].kind) ELSE {} :
                    c \in DOMAIN KindsOf }
\* What the processor loads is the latest there is: what a finished transfer
\* delivered, and its own stores, next to any buffer that was invalidated, and
\* after the cache is switched on or off (memory.c:207-230, 312-373).
ViewCurrent == Words \ Arriving \subseteq ProcessorView
=============================================================================
