-------------------------------- MODULE Mini --------------------------------
(***************************************************************************)
(* The life of mini outside its interrupt handlers: main.c loads boot2,    *)
(* boots the PowerPC from a file on the SD card and then serves, one after *)
(* the other, the requests of the slow queue and the uploads that come in  *)
(* over a USB Gecko, until one of them makes it jump elsewhere.            *)
(*                                                                         *)
(* The PowerPC runs beside it, sends requests, reads answers and writes    *)
(* its memory.  How requests and answers travel is in Ipc, how files are   *)
(* read is in FatFs.                                                       *)
(***************************************************************************)
EXTENDS Boot2, PpcElf

CONSTANTS Images,      \* the images that are uploaded or booted from memory
          UpBuf, Vec,  \* 0x10100000 and 0x11000000
          BufferMax,   \* GECKO_BUFFER_MAX, in cells
          Timers,      \* HW_TIMER wraps here
          Timeout,     \* the five seconds of an upload
          OutSize,     \* answers the ring to the PowerPC holds
          Uploads,     \* what the host may send: [what, size]
          MaxEvents    \* requests, uploads and writes of the PowerPC, together

ASSUME MiniAssumption ==
  /\ Images \subseteq Elfs /\ Vec \in PpcMemory
  /\ Timers \in Nat \ {0} /\ OutSize \in Nat
  /\ \A e \in Images : \A i \in DOMAIN e.segs : UpBuf \notin SegmentCells(e.segs[i])
\* Uploads fit both into the first memory and between UpBuf and mini.
ASSUME BufferAssumption ==
  /\ BufferMax \in Nat \ {0} /\ UpBuf \in Nat
  /\ BufferMax <= PPC_MEM1_END
  /\ PPC_MEM2_START <= UpBuf /\ UpBuf + BufferMax <= PPC_MEM2_END
ASSUME UploadAssumption ==
  \A u \in Uploads : u.size \in Nat /\ u.what[1] \notin {"cmd", "size"}

VARIABLES
  pc,        \* what main is doing
  vector,    \* where it jumps: "none", "boot2" or "arm"
  title,     \* the title boot2 was asked for
  mem, dirty,   \* memory, and the cells that are newer in mini's cache
  protect,   \* mem_protect of boot2's memory
  ppc,       \* "loader" before the first boot, "held" in reset, "running"
  stub,      \* the entry point that the boot code at EXI_BOOT_BASE leads to
  word, oldValue,  \* 0x1330108, and what powerpc_boot_file read there
  job,       \* the call of powerpc_boot_file or powerpc_boot_mem at work
  queue,     \* requests
  out,       \* answers the PowerPC has not read
  todo, usb, \* words the host has to send, and has sent
  gst, gcmd, glen, gleft, gstart,  \* _gecko_state, _gecko_cmd, ...
  timer, events

upVars   == <<todo, usb, gst, gcmd, glen, gleft, gstart>>
ppcVars  == <<ppc, stub, word, oldValue>>
memVars  == <<mem, dirty, protect>>
restVars == <<vector, title>>
counts   == <<timer, events>>
vars == <<loaderVars, pc, job, queue, out, upVars, ppcVars, memVars, restVars, counts>>

\* No image lies there: the fields of an ELF file that are looked at.
NoElf == [name |-> "none", ident |-> FALSE, entry |-> 0, phoff |-> FALSE, fits |-> FALSE,
          segs |-> <<>>]
NoJob == [kind |-> "none", elf |-> NoElf, next |-> 0, from |-> "none"]
Nowhere == <<"none">>
HostWords == {<<"cmd", "arm">>, <<"cmd", "ppc">>, <<"more">>}
               \cup {<<"size", u.size>> : u \in Uploads} \cup {u.what : u \in Uploads}
Request(kind, from, arg) == [kind |-> kind, from |-> from, arg |-> arg]
Image(e) == <<"image", e.name>>
ArmImage == <<"image", "arm">>

Init ==
  /\ LoaderInit
  /\ pc = "load" /\ vector = "none" /\ title = "none"
  /\ mem = [a \in Addr |-> IF a \in PpcMemory THEN <<"loader">> ELSE <<"mini">>]
  /\ dirty = {} /\ protect = FALSE
  /\ ppc = "loader" /\ stub = -1 /\ word \in IF flash.console = "wiiu" THEN {"none", "rom"} ELSE {"none"}
  /\ oldValue = "none"
  /\ job = NoJob /\ queue = <<>> /\ out = 0
  /\ todo = <<>> /\ usb = <<>> /\ gst = "none" /\ gcmd = "none" /\ glen = 0 /\ gleft = 0
  /\ gstart = 0
  /\ timer = 0 /\ events = 0

(***************************************************************************)
(* crypto.c. A page comes out as <<page, key, iv>>: it is plain when both  *)
(* are the right ones. The engine takes a page at a time.                  *)
(***************************************************************************)
\* Every page starts from the iv that was set.
AesDecrypt_restart(key, iv, src) == [i \in DOMAIN src |-> <<src[i], key, iv>>]
AesDecrypt(key, iv, src) ==
  [i \in DOMAIN src |-> <<src[i], key, IF i > 1 THEN src[i-1] ELSE iv>>]

(***************************************************************************)
(* boot2_run.                                                              *)
(***************************************************************************)
Content == IF boot2_initialized THEN [i \in 1..flash.size |-> boot2[flash.data_offset + i - 1]]
                                ELSE <<>>

\* The menu is the title that the content names itself.
Boot2Run(t) ==
  LET matches == IF boot2_initialized THEN flash.matches ELSE 0
      store(x) == [mem EXCEPT ![Vec] = IF Content = <<>> THEN @
                                       ELSE <<"boot2", AesDecrypt(<<"title">>, <<"content">>, Content), x>>]
  IN /\ protect' = TRUE /\ title' = t
     /\ IF t # "menu" /\ matches # 1
        THEN pc' = "panic" /\ mem' = store("menu") /\ vector' = vector
        ELSE pc' = "done" /\ mem' = store(t) /\ vector' = "boot2"

(***************************************************************************)
(* main.                                                                   *)
(***************************************************************************)
Load == /\ pc = "load" /\ LoaderNext
        /\ UNCHANGED <<pc, job, queue, out, upVars, ppcVars, memVars, restVars, counts>>

\* f_mount comes before the test for the GameCube mode, its result after it.
Mount ==
  /\ pc = "load" /\ LoaderDone
  /\ IF flash.console = "gc" THEN Boot2Run("gamecube")
     ELSE pc' \in {"boot", "panic"} /\ UNCHANGED <<vector, title, mem, protect>>
  /\ UNCHANGED <<loaderVars, job, queue, out, upVars, ppcVars, dirty, counts>>

\* The PowerPC is put into reset, and taken out of it.
PowerpcHang  == ppc' = "held"
PowerpcReset == ppc' = "running"

\* powerpc_load_elf or powerpc_boot_mem begins; a program that is loaded from
\* memory is stopped first, one that is loaded from a file is not.
Begin(kind, e, from, short) ==
  IF HeaderError(e, short) = 0
  THEN /\ pc' = "job" /\ job' = [kind |-> kind, elf |-> e, next |-> 1, from |-> from]
       /\ IF kind = "mem" THEN PowerpcHang ELSE ppc' = ppc
  ELSE /\ pc' = "failed" /\ job' = [NoJob EXCEPT !.from = from] /\ ppc' = ppc

\* A file that is missing or cannot be read fails like one that is too short.
BootFile ==
  /\ pc = "boot"
  /\ \E e \in Elfs, short \in BOOLEAN : Begin("file", e, "main", short)
  /\ UNCHANGED <<loaderVars, queue, out, upVars, stub, word, oldValue, memVars, restVars, counts>>

\* One program header. A file may fail at it.
Segment ==
  LET s == job.elf.segs[job.next] IN
  /\ pc = "job" /\ job.next <= Len(job.elf.segs)
  /\ \E bad \in {job.kind = "file" /\ s.load, FALSE} :
       IF bad \/ SegmentError(s) # 0
       THEN /\ pc' = "failed" /\ job' = [NoJob EXCEPT !.from = job.from]
            /\ UNCHANGED <<mem, dirty>>
       ELSE /\ mem' = StoreSegment(mem, job.elf, job.next)
            /\ dirty' = dirty \cup SegmentCells(s)
            /\ job' = [job EXCEPT !.next = @ + 1] /\ pc' = pc
  /\ UNCHANGED <<loaderVars, queue, out, upVars, ppcVars, protect, restVars, counts>>

\* The PowerPC starts while its memory is still in mini's cache.
Start_unflushed ==
  /\ pc = "job" /\ job.next > Len(job.elf.segs)
  /\ PowerpcReset /\ dirty' = dirty
  /\ stub' = IF job.kind = "file" THEN job.elf.entry ELSE stub
  /\ pc' = "loop" /\ oldValue' = word /\ job' = NoJob
  /\ UNCHANGED <<loaderVars, queue, out, upVars, word, mem, protect, restVars, counts>>
\* dc_flushall, then the boot code, then powerpc_reset. powerpc_boot_mem leaves the
\* boot code of the file before. On a Wii U the PowerPC's own boot code runs first,
\* and powerpc_boot_file waits until it has decrypted itself; the stub that leads
\* to the entry lies at 0x1800, in memory below what programs are linked to, and is
\* left out of mem.
Start ==
  /\ pc = "job" /\ job.next > Len(job.elf.segs)
  /\ PowerpcReset /\ dirty' = {}
  /\ stub' = IF job.kind = "file" THEN job.elf.entry ELSE stub
  /\ oldValue' = word
  /\ IF job.kind = "file" /\ flash.console = "wiiu" THEN pc' = "race" /\ job' = job
                                              ELSE pc' = "loop" /\ job' = NoJob
  /\ UNCHANGED <<loaderVars, queue, out, upVars, word, mem, protect, restVars, counts>>

RaceWon ==
  /\ pc = "race" /\ word # oldValue
  /\ word' = "patched" /\ pc' = "loop" /\ job' = NoJob
  /\ UNCHANGED <<loaderVars, queue, out, upVars, ppc, stub, oldValue, memVars, restVars, counts>>

\* A failed boot: main runs the system menu, a request of the PowerPC is answered
\* with the error, one of an upload is not.
Failed ==
  /\ pc = "failed" /\ job' = NoJob
  /\ IF job.from = "main" THEN Boot2Run("menu") /\ out' = out
     ELSE /\ pc' = "loop" /\ UNCHANGED <<vector, title, mem, protect>>
          /\ IF job.from = "ppc" THEN out < OutSize /\ out' = out + 1 ELSE out' = out
  /\ UNCHANGED <<loaderVars, queue, upVars, ppcVars, dirty, counts>>

(***************************************************************************)
(* ipc_process_slow.                                                       *)
(***************************************************************************)
Serving(kind) == /\ pc = "loop" /\ queue # <<>> /\ Head(queue).kind = kind
                 /\ queue' = Tail(queue)
Post == out < OutSize /\ out' = out + 1

\* Keys, AES and the like are answered. The AES engine's registers are the
\* PowerPC's from here on: boot2_run has no caller in the loop.
ServeQuery ==
  /\ Serving("query") /\ Post
  /\ UNCHANGED <<loaderVars, pc, job, upVars, ppcVars, memVars, restVars, counts>>

\* Requests for boot2 are dropped, as unknown ones are.
ServeDropped ==
  /\ Serving("dropped")
  /\ UNCHANGED <<loaderVars, pc, job, out, upVars, ppcVars, memVars, restVars, counts>>

ServeBootFile ==
  /\ Serving("file")
  /\ \E e \in Elfs, short \in BOOLEAN : Begin("file", e, "ppc", short)
  /\ UNCHANGED <<loaderVars, out, upVars, stub, word, oldValue, memVars, restVars, counts>>

\* The image lies at UpBuf, if nobody has written over it since. arg is its length.
ImageAt(cell) ==
  IF \E e \in Images : cell = Image(e) THEN CHOOSE e \in Images : cell = Image(e) ELSE NoElf
ServeBootMem ==
  /\ Serving("mem")
  /\ Begin("mem", ImageAt(mem[UpBuf]), Head(queue).from, Head(queue).arg = 0)
  /\ UNCHANGED <<loaderVars, out, upVars, stub, word, oldValue, memVars, restVars, counts>>

ServeJump ==
  /\ Serving("jump") /\ pc' = "done" /\ vector' = "arm"
  /\ UNCHANGED <<loaderVars, job, out, upVars, ppcVars, memVars, title, counts>>

(***************************************************************************)
(* gecko_process, called whenever the queue is empty. A command, a size or *)
(* a cell of data is one word of the host.                                 *)
(***************************************************************************)
TimedOut == gstart # 0 /\ timer > (gstart + Timeout) % Timers

Cleanup ==
  gst' = "none" /\ gcmd' = "none" /\ gstart' = 0 /\ glen' = 0 /\ gleft' = 0 /\ usb' = <<>>

NextWord == usb # <<>> /\ usb' = Tail(usb)
Silence  == usb = <<>> /\ UNCHANGED <<usb, gst, gcmd, glen, gleft, gstart, ppc>>

ReceiveNone ==
  /\ UNCHANGED <<mem, dirty, queue>>
  /\ \/ Silence
     \/ NextWord /\ Head(usb)[1] = "cmd" /\ gst' = "size" /\ gcmd' = Head(usb)[2]
                 /\ gstart' = timer /\ UNCHANGED <<glen, gleft, ppc>>
     \/ NextWord /\ Head(usb)[1] # "cmd" /\ UNCHANGED <<gst, gcmd, glen, gleft, gstart, ppc>>

\* A word that is no size is too large for one.
SizeIn(w) == IF w[1] = "size" THEN w[2] ELSE BufferMax + 1
ReceiveSize ==
  /\ UNCHANGED <<mem, dirty, queue>>
  /\ \/ Silence
     \/ usb # <<>> /\ SizeIn(Head(usb)) > BufferMax /\ Cleanup /\ ppc' = ppc
     \/ /\ NextWord /\ SizeIn(Head(usb)) <= BufferMax
        /\ gst' = "buffer" /\ glen' = SizeIn(Head(usb)) /\ gleft' = glen'
        /\ PowerpcHang /\ UNCHANGED <<gcmd, gstart>>

\* What has arrived goes to address 0, an ARM program, or to UpBuf. The last word
\* of it queues the request that runs it.
Base == IF gcmd = "arm" THEN 0 ELSE UpBuf
ReceiveBuffer ==
  LET n == IF Len(usb) < gleft THEN Len(usb) ELSE gleft
      at == Base + glen - gleft
      stored == [a \in Addr |-> IF a \in at..at+n-1 THEN usb[a - at + 1] ELSE mem[a]]
  IN /\ mem' = stored /\ dirty' = dirty \cup (at..at+n-1) /\ ppc' = ppc
     /\ IF n < gleft
        THEN /\ gleft' = gleft - n /\ usb' = <<>> /\ UNCHANGED <<gst, gcmd, glen, gstart, queue>>
        ELSE /\ Cleanup
             /\ queue' = IF gcmd = "ppc" THEN <<Request("mem", "upload", glen)>>
                         ELSE IF stored[0] = ArmImage THEN <<Request("jump", "upload", 0)>>
                         ELSE <<>>

\* A silent host is given up after five seconds.
GeckoProcess_patient ==
  CASE gst = "none" -> ReceiveNone
    [] gst = "size" -> ReceiveSize
    [] gst = "buffer" -> ReceiveBuffer
GeckoProcess ==
  CASE TimedOut -> Cleanup /\ UNCHANGED <<ppc, mem, dirty, queue>>
    [] ~TimedOut /\ gst = "none" -> ReceiveNone
    [] ~TimedOut /\ gst = "size" -> ReceiveSize
    [] ~TimedOut /\ gst = "buffer" -> ReceiveBuffer

Gecko ==
  /\ pc = "loop" /\ queue = <<>> /\ pc' = "idle" /\ GeckoProcess
  /\ UNCHANGED <<loaderVars, job, out, todo, stub, word, oldValue, protect, restVars, counts>>

\* irq_wait ends with the next alarm, or with a request.
Alarm ==
  /\ pc = "idle" /\ pc' = "loop" /\ timer' = (timer + 1) % Timers
  /\ UNCHANGED <<loaderVars, job, queue, out, upVars, ppcVars, memVars, restVars, events>>
Woken ==
  /\ pc = "idle" /\ queue # <<>> /\ pc' = "loop"
  /\ UNCHANGED <<loaderVars, job, queue, out, upVars, ppcVars, memVars, restVars, counts>>

(***************************************************************************)
(* The PowerPC and the host.                                               *)
(***************************************************************************)
Alive == pc \notin {"done", "panic"}
Event == events < MaxEvents /\ events' = events + 1

\* A request; for "mem" the PowerPC has put the image where an upload would.
PpcRequest ==
  /\ ppc = "running" /\ Alive /\ pc # "failed" /\ Event
  /\ \/ \E kind \in {"query", "dropped", "file"} :
          queue' = Append(queue, Request(kind, "ppc", 0)) /\ mem' = mem
     \/ /\ queue' = Append(queue, Request("mem", "ppc", 1))
        /\ \E e \in Images : mem' = [mem EXCEPT ![UpBuf] = Image(e)]
  /\ UNCHANGED <<loaderVars, pc, job, out, upVars, ppcVars, dirty, protect, restVars, timer>>

PpcRead ==
  /\ ppc = "running" /\ out > 0 /\ out' = out - 1
  /\ UNCHANGED <<loaderVars, pc, job, queue, upVars, ppcVars, memVars, restVars, counts>>

\* Its program writes where it likes, except into protected memory.
PpcWrite ==
  /\ ppc \in {"loader", "running"} /\ pc # "load" /\ Event
  /\ \E a \in {0, Vec} : /\ ~(protect /\ a = Vec) /\ mem' = [mem EXCEPT ![a] = <<"ppc">>]
                                /\ dirty' = dirty \ {a}
  /\ UNCHANGED <<loaderVars, pc, job, queue, out, upVars, ppcVars, protect, restVars, timer>>

\* The Wii U's boot code decrypts itself into memory.
RomDecrypts ==
  /\ pc = "race" /\ word # "rom" /\ word' = "rom"
  /\ UNCHANGED <<loaderVars, pc, job, queue, out, upVars, ppc, stub, oldValue, memVars, restVars, counts>>

\* What the host sends waits in the Gecko; mini looks at it after each alarm.
HostStart ==
  /\ pc = "idle" /\ todo = <<>> /\ Event
  /\ \E u \in Uploads :
       todo' = <<<<"cmd", IF u.what = ArmImage THEN "arm" ELSE "ppc">>, <<"size", u.size>>,
                 u.what, <<"more">>>>
  /\ UNCHANGED <<loaderVars, pc, job, queue, out, usb, gst, gcmd, glen, gleft, gstart, ppcVars,
                 memVars, restVars, timer>>
\* The host may send a word or stop for good.
HostSend ==
  /\ pc = "idle" /\ todo # <<>> /\ todo' = Tail(todo) /\ usb' = Append(usb, Head(todo))
  /\ UNCHANGED <<loaderVars, pc, job, queue, out, gst, gcmd, glen, gleft, gstart, ppcVars,
                 memVars, restVars, counts>>

Main == Load \/ Mount \/ BootFile \/ Segment \/ Start \/ RaceWon \/ Failed
          \/ ServeQuery \/ ServeDropped \/ ServeBootFile \/ ServeBootMem \/ ServeJump
          \/ Gecko \/ Alarm \/ Woken
Others == PpcRequest \/ PpcRead \/ PpcWrite \/ RomDecrypts \/ HostStart \/ HostSend
Next == Main \/ Others

Spec == Init /\ [][Next]_vars
\* mini runs; the alarm comes; the PowerPC's boot code and its reader of answers run.
FairSpec == Spec /\ WF_vars(Main) /\ WF_vars(RomDecrypts) /\ WF_vars(PpcRead)
-----------------------------------------------------------------------------
(***************************************************************************)
(* Properties.                                                             *)
(***************************************************************************)
TypeOK ==
  /\ pc \in {"load", "boot", "job", "race", "failed", "loop", "idle", "done", "panic"}
  /\ stage \in {"start", "header", "certs", "content", "loaded", "failed"}
  /\ pages_read \in Pages /\ page_ptr \in 0..Counts
  /\ vector \in {"none", "boot2", "arm"} /\ (vector # "none" <=> pc = "done")
  /\ DOMAIN mem = Addr /\ dirty \subseteq Addr /\ protect \in BOOLEAN
  /\ ppc \in {"loader", "held", "running"} /\ stub \in {-1} \cup Addr
  /\ out \in 0..OutSize /\ timer \in 0..Timers-1 /\ gstart \in 0..Timers-1
  /\ gst \in {"none", "size", "buffer"} /\ gleft \in 0..glen /\ glen \in 0..BufferMax
  /\ usb \in Seq(HostWords) /\ todo \in Seq(HostWords)

\* The page of copy c with number i of the content, decrypted right.
Plain(c, i) ==
  <<<<c, flash.data_offset + i - 1>>, <<"title">>,
    IF i = 1 THEN <<"content">> ELSE <<c, flash.data_offset + i - 2>>>>

\* If boot2 was loaded, then where mini jumps there is all of its content, in
\* order and decrypted right, from the copy that boot2_load read, patched for the
\* title that was asked for, whatever the PowerPC wrote there before or writes
\* there afterwards (boot2.c:285-316, crypto.c:118-143).
VectorSound ==
  vector = "boot2" /\ boot2_initialized =>
    mem[Vec] = <<"boot2", [i \in 1..flash.size |-> Plain(copy, i)], title>>

\* mini's own memory is never written by a program that is loaded or uploaded
\* (_check_physrange, powerpc_elf.c:58-71).
MiniKept == \A a \in MiniMemory : mem[a] = <<"mini">>

\* The PowerPC is let go only when all segments of the program lie in memory as
\* they are in its image and not in mini's cache. A program loaded from a file may
\* have been disturbed by the one before, which runs on meanwhile.
StartsWhole ==
  [][pc = "job" /\ pc' # "job" /\ ppc' = "running" /\ pc' # "failed" =>
       \A i \in DOMAIN job.elf.segs : \A a \in SegmentCells(job.elf.segs[i]) :
         /\ \/ \E k \in i..Len(job.elf.segs) : /\ a \in SegmentCells(job.elf.segs[k])
                                               /\ mem'[a] = Loaded(job.elf, k, a)
            \/ job.kind = "file" /\ mem'[a] \in {<<"ppc">>} \cup {Image(e) : e \in Images}
         /\ a \notin dirty']_vars

\* An upload that was begun ends: it is complete, refused or given up after its
\* time, if its time can be told (a start at zero or a deadline at the end of the
\* timer never come, gecko.c:332) and mini does not wait for a PowerPC that will
\* not read its answers (ipc.c:104).
UploadEnds ==
  gst # "none" /\ gstart # 0 /\ (gstart + Timeout) % Timers # Timers - 1
    ~> gst = "none" \/ ~Alive \/ (out = OutSize /\ ppc # "running")
=============================================================================
