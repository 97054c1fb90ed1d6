-------------------------------- MODULE Ipc --------------------------------
(***************************************************************************)
(* The message path between the PowerPC and mini (src/ipc.c), with the     *)
(* interrupt handler it runs under (src/irq.c).  Two rings in shared       *)
(* memory carry requests in and answers out; each side publishes its two   *)
(* indices as the halves of one 32-bit register; a doorbell bit raises the *)
(* IPC interrupt.  The handler answers fast requests itself and copies     *)
(* slow ones into a private queue that the main loop serves.  Main loop    *)
(* and handler share ipc_post and the ARMMSG register, and are kept apart  *)
(* only by irq_kill.                                                       *)
(*                                                                         *)
(* There is one ARM core: it runs in the context "irq" from the moment an  *)
(* interrupt is taken until the handler returns, and in "main" otherwise.  *)
(* An action is one step between points where the other context, the       *)
(* PowerPC or a device can see or disturb the result.                      *)
(***************************************************************************)
EXTENDS Integers, Sequences

CONSTANTS InSize, OutSize, SlowSize,  \* slots of the three rings
          MaxReq,                     \* requests the PowerPC sends
          MaxCard,                    \* SD card interrupts
          Kinds,                      \* kinds of request the PowerPC sends
          Script,                     \* the kinds its n-th request may be of
          NoReq                       \* no request / nothing cached

AllKinds == {"fastReply", "fastSilent", "slowReply", "slowSilent", "nand", "jump"}

ASSUME SizesAssumption ==
  /\ InSize \in Nat /\ OutSize \in Nat /\ SlowSize \in Nat
  /\ InSize > 1 /\ OutSize > 1 /\ SlowSize > 1
ASSUME BoundsAssumption == MaxReq \in Nat /\ MaxCard \in Nat
ASSUME KindsAssumption == Kinds \subseteq AllKinds
ASSUME ScriptAssumption == Script \in [1..MaxReq -> SUBSET Kinds]

Discover == [id |-> 0, kind |-> "slowSilent"]    \* IPC_SDHC_DISCOVER
Requests == [id : 1..MaxReq, kind : Kinds]
Req      == Requests \cup {Discover}
Ans      == [req : Req \cup {NoReq}, ok : BOOLEAN]
Ctx      == {"main", "irq"}
IrqFlags == {"ipc", "nand", "sdhc", "timer"}

ASSUME NoReqAssumption == NoReq \notin Req /\ NoReq \notin Ans

VARIABLES
  ppcMsg,    \* HW_IPC_PPCMSG: the PowerPC's in-tail and out-head
  armMsg,    \* HW_IPC_ARMMSG: the ARM's in-head and out-tail
  bell,      \* the IPC_CTRL_IN bit of HW_IPC_ARMCTRL
  flags,     \* HW_ARMIRQFLAG
  inMem, outMem,      \* in_queue and out_queue as memory holds them
  inLine, outLine,    \* the same as the ARM's data cache holds them
  inHead, outTail,    \* in_head, out_tail
  slow, slowHead, slowTail,
  nand, nandDone,     \* NAND operation in flight; its completion was raised
  irqOff,             \* the main context's CPSR interrupt-disable bit
  pc,                 \* where each context is
  post, msg, reg,     \* per context: stage of ipc_post, its answer, mask32's register
  taken,              \* the flags irq_handler read on entry
  ppc, sent,          \* PowerPC: about to ring or not; requests sent so far
  cards               \* SD card interrupts so far

hwVars   == <<ppcMsg, armMsg, bell, flags>>
memVars  == <<inMem, outMem, inLine, outLine>>
slowVars == <<slow, slowHead, slowTail>>
nandVars == <<nand, nandDone>>
callVars == <<post, msg, reg>>
envVars  == <<ppc, sent, cards>>
vars == <<hwVars, memVars, inHead, outTail, slowVars, nandVars, irqOff, pc,
          callVars, taken, envVars>>

\* The rings' sizes are powers of two and the code masks with SIZE-1.
Inc_nowrap(i, size) == i + 1
Inc(i, size) == IF i + 1 = size THEN 0 ELSE i + 1

Init ==
  /\ ppcMsg = [inTail |-> 0, outHead |-> 0]
  /\ armMsg = [inHead |-> 0, outTail |-> 0]
  /\ bell = FALSE /\ flags = {}
  /\ inMem = [i \in 0..InSize-1 |-> NoReq] /\ inLine = inMem
  /\ outMem = [i \in 0..OutSize-1 |-> NoReq] /\ outLine = outMem
  /\ inHead = 0 /\ outTail = 0
  /\ slow = [i \in 0..SlowSize-1 |-> NoReq] /\ slowHead = 0 /\ slowTail = 0
  /\ nand = NoReq /\ nandDone = FALSE
  /\ irqOff = FALSE
  /\ pc = [main |-> "loop", irq |-> "none"]
  /\ post = [c \in Ctx |-> "no"]
  /\ msg = [c \in Ctx |-> NoReq]
  /\ reg = [c \in Ctx |-> NoReq]
  /\ taken = {}
  /\ ppc = "idle" /\ sent = 0 /\ cards = 0

(***************************************************************************)
(* The PowerPC and the devices.                                            *)
(***************************************************************************)

\* Write a request into a free slot and publish it.
PpcPut ==
  /\ ppc = "idle" /\ sent < MaxReq
  /\ Inc(ppcMsg.inTail, InSize) # armMsg.inHead
  /\ \E k \in Script[sent + 1] :
       inMem' = [inMem EXCEPT ![ppcMsg.inTail] = [id |-> sent + 1, kind |-> k]]
  /\ ppcMsg' = [ppcMsg EXCEPT !.inTail = Inc(@, InSize)]
  /\ sent' = sent + 1 /\ ppc' = "ring"
  /\ UNCHANGED <<armMsg, bell, flags, outMem, inLine, outLine, inHead, outTail,
                 slowVars, nandVars, irqOff, pc, callVars, taken, cards>>

PpcRing ==
  /\ ppc = "ring" /\ ppc' = "idle"
  /\ bell' = TRUE /\ flags' = flags \cup {"ipc"}
  /\ UNCHANGED <<ppcMsg, armMsg, memVars, inHead, outTail, slowVars, nandVars,
                 irqOff, pc, callVars, taken, sent, cards>>

PpcTake ==
  /\ ppcMsg.outHead # armMsg.outTail
  /\ ppcMsg' = [ppcMsg EXCEPT !.outHead = Inc(@, OutSize)]
  /\ UNCHANGED <<armMsg, bell, flags, memVars, inHead, outTail, slowVars,
                 nandVars, irqOff, pc, callVars, taken, envVars>>

NandFinish ==
  /\ nand # NoReq /\ ~nandDone
  /\ nandDone' = TRUE /\ flags' = flags \cup {"nand"}
  /\ UNCHANGED <<ppcMsg, armMsg, bell, memVars, inHead, outTail, slowVars, nand,
                 irqOff, pc, callVars, taken, envVars>>

CardChange ==
  /\ cards < MaxCard /\ cards' = cards + 1
  /\ flags' = flags \cup {"sdhc"}
  /\ UNCHANGED <<ppcMsg, armMsg, bell, memVars, inHead, outTail, slowVars,
                 nandVars, irqOff, pc, callVars, taken, ppc, sent>>

TimerTick ==
  /\ "timer" \notin flags /\ flags' = flags \cup {"timer"}
  /\ UNCHANGED <<ppcMsg, armMsg, bell, memVars, inHead, outTail, slowVars,
                 nandVars, irqOff, pc, callVars, taken, envVars>>

(***************************************************************************)
(* ipc_post, from either context.  Call evaluates the arguments; PostSlot  *)
(* waits for room and fills the slot (in the cache); PostFlush writes the  *)
(* line back, advances out_tail and loads ARMMSG; PostStore stores the     *)
(* merged word and returns.                                                *)
(***************************************************************************)
Runs(c) == IF c = "irq" THEN pc.irq # "none" ELSE pc.irq = "none"

\* irq_kill: the handler runs masked already, and leaves the main context's
\* bit alone.
Kill_missing(c) == irqOff
Kill(c) == IF c = "main" THEN TRUE ELSE irqOff

OutFull_unchecked == FALSE
OutFull == Inc(outTail, OutSize) = ppcMsg.outHead

Call(c, r, ok) ==
  /\ post' = [post EXCEPT ![c] = "slot"]
  /\ msg'  = [msg EXCEPT ![c] = [req |-> r, ok |-> ok]]
  /\ irqOff' = Kill(c)

PostSlot(c) ==
  /\ Runs(c) /\ post[c] = "slot"
  /\ ~OutFull
  /\ outLine' = [outLine EXCEPT ![outTail] = msg[c]]
  /\ post' = [post EXCEPT ![c] = "flush"]
  /\ UNCHANGED <<hwVars, inMem, outMem, inLine, inHead, outTail, slowVars,
                 nandVars, irqOff, pc, msg, reg, taken, envVars>>

PostFlush(c) ==
  /\ Runs(c) /\ post[c] = "flush"
  /\ outMem' = [outMem EXCEPT ![outTail] = outLine[outTail]]
  /\ outTail' = Inc(outTail, OutSize)
  /\ reg' = [reg EXCEPT ![c] = [armMsg EXCEPT !.outTail = Inc(outTail, OutSize)]]
  /\ post' = [post EXCEPT ![c] = "store"]
  /\ UNCHANGED <<hwVars, inMem, inLine, outLine, inHead, slowVars, nandVars,
                 irqOff, pc, msg, taken, envVars>>

\* Where the caller goes on, and the mask the cookie restores.
PostStore(c) ==
  /\ Runs(c) /\ post[c] = "store"
  /\ armMsg' = reg[c]
  /\ post' = [post EXCEPT ![c] = "no"]
  /\ msg' = [msg EXCEPT ![c] = NoReq] /\ reg' = [reg EXCEPT ![c] = NoReq]
  /\ irqOff' = IF c = "main" THEN FALSE ELSE irqOff   \* irq_restore
  /\ pc' = [pc EXCEPT ![c] = CASE @ = "serve" -> "next"
                               [] @ = "drain" -> "advance"
                               [] @ = "nand"  -> "ipc"]
  /\ UNCHANGED <<ppcMsg, bell, flags, memVars, inHead, outTail, slowVars,
                 nandVars, taken, envVars>>

(***************************************************************************)
(* The interrupt handler.                                                  *)
(***************************************************************************)
InIrq(at) == pc.irq = at /\ post["irq"] = "no"
IrqGoto(at) == pc' = [pc EXCEPT !.irq = at]

SlowFull_unchecked == FALSE
SlowFull == slowHead = Inc(slowTail, SlowSize)

\* The common tail of process_in's slow branch and ipc_enqueue_slow: panic2
\* never returns.
EnqueueSlow(r, next) ==
  IF SlowFull
  THEN IrqGoto("panic") /\ UNCHANGED slowVars
  ELSE /\ slow' = [slow EXCEPT ![slowTail] = r]
       /\ slowTail' = Inc(slowTail, SlowSize)
       /\ IrqGoto(next) /\ UNCHANGED slowHead

IrqEnter ==
  /\ pc.irq = "none" /\ flags # {} /\ ~irqOff
  /\ taken' = flags /\ flags' = flags \ {"timer"}
  /\ IrqGoto("nand")
  /\ UNCHANGED <<ppcMsg, armMsg, bell, memVars, inHead, outTail, slowVars,
                 nandVars, irqOff, callVars, envVars>>

\* nand_irq frees the driver before it posts the completion.
IrqNand ==
  /\ InIrq("nand")
  /\ IF "nand" \in taken
     THEN /\ flags' = flags \ {"nand"}
          /\ nand' = NoReq /\ nandDone' = FALSE
          /\ Call("irq", nand, TRUE)
          /\ UNCHANGED <<pc, reg>>
     ELSE IrqGoto("ipc") /\ UNCHANGED <<flags, nandVars, callVars, irqOff>>
  /\ UNCHANGED <<ppcMsg, armMsg, bell, memVars, inHead, outTail, slowVars,
                 taken, envVars>>

IrqIpc ==
  /\ InIrq("ipc")
  /\ IrqGoto(IF "ipc" \in taken THEN "bell" ELSE "sdhc")
  /\ UNCHANGED <<hwVars, memVars, inHead, outTail, slowVars, nandVars, irqOff,
                 callVars, taken, envVars>>

\* Acknowledge the doorbell, then drain: a request published after the drain
\* rings again.
IrqBell ==
  /\ InIrq("bell")
  /\ bell' = FALSE
  /\ IrqGoto(IF bell THEN "drain" ELSE "ack")
  /\ UNCHANGED <<ppcMsg, armMsg, flags, memVars, inHead, outTail, slowVars,
                 nandVars, irqOff, callVars, taken, envVars>>

\* dc_inval_block_fast, then the read that refills the line.
Fetch_stale(i) == IF inLine[i] = NoReq THEN inMem[i] ELSE inLine[i]
Fetch(i) == inMem[i]

ProcessIn ==
  /\ InIrq("drain") /\ ppcMsg.inTail # inHead
  /\ LET r == Fetch(inHead) IN
     /\ inLine' = [inLine EXCEPT ![inHead] = r]
     /\ \/ /\ r.kind = "fastReply"
           /\ Call("irq", r, TRUE) /\ UNCHANGED <<pc, slowVars, reg>>
        \/ /\ r.kind = "fastSilent"
           /\ IrqGoto("advance") /\ UNCHANGED <<slowVars, callVars, irqOff>>
        \/ /\ r.kind \notin {"fastReply", "fastSilent"}
           /\ EnqueueSlow(r, "advance") /\ UNCHANGED <<callVars, irqOff>>
  /\ UNCHANGED <<hwVars, inMem, outMem, outLine, inHead, outTail, nandVars,
                 taken, envVars>>

AdvanceIn ==
  /\ InIrq("advance")
  /\ inHead' = Inc(inHead, InSize)
  /\ armMsg' = [armMsg EXCEPT !.inHead = Inc(inHead, InSize)]
  /\ IrqGoto("drain")
  /\ UNCHANGED <<ppcMsg, bell, flags, memVars, outTail, slowVars, nandVars,
                 irqOff, callVars, taken, envVars>>

Drained ==
  /\ InIrq("drain") /\ ppcMsg.inTail = inHead
  /\ IrqGoto("bell")
  /\ UNCHANGED <<hwVars, memVars, inHead, outTail, slowVars, nandVars, irqOff,
                 callVars, taken, envVars>>

\* The flag follows the doorbell: acknowledging it while the bell is set has
\* no effect.
AfterAck_edge == flags \ {"ipc"}
AfterAck == IF bell THEN flags ELSE flags \ {"ipc"}

IrqAck_clears_bell ==
  /\ InIrq("ack")
  /\ bell' = FALSE /\ flags' = flags \ {"ipc"} /\ IrqGoto("sdhc")
  /\ UNCHANGED <<ppcMsg, armMsg, memVars, inHead, outTail, slowVars, nandVars,
                 irqOff, callVars, taken, envVars>>
IrqAck ==
  /\ InIrq("ack")
  /\ flags' = AfterAck
  /\ IrqGoto("sdhc")
  /\ UNCHANGED <<ppcMsg, armMsg, bell, memVars, inHead, outTail, slowVars,
                 nandVars, irqOff, callVars, taken, envVars>>

IrqSdhc ==
  /\ InIrq("sdhc")
  /\ IF "sdhc" \in taken
     THEN flags' = flags \ {"sdhc"} /\ EnqueueSlow(Discover, "none")
     ELSE IrqGoto("none") /\ UNCHANGED <<flags, slowVars>>
  /\ taken' = {}
  /\ UNCHANGED <<ppcMsg, armMsg, bell, memVars, inHead, outTail, nandVars,
                 irqOff, callVars, envVars>>

(***************************************************************************)
(* The main loop, ipc_process_slow.                                        *)
(***************************************************************************)
InMain(at) == pc.irq = "none" /\ pc.main = at /\ post["main"] = "no"
MainGoto(at) == pc' = [pc EXCEPT !.main = at]

MainLoop ==
  /\ InMain("loop")
  /\ MainGoto(IF slowHead # slowTail THEN "serve" ELSE "idle")
  /\ UNCHANGED <<hwVars, memVars, inHead, outTail, slowVars, nandVars, irqOff,
                 callVars, taken, envVars>>

\* process_slow works on the slot in place; a NAND operation is refused while
\* another is in flight.
ProcessSlow ==
  /\ InMain("serve")
  /\ LET r == slow[slowHead] IN
     \/ /\ r.kind = "slowReply" \/ (r.kind = "nand" /\ nand # NoReq)
        /\ Call("main", r, r.kind = "slowReply") /\ UNCHANGED <<pc, reg, nandVars>>
     \/ /\ r.kind = "nand" /\ nand = NoReq
        /\ nand' = r /\ MainGoto("next") /\ UNCHANGED <<nandDone, callVars, irqOff>>
     \/ /\ r.kind = "slowSilent"
        /\ MainGoto("next") /\ UNCHANGED <<nandVars, callVars, irqOff>>
     \/ /\ r.kind = "jump"
        /\ MainGoto("leave") /\ UNCHANGED <<nandVars, callVars, irqOff>>
  /\ UNCHANGED <<hwVars, memVars, inHead, outTail, slowVars, taken, envVars>>

AdvanceSlow ==
  /\ InMain("next") \/ InMain("leave")
  /\ slowHead' = Inc(slowHead, SlowSize)
  /\ MainGoto(IF pc.main = "next" THEN "loop" ELSE "exit")
  /\ UNCHANGED <<hwVars, memVars, inHead, outTail, slow, slowTail, nandVars,
                 irqOff, callVars, taken, envVars>>

IdleKill ==
  /\ InMain("idle")
  /\ irqOff' = Kill("main") /\ MainGoto("check")
  /\ UNCHANGED <<hwVars, memVars, inHead, outTail, slowVars, nandVars, callVars,
                 taken, envVars>>

IdleCheck ==
  /\ InMain("check")
  /\ MainGoto(IF slowHead = slowTail THEN "wait" ELSE "restore")
  /\ UNCHANGED <<hwVars, memVars, inHead, outTail, slowVars, nandVars, irqOff,
                 callVars, taken, envVars>>

\* irq_wait returns when an interrupt is pending, masked or not.
IdleWait ==
  /\ InMain("wait") /\ flags # {}
  /\ MainGoto("restore")
  /\ UNCHANGED <<hwVars, memVars, inHead, outTail, slowVars, nandVars, irqOff,
                 callVars, taken, envVars>>

IdleRestore ==
  /\ InMain("restore")
  /\ irqOff' = FALSE /\ MainGoto("loop")
  /\ UNCHANGED <<hwVars, memVars, inHead, outTail, slowVars, nandVars, callVars,
                 taken, envVars>>

\* ipc_shutdown and irq_shutdown: mini is about to jump to another program.
Shutdown ==
  /\ InMain("exit")
  /\ bell' = FALSE /\ flags' = {} /\ irqOff' = TRUE /\ MainGoto("off")
  /\ UNCHANGED <<ppcMsg, armMsg, memVars, inHead, outTail, slowVars, nandVars,
                 callVars, taken, envVars>>

-----------------------------------------------------------------------------
Device == NandFinish \/ CardChange \/ TimerTick
IrqStep ==
  \/ IrqEnter \/ IrqNand \/ IrqIpc \/ IrqBell \/ ProcessIn \/ AdvanceIn
  \/ Drained \/ IrqAck \/ IrqSdhc
  \/ PostSlot("irq") \/ PostFlush("irq") \/ PostStore("irq")
MainStep ==
  \/ MainLoop \/ ProcessSlow \/ AdvanceSlow \/ IdleKill \/ IdleCheck \/ IdleWait
  \/ IdleRestore \/ Shutdown
  \/ PostSlot("main") \/ PostFlush("main") \/ PostStore("main")

Next == PpcPut \/ PpcRing \/ PpcTake \/ Device \/ IrqStep \/ MainStep

Spec == Init /\ [][Next]_vars

\* The core takes a pending interrupt as soon as it is allowed to, and the
\* timer's ticks leave the main loop time to run (20 ms apart): strong
\* fairness for both contexts.  The PowerPC rings for what it wrote and keeps
\* taking answers; a NAND operation that was started completes.
Fairness == /\ SF_vars(IrqStep) /\ SF_vars(MainStep)
            /\ WF_vars(PpcRing) /\ WF_vars(PpcTake) /\ WF_vars(NandFinish)

FairSpec == Spec /\ Fairness
-----------------------------------------------------------------------------
(***************************************************************************)
(* Properties.                                                             *)
(***************************************************************************)
MainPcs == {"loop", "serve", "next", "leave", "idle", "check", "wait",
            "restore", "exit", "off"}
IrqPcs  == {"none", "nand", "ipc", "bell", "drain", "advance", "ack", "sdhc", "panic"}

\* The types of the rings, registers and program counters of src/ipc.c.
TypeOK ==
  /\ ppcMsg \in [inTail : 0..InSize-1, outHead : 0..OutSize-1]
  /\ armMsg \in [inHead : 0..InSize-1, outTail : 0..OutSize-1]
  /\ bell \in BOOLEAN /\ flags \subseteq IrqFlags /\ taken \subseteq IrqFlags
  /\ inMem \in [0..InSize-1 -> Requests \cup {NoReq}]
  /\ inLine \in [0..InSize-1 -> Requests \cup {NoReq}]
  /\ outMem \in [0..OutSize-1 -> Ans \cup {NoReq}]
  /\ outLine \in [0..OutSize-1 -> Ans \cup {NoReq}]
  /\ inHead \in 0..InSize-1 /\ outTail \in 0..OutSize-1
  /\ slow \in [0..SlowSize-1 -> Req \cup {NoReq}]
  /\ slowHead \in 0..SlowSize-1 /\ slowTail \in 0..SlowSize-1
  /\ nand \in Req \cup {NoReq} /\ nandDone \in BOOLEAN
  /\ irqOff \in BOOLEAN
  /\ pc \in [main : MainPcs, irq : IrqPcs]
  /\ post \in [Ctx -> {"no", "slot", "flush", "store"}]
  /\ msg \in [Ctx -> Ans \cup {NoReq}]
  /\ reg \in [Ctx -> [inHead : 0..InSize-1, outTail : 0..OutSize-1] \cup {NoReq}]
  /\ ppc \in {"idle", "ring"} /\ sent \in 0..MaxReq /\ cards \in 0..MaxCard

\* ARMMSG is written by read-modify-write from both contexts (ipc.c:76-84):
\* neither half is ever put back to an older value, so outside an ipc_post
\* that is about to store it the register shows the driver's own indices.
RegistersCurrent ==
  (\A c \in Ctx : post[c] # "store")
    => armMsg = [inHead |-> inHead, outTail |-> outTail]

\* The slot an answer was written to (ipc.c:102-106) is not one the PowerPC
\* still has to read, and publishing it does not make a full ring look empty.
AnswerSlotFree ==
  \A c \in Ctx : post[c] = "flush" => Inc(outTail, OutSize) # ppcMsg.outHead

\* The request the main loop works on is still in the queue (ipc.c:338-341):
\* an overrun would wrap the tail onto it and make the queue look empty.
ServedRequestHeld ==
  pc.main \in {"serve", "next", "leave"} => slowHead # slowTail

\* process_slow reads its request in place (ipc.c:339): no interrupt may change
\* the slot before the head moves past it.
ServedSlotStable ==
  [][pc.main \in {"serve", "next", "leave"} => slow'[slowHead] = slow[slowHead]]_vars

\* The main loop never goes to sleep over a queued request (ipc.c:347-349):
\* the queue is tested with interrupts off.
NoSleepOverWork == pc.main = "wait" => slowHead = slowTail

\* A request that is in the ring is never forgotten: the PowerPC is about to
\* ring, or the bell is set, or the handler is draining (ipc.c:295-303).
RequestAnnounced ==
  ppcMsg.inTail # inHead =>
    \/ ppc = "ring" \/ bell
    \/ pc.irq \in {"drain", "advance", "panic"}
    \/ pc.main = "off"

\* A bell that is set has its interrupt pending, however late irq.c:85
\* acknowledges an earlier one.
BellPending == bell => "ipc" \in flags \/ pc.main = "off"

\* The rings as the sequences they stand for. A request leaves the in-ring
\* when the handler is done with it, and the slow queue when the main loop
\* is, before the head moves.
Dist(h, t, size) == IF t >= h THEN t - h ELSE t - h + size
Content(mem, h, t, size) == [k \in 1..Dist(h, t, size) |-> mem[(h + k - 1) % size]]

inboxOf  == Content(inMem, IF pc.irq = "advance" THEN Inc(inHead, InSize) ELSE inHead,
                    ppcMsg.inTail, InSize)
workOf   == Content(slow, IF pc.main \in {"next", "leave"}
                          THEN Inc(slowHead, SlowSize) ELSE slowHead,
                    slowTail, SlowSize)
inflightOf == IF pc.irq = "nand" /\ post["irq"] # "no" THEN msg["irq"].req ELSE nand
outboxOf == Content(outMem, ppcMsg.outHead, armMsg.outTail, OutSize)

Service == INSTANCE IpcService WITH
  inbox <- inboxOf, work <- workOf, inflight <- inflightOf, outbox <- outboxOf

\* The rings implement the service: every request dispatched once and in
\* order, every answer delivered once, whole and in order.
Implements == Service!Spec

\* Every request sent is handled, unless mini stopped: it panicked on a full
\* queue or left for another program.
InFlight(i) ==
  \/ \E k \in DOMAIN inboxOf : inboxOf[k].id = i
  \/ \E k \in DOMAIN workOf : workOf[k].id = i
  \/ inflightOf # NoReq /\ inflightOf.id = i
  \/ \E k \in DOMAIN outboxOf : outboxOf[k].req.id = i
Stopped == pc.irq = "panic" \/ pc.main \in {"leave", "exit", "off"}
EveryRequestHandled == \A i \in 1..MaxReq : InFlight(i) ~> (~InFlight(i) \/ Stopped)
=============================================================================
