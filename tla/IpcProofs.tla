----------------------------- MODULE IpcProofs -----------------------------
(***************************************************************************)
(* Proofs about Ipc for every size of the rings and every bound.           *)
(***************************************************************************)
EXTENDS Ipc, TLAPS, SequenceTheorems

\* The index after another one stays in the ring, and no two share a successor.
LEMMA IncType ==
  ASSUME NEW n \in Nat, n > 1, NEW i \in 0..n-1
  PROVE  Inc(i, n) \in 0..n-1 /\ Inc(i, n) # i
BY DEF Inc

LEMMA IncInjective ==
  ASSUME NEW n \in Nat, n > 1, NEW i \in 0..n-1, NEW j \in 0..n-1,
         Inc(i, n) = Inc(j, n)
  PROVE  i = j
BY DEF Inc

-----------------------------------------------------------------------------
(***************************************************************************)
(* What the properties need of each other.  Masking: ipc_post runs masked  *)
(* in the main context, so the two contexts are never both inside it, and  *)
(* the main loop tests its queue masked.  Publishing: ARMMSG shows the     *)
(* driver's indices, except for the out-tail an ipc_post is about to       *)
(* store, and the word it will store holds both of them.                   *)
(***************************************************************************)
Masking ==
  /\ irqOff => pc.irq = "none"
  /\ post["main"] # "no" => irqOff /\ pc.main = "serve"
  /\ post["irq"] # "no" => pc.irq \in {"nand", "drain"}
  /\ pc.main \in {"check", "wait", "restore", "off"} => irqOff

Publishing ==
  /\ armMsg.inHead = inHead
  /\ \A c \in Ctx :
       post[c] = "store" => reg[c] = [inHead |-> inHead, outTail |-> outTail]
  /\ RegistersCurrent

IInv == /\ TypeOK /\ Masking /\ Publishing
        /\ AnswerSlotFree /\ ServedRequestHeld /\ NoSleepOverWork
        /\ RequestAnnounced /\ BellPending

-----------------------------------------------------------------------------
LEMMA InitTyped == Init => TypeOK
<1> SUFFICES ASSUME Init PROVE TypeOK
  OBVIOUS
<1> USE SizesAssumption, BoundsAssumption
<1>1. /\ inMem \in [0..InSize-1 -> Requests \cup {NoReq}]
      /\ inLine \in [0..InSize-1 -> Requests \cup {NoReq}]
      /\ outMem \in [0..OutSize-1 -> Ans \cup {NoReq}]
      /\ outLine \in [0..OutSize-1 -> Ans \cup {NoReq}]
      /\ slow \in [0..SlowSize-1 -> Req \cup {NoReq}]
      /\ msg \in [Ctx -> Ans \cup {NoReq}]
      /\ post \in [Ctx -> {"no", "slot", "flush", "store"}]
  BY DEF Init
<1>2. /\ ppcMsg \in [inTail : 0..InSize-1, outHead : 0..OutSize-1]
      /\ armMsg \in [inHead : 0..InSize-1, outTail : 0..OutSize-1]
      /\ reg \in [Ctx -> [inHead : 0..InSize-1, outTail : 0..OutSize-1]
                          \cup {NoReq}]
  BY DEF Init
<1>3. pc \in [main : MainPcs, irq : IrqPcs]
  BY DEF Init, MainPcs, IrqPcs
<1>4. /\ inHead \in 0..InSize-1 /\ outTail \in 0..OutSize-1
      /\ slowHead \in 0..SlowSize-1 /\ slowTail \in 0..SlowSize-1
      /\ sent \in 0..MaxReq /\ cards \in 0..MaxCard
  BY DEF Init
<1>5. /\ bell \in BOOLEAN /\ nandDone \in BOOLEAN /\ irqOff \in BOOLEAN
      /\ flags \subseteq IrqFlags /\ taken \subseteq IrqFlags
      /\ nand \in Req \cup {NoReq} /\ ppc \in {"idle", "ring"}
  BY DEF Init
<1> QED
  BY <1>1, <1>2, <1>3, <1>4, <1>5, Zenon DEF TypeOK

LEMMA EnqueueTyped ==
  ASSUME TypeOK, NEW r \in Req \cup {NoReq}, NEW next \in IrqPcs, EnqueueSlow(r, next)
  PROVE  /\ slow' \in [0..SlowSize-1 -> Req \cup {NoReq}]
         /\ slowHead' \in 0..SlowSize-1 /\ slowTail' \in 0..SlowSize-1
         /\ pc' \in [main : MainPcs, irq : IrqPcs]
<1>1. Inc(slowTail, SlowSize) \in 0..SlowSize-1
  BY IncType, SizesAssumption DEF TypeOK
<1>2. pc' \in [main : MainPcs, irq : IrqPcs]
  BY DEF EnqueueSlow, IrqGoto, IrqPcs, TypeOK
<1> QED
  BY <1>1, <1>2 DEF EnqueueSlow, TypeOK, slowVars

LEMMA CallTyped ==
  ASSUME TypeOK, NEW c \in Ctx, NEW r \in Req \cup {NoReq}, NEW ok \in BOOLEAN,
         Call(c, r, ok)
  PROVE  /\ post' \in [Ctx -> {"no", "slot", "flush", "store"}]
         /\ msg' \in [Ctx -> Ans \cup {NoReq}]
         /\ irqOff' \in BOOLEAN
<1>1. [req |-> r, ok |-> ok] \in Ans
  BY DEF Ans
<1> QED
  BY <1>1 DEF Call, Kill, TypeOK

LEMMA StepTyped == TypeOK /\ Publishing /\ Masking /\ [Next]_vars => TypeOK'
<1> SUFFICES ASSUME TypeOK, Publishing, Masking, [Next]_vars PROVE TypeOK'
  OBVIOUS
<1> USE SizesAssumption, BoundsAssumption, KindsAssumption
<1>a. /\ Inc(ppcMsg.inTail, InSize) \in 0..InSize-1
      /\ Inc(ppcMsg.outHead, OutSize) \in 0..OutSize-1
      /\ Inc(inHead, InSize) \in 0..InSize-1
      /\ Inc(outTail, OutSize) \in 0..OutSize-1
      /\ Inc(slowHead, SlowSize) \in 0..SlowSize-1
      /\ Inc(slowTail, SlowSize) \in 0..SlowSize-1
  BY IncType DEF TypeOK
<1>b. Discover \in Req
  BY DEF Req
<1>1. CASE PpcPut
  <2>1. sent + 1 \in 1..MaxReq
    <3>1. sent \in 0..MaxReq
      BY DEF TypeOK
    <3>2. sent < MaxReq
      BY <1>1 DEF PpcPut
    <3> QED
      BY <3>1, <3>2
  <2>6. \A k \in Script[sent + 1] : k \in Kinds
    BY <2>1, ScriptAssumption
  <2> SUFFICES ASSUME NEW k \in Kinds,
                      inMem' = [inMem EXCEPT ![ppcMsg.inTail] =
                                  [id |-> sent + 1, kind |-> k]]
               PROVE  TypeOK'
    BY <1>1, <2>6, Zenon DEF PpcPut
  <2>2. [id |-> sent + 1, kind |-> k] \in Requests
    BY <2>1 DEF Requests
  <2>3. inMem' \in [0..InSize-1 -> Requests \cup {NoReq}]
    BY <2>2 DEF TypeOK
  <2>4. ppcMsg' \in [inTail : 0..InSize-1, outHead : 0..OutSize-1]
    BY <1>1, <1>a DEF PpcPut, TypeOK
  <2>5. /\ sent' \in 0..MaxReq /\ ppc' \in {"idle", "ring"}
        /\ UNCHANGED <<armMsg, bell, flags, outMem, inLine, outLine, inHead, outTail,
                       slowVars, nandVars, irqOff, pc, callVars, taken, cards>>
    BY <1>1, <2>1 DEF PpcPut
  <2> QED
    BY <2>3, <2>4, <2>5 DEF TypeOK, slowVars, nandVars, callVars
<1>2. CASE PpcRing
  BY <1>2 DEF PpcRing, TypeOK, IrqFlags, memVars, slowVars, nandVars, callVars
<1>3. CASE PpcTake
  BY <1>3, <1>a DEF PpcTake, TypeOK, memVars, slowVars, nandVars, callVars, envVars
<1>4. CASE NandFinish
  BY <1>4 DEF NandFinish, TypeOK, IrqFlags, memVars, slowVars, callVars, envVars
<1>5. CASE CardChange
  BY <1>5 DEF CardChange, TypeOK, IrqFlags, memVars, slowVars, nandVars, callVars
<1>6. CASE TimerTick
  BY <1>6 DEF TimerTick, TypeOK, IrqFlags, memVars, slowVars, nandVars, callVars,
              envVars
<1>7. ASSUME NEW c \in Ctx, PostSlot(c) PROVE TypeOK'
  BY <1>7 DEF PostSlot, TypeOK, hwVars, slowVars, nandVars, envVars
<1>8. ASSUME NEW c \in Ctx, PostFlush(c) PROVE TypeOK'
  BY <1>8, <1>a DEF PostFlush, TypeOK, hwVars, slowVars, nandVars, envVars
<1>9. ASSUME NEW c \in Ctx, PostStore(c) PROVE TypeOK'
  <2>1. pc' \in [main : MainPcs, irq : IrqPcs]
    BY <1>9 DEF PostStore, Runs, TypeOK, Masking, Ctx, MainPcs, IrqPcs
  <2>2. /\ armMsg' \in [inHead : 0..InSize-1, outTail : 0..OutSize-1]
    BY <1>9 DEF PostStore, Publishing, TypeOK
  <2> QED
    BY <1>9, <2>1, <2>2 DEF PostStore, TypeOK, memVars, slowVars, nandVars, envVars
<1>10. CASE IrqEnter
  BY <1>10 DEF IrqEnter, TypeOK, IrqGoto, IrqPcs, memVars, slowVars, nandVars,
               callVars, envVars
<1>11. CASE IrqNand
  <2>1. CASE "nand" \in taken
    <3>1. Call("irq", nand, TRUE)
      BY <1>11, <2>1 DEF IrqNand
    <3>2. /\ post' \in [Ctx -> {"no", "slot", "flush", "store"}]
          /\ msg' \in [Ctx -> Ans \cup {NoReq}]
          /\ irqOff' \in BOOLEAN
      BY <3>1, CallTyped DEF TypeOK, Ctx
    <3>3. /\ flags' \subseteq IrqFlags /\ nand' \in Req \cup {NoReq}
          /\ nandDone' \in BOOLEAN
          /\ UNCHANGED <<pc, reg, ppcMsg, armMsg, bell, memVars, inHead,
                         outTail, slowVars, taken, envVars>>
      BY <1>11, <2>1 DEF IrqNand, TypeOK
    <3> QED
      BY <3>2, <3>3, ZenonT(60) DEF TypeOK, memVars, slowVars, envVars
  <2>2. CASE "nand" \notin taken
    <3>1. pc' \in [main : MainPcs, irq : IrqPcs]
      BY <1>11, <2>2 DEF IrqNand, IrqGoto, TypeOK, IrqPcs
    <3>2. UNCHANGED <<hwVars, memVars, inHead, outTail, slowVars, nandVars,
                      irqOff, callVars, taken, envVars>>
      BY <1>11, <2>2 DEF IrqNand, hwVars
    <3> QED
      BY <3>1, <3>2 DEF TypeOK, hwVars, memVars, slowVars, nandVars, callVars, envVars
  <2> QED
    BY <2>1, <2>2
<1>12. CASE IrqIpc
  BY <1>12 DEF IrqIpc, TypeOK, IrqGoto, IrqPcs, hwVars, memVars, slowVars, nandVars,
               callVars, envVars
<1>13. CASE IrqBell
  BY <1>13 DEF IrqBell, TypeOK, IrqGoto, IrqPcs, memVars, slowVars, nandVars,
               callVars, envVars
<1>14. CASE ProcessIn
  <2> DEFINE r == Fetch(inHead)
  <2>1. r \in Requests \cup {NoReq} /\ r \in Req \cup {NoReq}
    BY DEF Fetch, TypeOK, Req
  <2>2. inLine' \in [0..InSize-1 -> Requests \cup {NoReq}]
    BY <1>14, <2>1 DEF ProcessIn, TypeOK
  <2>3. CASE Call("irq", r, TRUE) /\ UNCHANGED <<pc, slowVars, reg>>
    BY <1>14, <2>1, <2>2, <2>3
    DEF ProcessIn, Call, Kill, TypeOK, Ans, Ctx, hwVars, slowVars, nandVars, envVars
  <2>4. CASE IrqGoto("advance") /\ UNCHANGED <<slowVars, callVars, irqOff>>
    BY <1>14, <2>2, <2>4
    DEF ProcessIn, IrqGoto, IrqPcs, TypeOK, hwVars, slowVars, callVars, nandVars,
        envVars
  <2>5. CASE EnqueueSlow(r, "advance") /\ UNCHANGED <<callVars, irqOff>>
    <3>1. /\ slow' \in [0..SlowSize-1 -> Req \cup {NoReq}]
          /\ slowHead' \in 0..SlowSize-1 /\ slowTail' \in 0..SlowSize-1
          /\ pc' \in [main : MainPcs, irq : IrqPcs]
      BY <2>1, <2>5, EnqueueTyped DEF IrqPcs
    <3> QED
      BY <1>14, <2>2, <2>5, <3>1
      DEF ProcessIn, TypeOK, hwVars, callVars, nandVars, envVars
  <2> QED
    BY <1>14, <2>3, <2>4, <2>5 DEF ProcessIn
<1>15. CASE AdvanceIn
  BY <1>15, <1>a DEF AdvanceIn, TypeOK, IrqGoto, IrqPcs, memVars, slowVars,
               nandVars, callVars, envVars
<1>16. CASE Drained
  BY <1>16 DEF Drained, TypeOK, IrqGoto, IrqPcs, hwVars, memVars, slowVars,
               nandVars, callVars, envVars
<1>17. CASE IrqAck
  BY <1>17 DEF IrqAck, AfterAck, TypeOK, IrqGoto, IrqPcs, memVars, slowVars,
               nandVars, callVars, envVars
<1>18. CASE IrqSdhc
  <2>1. CASE "sdhc" \in taken
    <3>1. /\ slow' \in [0..SlowSize-1 -> Req \cup {NoReq}]
          /\ slowHead' \in 0..SlowSize-1 /\ slowTail' \in 0..SlowSize-1
          /\ pc' \in [main : MainPcs, irq : IrqPcs]
      BY <1>18, <1>b, <2>1, EnqueueTyped DEF IrqSdhc, IrqPcs
    <3> QED
      BY <1>18, <2>1, <3>1, ZenonT(60)
      DEF IrqSdhc, TypeOK, memVars, nandVars, callVars, envVars
  <2>2. CASE "sdhc" \notin taken
    BY <1>18, <2>2, ZenonT(60) DEF IrqSdhc, TypeOK, IrqGoto, IrqPcs, memVars, slowVars, nandVars,
                       callVars, envVars
  <2> QED
    BY <2>1, <2>2
<1>19. CASE MainLoop
  BY <1>19 DEF MainLoop, TypeOK, MainGoto, MainPcs, hwVars, memVars, slowVars,
               nandVars, callVars, envVars
<1>20. CASE ProcessSlow
  <2> DEFINE r == slow[slowHead]
  <2>1. r \in Req \cup {NoReq}
    BY DEF TypeOK
  <2>2. CASE /\ Call("main", r, r.kind = "slowReply")
             /\ UNCHANGED <<pc, reg, nandVars>>
    BY <1>20, <2>1, <2>2
    DEF ProcessSlow, Call, Kill, TypeOK, Ans, Ctx, hwVars, memVars, slowVars,
        nandVars, envVars
  <2>3. CASE nand' = r /\ MainGoto("next") /\ UNCHANGED <<nandDone, callVars, irqOff>>
    BY <1>20, <2>1, <2>3
    DEF ProcessSlow, MainGoto, MainPcs, TypeOK, hwVars, memVars, slowVars, callVars,
        envVars
  <2>4. CASE MainGoto("next") /\ UNCHANGED <<nandVars, callVars, irqOff>>
    BY <1>20, <2>4
    DEF ProcessSlow, MainGoto, MainPcs, TypeOK, hwVars, memVars, slowVars, nandVars,
        callVars, envVars
  <2>5. CASE MainGoto("leave") /\ UNCHANGED <<nandVars, callVars, irqOff>>
    BY <1>20, <2>5
    DEF ProcessSlow, MainGoto, MainPcs, TypeOK, hwVars, memVars, slowVars, nandVars,
        callVars, envVars
  <2> QED
    BY <1>20, <2>2, <2>3, <2>4, <2>5 DEF ProcessSlow
<1>21. CASE AdvanceSlow
  BY <1>21, <1>a DEF AdvanceSlow, TypeOK, MainGoto, MainPcs, hwVars, memVars,
               nandVars, callVars, envVars
<1>22. CASE IdleKill
  BY <1>22 DEF IdleKill, Kill, TypeOK, MainGoto, MainPcs, hwVars, memVars, slowVars,
               nandVars, callVars, envVars
<1>23. CASE IdleCheck
  BY <1>23 DEF IdleCheck, TypeOK, MainGoto, MainPcs, hwVars, memVars, slowVars,
               nandVars, callVars, envVars
<1>24. CASE IdleWait
  BY <1>24 DEF IdleWait, TypeOK, MainGoto, MainPcs, hwVars, memVars, slowVars,
               nandVars, callVars, envVars
<1>25. CASE IdleRestore
  BY <1>25 DEF IdleRestore, TypeOK, MainGoto, MainPcs, hwVars, memVars, slowVars,
               nandVars, callVars, envVars
<1>26. CASE Shutdown
  BY <1>26 DEF Shutdown, TypeOK, MainGoto, MainPcs, memVars, slowVars, nandVars,
               callVars, envVars
<1>27. CASE UNCHANGED vars
  BY <1>27 DEF vars, TypeOK, hwVars, memVars, slowVars, nandVars, callVars, envVars
<1> QED
  BY <1>1, <1>2, <1>3, <1>4, <1>5, <1>6, <1>7, <1>8, <1>9, <1>10, <1>11, <1>12,
     <1>13, <1>14, <1>15, <1>16, <1>17, <1>18, <1>19, <1>20, <1>21, <1>22, <1>23,
     <1>24, <1>25, <1>26, <1>27
  DEF Next, Device, IrqStep, MainStep, Ctx

-----------------------------------------------------------------------------
LEMMA StepMasking == TypeOK /\ Masking /\ [Next]_vars => Masking'
<1> SUFFICES ASSUME TypeOK, Masking, [Next]_vars PROVE Masking'
  OBVIOUS
<1>a. CASE UNCHANGED <<irqOff, pc, post>>
  BY <1>a DEF Masking
<1>1. CASE PpcPut \/ PpcRing \/ PpcTake \/ Device \/ UNCHANGED vars
  BY <1>1, <1>a DEF PpcPut, PpcRing, PpcTake, Device, NandFinish, CardChange, TimerTick,
                    vars, callVars
<1>2. ASSUME NEW c \in Ctx, PostSlot(c) \/ PostFlush(c) PROVE Masking'
  BY <1>2 DEF PostSlot, PostFlush, Masking, TypeOK, Ctx
<1>3. ASSUME NEW c \in Ctx, PostStore(c) PROVE Masking'
  BY <1>3 DEF PostStore, Runs, Masking, TypeOK, Ctx
<1>4. CASE IrqEnter
  BY <1>4 DEF IrqEnter, IrqGoto, callVars, Masking, TypeOK
<1>5. CASE IrqNand
  BY <1>5 DEF IrqNand, InIrq, IrqGoto, Call, Kill, callVars, Masking, TypeOK, Ctx
<1>6. CASE IrqIpc \/ IrqBell \/ AdvanceIn \/ Drained \/ IrqAck
  BY <1>6 DEF IrqIpc, IrqBell, AdvanceIn, Drained, IrqAck, InIrq, IrqGoto, callVars,
              Masking, TypeOK
<1>7. CASE ProcessIn
  BY <1>7 DEF ProcessIn, EnqueueSlow, InIrq, IrqGoto, Call, Kill, callVars, Masking,
              TypeOK, Ctx
<1>8. CASE IrqSdhc
  BY <1>8 DEF IrqSdhc, EnqueueSlow, InIrq, IrqGoto, callVars, Masking, TypeOK
<1>9. CASE MainLoop \/ AdvanceSlow \/ IdleKill \/ IdleCheck \/ IdleWait \/ IdleRestore
           \/ Shutdown
  BY <1>9 DEF MainLoop, AdvanceSlow, IdleKill, IdleCheck, IdleWait, IdleRestore,
              Shutdown, InMain, MainGoto, Kill, callVars, Masking, TypeOK
<1>10. CASE ProcessSlow
  BY <1>10 DEF ProcessSlow, InMain, MainGoto, Call, Kill, callVars, Masking, TypeOK, Ctx
<1> QED
  BY <1>1, <1>2, <1>3, <1>4, <1>5, <1>6, <1>7, <1>8, <1>9, <1>10
  DEF Next, IrqStep, MainStep, Ctx

\* Neither half of ARMMSG is lost, and no answer is written over an unread one.
LEMMA StepPublishing ==
  TypeOK /\ Masking /\ Publishing /\ AnswerSlotFree /\ [Next]_vars
    => Publishing' /\ AnswerSlotFree'
<1> SUFFICES ASSUME TypeOK, Masking, Publishing, AnswerSlotFree, [Next]_vars
             PROVE  Publishing' /\ AnswerSlotFree'
  OBVIOUS
<1> USE SizesAssumption
<1>a. CASE UNCHANGED <<armMsg, ppcMsg.outHead, inHead, outTail, post, reg>>
  BY <1>a DEF Publishing, AnswerSlotFree, RegistersCurrent
<1>1. CASE PpcPut \/ PpcRing \/ Device \/ UNCHANGED vars
  BY <1>1, <1>a DEF PpcPut, PpcRing, Device, NandFinish, CardChange, TimerTick,
                    vars, hwVars, callVars, TypeOK
<1>2. CASE PpcTake
  BY <1>2, IncInjective
  DEF PpcTake, callVars, Publishing, AnswerSlotFree, RegistersCurrent, Masking, TypeOK, Ctx
<1>3. CASE IrqEnter \/ IrqIpc \/ IrqBell \/ Drained \/ IrqAck \/ IrqSdhc
  BY <1>3, <1>a DEF IrqEnter, IrqIpc, IrqBell, Drained, IrqAck, IrqSdhc, hwVars, callVars
<1>4. CASE MainLoop \/ AdvanceSlow \/ IdleKill \/ IdleCheck \/ IdleWait \/ IdleRestore
           \/ Shutdown
  BY <1>4, <1>a DEF MainLoop, AdvanceSlow, IdleKill, IdleCheck, IdleWait, IdleRestore,
                    Shutdown, hwVars, callVars
<1>5. ASSUME NEW c \in Ctx, post[c] = "no", post' = [post EXCEPT ![c] = "slot"],
             UNCHANGED <<armMsg, ppcMsg, inHead, outTail, reg>>
      PROVE  Publishing' /\ AnswerSlotFree'
  BY <1>5 DEF Publishing, AnswerSlotFree, RegistersCurrent, TypeOK
<1>6. CASE IrqNand
  BY <1>6, <1>5, <1>a DEF IrqNand, InIrq, Call, callVars, Ctx
<1>7. CASE ProcessIn
  BY <1>7, <1>5, <1>a DEF ProcessIn, InIrq, Call, hwVars, callVars, Ctx
<1>8. CASE ProcessSlow
  <2>1. \/ post' = [post EXCEPT !["main"] = "slot"] /\ UNCHANGED reg
        \/ UNCHANGED callVars
    BY <1>8 DEF ProcessSlow, Call
  <2>2. UNCHANGED <<armMsg, ppcMsg, inHead, outTail>> /\ post["main"] = "no"
    BY <1>8 DEF ProcessSlow, InMain, hwVars
  <2>3. CASE post' = [post EXCEPT !["main"] = "slot"] /\ UNCHANGED reg
    BY <2>2, <2>3, <1>5 DEF Ctx
  <2>4. CASE UNCHANGED callVars
    BY <2>2, <2>4, <1>a DEF callVars
  <2> QED
    BY <2>1, <2>3, <2>4
<1>9. CASE AdvanceIn
  <2>1. \A c \in Ctx : post[c] = "no"
    BY <1>9 DEF AdvanceIn, InIrq, Masking, TypeOK, Ctx
  <2>2. armMsg' = [inHead |-> inHead', outTail |-> outTail]
    BY <1>9, <2>1, SMTT(30) DEF AdvanceIn, Publishing, RegistersCurrent, TypeOK
  <2>3. UNCHANGED <<post, outTail>>
    BY <1>9 DEF AdvanceIn, callVars
  <2> QED
    BY <2>1, <2>2, <2>3 DEF Publishing, AnswerSlotFree, RegistersCurrent
<1>10. ASSUME NEW c \in Ctx, PostSlot(c) PROVE Publishing' /\ AnswerSlotFree'
  BY <1>10 DEF PostSlot, OutFull, hwVars, Publishing, AnswerSlotFree, RegistersCurrent,
               TypeOK
<1>11. ASSUME NEW c \in Ctx, PostFlush(c) PROVE Publishing' /\ AnswerSlotFree'
  BY <1>11 DEF PostFlush, Runs, hwVars, Publishing, AnswerSlotFree, RegistersCurrent,
               Masking, TypeOK, Ctx
<1>12. ASSUME NEW c \in Ctx, PostStore(c) PROVE Publishing' /\ AnswerSlotFree'
  BY <1>12, SMTT(60)
  DEF PostStore, Runs, Publishing, AnswerSlotFree, RegistersCurrent, Masking,
      TypeOK, Ctx
<1> QED
  BY <1>1, <1>2, <1>3, <1>4, <1>6, <1>7, <1>8, <1>9, <1>10, <1>11, <1>12
  DEF Next, IrqStep, MainStep, Ctx

\* The queue neither loses the request being served nor hides one from the
\* idle loop.
LEMMA StepQueue ==
  TypeOK /\ Masking /\ ServedRequestHeld /\ NoSleepOverWork /\ [Next]_vars
    => ServedRequestHeld' /\ NoSleepOverWork'
<1> SUFFICES ASSUME TypeOK, Masking, ServedRequestHeld, NoSleepOverWork, [Next]_vars
             PROVE  ServedRequestHeld' /\ NoSleepOverWork'
  OBVIOUS
<1> USE SizesAssumption DEF ServedRequestHeld, NoSleepOverWork
<1>a. CASE UNCHANGED <<slowHead, slowTail>> /\ pc'.main = pc.main
  BY <1>a
<1>1. CASE PpcPut \/ PpcRing \/ PpcTake \/ Device \/ UNCHANGED vars
  BY <1>1, <1>a DEF PpcPut, PpcRing, PpcTake, Device, NandFinish, CardChange, TimerTick,
                    vars, slowVars
<1>2. CASE IrqEnter \/ IrqIpc \/ IrqBell \/ AdvanceIn \/ Drained \/ IrqAck
  BY <1>2, <1>a DEF IrqEnter, IrqIpc, IrqBell, AdvanceIn, Drained, IrqAck, IrqGoto,
                    slowVars, TypeOK
<1>3. CASE IrqNand
  BY <1>3, <1>a DEF IrqNand, IrqGoto, slowVars, TypeOK
<1>4. ASSUME NEW r, NEW next, pc.irq # "none", EnqueueSlow(r, next)
      PROVE  ServedRequestHeld' /\ NoSleepOverWork'
  BY <1>4, IncType DEF EnqueueSlow, SlowFull, IrqGoto, slowVars, Masking, TypeOK
<1>5. CASE ProcessIn
  BY <1>5, <1>4, <1>a DEF ProcessIn, InIrq, IrqGoto, slowVars, TypeOK
<1>6. CASE IrqSdhc
  BY <1>6, <1>4, <1>a DEF IrqSdhc, InIrq, IrqGoto, slowVars, TypeOK
<1>7. CASE MainLoop \/ IdleKill \/ IdleCheck \/ IdleWait \/ IdleRestore \/ Shutdown
  BY <1>7 DEF MainLoop, IdleKill, IdleCheck, IdleWait, IdleRestore, Shutdown,
              InMain, MainGoto, slowVars, TypeOK
<1>8. CASE AdvanceSlow
  BY <1>8 DEF AdvanceSlow, InMain, MainGoto, TypeOK
<1>9. CASE ProcessSlow
  BY <1>9 DEF ProcessSlow, InMain, MainGoto, slowVars, TypeOK
<1>10. ASSUME NEW c \in Ctx, PostSlot(c) \/ PostFlush(c)
       PROVE  ServedRequestHeld' /\ NoSleepOverWork'
  BY <1>10, <1>a DEF PostSlot, PostFlush, slowVars
<1>11. ASSUME NEW c \in Ctx, PostStore(c) PROVE ServedRequestHeld' /\ NoSleepOverWork'
  BY <1>11 DEF PostStore, Runs, slowVars, Masking, TypeOK, Ctx
<1> QED
  BY <1>1, <1>2, <1>3, <1>5, <1>6, <1>7, <1>8, <1>9, <1>10, <1>11
  DEF Next, IrqStep, MainStep, Ctx

\* No doorbell is lost between the handler's acknowledgements.
LEMMA StepBell ==
  TypeOK /\ Masking /\ RequestAnnounced /\ BellPending /\ [Next]_vars
    => RequestAnnounced' /\ BellPending'
<1> SUFFICES ASSUME TypeOK, Masking, RequestAnnounced, BellPending, [Next]_vars
             PROVE  RequestAnnounced' /\ BellPending'
  OBVIOUS
<1> USE DEF RequestAnnounced, BellPending
<1>a. CASE UNCHANGED <<ppcMsg, inHead, bell, flags, pc, ppc>>
  BY <1>a
<1>1. CASE PpcPut
  BY <1>1 DEF PpcPut
<1>2. CASE PpcRing
  BY <1>2 DEF PpcRing
<1>3. CASE PpcTake
  BY <1>3 DEF PpcTake, envVars, TypeOK
<1>4. CASE Device
  BY <1>4 DEF Device, NandFinish, CardChange, TimerTick, envVars
<1>5. CASE UNCHANGED vars
  BY <1>5, <1>a DEF vars, hwVars, envVars
<1>6. CASE IrqEnter
  BY <1>6 DEF IrqEnter, IrqGoto, envVars, TypeOK
<1>7. CASE IrqNand
  BY <1>7 DEF IrqNand, InIrq, IrqGoto, envVars, TypeOK
<1>8. CASE IrqIpc \/ IrqBell \/ AdvanceIn \/ Drained \/ IrqAck
  BY <1>8 DEF IrqIpc, IrqBell, AdvanceIn, Drained, IrqAck, AfterAck, InIrq, IrqGoto,
              hwVars, envVars, TypeOK
<1>9. CASE ProcessIn
  BY <1>9 DEF ProcessIn, EnqueueSlow, InIrq, IrqGoto, hwVars, envVars, TypeOK
<1>10. CASE IrqSdhc
  BY <1>10 DEF IrqSdhc, EnqueueSlow, InIrq, IrqGoto, envVars, TypeOK
<1>11. CASE MainLoop \/ AdvanceSlow \/ IdleKill \/ IdleCheck \/ IdleWait \/ IdleRestore
            \/ Shutdown
  BY <1>11 DEF MainLoop, AdvanceSlow, IdleKill, IdleCheck, IdleWait, IdleRestore,
               Shutdown, InMain, MainGoto, hwVars, envVars, TypeOK
<1>12. CASE ProcessSlow
  BY <1>12 DEF ProcessSlow, InMain, MainGoto, hwVars, envVars, TypeOK
<1>13. ASSUME NEW c \in Ctx, PostSlot(c) \/ PostFlush(c)
       PROVE  RequestAnnounced' /\ BellPending'
  BY <1>13, <1>a DEF PostSlot, PostFlush, hwVars, envVars
<1>14. ASSUME NEW c \in Ctx, PostStore(c) PROVE RequestAnnounced' /\ BellPending'
  BY <1>14 DEF PostStore, Runs, envVars, Masking, TypeOK, Ctx
<1> QED
  BY <1>1, <1>2, <1>3, <1>4, <1>5, <1>6, <1>7, <1>8, <1>9, <1>10, <1>11, <1>12, <1>13,
     <1>14
  DEF Next, IrqStep, MainStep, Ctx

-----------------------------------------------------------------------------
LEMMA InitInvariant == Init => IInv
<1>1. Init => TypeOK
  BY InitTyped
<1>2. Init => Masking /\ Publishing
  BY DEF Init, Masking, Publishing, RegistersCurrent, Ctx
<1>3. Init => /\ AnswerSlotFree /\ ServedRequestHeld /\ NoSleepOverWork
              /\ RequestAnnounced /\ BellPending
  BY DEF Init, AnswerSlotFree, ServedRequestHeld, NoSleepOverWork, RequestAnnounced,
         BellPending, Ctx
<1> QED
  BY <1>1, <1>2, <1>3 DEF IInv

\* The inductive invariant: what the message path of src/ipc.c and src/irq.c
\* maintains in every reachable state.
THEOREM Invariance == Spec => []IInv
<1>1. IInv /\ [Next]_vars => IInv'
  BY StepTyped, StepMasking, StepPublishing, StepQueue, StepBell DEF IInv
<1> QED
  BY InitInvariant, <1>1, PTL DEF Spec

\* Every variable keeps its type: the ring indices of src/ipc.c stay in their
\* rings, and the slots hold requests and answers.
THEOREM TypeCorrect == Spec => []TypeOK
<1>1. IInv => TypeOK
  BY DEF IInv
<1> QED
  BY Invariance, <1>1, PTL

\* No update of ARMMSG is lost between the main loop's ipc_post and the
\* handler's (ipc.c:76-84, 116-117, 299-300).
THEOREM RegistersAgree == Spec => []RegistersCurrent
<1>1. IInv => RegistersCurrent
  BY DEF IInv, Publishing
<1> QED
  BY Invariance, <1>1, PTL

\* An answer is only ever written to a slot the PowerPC is done with
\* (ipc.c:102-115).
THEOREM AnswersKept == Spec => []AnswerSlotFree
<1>1. IInv => AnswerSlotFree
  BY DEF IInv
<1> QED
  BY Invariance, <1>1, PTL

\* The slow queue never wraps onto the request being served (ipc.c:282-288,
\* 338-341).
THEOREM QueueKept == Spec => []ServedRequestHeld
<1>1. IInv => ServedRequestHeld
  BY DEF IInv
<1> QED
  BY Invariance, <1>1, PTL

\* The main loop never sleeps while the slow queue holds a request (ipc.c:347-349).
THEOREM NoSleep == Spec => []NoSleepOverWork
<1>1. IInv => NoSleepOverWork
  BY DEF IInv
<1> QED
  BY Invariance, <1>1, PTL

\* No request lies in the ring unannounced (ipc.c:295-303).
THEOREM BellsKept == Spec => []RequestAnnounced
<1>1. IInv => RequestAnnounced
  BY DEF IInv
<1> QED
  BY Invariance, <1>1, PTL

\* No set bell is without its interrupt (ipc.c:295-303, irq.c:82-86).
THEOREM BellStaysPending == Spec => []BellPending
<1>1. IInv => BellPending
  BY DEF IInv
<1> QED
  BY Invariance, <1>1, PTL

\* process_slow reads its request in place: nothing changes the slot before the
\* head moves past it (ipc.c:338-341).
THEOREM SlotStable == Spec => ServedSlotStable
<1> DEFINE A == pc.main \in {"serve", "next", "leave"}
                  => slow'[slowHead] = slow[slowHead]
<1>1. IInv /\ [Next]_vars => [A]_vars
  <2> SUFFICES ASSUME IInv, [Next]_vars, pc.main \in {"serve", "next", "leave"}
               PROVE  slow'[slowHead] = slow[slowHead]
    OBVIOUS
  <2>1. TypeOK /\ slowHead # slowTail
    BY DEF IInv, ServedRequestHeld
  <2>2. ASSUME NEW r, NEW next, EnqueueSlow(r, next)
        PROVE  slow'[slowHead] = slow[slowHead]
    BY <2>1, <2>2 DEF EnqueueSlow, slowVars, TypeOK
  <2>3. CASE ProcessIn \/ IrqSdhc
    BY <2>2, <2>3 DEF ProcessIn, IrqSdhc, slowVars
  <2>4. CASE UNCHANGED slow
    BY <2>4
  <2>5. CASE PpcPut \/ PpcRing \/ PpcTake \/ Device \/ UNCHANGED vars
    BY <2>4, <2>5 DEF PpcPut, PpcRing, PpcTake, Device, NandFinish, CardChange,
                      TimerTick, vars, slowVars
  <2>6. CASE IrqEnter \/ IrqNand \/ IrqIpc \/ IrqBell \/ AdvanceIn \/ Drained \/ IrqAck
    BY <2>4, <2>6 DEF IrqEnter, IrqNand, IrqIpc, IrqBell, AdvanceIn, Drained, IrqAck,
                      slowVars
  <2>7. CASE \E c \in Ctx : PostSlot(c) \/ PostFlush(c) \/ PostStore(c)
    BY <2>4, <2>7 DEF PostSlot, PostFlush, PostStore, slowVars
  <2>8. CASE \/ MainLoop \/ ProcessSlow \/ AdvanceSlow \/ IdleKill \/ IdleCheck
             \/ IdleWait \/ IdleRestore \/ Shutdown
    BY <2>4, <2>8 DEF MainLoop, ProcessSlow, AdvanceSlow, IdleKill, IdleCheck, IdleWait,
                      IdleRestore, Shutdown, slowVars
  <2> QED
    BY <2>3, <2>5, <2>6, <2>7, <2>8 DEF Next, IrqStep, MainStep, Ctx
<1> QED
  BY Invariance, <1>1, PTL DEF Spec, ServedSlotStable

-----------------------------------------------------------------------------
(***************************************************************************)
(* A ring as the sequence it stands for.                                   *)
(***************************************************************************)
LEMMA Mod ==
  ASSUME NEW n \in Nat \ {0}, NEW a \in Nat, a < 2 * n
  PROVE  a % n = IF a < n THEN a ELSE a - n
BY SMTT(60)

LEMMA DistType ==
  ASSUME NEW n \in Nat, n > 1, NEW h \in 0..n-1, NEW t \in 0..n-1
  PROVE  /\ Dist(h, t, n) \in 0..n-1 /\ (Dist(h, t, n) = 0 <=> h = t)
         /\ Inc(t, n) # h => Dist(h, Inc(t, n), n) = Dist(h, t, n) + 1
         /\ h # t => Dist(Inc(h, n), t, n) = Dist(h, t, n) - 1
BY DEF Dist, Inc

\* Where the k-th member of a ring lies.
Place(h, k, n) == (h + k - 1) % n

LEMMA PlaceAt ==
  ASSUME NEW n \in Nat, n > 1, NEW h \in 0..n-1, NEW k \in 1..n
  PROVE  Place(h, k, n) = IF h + k - 1 < n THEN h + k - 1 ELSE h + k - 1 - n
<1> DEFINE a == h + k - 1
<1>1. a \in Nat /\ a < 2 * n /\ n \in Nat \ {0}
  OBVIOUS
<1>2. Place(h, k, n) = a % n
  BY DEF Place
<1> HIDE DEF a
<1>3. a % n = IF a < n THEN a ELSE a - n
  BY <1>1, Mod
<1> QED
  BY <1>2, <1>3 DEF a

LEMMA PlaceType ==
  ASSUME NEW n \in Nat, n > 1, NEW h \in 0..n-1, NEW t \in 0..n-1, NEW k \in 1..Dist(h, t, n)
  PROVE  /\ Place(h, k, n) \in 0..n-1 /\ Place(h, k, n) # t
         /\ k + 1 \in 1..Dist(h, t, n) => Place(Inc(h, n), k, n) = Place(h, k + 1, n)
<1>1. Dist(h, t, n) \in 0..n-1 /\ k \in Nat /\ 0 < k /\ k < n
  BY DistType
<1>2. Place(h, k, n) = IF h + k - 1 < n THEN h + k - 1 ELSE h + k - 1 - n
  <2>1. k \in 1..n
    BY <1>1
  <2> QED
    BY <2>1, PlaceAt
<1>3. Place(h, k, n) \in 0..n-1 /\ Place(h, k, n) # t
  BY <1>1, <1>2 DEF Dist
<1>4. ASSUME k + 1 \in 1..Dist(h, t, n)
      PROVE  Place(Inc(h, n), k, n) = Place(h, k + 1, n)
  <2>1. Inc(h, n) \in 0..n-1 /\ k + 1 < n
    BY <1>1, <1>4, IncType
  <2>2. Place(Inc(h, n), k, n) = IF Inc(h, n) + k - 1 < n THEN Inc(h, n) + k - 1 ELSE Inc(h, n) + k - 1 - n
    <3>1. k \in 1..n
      BY <1>1
    <3> QED
      BY <2>1, <3>1, PlaceAt
  <2>3. Place(h, k + 1, n) = IF h + k < n THEN h + k ELSE h + k - n
    <3> DEFINE j == k + 1
    <3>1. j \in 1..n /\ h + j - 1 = h + k
      BY <1>1, <2>1
    <3> HIDE DEF j
    <3>2. Place(h, j, n) = IF h + j - 1 < n THEN h + j - 1 ELSE h + j - 1 - n
      BY <3>1, PlaceAt
    <3> QED
      BY <3>1, <3>2 DEF j
  <2> QED
    BY <1>1, <2>1, <2>2, <2>3 DEF Inc
<1> QED
  BY <1>3, <1>4

LEMMA LastPlace ==
  ASSUME NEW n \in Nat, n > 1, NEW h \in 0..n-1, NEW t \in 0..n-1
  PROVE  Place(h, Dist(h, t, n) + 1, n) = t /\ Place(h, 1, n) = h
<1>1. Dist(h, t, n) \in 0..n-1
  BY DistType
<1> DEFINE j == Dist(h, t, n) + 1
<1>2. j \in 1..n /\ h + j - 1 = h + Dist(h, t, n)
  BY <1>1
<1> HIDE DEF j
<1>3. Place(h, j, n) = IF h + j - 1 < n THEN h + j - 1 ELSE h + j - 1 - n
  BY <1>2, PlaceAt
<1>4. 1 \in 1..n /\ h + 1 - 1 = h /\ h < n
  OBVIOUS
<1>5. Place(h, 1, n) = h
  BY <1>4, PlaceAt
<1> QED
  BY <1>1, <1>2, <1>3, <1>5 DEF Dist, j

\* Its length, and its members in order.
LEMMA ContentSeq ==
  ASSUME NEW n \in Nat, n > 1, NEW h \in 0..n-1, NEW t \in 0..n-1,
         NEW V, NEW m \in [0..n-1 -> V]
  PROVE  /\ Content(m, h, t, n) \in Seq(V)
         /\ Len(Content(m, h, t, n)) = Dist(h, t, n)
         /\ \A k \in 1..Dist(h, t, n) : Content(m, h, t, n)[k] = m[Place(h, k, n)]
<1> DEFINE c == Content(m, h, t, n)
           d == Dist(h, t, n)
<1>1. d \in Nat
  BY DistType
<1>2. c = [k \in 1..d |-> m[Place(h, k, n)]]
  BY DEF Content, Place
<1>3. \A k \in 1..d : m[Place(h, k, n)] \in V
  BY PlaceType
<1> HIDE DEF d, c
<1>4. c \in [1..d -> V]
  BY <1>2, <1>3
<1>5. c \in Seq(V) /\ Len(c) = d
  BY <1>1, <1>4
<1>6. \A k \in 1..d : c[k] = m[Place(h, k, n)]
  BY <1>2
<1> QED
  BY <1>5, <1>6 DEF c, d

LEMMA ContentEmpty ==
  ASSUME NEW n \in Nat, n > 1, NEW h \in 0..n-1, NEW V, NEW m \in [0..n-1 -> V]
  PROVE  Content(m, h, h, n) = <<>>
<1>1. Dist(h, h, n) = 0
  BY DEF Dist
<1>2. Content(m, h, h, n) \in Seq(V) /\ Len(Content(m, h, h, n)) = Dist(h, h, n)
  BY ContentSeq
<1> QED
  BY <1>1, <1>2, EmptySeq

\* The head's slot comes first.
LEMMA ContentHead ==
  ASSUME NEW n \in Nat, n > 1, NEW h \in 0..n-1, NEW t \in 0..n-1, h # t,
         NEW V, NEW m \in [0..n-1 -> V]
  PROVE  Content(m, h, t, n) # <<>> /\ Head(Content(m, h, t, n)) = m[h]
<1> DEFINE c == Content(m, h, t, n)
           d == Dist(h, t, n)
<1>1. d \in Nat /\ d # 0
  BY DistType
<1>2. c \in Seq(V) /\ Len(c) = d /\ \A k \in 1..d : c[k] = m[Place(h, k, n)]
  BY ContentSeq, ZenonT(60)
<1>3. Place(h, 1, n) = h
  BY LastPlace
<1> HIDE DEF c, d
<1>4. c[1] = m[h]
  BY <1>1, <1>2, <1>3
<1>5. c # <<>> /\ Head(c) = c[1]
  BY <1>1, <1>2
<1> QED
  BY <1>4, <1>5 DEF c

\* A slot outside of it does not show.
LEMMA ContentSame ==
  ASSUME NEW n \in Nat, n > 1, NEW h \in 0..n-1, NEW t \in 0..n-1,
         NEW V, NEW m \in [0..n-1 -> V], NEW w \in [0..n-1 -> V],
         \A i \in 0..n-1 : i # t => w[i] = m[i]
  PROVE  Content(w, h, t, n) = Content(m, h, t, n)
<1>1. \A k \in 1..Dist(h, t, n) : w[Place(h, k, n)] = m[Place(h, k, n)]
  BY PlaceType
<1>2. /\ Content(w, h, t, n) \in Seq(V) /\ Content(m, h, t, n) \in Seq(V)
      /\ Len(Content(w, h, t, n)) = Dist(h, t, n) /\ Len(Content(m, h, t, n)) = Dist(h, t, n)
      /\ \A k \in 1..Dist(h, t, n) : /\ Content(w, h, t, n)[k] = w[Place(h, k, n)]
                                     /\ Content(m, h, t, n)[k] = m[Place(h, k, n)]
  BY ContentSeq, ZenonT(60)
<1> QED
  BY <1>1, <1>2, SeqEqual

\* Filling the slot behind the last one and moving the tail past it appends.
LEMMA ContentAppend ==
  ASSUME NEW n \in Nat, n > 1, NEW h \in 0..n-1, NEW t \in 0..n-1, Inc(t, n) # h,
         NEW V, NEW m \in [0..n-1 -> V]
  PROVE  Content(m, h, Inc(t, n), n) = Append(Content(m, h, t, n), m[t])
<1> DEFINE a == Content(m, h, t, n)
           b == Content(m, h, Inc(t, n), n)
           d == Dist(h, t, n)
<1>1. Inc(t, n) \in 0..n-1 /\ m[t] \in V
  BY IncType
<1>2. Dist(h, Inc(t, n), n) = d + 1 /\ d \in Nat
  BY DistType
<1>3. /\ a \in Seq(V) /\ Len(a) = d /\ \A k \in 1..d : a[k] = m[Place(h, k, n)]
  BY ContentSeq, ZenonT(60)
<1>4. /\ b \in Seq(V) /\ Len(b) = d + 1 /\ \A k \in 1..(d+1) : b[k] = m[Place(h, k, n)]
  <2> DEFINE u == Inc(t, n)
  <2>1. u \in 0..n-1
    BY <1>1
  <2> HIDE DEF u, d
  <2>2. /\ Content(m, h, u, n) \in Seq(V) /\ Len(Content(m, h, u, n)) = Dist(h, u, n)
        /\ \A k \in 1..Dist(h, u, n) : Content(m, h, u, n)[k] = m[Place(h, k, n)]
    BY <2>1, ContentSeq, ZenonT(60)
  <2> QED
    BY <1>2, <2>2 DEF u
<1>5. m[Place(h, d + 1, n)] = m[t]
  BY LastPlace
<1> HIDE DEF a, b, d
<1>6. /\ Append(a, m[t]) \in Seq(V) /\ Len(Append(a, m[t])) = d + 1
      /\ \A k \in 1..d : Append(a, m[t])[k] = a[k]
      /\ Append(a, m[t])[d + 1] = m[t]
  BY <1>1, <1>2, <1>3, AppendProperties
<1>7. ASSUME NEW k \in 1..(d + 1) PROVE b[k] = Append(a, m[t])[k]
  <2>1. k \in 1..d \/ k = d + 1
    BY <1>2
  <2>2. b[k] = m[Place(h, k, n)]
    BY <1>4
  <2>3. CASE k = d + 1
    BY <1>5, <1>6, <2>2, <2>3
  <2>4. CASE k \in 1..d
    BY <1>3, <1>6, <2>2, <2>4
  <2> QED
    BY <2>1, <2>3, <2>4
<1>8. b = Append(a, m[t])
  BY <1>4, <1>6, <1>7, SeqEqual
<1> QED
  BY <1>8 DEF a, b

\* Moving the head past a slot takes it off.
LEMMA ContentTail ==
  ASSUME NEW n \in Nat, n > 1, NEW h \in 0..n-1, NEW t \in 0..n-1, h # t,
         NEW V, NEW m \in [0..n-1 -> V]
  PROVE  Content(m, Inc(h, n), t, n) = Tail(Content(m, h, t, n))
<1> DEFINE a == Content(m, h, t, n)
           b == Content(m, Inc(h, n), t, n)
           d == Dist(h, t, n)
<1>1. Inc(h, n) \in 0..n-1
  BY IncType
<1>2. Dist(Inc(h, n), t, n) = d - 1 /\ d \in Nat /\ d >= 1
  <2>1. Dist(Inc(h, n), t, n) = d - 1
    BY DistType
  <2>2. d \in 0..n-1 /\ d # 0
    BY DistType
  <2> HIDE DEF d
  <2> QED
    BY <2>1, <2>2
<1>3. a \in Seq(V) /\ Len(a) = d /\ \A k \in 1..d : a[k] = m[Place(h, k, n)]
  BY ContentSeq
<1>4. /\ b \in Seq(V) /\ Len(b) = d - 1
      /\ \A k \in 1..(d-1) : b[k] = m[Place(Inc(h, n), k, n)]
  <2> DEFINE u == Inc(h, n)
  <2>1. u \in 0..n-1
    BY <1>1
  <2> HIDE DEF u, d
  <2>2. /\ Content(m, u, t, n) \in Seq(V) /\ Len(Content(m, u, t, n)) = Dist(u, t, n)
        /\ \A k \in 1..Dist(u, t, n) : Content(m, u, t, n)[k] = m[Place(u, k, n)]
    BY <2>1, ContentSeq, ZenonT(60)
  <2> QED
    BY <1>2, <2>2 DEF u
<1>5. ASSUME NEW k \in 1..(d-1) PROVE Place(Inc(h, n), k, n) = Place(h, k + 1, n) /\ k + 1 \in 1..d
  <2>1. k \in 1..d /\ k + 1 \in 1..d
    <3> HIDE DEF d
    <3> QED
      BY <1>2, <1>5
  <2> QED
    BY <2>1, PlaceType
<1> HIDE DEF a, b, d
<1>6. a # <<>>
  BY <1>2, <1>3, EmptySeq
<1>7. /\ Tail(a) \in Seq(V) /\ Len(Tail(a)) = d - 1
      /\ \A k \in 1..(d-1) : Tail(a)[k] = a[k + 1]
  BY <1>2, <1>3, <1>6, HeadTailProperties
<1>8. \A k \in 1..(d-1) : b[k] = Tail(a)[k]
  BY <1>3, <1>4, <1>5, <1>7
<1>9. b = Tail(a)
  BY <1>4, <1>7, <1>8, SeqEqual
<1> QED
  BY <1>9 DEF a, b


-----------------------------------------------------------------------------
(***************************************************************************)
(* The rings implement the service.  What an ipc_post at work carries: the *)
(* request it answers is still at the head of its queue, the slot holds    *)
(* the answer before the register shows it, and a completion that was      *)
(* raised has an operation to complete.                                    *)
(***************************************************************************)
Answering ==
  /\ pc.irq = "advance" \/ (pc.irq = "drain" /\ post["irq"] # "no")
       => ppcMsg.inTail # inHead
  /\ pc.irq = "drain" /\ post["irq"] # "no"
       => /\ inMem[inHead].kind = "fastReply"
          /\ msg["irq"] = [req |-> inMem[inHead], ok |-> TRUE]
  /\ post["main"] # "no"
       => /\ slow[slowHead].kind \in {"slowReply", "nand"}
          /\ msg["main"] = [req |-> slow[slowHead], ok |-> slow[slowHead].kind = "slowReply"]

Completing ==
  /\ "nand" \in flags => nand # NoReq
  /\ pc.irq = "nand" /\ post["irq"] = "no" /\ "nand" \in taken => nand # NoReq
  /\ pc.irq = "nand" /\ post["irq"] # "no"
       => /\ nand = NoReq /\ msg["irq"].req # NoReq
          /\ msg["irq"] = [req |-> msg["irq"].req, ok |-> TRUE]

Filling ==
  \A c \in Ctx :
    /\ post[c] = "flush" => outLine[outTail] = msg[c]
    /\ post[c] = "store" => /\ outTail # ppcMsg.outHead
                            /\ outTail = Inc(armMsg.outTail, OutSize)
                            /\ outMem[armMsg.outTail] = msg[c]

\* At most one context is inside ipc_post.
LEMMA Solo ==
  ASSUME TypeOK, Masking
  PROVE  /\ post["main"] # "no" => post["irq"] = "no" /\ pc.irq = "none" /\ pc.main = "serve"
         /\ post["irq"] # "no" => post["main"] = "no" /\ pc.irq \in {"nand", "drain"}
         /\ pc.irq # "none" => ~irqOff /\ post["main"] = "no"
BY DEF TypeOK, Masking, Ctx

\* The request being answered stays where it was read.
LEMMA StepAnswering ==
  ASSUME TypeOK, Masking, Publishing, Answering, [Next]_vars
  PROVE  Answering'
<1>s. /\ post["main"] # "no" => post["irq"] = "no" /\ pc.irq = "none" /\ pc.main = "serve"
      /\ post["irq"] # "no" => post["main"] = "no" /\ pc.irq \in {"nand", "drain"}
      /\ pc.irq # "none" => ~irqOff /\ post["main"] = "no"
  BY Solo
<1>a. CASE UNCHANGED <<pc, post, msg, inMem, inHead, slow, slowHead, ppcMsg>>
  BY <1>a DEF Answering
<1>1. CASE PpcPut
  <2>1. PICK r : inMem' = [inMem EXCEPT ![ppcMsg.inTail] = r]
    BY <1>1 DEF PpcPut
  <2>2. /\ ppcMsg'.inTail = Inc(ppcMsg.inTail, InSize) /\ Inc(ppcMsg.inTail, InSize) # inHead
        /\ UNCHANGED <<pc, post, msg, inHead, slow, slowHead>>
    BY <1>1 DEF PpcPut, callVars, slowVars, Publishing, TypeOK
  <2>3. ppcMsg.inTail # inHead => inMem'[inHead] = inMem[inHead]
    BY <2>1 DEF TypeOK
  <2> QED
    BY <2>2, <2>3 DEF Answering
<1>2. CASE PpcTake
  BY <1>2 DEF PpcTake, memVars, callVars, slowVars, Answering, TypeOK
<1>3. CASE PpcRing \/ Device \/ UNCHANGED vars
  BY <1>3, <1>a DEF PpcRing, Device, NandFinish, CardChange, TimerTick, memVars, callVars,
                    slowVars, hwVars, vars
<1>4. ASSUME NEW c \in Ctx, PostSlot(c) \/ PostFlush(c) PROVE Answering'
  <2>1. post[c] # "no" /\ \E x : x # "no" /\ post' = [post EXCEPT ![c] = x]
    BY <1>4 DEF PostSlot, PostFlush
  <2>2. \A d \in Ctx : post'[d] # "no" <=> post[d] # "no"
    BY <2>1 DEF TypeOK
  <2>3. UNCHANGED <<pc, msg, inMem, inHead, slow, slowHead, ppcMsg>>
    BY <1>4 DEF PostSlot, PostFlush, hwVars, slowVars
  <2> QED
    BY <2>2, <2>3 DEF Answering, Ctx
<1>5. CASE PostStore("irq")
  <2>1. /\ post'["irq"] = "no" /\ post'["main"] = "no" /\ UNCHANGED <<ppcMsg, inHead>>
        /\ pc'.irq = "advance" => pc.irq = "drain" /\ post["irq"] # "no"
    BY <1>5, <1>s DEF PostStore, TypeOK, Ctx
  <2> QED
    BY <2>1 DEF Answering
<1>6. CASE PostStore("main")
  <2>1. post'["main"] = "no" /\ post'["irq"] = "no" /\ pc'.irq = "none"
    BY <1>6, <1>s DEF PostStore, TypeOK, Ctx
  <2> QED
    BY <2>1 DEF Answering
<1>7. CASE IrqEnter \/ IrqIpc \/ IrqBell \/ AdvanceIn \/ Drained \/ IrqAck
  <2>1. post["irq"] = "no" /\ post["main"] = "no"
    BY <1>7, <1>s DEF IrqEnter, IrqIpc, IrqBell, AdvanceIn, Drained, IrqAck, InIrq, Masking
  <2>2. post' = post
    BY <1>7 DEF IrqEnter, IrqIpc, IrqBell, AdvanceIn, Drained, IrqAck, callVars
  <2>3. pc'.irq # "advance"
    BY <1>7 DEF IrqEnter, IrqIpc, IrqBell, AdvanceIn, Drained, IrqAck, IrqGoto, TypeOK
  <2> QED
    BY <2>1, <2>2, <2>3 DEF Answering
<1>8. CASE IrqNand
  <2>1. post'["main"] = "no" /\ pc'.irq \in {"nand", "ipc"}
    BY <1>8, <1>s DEF IrqNand, InIrq, IrqGoto, Call, callVars, TypeOK, Ctx
  <2> QED
    BY <2>1 DEF Answering
<1>9. CASE ProcessIn
  <2> DEFINE r == Fetch(inHead)
  <2>1. /\ pc.irq = "drain" /\ post["irq"] = "no" /\ post["main"] = "no" /\ ppcMsg.inTail # inHead
        /\ UNCHANGED <<ppcMsg, inMem, inHead>>
    BY <1>9, <1>s DEF ProcessIn, InIrq, hwVars
  <2>2. CASE r.kind = "fastReply" /\ Call("irq", r, TRUE) /\ UNCHANGED pc
    BY <2>1, <2>2 DEF Call, Fetch, TypeOK, Ctx, Answering
  <2>3. CASE UNCHANGED callVars
    BY <2>1, <2>3 DEF callVars, Answering
  <2> QED
    BY <1>9, <2>2, <2>3 DEF ProcessIn
<1>10. CASE IrqSdhc
  <2>1. post' = post /\ post["irq"] = "no" /\ post["main"] = "no" /\ pc'.irq # "advance"
    BY <1>10, <1>s DEF IrqSdhc, EnqueueSlow, InIrq, IrqGoto, callVars, TypeOK
  <2> QED
    BY <2>1 DEF Answering
<1>11. CASE MainLoop \/ AdvanceSlow \/ IdleKill \/ IdleCheck \/ IdleWait \/ IdleRestore \/ Shutdown
  <2>1. post' = post /\ post["irq"] = "no" /\ post["main"] = "no" /\ pc'.irq = "none"
    BY <1>11, <1>s DEF MainLoop, AdvanceSlow, IdleKill, IdleCheck, IdleWait, IdleRestore,
                       Shutdown, InMain, MainGoto, callVars, TypeOK
  <2> QED
    BY <2>1 DEF Answering
<1>12. CASE ProcessSlow
  <2> DEFINE r == slow[slowHead]
  <2>1. /\ pc'.irq = "none" /\ post["irq"] = "no" /\ post["main"] = "no"
        /\ UNCHANGED <<slow, slowHead>>
    BY <1>12, <1>s DEF ProcessSlow, InMain, MainGoto, slowVars, TypeOK
  <2>2. CASE /\ r.kind \in {"slowReply", "nand"}
             /\ Call("main", r, r.kind = "slowReply")
    BY <2>1, <2>2 DEF Call, TypeOK, Ctx, Answering
  <2>3. CASE UNCHANGED callVars
    BY <2>1, <2>3 DEF callVars, Answering
  <2> QED
    BY <1>12, <2>2, <2>3 DEF ProcessSlow
<1> QED
  BY <1>1, <1>2, <1>3, <1>4, <1>5, <1>6, <1>7, <1>8, <1>9, <1>10, <1>11, <1>12
  DEF Next, IrqStep, MainStep, Ctx

\* The NAND interrupt finds its operation.
LEMMA StepCompleting ==
  ASSUME TypeOK, Masking, Completing, [Next]_vars
  PROVE  Completing'
<1>s. /\ post["main"] # "no" => post["irq"] = "no" /\ pc.irq = "none" /\ pc.main = "serve"
      /\ post["irq"] # "no" => post["main"] = "no" /\ pc.irq \in {"nand", "drain"}
      /\ pc.irq # "none" => ~irqOff /\ post["main"] = "no"
  BY Solo
<1>1. CASE NandFinish
  BY <1>1 DEF NandFinish, callVars, Completing
<1>2. CASE CardChange \/ TimerTick \/ PpcRing
  <2>1. UNCHANGED <<pc, post, msg, nand, taken>> /\ ("nand" \in flags' => "nand" \in flags)
    BY <1>2 DEF CardChange, TimerTick, PpcRing, callVars, nandVars
  <2> QED
    BY <2>1 DEF Completing
<1>3. CASE PpcPut \/ PpcTake \/ UNCHANGED vars
  BY <1>3 DEF PpcPut, PpcTake, vars, hwVars, callVars, nandVars, Completing
<1>4. ASSUME NEW c \in Ctx, PostSlot(c) \/ PostFlush(c) PROVE Completing'
  <2>1. post[c] # "no" /\ \E x : x # "no" /\ post' = [post EXCEPT ![c] = x]
    BY <1>4 DEF PostSlot, PostFlush
  <2>2. \A d \in Ctx : post'[d] # "no" <=> post[d] # "no"
    BY <2>1 DEF TypeOK
  <2>3. UNCHANGED <<pc, msg, flags, taken, nand>>
    BY <1>4 DEF PostSlot, PostFlush, hwVars, nandVars
  <2> QED
    BY <2>2, <2>3 DEF Completing, Ctx
<1>5. ASSUME NEW c \in Ctx, PostStore(c) PROVE Completing'
  <2>1. pc'.irq # "nand" /\ UNCHANGED <<flags, nand>>
    BY <1>5, <1>s DEF PostStore, nandVars, TypeOK, Ctx
  <2> QED
    BY <2>1 DEF Completing
<1>6. CASE IrqEnter
  <2>1. /\ post' = post /\ post["irq"] = "no" /\ taken' = flags /\ nand' = nand
        /\ ("nand" \in flags' => "nand" \in flags)
    BY <1>6, <1>s DEF IrqEnter, callVars, nandVars
  <2> QED
    BY <2>1 DEF Completing
<1>7. CASE IrqNand
  <2>1. pc.irq = "nand" /\ post["irq"] = "no"
    BY <1>7 DEF IrqNand, InIrq
  <2>2. CASE "nand" \in taken
    <3>1. /\ flags' = flags \ {"nand"} /\ nand' = NoReq /\ nand # NoReq /\ pc' = pc
          /\ post'["irq"] = "slot" /\ msg'["irq"] = [req |-> nand, ok |-> TRUE]
      BY <1>7, <2>1, <2>2 DEF IrqNand, Call, TypeOK, Ctx, Completing
    <3> QED
      BY <3>1 DEF Completing
  <2>3. CASE "nand" \notin taken
    BY <1>7, <2>3 DEF IrqNand, IrqGoto, nandVars, TypeOK, Completing
  <2> QED
    BY <2>2, <2>3
<1>8. CASE IrqIpc \/ IrqBell \/ AdvanceIn \/ Drained \/ IrqAck
  <2>1. pc'.irq # "nand" /\ nand' = nand /\ ("nand" \in flags' => "nand" \in flags)
    BY <1>8 DEF IrqIpc, IrqBell, AdvanceIn, Drained, IrqAck, AfterAck, InIrq, IrqGoto, nandVars,
                hwVars, TypeOK
  <2> QED
    BY <2>1 DEF Completing
<1>9. CASE ProcessIn \/ IrqSdhc
  <2>1. pc.irq \in {"drain", "sdhc"}
    BY <1>9 DEF ProcessIn, IrqSdhc, InIrq
  <2>2. ASSUME NEW r, NEW next \in {"advance", "none"}, EnqueueSlow(r, next)
        PROVE  pc'.irq # "nand"
    BY <2>2 DEF EnqueueSlow, IrqGoto, TypeOK
  <2>3. pc'.irq # "nand"
    BY <1>9, <2>1, <2>2 DEF ProcessIn, IrqSdhc, IrqGoto, TypeOK
  <2>4. nand' = nand /\ ("nand" \in flags' => "nand" \in flags)
    BY <1>9 DEF ProcessIn, IrqSdhc, nandVars, hwVars
  <2> QED
    BY <2>3, <2>4 DEF Completing
<1>10. CASE MainLoop \/ AdvanceSlow \/ IdleKill \/ IdleCheck \/ IdleWait \/ IdleRestore \/ Shutdown
  <2>1. pc'.irq = "none" /\ nand' = nand /\ ("nand" \in flags' => "nand" \in flags)
    BY <1>10 DEF MainLoop, AdvanceSlow, IdleKill, IdleCheck, IdleWait, IdleRestore, Shutdown,
                 InMain, MainGoto, nandVars, hwVars, TypeOK
  <2> QED
    BY <2>1 DEF Completing
<1>11. CASE ProcessSlow
  <2>1. pc'.irq = "none" /\ flags' = flags /\ (nand' = nand \/ nand = NoReq)
    BY <1>11 DEF ProcessSlow, InMain, MainGoto, nandVars, hwVars, TypeOK
  <2> QED
    BY <2>1 DEF Completing
<1> QED
  BY <1>1, <1>2, <1>3, <1>4, <1>5, <1>6, <1>7, <1>8, <1>9, <1>10, <1>11
  DEF Next, Device, IrqStep, MainStep, Ctx

\* The slot shows the whole answer before the register does.
LEMMA StepFilling ==
  ASSUME TypeOK, Masking, Publishing, AnswerSlotFree, Filling, [Next]_vars
  PROVE  Filling'
<1>s. /\ post["main"] # "no" => post["irq"] = "no" /\ pc.irq = "none" /\ pc.main = "serve"
      /\ post["irq"] # "no" => post["main"] = "no" /\ pc.irq \in {"nand", "drain"}
      /\ pc.irq # "none" => ~irqOff /\ post["main"] = "no"
  BY Solo
<1>a. CASE UNCHANGED <<post, msg, outLine, outMem, outTail, armMsg.outTail, ppcMsg.outHead>>
  BY <1>a DEF Filling
<1>1. CASE PpcPut \/ PpcRing \/ Device \/ UNCHANGED vars
  BY <1>1, <1>a DEF PpcPut, PpcRing, Device, NandFinish, CardChange, TimerTick, vars, memVars,
                    hwVars, callVars, TypeOK
<1>2. CASE PpcTake
  <2>1. /\ UNCHANGED <<post, msg, outLine, outMem, outTail, armMsg>>
        /\ ppcMsg'.outHead = Inc(ppcMsg.outHead, OutSize) /\ ppcMsg.outHead # armMsg.outTail
    BY <1>2 DEF PpcTake, memVars, callVars, TypeOK
  <2>2. Inc(ppcMsg.outHead, OutSize) # Inc(armMsg.outTail, OutSize)
    BY <2>1, IncInjective, SizesAssumption DEF TypeOK
  <2> QED
    BY <2>1, <2>2 DEF Filling
<1>3. CASE IrqEnter \/ IrqIpc \/ IrqBell \/ Drained \/ IrqAck \/ IrqSdhc \/ AdvanceIn
  BY <1>3, <1>a DEF IrqEnter, IrqIpc, IrqBell, Drained, IrqAck, IrqSdhc, AdvanceIn, memVars,
                    hwVars, callVars, TypeOK
<1>4. CASE MainLoop \/ AdvanceSlow \/ IdleKill \/ IdleCheck \/ IdleWait \/ IdleRestore \/ Shutdown
  BY <1>4, <1>a DEF MainLoop, AdvanceSlow, IdleKill, IdleCheck, IdleWait, IdleRestore, Shutdown,
                    memVars, hwVars, callVars
<1>5. ASSUME NEW c \in Ctx, NEW r, NEW ok, post[c] = "no", \A d \in Ctx : post[d] = "no",
             Call(c, r, ok)
      PROVE  Filling'
  <2>1. \A d \in Ctx : post'[d] \in {"no", "slot"}
    BY <1>5 DEF Call, TypeOK
  <2> QED
    BY <2>1 DEF Filling
<1>6. CASE IrqNand \/ ProcessIn \/ ProcessSlow
  <2>1. \A d \in Ctx : post[d] = "no"
    BY <1>6, <1>s DEF IrqNand, ProcessIn, ProcessSlow, InIrq, InMain, Ctx
  <2>2. UNCHANGED <<outLine, outMem, outTail, armMsg, ppcMsg>>
    BY <1>6 DEF IrqNand, ProcessIn, ProcessSlow, memVars, hwVars
  <2>3. (\E c \in Ctx : \E r, ok : Call(c, r, ok)) \/ UNCHANGED callVars
    BY <1>6 DEF IrqNand, ProcessIn, ProcessSlow, Ctx
  <2>4. CASE \E c \in Ctx : \E r, ok : Call(c, r, ok)
    BY <1>5, <2>1, <2>4
  <2>5. CASE UNCHANGED callVars
    BY <1>a, <2>2, <2>5 DEF callVars
  <2> QED
    BY <2>3, <2>4, <2>5
<1>7. ASSUME NEW c \in Ctx, PostSlot(c) PROVE Filling'
  <2>1. \A d \in Ctx : d # c => post[d] = "no"
    BY <1>7, <1>s DEF PostSlot, Ctx
  <2>2. post'[c] = "flush" /\ (\A d \in Ctx : d # c => post'[d] = "no") /\ msg' = msg
        /\ outTail' = outTail /\ outLine'[outTail] = msg[c]
    BY <1>7, <2>1 DEF PostSlot, TypeOK
  <2> QED
    BY <2>2 DEF Filling
<1>8. ASSUME NEW c \in Ctx, PostFlush(c) PROVE Filling'
  <2>1. \A d \in Ctx : d # c => post[d] = "no"
    BY <1>8, <1>s DEF PostFlush, Ctx
  <2>2. /\ post'[c] = "store" /\ (\A d \in Ctx : d # c => post'[d] = "no") /\ msg' = msg
        /\ outTail' = Inc(outTail, OutSize) /\ outMem'[outTail] = outLine[outTail]
        /\ UNCHANGED <<armMsg, ppcMsg>> /\ post[c] = "flush"
    BY <1>8, <2>1 DEF PostFlush, TypeOK, hwVars
  <2>3. armMsg.outTail = outTail /\ Inc(outTail, OutSize) # ppcMsg.outHead
    BY <2>1, <2>2 DEF Publishing, RegistersCurrent, AnswerSlotFree
  <2>4. outMem'[armMsg.outTail] = msg[c]
    BY <2>2, <2>3 DEF Filling
  <2> QED
    BY <2>2, <2>3, <2>4 DEF Filling
<1>9. ASSUME NEW c \in Ctx, PostStore(c) PROVE Filling'
  <2>1. \A d \in Ctx : post'[d] = "no"
    BY <1>9, <1>s DEF PostStore, TypeOK, Ctx
  <2> QED
    BY <2>1 DEF Filling
<1> QED
  BY <1>1, <1>2, <1>3, <1>4, <1>6, <1>7, <1>8, <1>9 DEF Next, IrqStep, MainStep, Ctx


-----------------------------------------------------------------------------
(***************************************************************************)
(* What each ring shows after a step that moves one of its ends.           *)
(***************************************************************************)
LEMMA Kept ==
  /\ UNCHANGED <<inMem, inHead, ppcMsg.inTail>> /\ (pc'.irq = "advance" <=> pc.irq = "advance")
       => inboxOf' = inboxOf
  /\ UNCHANGED slowVars
       /\ (pc'.main \in {"next", "leave"} <=> pc.main \in {"next", "leave"})
       => workOf' = workOf
  /\ UNCHANGED <<outMem, ppcMsg.outHead, armMsg.outTail>> => outboxOf' = outboxOf
<1>1. ASSUME UNCHANGED <<inMem, inHead, ppcMsg.inTail>>, pc'.irq = "advance" <=> pc.irq = "advance"
      PROVE  inboxOf' = inboxOf
  BY <1>1 DEF inboxOf
<1>2. ASSUME UNCHANGED slowVars,
             pc'.main \in {"next", "leave"} <=> pc.main \in {"next", "leave"}
      PROVE  workOf' = workOf
  BY <1>2 DEF workOf, slowVars
<1>3. ASSUME UNCHANGED <<outMem, ppcMsg.outHead, armMsg.outTail>> PROVE outboxOf' = outboxOf
  BY <1>3 DEF outboxOf
<1> QED
  BY <1>1, <1>2, <1>3

\* A slow request joins the queue, or mini panics and the queue stays.
LEMMA Enqueued ==
  ASSUME TypeOK, ServedRequestHeld, NEW r \in Req \cup {NoReq}, NEW next \in {"advance", "none"},
         EnqueueSlow(r, next)
  PROVE  \/ pc' = [pc EXCEPT !.irq = "panic"] /\ workOf' = workOf
         \/ pc' = [pc EXCEPT !.irq = next] /\ workOf' = Append(workOf, r)
<1>1. CASE SlowFull
  <2>1. pc' = [pc EXCEPT !.irq = "panic"] /\ UNCHANGED slowVars
    BY <1>1 DEF EnqueueSlow, IrqGoto
  <2>2. pc'.main = pc.main
    BY <2>1 DEF TypeOK
  <2> QED
    BY <2>1, <2>2, Kept
<1>2. CASE ~SlowFull
  <2> DEFINE h == IF pc.main \in {"next", "leave"} THEN Inc(slowHead, SlowSize) ELSE slowHead
  <2>1. /\ slow' = [slow EXCEPT ![slowTail] = r] /\ slowTail' = Inc(slowTail, SlowSize)
        /\ pc' = [pc EXCEPT !.irq = next] /\ slowHead' = slowHead
    BY <1>2 DEF EnqueueSlow, IrqGoto
  <2>2. pc'.main = pc.main
    BY <2>1 DEF TypeOK
  <2>3. h \in 0..SlowSize-1 /\ Inc(slowTail, SlowSize) # h
    BY <1>2, IncType, IncInjective, SizesAssumption DEF SlowFull, ServedRequestHeld, TypeOK
  <2>4. /\ slow \in [0..SlowSize-1 -> Req \cup {NoReq}] /\ slowTail \in 0..SlowSize-1
        /\ slow' \in [0..SlowSize-1 -> Req \cup {NoReq}] /\ slow'[slowTail] = r
        /\ \A i \in 0..SlowSize-1 : i # slowTail => slow'[i] = slow[i]
    BY <2>1 DEF TypeOK
  <2>5. workOf = Content(slow, h, slowTail, SlowSize)
    BY DEF workOf
  <2>6. workOf' = Content(slow', h, Inc(slowTail, SlowSize), SlowSize)
    BY <2>1, <2>2 DEF workOf
  <2> HIDE DEF h
  <2>7. Content(slow', h, Inc(slowTail, SlowSize), SlowSize)
          = Append(Content(slow, h, slowTail, SlowSize), slow'[slowTail])
    <3>1. SlowSize \in Nat /\ SlowSize > 1
      BY SizesAssumption
    <3>2. Content(slow', h, slowTail, SlowSize) = Content(slow, h, slowTail, SlowSize)
      BY <3>1, <2>3, <2>4, ContentSame, ZenonT(60)
    <3>3. Content(slow', h, Inc(slowTail, SlowSize), SlowSize)
            = Append(Content(slow', h, slowTail, SlowSize), slow'[slowTail])
      BY <3>1, <2>3, <2>4, ContentAppend
    <3> QED
      BY <3>2, <3>3
  <2> QED
    BY <2>1, <2>4, <2>5, <2>6, <2>7
<1> QED
  BY <1>1, <1>2

\* The request the handler, or the main loop, is done with leaves its queue.
LEMMA Dispatched ==
  ASSUME TypeOK, pc.irq = "drain", ppcMsg.inTail # inHead,
         UNCHANGED <<inMem, inHead, ppcMsg>>, pc'.irq = "advance"
  PROVE  inboxOf # <<>> /\ Head(inboxOf) = inMem[inHead] /\ inboxOf' = Tail(inboxOf)
<1>1. /\ inboxOf = Content(inMem, inHead, ppcMsg.inTail, InSize)
      /\ inboxOf' = Content(inMem, Inc(inHead, InSize), ppcMsg.inTail, InSize)
  BY DEF inboxOf
<1>2. /\ inMem \in [0..InSize-1 -> Requests \cup {NoReq}]
      /\ inHead \in 0..InSize-1 /\ ppcMsg.inTail \in 0..InSize-1
  BY DEF TypeOK
<1>3. InSize \in Nat /\ InSize > 1
  BY SizesAssumption
<1>4. /\ Content(inMem, inHead, ppcMsg.inTail, InSize) # <<>>
      /\ Head(Content(inMem, inHead, ppcMsg.inTail, InSize)) = inMem[inHead]
  BY <1>2, <1>3, ContentHead
<1>5. Content(inMem, Inc(inHead, InSize), ppcMsg.inTail, InSize) = Tail(Content(inMem, inHead, ppcMsg.inTail, InSize))
  BY <1>2, <1>3, ContentTail
<1> QED
  BY <1>1, <1>4, <1>5

LEMMA Served ==
  ASSUME TypeOK, ServedRequestHeld, pc.main = "serve", UNCHANGED slowVars,
         pc'.main \in {"next", "leave"}
  PROVE  workOf # <<>> /\ Head(workOf) = slow[slowHead] /\ workOf' = Tail(workOf)
<1>1. /\ workOf = Content(slow, slowHead, slowTail, SlowSize)
      /\ workOf' = Content(slow, Inc(slowHead, SlowSize), slowTail, SlowSize)
  BY DEF workOf, slowVars
<1>2. /\ slow \in [0..SlowSize-1 -> Req \cup {NoReq}] /\ slowHead # slowTail
      /\ slowHead \in 0..SlowSize-1 /\ slowTail \in 0..SlowSize-1
  BY DEF TypeOK, ServedRequestHeld
<1>3. SlowSize \in Nat /\ SlowSize > 1
  BY SizesAssumption
<1>4. /\ Content(slow, slowHead, slowTail, SlowSize) # <<>>
      /\ Head(Content(slow, slowHead, slowTail, SlowSize)) = slow[slowHead]
  BY <1>2, <1>3, ContentHead
<1>5. Content(slow, Inc(slowHead, SlowSize), slowTail, SlowSize) = Tail(Content(slow, slowHead, slowTail, SlowSize))
  BY <1>2, <1>3, ContentTail
<1> QED
  BY <1>1, <1>4, <1>5

\* The answer an ipc_post published is the one it was called with.
LEMMA Posted ==
  ASSUME TypeOK, Publishing, Filling, NEW c \in Ctx, PostStore(c)
  PROVE  outboxOf' = Append(outboxOf, msg[c])
<1>1. /\ outTail = Inc(armMsg.outTail, OutSize) /\ outTail # ppcMsg.outHead
      /\ outMem[armMsg.outTail] = msg[c] /\ reg[c].outTail = outTail
  BY DEF PostStore, Filling, Publishing
<1>2. UNCHANGED <<outMem, ppcMsg>> /\ armMsg'.outTail = Inc(armMsg.outTail, OutSize)
  BY <1>1 DEF PostStore, memVars
<1>3. /\ outMem \in [0..OutSize-1 -> Ans \cup {NoReq}]
      /\ ppcMsg.outHead \in 0..OutSize-1 /\ armMsg.outTail \in 0..OutSize-1
  BY DEF TypeOK
<1>4. Content(outMem, ppcMsg.outHead, Inc(armMsg.outTail, OutSize), OutSize)
        = Append(Content(outMem, ppcMsg.outHead, armMsg.outTail, OutSize), outMem[armMsg.outTail])
  BY <1>1, <1>3, ContentAppend, SizesAssumption, ZenonT(60)
<1> QED
  BY <1>1, <1>2, <1>4 DEF outboxOf

-----------------------------------------------------------------------------
\* A step of the PowerPC: a request is sent, an answer taken.
LEMMA StepSubmit ==
  ASSUME TypeOK, Publishing, Answering, PpcPut
  PROVE  Service!Submit
<1> DEFINE h == IF pc.irq = "advance" THEN Inc(inHead, InSize) ELSE inHead
           t == ppcMsg.inTail
<1>1. PICK k \in Script[sent + 1] :
        inMem' = [inMem EXCEPT ![ppcMsg.inTail] = [id |-> sent + 1, kind |-> k]]
  BY DEF PpcPut
<1>2. sent + 1 \in 1..MaxReq
  BY BoundsAssumption DEF PpcPut, TypeOK
<1>3. k \in Kinds
  BY <1>1, <1>2, ScriptAssumption
<1> DEFINE r == [id |-> sent + 1, kind |-> k]
<1>4. r \in Requests
  BY <1>2, <1>3 DEF Requests
<1>5. /\ ppcMsg'.inTail = Inc(ppcMsg.inTail, InSize) /\ ppcMsg'.outHead = ppcMsg.outHead
      /\ UNCHANGED <<armMsg, inHead, outMem, slow, slowHead, slowTail, nand, pc, post, msg>>
      /\ Inc(ppcMsg.inTail, InSize) # armMsg.inHead
  BY DEF PpcPut, slowVars, nandVars, callVars, TypeOK
<1>6. InSize \in Nat /\ InSize > 1
  BY SizesAssumption
<1>7. h \in 0..InSize-1 /\ t \in 0..InSize-1 /\ Inc(t, InSize) # h
  BY <1>5, <1>6, IncType, IncInjective, SMTT(30) DEF Publishing, Answering, TypeOK
<1>8. /\ inMem \in [0..InSize-1 -> Requests \cup {NoReq}]
      /\ inMem' \in [0..InSize-1 -> Requests \cup {NoReq}] /\ inMem'[t] = r
      /\ \A i \in 0..InSize-1 : i # t => inMem'[i] = inMem[i]
  BY <1>1, <1>4 DEF TypeOK
<1>9. inboxOf = Content(inMem, h, t, InSize) /\ inboxOf' = Content(inMem', h, Inc(t, InSize), InSize)
  BY <1>5 DEF inboxOf
<1> HIDE DEF h, t, r
<1>10. Content(inMem', h, t, InSize) = Content(inMem, h, t, InSize)
  BY <1>6, <1>7, <1>8, ContentSame, ZenonT(60)
<1>11. Content(inMem', h, Inc(t, InSize), InSize)
         = Append(Content(inMem', h, t, InSize), inMem'[t])
  BY <1>6, <1>7, <1>8, ContentAppend
<1>12. inboxOf' = Append(inboxOf, r)
  BY <1>8, <1>9, <1>10, <1>11
<1>13. workOf' = workOf /\ outboxOf' = outboxOf /\ inflightOf' = inflightOf
  BY <1>5, Kept DEF slowVars, inflightOf
<1> QED
  BY <1>4, <1>12, <1>13 DEF Service!Submit

LEMMA StepDeliver ==
  ASSUME TypeOK, PpcTake
  PROVE  Service!Deliver
<1>1. /\ ppcMsg.outHead # armMsg.outTail
      /\ ppcMsg'.outHead = Inc(ppcMsg.outHead, OutSize) /\ ppcMsg'.inTail = ppcMsg.inTail
      /\ UNCHANGED <<armMsg, inMem, inHead, outMem, slow, slowHead, slowTail, nand, pc, post, msg>>
  BY DEF PpcTake, memVars, slowVars, nandVars, callVars, TypeOK
<1>2. /\ outMem \in [0..OutSize-1 -> Ans \cup {NoReq}]
      /\ ppcMsg.outHead \in 0..OutSize-1 /\ armMsg.outTail \in 0..OutSize-1
  BY DEF TypeOK
<1>3. OutSize \in Nat /\ OutSize > 1
  BY SizesAssumption
<1>4. /\ outboxOf = Content(outMem, ppcMsg.outHead, armMsg.outTail, OutSize)
      /\ outboxOf' = Content(outMem, Inc(ppcMsg.outHead, OutSize), armMsg.outTail, OutSize)
  BY <1>1 DEF outboxOf
<1>5. Content(outMem, ppcMsg.outHead, armMsg.outTail, OutSize) # <<>>
  BY <1>1, <1>2, <1>3, ContentHead
<1>6. Content(outMem, Inc(ppcMsg.outHead, OutSize), armMsg.outTail, OutSize)
        = Tail(Content(outMem, ppcMsg.outHead, armMsg.outTail, OutSize))
  BY <1>1, <1>2, <1>3, ContentTail
<1>7. inboxOf' = inboxOf /\ workOf' = workOf /\ inflightOf' = inflightOf
  BY <1>1, Kept DEF slowVars, inflightOf
<1> QED
  BY <1>4, <1>5, <1>6, <1>7 DEF Service!Deliver

\* An ipc_post that ends is the dispatch of a fast request, the completion of
\* the NAND operation, or the service of a slow request.
LEMMA StepPost ==
  ASSUME TypeOK, Masking, Publishing, ServedRequestHeld, Answering, Completing, Filling,
         NEW c \in Ctx, PostStore(c)
  PROVE  Service!Next
<1>s. /\ post["main"] # "no" => post["irq"] = "no" /\ pc.irq = "none" /\ pc.main = "serve"
      /\ post["irq"] # "no" => post["main"] = "no" /\ pc.irq \in {"nand", "drain"}
  BY Solo
<1>1. outboxOf' = Append(outboxOf, msg[c])
  BY Posted
<1>2. /\ post[c] = "store" /\ post'[c] = "no"
      /\ UNCHANGED <<ppcMsg, inMem, inHead, slow, slowHead, slowTail, nand>>
  BY DEF PostStore, memVars, slowVars, nandVars, TypeOK
<1>3. CASE c = "main"
  <2>1. /\ pc.irq = "none" /\ pc'.irq = "none" /\ pc.main = "serve" /\ pc'.main = "next"
        /\ post["irq"] = "no" /\ post'["irq"] = "no"
    BY <1>s, <1>2, <1>3 DEF PostStore, TypeOK, Ctx
  <2>2. workOf # <<>> /\ Head(workOf) = slow[slowHead] /\ workOf' = Tail(workOf)
    BY <1>2, <2>1, Served DEF slowVars
  <2>3. inboxOf' = inboxOf /\ inflightOf' = inflightOf
    BY <1>2, <2>1, Kept DEF inflightOf
  <2>4. /\ slow[slowHead].kind \in {"slowReply", "nand"}
        /\ msg[c] = [req |-> slow[slowHead], ok |-> slow[slowHead].kind = "slowReply"]
    BY <1>2, <1>3 DEF Answering
  <2>5. CASE slow[slowHead].kind = "slowReply"
    BY <1>1, <2>2, <2>3, <2>4, <2>5 DEF Service!Next, Service!Serve, Service!Post, Service!Answer
  <2>6. CASE slow[slowHead].kind = "nand"
    BY <1>1, <2>2, <2>3, <2>4, <2>6 DEF Service!Next, Service!Serve, Service!Post, Service!Answer
  <2> QED
    BY <2>4, <2>5, <2>6
<1>4. CASE c = "irq" /\ pc.irq = "drain"
  <2>1. pc'.irq = "advance" /\ pc'.main = pc.main /\ ppcMsg.inTail # inHead
    BY <1>2, <1>4 DEF PostStore, Answering, TypeOK, Ctx
  <2>2. inboxOf # <<>> /\ Head(inboxOf) = inMem[inHead] /\ inboxOf' = Tail(inboxOf)
    BY <1>2, <1>4, <2>1, Dispatched
  <2>3. workOf' = workOf /\ inflightOf' = inflightOf
    BY <1>2, <1>4, <2>1, Kept DEF inflightOf, slowVars
  <2>4. inMem[inHead].kind = "fastReply" /\ msg[c] = [req |-> inMem[inHead], ok |-> TRUE]
    BY <1>2, <1>4 DEF Answering
  <2> QED
    BY <1>1, <2>2, <2>3, <2>4 DEF Service!Next, Service!Dispatch, Service!Post, Service!Answer
<1>5. CASE c = "irq" /\ pc.irq = "nand"
  <2>1. pc'.irq = "ipc" /\ pc'.main = pc.main
    BY <1>5 DEF PostStore, TypeOK, Ctx
  <2>2. inboxOf' = inboxOf /\ workOf' = workOf
    BY <1>2, <1>5, <2>1, Kept DEF slowVars
  <2>3. nand = NoReq /\ msg[c].req # NoReq /\ msg[c] = [req |-> msg[c].req, ok |-> TRUE]
    BY <1>2, <1>5 DEF Completing
  <2>4. inflightOf = msg[c].req /\ inflightOf' = NoReq
    BY <1>2, <1>5, <2>1, <2>3 DEF inflightOf
  <2> QED
    BY <1>1, <2>2, <2>3, <2>4 DEF Service!Next, Service!Complete, Service!Post, Service!Answer
<1> QED
  BY <1>s, <1>2, <1>3, <1>4, <1>5 DEF Ctx

\* A request read from the ring is dispatched, unless mini panics.
LEMMA StepDispatch ==
  ASSUME TypeOK, Masking, ServedRequestHeld, ProcessIn
  PROVE  Service!Next \/ UNCHANGED Service!svars
<1> DEFINE r == inMem[inHead]
<1>1. /\ pc.irq = "drain" /\ post["irq"] = "no" /\ ppcMsg.inTail # inHead
      /\ UNCHANGED <<ppcMsg, armMsg, inMem, inHead, outMem, nand>>
  BY DEF ProcessIn, InIrq, hwVars, nandVars
<1>2. outboxOf' = outboxOf
  BY <1>1, Kept
<1>3. CASE r.kind = "fastReply" /\ Call("irq", r, TRUE) /\ UNCHANGED <<pc, slowVars>>
  <2>1. inboxOf' = inboxOf /\ workOf' = workOf /\ inflightOf' = inflightOf
    BY <1>1, <1>3, Kept DEF inflightOf
  <2> QED
    BY <1>2, <2>1 DEF Service!svars
<1>4. CASE r.kind = "fastSilent" /\ IrqGoto("advance") /\ UNCHANGED slowVars
  <2>1. pc'.irq = "advance" /\ pc'.main = pc.main
    BY <1>4 DEF IrqGoto, TypeOK
  <2>2. workOf' = workOf /\ inflightOf' = inflightOf
    BY <1>1, <1>4, <2>1, Kept DEF inflightOf
  <2>3. inboxOf # <<>> /\ Head(inboxOf) = r /\ inboxOf' = Tail(inboxOf)
    BY <1>1, <2>1, Dispatched
  <2> QED
    BY <1>2, <1>4, <2>2, <2>3 DEF Service!Next, Service!Dispatch
<1>5. CASE r.kind \notin {"fastReply", "fastSilent"} /\ EnqueueSlow(r, "advance")
           /\ UNCHANGED callVars
  <2>1. r \in Req \cup {NoReq}
    BY DEF Req, TypeOK
  <2> HIDE DEF r
  <2>2. \/ pc' = [pc EXCEPT !.irq = "panic"] /\ workOf' = workOf
        \/ pc' = [pc EXCEPT !.irq = "advance"] /\ workOf' = Append(workOf, r)
    BY <1>5, <2>1, Enqueued
  <2>3. CASE pc' = [pc EXCEPT !.irq = "panic"] /\ workOf' = workOf
    <3>1. pc'.irq = "panic"
      BY <2>3 DEF TypeOK
    <3>2. inboxOf' = inboxOf /\ inflightOf' = inflightOf
      BY <1>1, <3>1, Kept DEF inflightOf
    <3> QED
      BY <1>2, <2>3, <3>2 DEF Service!svars
  <2>4. CASE pc' = [pc EXCEPT !.irq = "advance"] /\ workOf' = Append(workOf, r)
    <3>1. pc'.irq = "advance"
      BY <2>4 DEF TypeOK
    <3>2. inflightOf' = inflightOf
      BY <1>1, <3>1 DEF inflightOf
    <3>3. inboxOf # <<>> /\ Head(inboxOf) = r /\ inboxOf' = Tail(inboxOf)
      BY <1>1, <3>1, Dispatched DEF r
    <3> QED
      BY <1>2, <1>5, <2>4, <3>2, <3>3 DEF Service!Next, Service!Dispatch
  <2> QED
    BY <2>2, <2>3, <2>4
<1> QED
  BY <1>3, <1>4, <1>5 DEF ProcessIn, Fetch

LEMMA StepCard ==
  ASSUME TypeOK, Masking, ServedRequestHeld, IrqSdhc
  PROVE  Service!Next \/ UNCHANGED Service!svars
<1>1. /\ pc.irq = "sdhc"
      /\ UNCHANGED <<ppcMsg, armMsg, inMem, inHead, outMem, nand, post, msg>>
  BY DEF IrqSdhc, InIrq, memVars, nandVars, callVars
<1>2. outboxOf' = outboxOf
  BY <1>1, Kept
<1>3. ASSUME pc'.irq \in {"none", "panic"}
      PROVE  inboxOf' = inboxOf /\ inflightOf' = inflightOf
  BY <1>1, <1>3, Kept DEF inflightOf
<1>4. CASE EnqueueSlow(Discover, "none")
  <2>1. \/ pc' = [pc EXCEPT !.irq = "panic"] /\ workOf' = workOf
        \/ pc' = [pc EXCEPT !.irq = "none"] /\ workOf' = Append(workOf, Discover)
    BY <1>4, Enqueued DEF Req
  <2>2. pc'.irq \in {"none", "panic"}
    BY <2>1 DEF TypeOK
  <2> QED
    BY <1>2, <1>3, <2>1, <2>2 DEF Service!svars, Service!Next, Service!CardEvent
<1>5. CASE IrqGoto("none") /\ UNCHANGED slowVars
  <2>1. pc'.irq = "none" /\ pc'.main = pc.main
    BY <1>5 DEF IrqGoto, TypeOK
  <2> QED
    BY <1>2, <1>3, <1>5, <2>1, Kept DEF Service!svars
<1> QED
  BY <1>4, <1>5 DEF IrqSdhc

\* A slow request that is not answered is served as the main loop takes it.
LEMMA StepServe ==
  ASSUME TypeOK, Masking, ServedRequestHeld, ProcessSlow
  PROVE  Service!Next \/ UNCHANGED Service!svars
<1> DEFINE r == slow[slowHead]
<1>1. /\ pc.irq = "none" /\ pc.main = "serve" /\ post["main"] = "no"
      /\ UNCHANGED <<ppcMsg, armMsg, inMem, inHead, outMem>> /\ UNCHANGED slowVars
  BY DEF ProcessSlow, InMain, hwVars, memVars
<1>2. outboxOf' = outboxOf
  BY <1>1, Kept
<1>3. ASSUME pc'.irq = "none" PROVE inboxOf' = inboxOf /\ inflightOf = nand /\ inflightOf' = nand'
  BY <1>1, <1>3, Kept DEF inflightOf
<1>4. CASE UNCHANGED <<pc, nand>>
  BY <1>1, <1>2, <1>3, <1>4, Kept DEF Service!svars
<1>5. ASSUME NEW at \in {"next", "leave"}, MainGoto(at)
      PROVE  pc'.irq = "none" /\ workOf # <<>> /\ Head(workOf) = r /\ workOf' = Tail(workOf)
  <2>1. pc'.irq = "none" /\ pc'.main = at
    BY <1>1, <1>5 DEF MainGoto, TypeOK
  <2> QED
    BY <1>1, <2>1, Served
<1>6. CASE r.kind = "nand" /\ nand = NoReq /\ nand' = r /\ MainGoto("next")
  <2>1. pc'.irq = "none" /\ workOf # <<>> /\ Head(workOf) = r /\ workOf' = Tail(workOf)
    BY <1>5, <1>6
  <2>2. inboxOf' = inboxOf /\ inflightOf = nand /\ inflightOf' = nand'
    BY <1>3, <2>1
  <2> QED
    BY <1>2, <1>6, <2>1, <2>2 DEF Service!Next, Service!Serve
<1>7. CASE r.kind = "slowSilent" /\ MainGoto("next") /\ UNCHANGED nand
  <2>1. pc'.irq = "none" /\ workOf # <<>> /\ Head(workOf) = r /\ workOf' = Tail(workOf)
    BY <1>5, <1>7
  <2>2. inboxOf' = inboxOf /\ inflightOf = nand /\ inflightOf' = nand'
    BY <1>3, <2>1
  <2> QED
    BY <1>2, <1>7, <2>1, <2>2 DEF Service!Next, Service!Serve
<1>8. CASE r.kind = "jump" /\ MainGoto("leave") /\ UNCHANGED nand
  <2>1. pc'.irq = "none" /\ workOf # <<>> /\ Head(workOf) = r /\ workOf' = Tail(workOf)
    BY <1>5, <1>8
  <2>2. inboxOf' = inboxOf /\ inflightOf = nand /\ inflightOf' = nand'
    BY <1>3, <2>1
  <2> QED
    BY <1>2, <1>8, <2>1, <2>2 DEF Service!Next, Service!Serve
<1> QED
  BY <1>4, <1>6, <1>7, <1>8 DEF ProcessSlow, nandVars

\* The steps the service does not see.
LEMMA StepSilent ==
  ASSUME TypeOK, Masking, Publishing,
         \/ PpcRing \/ Device \/ UNCHANGED vars
         \/ IrqEnter \/ IrqNand \/ IrqIpc \/ IrqBell \/ AdvanceIn \/ Drained \/ IrqAck
         \/ MainLoop \/ AdvanceSlow \/ IdleKill \/ IdleCheck \/ IdleWait \/ IdleRestore \/ Shutdown
         \/ \E c \in Ctx : PostSlot(c) \/ PostFlush(c)
  PROVE  UNCHANGED Service!svars
<1>s. /\ post["main"] # "no" => post["irq"] = "no" /\ pc.irq = "none" /\ pc.main = "serve"
      /\ post["irq"] # "no" => post["main"] = "no" /\ pc.irq \in {"nand", "drain"}
  BY Solo
<1>a. ASSUME UNCHANGED <<ppcMsg, armMsg, inMem, inHead, outMem, slowVars, nand, pc, post, msg>>
      PROVE  UNCHANGED Service!svars
  BY <1>a, Kept DEF inflightOf, Service!svars
<1>1. CASE PpcRing \/ Device \/ UNCHANGED vars
  BY <1>1, <1>a DEF PpcRing, Device, NandFinish, CardChange, TimerTick, vars, hwVars, memVars,
                    nandVars, callVars
<1>2. CASE IrqEnter \/ IrqIpc \/ IrqBell \/ Drained \/ IrqAck
  <2>1. UNCHANGED <<ppcMsg, armMsg, inMem, inHead, outMem, slowVars, nand, post, msg>>
    BY <1>2 DEF IrqEnter, IrqIpc, IrqBell, Drained, IrqAck, hwVars, memVars, nandVars, callVars
  <2>2. post["irq"] = "no"
    BY <1>2, <1>s DEF IrqEnter, IrqIpc, IrqBell, Drained, IrqAck, InIrq
  <2>3. pc.irq # "advance" /\ pc'.irq # "advance" /\ pc'.main = pc.main
    BY <1>2 DEF IrqEnter, IrqIpc, IrqBell, Drained, IrqAck, InIrq, IrqGoto, TypeOK
  <2> QED
    BY <2>1, <2>2, <2>3, Kept DEF inflightOf, Service!svars
<1>3. CASE IrqNand
  <2>1. /\ pc.irq = "nand" /\ post["irq"] = "no"
        /\ UNCHANGED <<ppcMsg, armMsg, inMem, inHead, outMem, slowVars>>
    BY <1>3 DEF IrqNand, InIrq, memVars
  <2>2. /\ pc'.irq \in {"nand", "ipc"} /\ pc'.main = pc.main
        /\ inflightOf = nand /\ inflightOf' = nand
    <3>1. CASE "nand" \in taken
      <4>1. pc' = pc /\ post'["irq"] = "slot" /\ msg'["irq"].req = nand
        BY <1>3, <3>1 DEF IrqNand, Call, TypeOK, Ctx
      <4> QED
        BY <2>1, <4>1 DEF inflightOf
    <3>2. CASE "nand" \notin taken
      <4>1. pc'.irq = "ipc" /\ pc'.main = pc.main /\ nand' = nand
        BY <1>3, <3>2 DEF IrqNand, IrqGoto, nandVars, TypeOK
      <4> QED
        BY <2>1, <4>1 DEF inflightOf
    <3> QED
      BY <3>1, <3>2
  <2> QED
    BY <2>1, <2>2, Kept DEF Service!svars
<1>4. CASE AdvanceIn
  <2>1. /\ pc.irq = "advance" /\ pc'.irq = "drain" /\ pc'.main = pc.main
        /\ inHead' = Inc(inHead, InSize) /\ armMsg'.outTail = armMsg.outTail
        /\ UNCHANGED <<ppcMsg, inMem, outMem, slowVars, nand>>
    BY <1>4 DEF AdvanceIn, InIrq, IrqGoto, memVars, nandVars, TypeOK
  <2>2. inboxOf' = inboxOf
    BY <2>1 DEF inboxOf
  <2> QED
    BY <2>1, <2>2, Kept DEF inflightOf, Service!svars
<1>5. CASE MainLoop \/ IdleKill \/ IdleCheck \/ IdleWait \/ IdleRestore \/ Shutdown
  <2>1. UNCHANGED <<ppcMsg, armMsg, inMem, inHead, outMem, slowVars, nand, post, msg>>
    BY <1>5 DEF MainLoop, IdleKill, IdleCheck, IdleWait, IdleRestore, Shutdown, hwVars, memVars,
                nandVars, callVars
  <2>2. /\ pc'.irq = pc.irq
        /\ pc.main \notin {"next", "leave"} /\ pc'.main \notin {"next", "leave"}
    BY <1>5 DEF MainLoop, IdleKill, IdleCheck, IdleWait, IdleRestore, Shutdown, InMain, MainGoto,
                TypeOK
  <2> QED
    BY <2>1, <2>2, Kept DEF inflightOf, Service!svars
<1>6. CASE AdvanceSlow
  <2>1. /\ pc.main \in {"next", "leave"} /\ pc'.main \notin {"next", "leave"} /\ pc'.irq = pc.irq
        /\ slowHead' = Inc(slowHead, SlowSize)
        /\ UNCHANGED <<ppcMsg, armMsg, inMem, inHead, outMem, slow, slowTail, nand, post, msg>>
    BY <1>6 DEF AdvanceSlow, InMain, MainGoto, hwVars, memVars, nandVars, callVars, TypeOK
  <2>2. workOf' = workOf
    BY <2>1 DEF workOf
  <2> QED
    BY <2>1, <2>2, Kept DEF inflightOf, Service!svars
<1>7. ASSUME NEW c \in Ctx, PostSlot(c) \/ PostFlush(c) PROVE UNCHANGED Service!svars
  <2>1. /\ UNCHANGED <<ppcMsg, armMsg, inMem, inHead, slowVars, nand, pc, msg>>
        /\ \A d \in Ctx : post'[d] # "no" <=> post[d] # "no"
    BY <1>7 DEF PostSlot, PostFlush, hwVars, nandVars, TypeOK
  <2>2. inboxOf' = inboxOf /\ workOf' = workOf /\ inflightOf' = inflightOf
    BY <2>1, Kept DEF inflightOf, Ctx
  <2>3. CASE PostSlot(c)
    BY <2>1, <2>2, <2>3, Kept DEF PostSlot, Service!svars
  <2>4. CASE PostFlush(c)
    <3>1. armMsg.outTail = outTail
      BY <1>s, <2>4 DEF PostFlush, Publishing, RegistersCurrent, Ctx
    <3>2. /\ outMem \in [0..OutSize-1 -> Ans \cup {NoReq}]
          /\ outMem' \in [0..OutSize-1 -> Ans \cup {NoReq}]
          /\ \A i \in 0..OutSize-1 : i # armMsg.outTail => outMem'[i] = outMem[i]
          /\ ppcMsg.outHead \in 0..OutSize-1 /\ armMsg.outTail \in 0..OutSize-1
      BY <2>4, <3>1 DEF PostFlush, TypeOK
    <3>3. OutSize \in Nat /\ OutSize > 1
      BY SizesAssumption
    <3>4. Content(outMem', ppcMsg.outHead, armMsg.outTail, OutSize)
            = Content(outMem, ppcMsg.outHead, armMsg.outTail, OutSize)
      BY <3>2, <3>3, ContentSame, ZenonT(60)
    <3>5. outboxOf' = outboxOf
      BY <2>1, <3>4 DEF outboxOf
    <3> QED
      BY <2>2, <3>5 DEF Service!svars
  <2> QED
    BY <1>7, <2>3, <2>4
<1> QED
  BY <1>1, <1>2, <1>3, <1>4, <1>5, <1>6, <1>7

-----------------------------------------------------------------------------
LEMMA InitService == Init => Service!Init /\ Answering /\ Completing /\ Filling
<1> SUFFICES ASSUME Init PROVE Service!Init /\ Answering /\ Completing /\ Filling
  OBVIOUS
<1> USE DEF Init
<1>1. Answering /\ Completing /\ Filling
  BY DEF Answering, Completing, Filling, Ctx
<1>2. TypeOK
  BY InitTyped
<1>3. /\ inboxOf = Content(inMem, 0, 0, InSize) /\ workOf = Content(slow, 0, 0, SlowSize)
      /\ outboxOf = Content(outMem, 0, 0, OutSize) /\ inflightOf = NoReq
  BY DEF inboxOf, workOf, outboxOf, inflightOf
<1>4. /\ inMem \in [0..InSize-1 -> Requests \cup {NoReq}]
      /\ slow \in [0..SlowSize-1 -> Req \cup {NoReq}]
      /\ outMem \in [0..OutSize-1 -> Ans \cup {NoReq}]
  BY <1>2 DEF TypeOK
<1>5. /\ InSize \in Nat /\ InSize > 1 /\ 0 \in 0..InSize-1
      /\ SlowSize \in Nat /\ SlowSize > 1 /\ 0 \in 0..SlowSize-1
      /\ OutSize \in Nat /\ OutSize > 1 /\ 0 \in 0..OutSize-1
  BY SizesAssumption
<1> HIDE DEF Init
<1>6. inboxOf = <<>>
  BY <1>3, <1>4, <1>5, ContentEmpty
<1>7. workOf = <<>>
  BY <1>3, <1>4, <1>5, ContentEmpty
<1>8. outboxOf = <<>>
  BY <1>3, <1>4, <1>5, ContentEmpty
<1> QED
  BY <1>1, <1>3, <1>6, <1>7, <1>8 DEF Service!Init

LEMMA ServiceStep ==
  ASSUME TypeOK, Masking, Publishing, ServedRequestHeld, Answering, Completing, Filling, [Next]_vars
  PROVE  Service!Next \/ UNCHANGED Service!svars
<1>1. CASE PpcPut
  BY <1>1, StepSubmit DEF Service!Next
<1>2. CASE PpcTake
  BY <1>2, StepDeliver DEF Service!Next
<1>3. ASSUME NEW c \in Ctx, PostStore(c) PROVE Service!Next
  BY <1>3, StepPost
<1>4. CASE ProcessIn
  BY <1>4, StepDispatch
<1>5. CASE IrqSdhc
  BY <1>5, StepCard
<1>6. CASE ProcessSlow
  BY <1>6, StepServe
<1> QED
  BY <1>1, <1>2, <1>3, <1>4, <1>5, <1>6, StepSilent DEF Next, IrqStep, MainStep, Ctx

\* ipc.c keeps the service's promise: whatever the rings, the registers, the
\* cache and the interrupts do underneath, requests are dispatched once and in
\* order and answers delivered once, whole and in order.
THEOREM ServiceImplemented == Spec => Implements
<1> DEFINE SInv == Answering /\ Completing /\ Filling
<1>1. Init => Service!Init /\ SInv
  BY InitService
<1>2. IInv /\ SInv /\ [Next]_vars => SInv'
  BY StepAnswering, StepCompleting, StepFilling DEF IInv
<1>3. IInv /\ SInv /\ [Next]_vars => [Service!Next]_(Service!svars)
  BY ServiceStep DEF IInv
<1> HIDE DEF SInv
<1> QED
  BY <1>1, <1>2, <1>3, Invariance, PTL DEF Spec, Implements, Service!Spec
=============================================================================
