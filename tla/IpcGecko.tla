------------------------------ MODULE IpcGecko ------------------------------
(***************************************************************************)
(* The slow queue when a USB Gecko upload completes.  gecko_process runs   *)
(* in the main loop (src/ipc.c:345) with interrupts enabled, and queues    *)
(* its command with ipc_enqueue_slow, which re-reads the volatile tail for *)
(* every field it writes and advances it by a load and a store.  The       *)
(* handler's own enqueue can fall between any two of these steps.          *)
(***************************************************************************)
EXTENDS Ipc

CONSTANTS MaxUpload    \* uploads that complete

VARIABLES enq,         \* how far ipc_enqueue_slow is, in the main context
          enqTail,     \* the tail it loaded
          uploads,     \* uploads completed so far
          expected     \* history: requests enqueued and not yet served

gvars == <<vars, enq, enqTail, uploads, expected>>

\* IPC_PPC_BOOT of the uploaded binary: no request of the PowerPC has its id.
Upload == [id |-> MaxReq + 1, kind |-> "slowSilent"]

GeckoInit == /\ Init /\ enq = "no" /\ enqTail = 0 /\ uploads = 0
             /\ expected = <<>>

Rest == UNCHANGED <<hwVars, memVars, inHead, outTail, nandVars, irqOff, pc,
                    callVars, taken, envVars>>

EnqCheck ==
  /\ InMain("idle") /\ enq = "no" /\ uploads < MaxUpload
  /\ uploads' = uploads + 1
  /\ enq' = IF SlowFull THEN "panic" ELSE "code"
  /\ UNCHANGED <<slowVars, enqTail, expected>> /\ Rest

\* flags, device, req and tag; the arguments stay what the slot held.
EnqCode ==
  /\ InMain("idle") /\ enq = "code" /\ enq' = "args"
  /\ slow' = [slow EXCEPT ![slowTail] =
                [id |-> IF @ = NoReq THEN 0 ELSE @.id, kind |-> Upload.kind]]
  /\ UNCHANGED <<slowHead, slowTail, enqTail, uploads, expected>> /\ Rest

EnqArgs ==
  /\ InMain("idle") /\ enq = "args" /\ enq' = "load"
  /\ slow' = [slow EXCEPT ![slowTail] =
                [id |-> Upload.id, kind |-> IF @ = NoReq THEN "slowReply" ELSE @.kind]]
  /\ UNCHANGED <<slowHead, slowTail, enqTail, uploads, expected>> /\ Rest

EnqLoad ==
  /\ InMain("idle") /\ enq = "load" /\ enq' = "store"
  /\ enqTail' = slowTail
  /\ UNCHANGED <<slowVars, uploads, expected>> /\ Rest

EnqStore ==
  /\ InMain("idle") /\ enq = "store" /\ enq' = "no"
  /\ slowTail' = Inc(enqTail, SlowSize)
  /\ expected' = Append(expected, Upload)
  /\ UNCHANGED <<slow, slowHead, enqTail, uploads>> /\ Rest

\* Every other step: the main loop waits for its call to return.
IpcStep ==
  /\ \/ PpcPut \/ PpcRing \/ PpcTake \/ Device \/ IrqStep
     \/ enq = "no" /\ MainStep
  /\ expected' = IF slowTail' # slowTail THEN Append(expected, slow'[slowTail])
                 ELSE IF slowHead' # slowHead /\ expected # <<>> THEN Tail(expected)
                 ELSE expected
  /\ UNCHANGED <<enq, enqTail, uploads>>

GeckoNext == IpcStep \/ EnqCheck \/ EnqCode \/ EnqArgs \/ EnqLoad \/ EnqStore

GeckoSpec == GeckoInit /\ [][GeckoNext]_gvars

\* "Enqueues a request in the slow in_queue, use this in IRQ context only"
\* (ipc.h:141), so that nothing falls between its steps: outside a call the
\* queue holds exactly the requests that were enqueued, in that order.
QueueExact == enq = "no" => Content(slow, slowHead, slowTail, SlowSize) = expected
=============================================================================
