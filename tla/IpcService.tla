----------------------------- MODULE IpcService -----------------------------
(***************************************************************************)
(* What mini's message service promises the PowerPC, whatever the rings,   *)
(* registers, caches and interrupts underneath it do: requests are         *)
(* dispatched in the order they were sent and exactly once; fast requests  *)
(* are answered at dispatch, slow ones queue up behind each other and are  *)
(* served in order; a NAND operation is started or refused, and the one in *)
(* flight answers when it completes; answers come out in the order they    *)
(* were posted.                                                            *)
(***************************************************************************)
EXTENDS Sequences

CONSTANTS Requests,   \* what the PowerPC may send: records with a kind
          Discover,   \* the request the SD interrupt queues for itself
          NoReq       \* no NAND operation in flight

VARIABLES inbox,      \* sent, not yet dispatched
          work,       \* slow requests, dispatched and not yet served
          inflight,   \* the NAND operation in flight, or NoReq
          outbox      \* answers posted, not yet taken by the PowerPC

svars == <<inbox, work, inflight, outbox>>

Answer(r, ok) == [req |-> r, ok |-> ok]
Post(r, ok)   == outbox' = Append(outbox, Answer(r, ok))

Init == inbox = <<>> /\ work = <<>> /\ inflight = NoReq /\ outbox = <<>>

Submit == \E r \in Requests :
            inbox' = Append(inbox, r) /\ UNCHANGED <<work, inflight, outbox>>

Dispatch ==
  /\ inbox # <<>>
  /\ inbox' = Tail(inbox)
  /\ LET r == Head(inbox) IN
       \/ r.kind = "fastReply"  /\ Post(r, TRUE) /\ UNCHANGED work
       \/ r.kind = "fastSilent" /\ UNCHANGED <<work, outbox>>
       \/ r.kind \notin {"fastReply", "fastSilent"}
            /\ work' = Append(work, r) /\ UNCHANGED outbox
  /\ UNCHANGED inflight

CardEvent == work' = Append(work, Discover) /\ UNCHANGED <<inbox, inflight, outbox>>

Serve ==
  /\ work # <<>>
  /\ work' = Tail(work)
  /\ LET r == Head(work) IN
       \/ r.kind = "slowReply" /\ Post(r, TRUE) /\ UNCHANGED inflight
       \/ r.kind \in {"slowSilent", "jump"} /\ UNCHANGED <<inflight, outbox>>
       \/ r.kind = "nand" /\ inflight = NoReq /\ inflight' = r /\ UNCHANGED outbox
       \/ r.kind = "nand" /\ Post(r, FALSE) /\ UNCHANGED inflight
  /\ UNCHANGED inbox

Complete == /\ inflight # NoReq
            /\ Post(inflight, TRUE)
            /\ inflight' = NoReq
            /\ UNCHANGED <<inbox, work>>

Deliver == /\ outbox # <<>>
           /\ outbox' = Tail(outbox)
           /\ UNCHANGED <<inbox, work, inflight>>

Next == Submit \/ Dispatch \/ CardEvent \/ Serve \/ Complete \/ Deliver

Spec == Init /\ [][Next]_svars
=============================================================================
