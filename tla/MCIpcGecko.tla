----------------------------- MODULE MCIpcGecko -----------------------------
(* Any kind of request at any time.                                         *)
EXTENDS IpcGecko

AnyKind == [n \in 1..MaxReq |-> Kinds]
=============================================================================
