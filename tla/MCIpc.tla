------------------------------- MODULE MCIpc -------------------------------
(* The PowerPC's requests for model checking: a NAND operation whose        *)
(* completion posts from the handler, then a reply from either context,     *)
(* then one that overruns or leaves.                                        *)
EXTENDS Ipc

MCScript == <<{"nand"}, {"fastReply", "slowReply"}, {"fastSilent", "jump"}>>
=============================================================================
