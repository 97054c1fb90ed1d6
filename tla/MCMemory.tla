------------------------------ MODULE MCMemory ------------------------------
(* Two lines of two words, the second for the handler.  What the SD card    *)
(* and the NAND chip take is part of a line, the PowerPC's program passes    *)
(* the flush limit, the AES engine works in place.                           *)
EXTENDS Memory

Place(start, size) == [start |-> start, size |-> size]
MCBuffer == [sdRead |-> Place(0, 2), sdWrite |-> Place(0, 1), nandRead |-> Place(2, 2),
             nandWrite |-> Place(3, 1), aes |-> Place(0, 2), ppc |-> Place(0, 2)]
=============================================================================
