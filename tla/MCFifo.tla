------------------------------- MODULE MCFifo -------------------------------
(* Fifo with the smallest data that tells orders apart: two byte values.   *)
EXTENDS Fifo
CONSTANTS b1, b2
MCByte == {b1, b2}
=============================================================================
