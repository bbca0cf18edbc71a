----------------------------- MODULE MCSerialRx -----------------------------
(* The reception with a DMA buffer of four bytes and a ring of three.       *)
EXTENDS SerialRx
=============================================================================
