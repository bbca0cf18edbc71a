------------------------------ MODULE LossyLine ------------------------------
(***************************************************************************)
(* What the reception of the serial line promises to its reader: the bytes *)
(* of the line in their order, each at most once, and none left out unless *)
(* the overflow flag has been set.  The n-th byte on the line is n.        *)
(*                                                                         *)
(* The promise ends when something breaks the line (intact = FALSE).       *)
(***************************************************************************)
EXTENDS Integers, Sequences

VARIABLES
  fifo,     \* bytes received and not yet read
  last,     \* the byte read last, 0 before the first
  flagged,  \* the receiver has admitted to a loss
  intact    \* the promise holds

lineVars == <<fifo, last, flagged, intact>>

LineInit == fifo = <<>> /\ last = 0 /\ flagged = FALSE /\ intact = TRUE

(* The byte before the i-th of a queue.                                    *)
Before(queue, i) == IF i = 1 THEN last ELSE queue[i - 1]

(* Newer bytes come to the end of the queue, the very next ones unless the *)
(* flag is set.                                                            *)
Arrive ==
  /\ Len(fifo') >= Len(fifo)
  /\ \A i \in 1 .. Len(fifo) : fifo'[i] = fifo[i]
  /\ \A i \in Len(fifo) + 1 .. Len(fifo') :
        \/ fifo'[i] = Before(fifo', i) + 1
        \/ flagged' /\ fifo'[i] > Before(fifo', i)
  /\ flagged => flagged'
  /\ last' = last

(* The reader takes the oldest byte.                                       *)
Deliver ==
  /\ fifo # <<>>
  /\ last' = Head(fifo)
  /\ fifo' = Tail(fifo)
  /\ flagged' = flagged

Promised == intact /\ intact' /\ (Arrive \/ Deliver)

Broken == intact' = FALSE

LineSpec == LineInit /\ [][Promised \/ Broken]_lineVars
=============================================================================
