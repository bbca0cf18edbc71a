---------------------------- MODULE MCCardReader ----------------------------
(* A card whose uid holds no byte that begins a frame, with an empty block,  *)
(* and one whose uid begins a frame of nine bytes.                           *)
EXTENDS CardReader

TwoCards ==
  {[uid |-> <<17, 34, 51, 68>>, data |-> [i \in 1 .. 16 |-> 0]],
   [uid |-> <<3, 9, 165, 90>>, data |-> [i \in 1 .. 16 |-> 255]]}

(* The conditions of the theorems are met: by both cards, and the one on   *)
(* every byte by the first.                                                *)
ASSUME ConditionsAreMet ==
  /\ NoAnswerByte /\ NoAnswerHeader
  /\ NoFrameWithin /\ NoFrameWithinLess /\ NoLongFrame
  /\ \E c \in Cards : Plain(c)
=============================================================================
