--------------------------- MODULE RingBufferLarge ---------------------------
(***************************************************************************)
(* ringbuffer_large.c: the ring buffer between the interrupts of the       *)
(* serial line and the main loop.  A byte is a number; which one it is     *)
(* only matters for being the same byte.                                   *)
(*                                                                         *)
(* ringbuffer_large_read is not one operator: it runs in the main loop,    *)
(* where an interrupt may come between its accesses, so its parts are      *)
(* RbTake and RbCount and SerialRx puts the interrupt between them.        *)
(***************************************************************************)
EXTENDS Integers, Sequences

CONSTANT RingSize       \* RINGBUFFER_LARGE_SIZE, 4096

ASSUME RingSizeAssumption == RingSize \in Nat \ {0}

Slots == 0 .. RingSize - 1

RbType(Byte) == [w: Slots, r: Slots, itemCount: 0 .. RingSize,
                 overflow: BOOLEAN, buffer: [Slots -> Byte]]

RbInit == [w |-> 0, r |-> 0, itemCount |-> 0, overflow |-> FALSE,
           buffer |-> [i \in Slots |-> 0]]

(* How many of n bytes ringbuffer_large_write_multi takes: it stops at the *)
(* first one that finds the buffer full.                                   *)
Accepted(rb, n) ==
  IF n <= RingSize - rb.itemCount THEN n ELSE RingSize - rb.itemCount

(* A batch of bytes from an interrupt; what is too much is dropped, and    *)
(* the flag says so.                                                       *)
RbWrite(rb, data) ==
  LET k == Accepted(rb, Len(data))
      Position(i) == 1 + ((i - rb.w) % RingSize)
  IN  [w         |-> (rb.w + k) % RingSize,
       r         |-> rb.r,
       itemCount |-> rb.itemCount + k,
       overflow  |-> rb.overflow \/ k < Len(data),
       buffer    |-> [i \in Slots |-> IF Position(i) <= k THEN data[Position(i)]
                                                          ELSE rb.buffer[i]]]

RbHead(rb) == rb.buffer[rb.r]

(* The read pointer moves on; the count does not yet know.                 *)
RbTake(rb) == [rb EXCEPT !.r = (rb.r + 1) % RingSize]

(* Mutant: the count of the free slots is stored as it was loaded.         *)
RbCountLoaded(rb, loaded) == [rb EXCEPT !.itemCount = loaded]

(* itemCount-- stores what it computed from an earlier load.               *)
RbCount(rb, loaded) == [rb EXCEPT !.itemCount = loaded - 1]
=============================================================================
