------------------------------- MODULE SerialRx -------------------------------
(***************************************************************************)
(* Reception on USART1, the line from the ESP8266 (usart1_dma_rx.c and the *)
(* handlers of ch32v30x_it.c): the DMA controller stores bytes in a        *)
(* circular buffer and interrupts at its half and at its end, the USART    *)
(* interrupts when the line falls silent; the handlers move the bytes to   *)
(* the ring buffer, from which the main loop reads them one by one.        *)
(*                                                                         *)
(* The two interrupts have the same preemption priority: neither           *)
(* interrupts the other, both interrupt the main loop, and bytes arrive    *)
(* whatever runs.  The handler of the silence is cut where a byte makes a  *)
(* difference: on entry, when it stops the DMA, when it starts it again.   *)
(***************************************************************************)
EXTENDS RingBufferLarge

CONSTANTS
  Half,       \* half of USART1_DMA_RX_BUFFER_SIZE, 128
  MaxBytes    \* bound: bytes on the line

ASSUME SerialAssumption == Half \in Nat \ {0, 1} /\ MaxBytes \in Nat

VARIABLES
  dma,      \* the buffer, where the next byte goes, the pending interrupts
  lastPos,  \* dma_last_pos: how much of the buffer has been moved
  uart,     \* a byte that waits while the DMA is off, the silence, its flag
  irq,      \* how far the handler of the silence is
  ring,     \* g_usart1_ringbuf
  main,     \* where ringbuffer_large_read is, and the count it has loaded
  sent,     \* bytes on the line so far; the n-th byte is n
  last,     \* the byte the main loop has read last
  unread,   \* history: bytes written to the ring and not read
  raced     \* history: one of the two unprotected windows has been hit

vars == <<dma, lastPos, uart, irq, ring, main, sent, last, unread, raced>>

DmaSize == 2 * Half
Byte == 0 .. MaxBytes
Cells == 0 .. DmaSize - 1

TypeOK ==
  /\ dma \in [buf: [Cells -> Byte], pos: Cells, ht: BOOLEAN, tc: BOOLEAN,
              running: BOOLEAN]
  /\ lastPos \in {0, Half}
  /\ uart \in [data: Byte, fresh: BOOLEAN, idle: BOOLEAN]
  /\ irq \in {"none", "entered", "stopped"}
  /\ ring \in RbType(Byte)
  /\ main \in [at: {"test", "load", "store"}, count: 0 .. RingSize]
  /\ sent \in Byte /\ last \in Byte
  /\ unread \in Nat /\ raced \in BOOLEAN

Init ==
  /\ dma = [buf |-> [i \in Cells |-> 0], pos |-> 0, ht |-> FALSE, tc |-> FALSE,
            running |-> TRUE]
  /\ lastPos = 0
  /\ uart = [data |-> 0, fresh |-> FALSE, idle |-> FALSE]
  /\ irq = "none"
  /\ ring = RbInit
  /\ main = [at |-> "test", count |-> 0]
  /\ sent = 0 /\ last = 0 /\ unread = 0 /\ raced = FALSE

-----------------------------------------------------------------------------
(* The line and the DMA controller. *)

(* The controller stores a byte and raises the flag of a full half.        *)
Stored(d, byte) ==
  [buf     |-> [d.buf EXCEPT ![d.pos] = byte],
   pos     |-> IF d.pos = DmaSize - 1 THEN 0 ELSE d.pos + 1,
   ht      |-> d.ht \/ d.pos = Half - 1,
   tc      |-> d.tc \/ d.pos = DmaSize - 1,
   running |-> d.running]

FillsHalf(d) == d.pos \in {Half - 1, DmaSize - 1}

(* A byte goes to the DMA buffer, or waits in the data register while the  *)
(* DMA is off.  Half a buffer takes 11 ms and a handler less than 100 us,  *)
(* the time of one byte: no half is filled while the other one's interrupt *)
(* is pending, and at most one byte arrives while the DMA is off.          *)
LineByte ==
  /\ sent < MaxBytes
  /\ sent' = sent + 1
  /\ \/ /\ dma.running
        /\ ~(FillsHalf(dma) /\ (dma.ht \/ dma.tc))
        /\ dma' = Stored(dma, sent + 1)
        /\ uart' = [uart EXCEPT !.fresh = TRUE]
        /\ raced' = (raced \/ (irq = "entered" /\ FillsHalf(dma)))
     \/ /\ ~dma.running
        /\ uart.data = 0
        /\ uart' = [data |-> sent + 1, fresh |-> TRUE, idle |-> uart.idle]
        /\ UNCHANGED <<dma, raced>>
  /\ UNCHANGED <<lastPos, irq, ring, main, last, unread>>

(* The line has been silent for the time of a byte.                        *)
LineIdle ==
  /\ uart.fresh
  /\ irq = "none"
  /\ uart' = [data |-> uart.data, fresh |-> FALSE, idle |-> TRUE]
  /\ UNCHANGED <<dma, lastPos, irq, ring, main, sent, last, unread, raced>>

-----------------------------------------------------------------------------
(* The interrupts. *)

(* dma_buffer[from] and the n - 1 bytes after it.                          *)
Segment(from, n) == [i \in 1 .. n |-> dma.buf[from + i - 1]]

(* USART1_DMA_Process_Data while the main loop may hold a count it has     *)
(* loaded: its store will undo what is added here.                         *)
ProcessData(rb) ==
  /\ ring' = rb
  /\ unread' = unread + rb.itemCount - ring.itemCount
  /\ raced' = (raced \/ (main.at = "store" /\ rb.itemCount # ring.itemCount))

(* Mutant: the position is not kept.                                       *)
DmaIrqPositionless ==
  /\ irq = "none"
  /\ \/ /\ dma.ht
        /\ dma' = [dma EXCEPT !.ht = FALSE]
        /\ ProcessData(RbWrite(ring, Segment(0, Half)))
     \/ /\ dma.tc /\ ~dma.ht
        /\ dma' = [dma EXCEPT !.tc = FALSE]
        /\ ProcessData(RbWrite(ring, Segment(Half, Half)))
  /\ UNCHANGED <<lastPos, uart, irq, main, sent, last>>

(* DMA1_Channel5_IRQHandler: a full half is moved, whatever of it has been *)
(* moved before.                                                           *)
DmaIrq ==
  /\ irq = "none"
  /\ \/ /\ dma.ht
        /\ dma' = [dma EXCEPT !.ht = FALSE]
        /\ lastPos' = Half
        /\ ProcessData(RbWrite(ring, Segment(0, Half)))
     \/ /\ dma.tc /\ ~dma.ht
        /\ dma' = [dma EXCEPT !.tc = FALSE]
        /\ lastPos' = 0
        /\ ProcessData(RbWrite(ring, Segment(Half, Half)))
  /\ UNCHANGED <<uart, irq, main, sent, last>>

(* USART1_IRQHandler is entered; of two pending interrupts the DMA's goes  *)
(* first.                                                                  *)
IdleEnter ==
  /\ irq = "none"
  /\ uart.idle /\ ~dma.ht /\ ~dma.tc
  /\ uart' = [uart EXCEPT !.idle = FALSE]
  /\ irq' = "entered"
  /\ UNCHANGED <<dma, lastPos, ring, main, sent, last, unread, raced>>

(* Mutant: the silence only moves what no half has been moved before.      *)
IdleStopFirstHalf ==
  /\ irq = "entered"
  /\ irq' = "stopped"
  /\ dma' = [dma EXCEPT !.running = FALSE]
  /\ \/ lastPos # 0 /\ UNCHANGED <<ring, unread, raced>>
     \/ lastPos = 0 /\ ProcessData(RbWrite(ring, Segment(0, dma.pos)))
  /\ UNCHANGED <<lastPos, uart, main, sent, last>>

(* It stops the DMA and moves what lies between the last position and the  *)
(* DMA's, over the end of the buffer if need be.                           *)
IdleStop ==
  /\ irq = "entered"
  /\ irq' = "stopped"
  /\ dma' = [dma EXCEPT !.running = FALSE]
  /\ \/ dma.pos = lastPos /\ UNCHANGED <<ring, unread, raced>>
     \/ dma.pos > lastPos
        /\ ProcessData(RbWrite(ring, Segment(lastPos, dma.pos - lastPos)))
     \/ dma.pos < lastPos
        /\ ProcessData(RbWrite(RbWrite(ring, Segment(lastPos, DmaSize - lastPos)),
                               Segment(0, dma.pos)))
  /\ UNCHANGED <<lastPos, uart, main, sent, last>>

(* It starts the DMA at the beginning of the buffer; a byte that waited    *)
(* goes there at once.                                                     *)
IdleRestart ==
  /\ irq = "stopped"
  /\ irq' = "none"
  /\ LET d == [buf |-> dma.buf, pos |-> 0, ht |-> dma.ht, tc |-> dma.tc, running |-> TRUE]
     IN  dma' = IF uart.data = 0 THEN d ELSE Stored(d, uart.data)
  /\ uart' = [uart EXCEPT !.data = 0]
  /\ lastPos' = 0
  /\ UNCHANGED <<ring, main, sent, last, unread, raced>>

-----------------------------------------------------------------------------
(* The main loop: ringbuffer_large_read for the next byte of esp_at, which *)
(* runs only while no handler does.                                        *)

Take ==
  /\ irq = "none" /\ main.at = "test"
  /\ ring.itemCount > 0
  /\ last' = RbHead(ring)
  /\ ring' = RbTake(ring)
  /\ main' = [main EXCEPT !.at = "load"]
  /\ unread' = unread - 1
  /\ UNCHANGED <<dma, lastPos, uart, irq, sent, raced>>

Load ==
  /\ irq = "none" /\ main.at = "load"
  /\ main' = [at |-> "store", count |-> ring.itemCount]
  /\ UNCHANGED <<dma, lastPos, uart, irq, ring, sent, last, unread, raced>>

Store ==
  /\ irq = "none" /\ main.at = "store"
  /\ ring' = RbCount(ring, main.count)
  /\ main' = [at |-> "test", count |-> 0]
  /\ UNCHANGED <<dma, lastPos, uart, irq, sent, last, unread, raced>>

-----------------------------------------------------------------------------
Interrupts == DmaIrq \/ IdleEnter \/ IdleStop \/ IdleRestart
MainLoop == Take \/ Load \/ Store

Next == LineByte \/ LineIdle \/ Interrupts \/ MainLoop

Spec == Init /\ [][Next]_vars

(* The line falls silent between messages, pending interrupts are served   *)
(* and the AT engine polls the line in every tick.                         *)
FairSpec == Spec /\ WF_vars(LineIdle) /\ WF_vars(Interrupts) /\ WF_vars(MainLoop)

-----------------------------------------------------------------------------
(* What the count of the ring leaves after a read that is under way.       *)
Available == IF main.at = "test" THEN ring.itemCount ELSE ring.itemCount - 1

(* The main loop never takes a byte that was not written since it took the *)
(* slot's last one: whatever increments and decrements get lost between    *)
(* ringbuffer_large.c:48 and :71, the count is never above the number of   *)
(* bytes that are there, and never 0 when it is decremented.               *)
NeverReadsAhead ==
  /\ Available <= unread
  /\ main.at = "store" => main.count \in 1 .. ring.itemCount
  /\ main.at = "load" => ring.itemCount > 0

(* Until one of the two windows is hit (an interrupt between the load and  *)
(* the store of itemCount--, or a half filled between the entry of the     *)
(* silence handler and its stop of the DMA) the reception is a line that   *)
(* loses bytes only with its flag set and never repeats or reorders any.   *)
Line == INSTANCE LossyLine WITH
          fifo    <- [i \in 1 .. unread |-> ring.buffer[(ring.r + i - 1) % RingSize]],
          flagged <- ring.overflow,
          intact  <- ~raced
LineSpec == Line!LineSpec

(* Every byte on the line is read in the end, whether a half was filled    *)
(* or the line fell silent, unless the overflow flag is set or a window    *)
(* has been hit.                                                           *)
EveryByteRead ==
  \A n \in 1 .. MaxBytes :
     sent >= n ~> (last >= n \/ ring.overflow \/ raced)
=============================================================================
