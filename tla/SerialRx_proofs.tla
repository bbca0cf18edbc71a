---------------------------- MODULE SerialRx_proofs ----------------------------
(***************************************************************************)
(* For a DMA buffer and a ring of any size: the main loop never reads a    *)
(* byte that is not there, whatever the interrupts do to the count between *)
(* its load and its store (IInv); and while no interrupt falls into one of *)
(* the two unprotected windows, the reception is a line that loses bytes   *)
(* only with its flag set (QInv, LineCorrect).                             *)
(***************************************************************************)
EXTENDS SerialRx, SequenceTheorems, TLAPS

-----------------------------------------------------------------------------
(* What the operators of the ring buffer return.                           *)

(* A position in the ring stays one.                                       *)
LEMMA SlotStep ==
  ASSUME NEW a \in Int
  PROVE  a % RingSize \in Slots
BY RingSizeAssumption DEF Slots

(* A batch is accepted as far as there is room.                            *)
LEMMA AcceptedType ==
  ASSUME NEW rb \in RbType(Byte), NEW n \in Nat
  PROVE  /\ Accepted(rb, n) \in 0 .. n
         /\ rb.itemCount + Accepted(rb, n) \in rb.itemCount .. RingSize
BY RingSizeAssumption DEF Accepted, RbType

LEMMA WriteType ==
  ASSUME NEW rb \in RbType(Byte), NEW data \in Seq(Byte)
  PROVE  /\ RbWrite(rb, data) \in RbType(Byte)
         /\ RbWrite(rb, data).itemCount >= rb.itemCount
<1> DEFINE k == Accepted(rb, Len(data))
           Position(i) == 1 + ((i - rb.w) % RingSize)
           new == RbWrite(rb, data)
<1>0. Len(data) \in Nat /\ rb.w \in Int /\ rb.w \in Slots
  BY DEF RbType, Slots
<1>1. k \in 0 .. Len(data) /\ rb.itemCount + k \in rb.itemCount .. RingSize
  BY <1>0, AcceptedType
<1>2. new = [w         |-> (rb.w + k) % RingSize,
             r         |-> rb.r,
             itemCount |-> rb.itemCount + k,
             overflow  |-> rb.overflow \/ k < Len(data),
             buffer    |-> [i \in Slots |-> IF Position(i) <= k THEN data[Position(i)]
                                                                ELSE rb.buffer[i]]]
  BY DEF RbWrite
<1> HIDE DEF new, k
<1>3. (rb.w + k) % RingSize \in Slots
  BY <1>0, <1>1, SlotStep
<1>4. ASSUME NEW i \in Slots
      PROVE  (IF Position(i) <= k THEN data[Position(i)] ELSE rb.buffer[i]) \in Byte
  <2>1. i - rb.w \in Int
    BY <1>0 DEF Slots
  <2>2. (i - rb.w) % RingSize \in Slots
    BY <2>1, SlotStep
  <2>3. Position(i) \in Nat \ {0}
    BY <2>2 DEF Slots
  <2> HIDE DEF Position
  <2>4. CASE Position(i) <= k
    BY <1>1, <1>0, <2>3, <2>4
  <2>5. CASE ~(Position(i) <= k)
    BY <2>5 DEF RbType
  <2> QED BY <2>4, <2>5
<1>5. [i \in Slots |-> IF Position(i) <= k THEN data[Position(i)] ELSE rb.buffer[i]]
        \in [Slots -> Byte]
  BY <1>4
<1>6. (rb.overflow \/ k < Len(data)) \in BOOLEAN
  OBVIOUS
<1>7. rb.r \in Slots /\ rb.itemCount \in Nat
  BY DEF RbType
<1>8. rb.itemCount + k \in 0 .. RingSize /\ rb.itemCount + k >= rb.itemCount
  BY <1>1, <1>7, RingSizeAssumption
<1> HIDE DEF Position
<1> QED BY <1>2, <1>3, <1>5, <1>6, <1>7, <1>8 DEF RbType, new

(* The read pointer and the count of a read.                               *)
LEMMA TakeType ==
  ASSUME NEW rb \in RbType(Byte)
  PROVE  /\ RbTake(rb) \in RbType(Byte) /\ RbTake(rb).itemCount = rb.itemCount
         /\ RbHead(rb) \in Byte
<1>1. rb.r \in Slots /\ rb.r + 1 \in Int
  BY DEF RbType, Slots
<1>2. (rb.r + 1) % RingSize \in Slots
  BY <1>1, SlotStep
<1> QED BY <1>1, <1>2 DEF RbTake, RbHead, RbType

LEMMA CountType ==
  ASSUME NEW rb \in RbType(Byte), NEW loaded \in 1 .. RingSize
  PROVE  /\ RbCount(rb, loaded) \in RbType(Byte)
         /\ RbCount(rb, loaded).itemCount = loaded - 1
<1>1. loaded - 1 \in 0 .. RingSize
  BY RingSizeAssumption
<1> QED BY <1>1 DEF RbCount, RbType

-----------------------------------------------------------------------------
(* The DMA buffer and its parts.                                           *)

DmaType == [buf: [Cells -> Byte], pos: Cells, ht: BOOLEAN, tc: BOOLEAN, running: BOOLEAN]

LEMMA StoredType ==
  ASSUME NEW d \in DmaType, NEW byte \in Byte
  PROVE  Stored(d, byte) \in DmaType
<1>1. (IF d.pos = DmaSize - 1 THEN 0 ELSE d.pos + 1) \in Cells
  BY SerialAssumption DEF DmaType, DmaSize, Cells
<1>2. [d.buf EXCEPT ![d.pos] = byte] \in [Cells -> Byte]
  BY DEF DmaType
<1>3. (d.ht \/ d.pos = Half - 1) \in BOOLEAN /\ (d.tc \/ d.pos = DmaSize - 1) \in BOOLEAN
  OBVIOUS
<1> QED BY <1>1, <1>2, <1>3 DEF Stored, DmaType

LEMMA SegmentType ==
  ASSUME dma \in DmaType, NEW from \in Nat, NEW n \in Nat, from + n <= DmaSize
  PROVE  Segment(from, n) \in Seq(Byte)
<1>1. ASSUME NEW i \in 1 .. n PROVE dma.buf[from + i - 1] \in Byte
  <2>1. from + i - 1 \in Cells
    BY <1>1, SerialAssumption DEF Cells, DmaSize
  <2> QED BY <2>1 DEF DmaType
<1>2. Segment(from, n) \in [1 .. n -> Byte]
  BY <1>1 DEF Segment
<1> QED BY <1>2, SeqDef

-----------------------------------------------------------------------------
(* The invariant is inductive as it stands, with the types beside it: what *)
(* a read has loaded is below the count, since only a read lowers it.      *)
IInv == TypeOK /\ NeverReadsAhead

LEMMA InitIInv == Init => IInv
<1> SUFFICES ASSUME Init PROVE IInv
  OBVIOUS
<1>1. 0 \in Byte /\ 0 \in Cells /\ 0 \in Slots /\ 0 \in 0 .. RingSize
  BY RingSizeAssumption, SerialAssumption DEF Byte, Cells, DmaSize, Slots
<1>2. RbInit \in RbType(Byte) /\ RbInit.itemCount = 0
  BY <1>1 DEF RbInit, RbType
<1>3. dma \in [buf: [Cells -> Byte], pos: Cells, ht: BOOLEAN, tc: BOOLEAN, running: BOOLEAN]
  BY <1>1 DEF Init
<1>4. NeverReadsAhead
  BY <1>2 DEF Init, NeverReadsAhead, Available
<1> QED BY <1>1, <1>2, <1>3, <1>4 DEF Init, IInv, TypeOK

(* A step that leaves the ring and its reader alone.                       *)
LEMMA RingAlone ==
  ASSUME IInv, UNCHANGED <<ring, main, unread>>
  PROVE  NeverReadsAhead'
BY DEF IInv, NeverReadsAhead, Available

(* A step of an interrupt that moves a batch to the ring.                  *)
LEMMA Processed ==
  ASSUME IInv, NEW rb \in RbType(Byte), rb.itemCount >= ring.itemCount,
         ProcessData(rb), UNCHANGED main
  PROVE  /\ NeverReadsAhead'
         /\ ring' \in RbType(Byte) /\ unread' \in Nat /\ raced' \in BOOLEAN
<1>1. rb.itemCount \in 0 .. RingSize /\ ring.itemCount \in 0 .. RingSize
  BY DEF IInv, TypeOK, RbType
<1>2. ring' = rb /\ unread' = unread + rb.itemCount - ring.itemCount
  BY DEF ProcessData
<1>3. raced' \in BOOLEAN
  BY DEF ProcessData, IInv, TypeOK
<1>4. unread' \in Nat
  BY <1>1, <1>2, RingSizeAssumption DEF IInv, TypeOK
<1>5. Available' <= unread'
  BY <1>1, <1>2, RingSizeAssumption DEF IInv, TypeOK, NeverReadsAhead, Available
<1>6. main.at = "store" => main.count \in 1 .. rb.itemCount
  BY <1>1, RingSizeAssumption DEF IInv, TypeOK, NeverReadsAhead
<1>7. main.at = "load" => rb.itemCount > 0
  BY <1>1, RingSizeAssumption DEF IInv, TypeOK, NeverReadsAhead
<1> QED BY <1>2, <1>3, <1>4, <1>5, <1>6, <1>7 DEF NeverReadsAhead

LEMMA LineIInv == IInv /\ (LineByte \/ LineIdle) => IInv'
<1> SUFFICES ASSUME IInv, LineByte \/ LineIdle PROVE IInv'
  OBVIOUS
<1> USE DEF IInv
<1>1. NeverReadsAhead'
  BY RingAlone DEF LineByte, LineIdle
<1>2. dma \in DmaType
  BY DEF TypeOK, DmaType
<1>3. CASE LineByte
  <2>1. sent + 1 \in Byte /\ sent' = sent + 1
    BY <1>3, SerialAssumption DEF LineByte, TypeOK, Byte
  <2>2. dma' \in DmaType
    BY <1>2, <1>3, <2>1, StoredType DEF LineByte
  <2>3. uart' \in [data: Byte, fresh: BOOLEAN, idle: BOOLEAN]
    <3>1. uart \in [data: Byte, fresh: BOOLEAN, idle: BOOLEAN]
      BY DEF TypeOK
    <3>2. CASE uart' = [uart EXCEPT !.fresh = TRUE]
      BY <3>1, <3>2
    <3>3. CASE uart' = [data |-> sent + 1, fresh |-> TRUE, idle |-> uart.idle]
      BY <2>1, <3>1, <3>3
    <3> QED BY <1>3, <3>2, <3>3 DEF LineByte
  <2>4. raced' \in BOOLEAN
    <3>1. raced \in BOOLEAN
      BY DEF TypeOK
    <3>2. CASE raced' = (raced \/ (irq = "entered" /\ FillsHalf(dma)))
      BY <3>2
    <3>3. CASE raced' = raced
      BY <3>1, <3>3
    <3> QED BY <1>3, <3>2, <3>3 DEF LineByte
  <2> QED BY <1>1, <1>3, <2>1, <2>2, <2>3, <2>4 DEF LineByte, TypeOK, DmaType
<1>4. CASE LineIdle
  BY <1>1, <1>4 DEF LineIdle, TypeOK
<1> QED BY <1>3, <1>4

LEMMA DmaIrqIInv == IInv /\ DmaIrq => IInv'
<1> SUFFICES ASSUME IInv, DmaIrq PROVE IInv'
  OBVIOUS
<1> USE DEF IInv
<1>1. dma \in DmaType /\ ring \in RbType(Byte)
  BY DEF TypeOK, DmaType
<1>2. Segment(0, Half) \in Seq(Byte) /\ Segment(Half, Half) \in Seq(Byte)
  BY <1>1, SegmentType, SerialAssumption DEF DmaSize
<1>3. /\ NeverReadsAhead'
      /\ ring' \in RbType(Byte) /\ unread' \in Nat /\ raced' \in BOOLEAN
  BY <1>1, <1>2, WriteType, Processed DEF DmaIrq
<1>4. dma' \in DmaType /\ lastPos' \in {0, Half}
  BY <1>1 DEF DmaIrq, DmaType
<1> QED BY <1>3, <1>4 DEF DmaIrq, TypeOK, DmaType

LEMMA IdleStopIInv == IInv /\ IdleStop => IInv'
<1> SUFFICES ASSUME IInv, IdleStop PROVE IInv'
  OBVIOUS
<1> USE DEF IInv
<1>1. dma \in DmaType /\ ring \in RbType(Byte)
  BY DEF TypeOK, DmaType
<1>2. lastPos \in 0 .. DmaSize /\ dma.pos \in 0 .. DmaSize
  BY SerialAssumption DEF TypeOK, Cells, DmaSize
<1>3. /\ NeverReadsAhead'
      /\ ring' \in RbType(Byte) /\ unread' \in Nat /\ raced' \in BOOLEAN
  <2>1. CASE UNCHANGED <<ring, unread, raced>>
    BY <1>1, <2>1, RingAlone DEF IdleStop, TypeOK
  <2>2. CASE /\ dma.pos > lastPos
             /\ ProcessData(RbWrite(ring, Segment(lastPos, dma.pos - lastPos)))
    <3>1. dma.pos - lastPos \in Nat /\ lastPos \in Nat /\ lastPos + (dma.pos - lastPos) <= DmaSize
      BY <1>2, <2>2, SerialAssumption DEF DmaSize
    <3>2. Segment(lastPos, dma.pos - lastPos) \in Seq(Byte)
      BY <1>1, <3>1, SegmentType
    <3> QED BY <1>1, <2>2, <3>2, WriteType, Processed DEF IdleStop
  <2>3. CASE /\ dma.pos < lastPos
             /\ ProcessData(RbWrite(RbWrite(ring, Segment(lastPos, DmaSize - lastPos)),
                                    Segment(0, dma.pos)))
    <3>1. /\ DmaSize - lastPos \in Nat /\ lastPos \in Nat
          /\ lastPos + (DmaSize - lastPos) <= DmaSize
          /\ dma.pos \in Nat /\ 0 + dma.pos <= DmaSize
      BY <1>2, SerialAssumption DEF DmaSize
    <3> DEFINE one == RbWrite(ring, Segment(lastPos, DmaSize - lastPos))
               two == RbWrite(one, Segment(0, dma.pos))
    <3>2. Segment(lastPos, DmaSize - lastPos) \in Seq(Byte) /\ Segment(0, dma.pos) \in Seq(Byte)
      BY <1>1, <3>1, SegmentType
    <3>3. one \in RbType(Byte) /\ one.itemCount >= ring.itemCount
      BY <1>1, <3>2, WriteType
    <3> HIDE DEF one
    <3>4. two \in RbType(Byte) /\ two.itemCount >= one.itemCount
      BY <3>2, <3>3, WriteType
    <3>5. ProcessData(two)
      BY <2>3 DEF two, one
    <3> HIDE DEF two
    <3>6. two.itemCount >= ring.itemCount
      BY <1>1, <3>3, <3>4, RingSizeAssumption DEF RbType
    <3> QED BY <3>4, <3>5, <3>6, Processed DEF IdleStop
  <2> QED BY <2>1, <2>2, <2>3 DEF IdleStop
<1>4. dma' \in DmaType
  BY <1>1 DEF IdleStop, DmaType
<1> QED BY <1>3, <1>4 DEF IdleStop, TypeOK, DmaType

LEMMA IdleIInv == IInv /\ (IdleEnter \/ IdleRestart) => IInv'
<1> SUFFICES ASSUME IInv, IdleEnter \/ IdleRestart PROVE IInv'
  OBVIOUS
<1> USE DEF IInv
<1>1. NeverReadsAhead'
  BY RingAlone DEF IdleEnter, IdleRestart
<1>2. dma \in DmaType
  BY DEF TypeOK, DmaType
<1>3. CASE IdleEnter
  BY <1>1, <1>3 DEF IdleEnter, TypeOK
<1>4. CASE IdleRestart
  <2> DEFINE d == [buf |-> dma.buf, pos |-> 0, ht |-> dma.ht, tc |-> dma.tc, running |-> TRUE]
  <2>1. d \in DmaType
    BY <1>2, SerialAssumption DEF DmaType, Cells, DmaSize
  <2>2. uart.data \in Byte
    BY DEF TypeOK
  <2>3. dma' = IF uart.data = 0 THEN d ELSE Stored(d, uart.data)
    BY <1>4 DEF IdleRestart
  <2> HIDE DEF d
  <2>4. dma' \in DmaType
    BY <2>1, <2>2, <2>3, StoredType
  <2>5. uart' \in [data: Byte, fresh: BOOLEAN, idle: BOOLEAN]
    BY <1>4, SerialAssumption DEF IdleRestart, TypeOK, Byte
  <2> QED BY <1>1, <1>4, <2>4, <2>5 DEF IdleRestart, TypeOK, DmaType
<1> QED BY <1>3, <1>4

LEMMA MainLoopIInv == IInv /\ MainLoop => IInv'
<1> SUFFICES ASSUME IInv, MainLoop PROVE IInv'
  OBVIOUS
<1> USE RingSizeAssumption DEF IInv
<1>1. ring \in RbType(Byte) /\ ring.itemCount \in 0 .. RingSize
  BY DEF TypeOK, RbType
<1>2. CASE Take
  <2>1. /\ ring' = RbTake(ring) /\ ring' \in RbType(Byte)
        /\ ring'.itemCount = ring.itemCount /\ last' \in Byte
    BY <1>1, <1>2, TakeType DEF Take
  <2>2. ring.itemCount > 0 /\ ring.itemCount <= unread
    BY <1>2 DEF Take, NeverReadsAhead, Available
  <2>3. unread' \in Nat /\ ring.itemCount - 1 <= unread'
    BY <1>1, <1>2, <2>2 DEF Take, TypeOK
  <2>4. main' \in [at: {"test", "load", "store"}, count: 0 .. RingSize] /\ main'.at = "load"
    BY <1>2 DEF Take, TypeOK
  <2>5. NeverReadsAhead'
    BY <2>1, <2>2, <2>3, <2>4 DEF NeverReadsAhead, Available
  <2> QED BY <1>2, <2>1, <2>3, <2>4, <2>5 DEF Take, TypeOK
<1>3. CASE Load
  <2>1. ring.itemCount \in 1 .. RingSize /\ main' = [at |-> "store", count |-> ring.itemCount]
    BY <1>1, <1>3 DEF Load, NeverReadsAhead
  <2>2. NeverReadsAhead'
    BY <1>3, <2>1 DEF Load, NeverReadsAhead, Available
  <2> QED BY <1>3, <2>1, <2>2 DEF Load, TypeOK
<1>4. CASE Store
  <2>1. main.count \in 1 .. RingSize /\ main.count <= ring.itemCount
    BY <1>1, <1>4 DEF Store, NeverReadsAhead
  <2>2. ring' \in RbType(Byte) /\ ring'.itemCount = main.count - 1
    BY <1>1, <1>4, <2>1, CountType DEF Store
  <2>3. main' = [at |-> "test", count |-> 0] /\ unread' = unread
    BY <1>4 DEF Store
  <2>4. ring.itemCount - 1 <= unread
    BY <1>4 DEF Store, NeverReadsAhead, Available
  <2>5. NeverReadsAhead'
    BY <1>1, <2>1, <2>2, <2>3, <2>4 DEF NeverReadsAhead, Available, TypeOK
  <2> QED BY <1>4, <2>2, <2>3, <2>5 DEF Store, TypeOK
<1> QED BY <1>2, <1>3, <1>4 DEF MainLoop

LEMMA NextIInv == IInv /\ [Next]_vars => IInv'
<1> SUFFICES ASSUME IInv, [Next]_vars PROVE IInv'
  OBVIOUS
<1>1. CASE Next
  BY <1>1, LineIInv, DmaIrqIInv, IdleStopIInv, IdleIInv, MainLoopIInv DEF Next, Interrupts
<1>2. CASE UNCHANGED vars
  BY <1>2 DEF vars, IInv, TypeOK, NeverReadsAhead, Available
<1> QED BY <1>1, <1>2

LEMMA IInvInvariant == Spec => []IInv
BY InitIInv, NextIInv, PTL DEF Spec

(* Every variable keeps its type: no index leaves its buffer and the count *)
(* of the ring is never below 0 nor above its size (ringbuffer_large.c).   *)
THEOREM TypeCorrect == Spec => []TypeOK
BY IInvInvariant, PTL DEF IInv

(* However the interrupts fall between the load and the store of the       *)
(* count, it never promises a byte that is not there                       *)
(* (ringbuffer_large.c:48 and :71).                                        *)
THEOREM NeverReadsAheadCorrect == Spec => []NeverReadsAhead
BY IInvInvariant, PTL DEF IInv

-----------------------------------------------------------------------------
(* The reception is a line that loses bytes only with its flag set: what   *)
(* the invariant says while none of the two windows has been hit.          *)

(* A place in the ring or in the DMA buffer after its end is one at its    *)
(* beginning.                                                              *)
Place(i) == IF i < RingSize THEN i ELSE i - RingSize
Cell(i) == IF i < DmaSize THEN i ELSE i - DmaSize

(* The bytes in the DMA buffer that have not been moved, and the last byte *)
(* that has.                                                               *)
Pending ==
  IF irq = "stopped" THEN 0
  ELSE IF dma.pos >= lastPos THEN dma.pos - lastPos ELSE dma.pos - lastPos + DmaSize

Held == IF uart.data = 0 THEN 0 ELSE 1

Moved == sent - Pending - Held

DmaOK ==
  /\ ~(dma.ht /\ dma.tc)
  /\ dma.ht => lastPos = 0 /\ dma.pos >= Half
  /\ dma.tc => lastPos = Half /\ dma.pos < Half
  /\ ~dma.ht /\ ~dma.tc /\ irq # "stopped" => dma.pos \in lastPos .. lastPos + Half - 1
  /\ irq # "none" => ~dma.ht /\ ~dma.tc
  /\ dma.running <=> irq # "stopped"
  /\ uart.data # 0 => irq = "stopped" /\ uart.data = sent
  /\ Moved \in Nat
  /\ \A i \in 1 .. Pending : dma.buf[Cell(lastPos + i - 1)] = Moved + i

(* The byte that the next one is read or stored after.                     *)
Newest == IF unread = 0 THEN last ELSE ring.buffer[Place(ring.r + unread - 1)]

RingOK ==
  /\ unread = Available
  /\ main.at = "store" => main.count = ring.itemCount
  /\ ring.w = Place(ring.r + unread)
  /\ Newest <= Moved
  /\ ring.overflow \/ Newest = Moved

QInv == ~raced => DmaOK /\ RingOK

(* The remainder of a position at most one ring too far.                   *)
LEMMA PlaceMod ==
  ASSUME NEW a \in 0 .. 2 * RingSize - 1
  PROVE  a % RingSize = Place(a) /\ Place(a) \in Slots
<1>1. CASE a < RingSize
  <2>1. a \in 0 .. RingSize - 1
    BY <1>1, RingSizeAssumption
  <2>2. a % RingSize = a
    BY <2>1, RingSizeAssumption
  <2> QED BY <1>1, <2>1, <2>2 DEF Place, Slots
<1>2. CASE ~(a < RingSize)
  <2>1. a \in RingSize .. 2 * RingSize - 1
    BY <1>2, RingSizeAssumption
  <2>2. a % RingSize = a - RingSize
    BY <2>1, RingSizeAssumption
  <2> QED BY <1>2, <2>1, <2>2, RingSizeAssumption DEF Place, Slots
<1> QED BY <1>1, <1>2

(* How far one slot is behind another.                                     *)
LEMMA DistanceMod ==
  ASSUME NEW r \in Slots, NEW u \in 0 .. RingSize, NEW i \in 1 .. RingSize
  PROVE  (Place(r + i - 1) - Place(r + u)) % RingSize =
           IF i > u THEN i - u - 1 ELSE i - u - 1 + RingSize
<1> DEFINE d == Place(r + i - 1) - Place(r + u)
           e == IF i > u THEN i - u - 1 ELSE i - u - 1 + RingSize
<1>1. e \in 0 .. RingSize - 1
  BY RingSizeAssumption
<1>2. d \in Int /\ (d = e \/ d = e - RingSize)
  BY RingSizeAssumption DEF Place, Slots
<1> HIDE DEF d, e
<1>3. e % RingSize = e
  BY <1>1, RingSizeAssumption
<1>4. (e - RingSize) % RingSize = e
  <2>1. e - RingSize \in -RingSize .. -1
    BY <1>1, RingSizeAssumption
  <2> QED BY <1>1, <2>1, RingSizeAssumption
<1>5. d % RingSize = e
  BY <1>2, <1>3, <1>4
<1> QED BY <1>5 DEF d, e

(* A place that is found in two steps.                                     *)
LEMMA PlaceFurther ==
  ASSUME NEW r \in Slots, NEW u \in Int, NEW k \in Nat, 0 <= u, u + k \in 0 .. RingSize,
         NEW w, w = Place(r + u)
  PROVE  Place(w + k) = Place(r + u + k)
BY RingSizeAssumption DEF Place, Slots

(* A batch goes behind the unread bytes and disturbs none of them.         *)
LEMMA WriteQueue ==
  ASSUME NEW rb \in RbType(Byte), NEW data \in Seq(Byte), NEW u \in 0 .. rb.itemCount,
         rb.w = Place(rb.r + u)
  PROVE  LET k == Accepted(rb, Len(data))
             new == RbWrite(rb, data)
         IN  /\ k \in 0 .. Len(data) /\ u + k \in 0 .. RingSize
             /\ new.r = rb.r /\ new.itemCount = rb.itemCount + k
             /\ new.w = Place(rb.r + u + k)
             /\ new.overflow = (rb.overflow \/ k < Len(data))
             /\ \A i \in 1 .. u : new.buffer[Place(rb.r + i - 1)] = rb.buffer[Place(rb.r + i - 1)]
             /\ \A j \in 1 .. k : new.buffer[Place(rb.r + u + j - 1)] = data[j]
<1> DEFINE k == Accepted(rb, Len(data))
           Position(i) == 1 + ((i - rb.w) % RingSize)
           new == RbWrite(rb, data)
<1>0. /\ Len(data) \in Nat /\ rb.w \in Slots /\ rb.r \in Slots /\ rb.itemCount \in 0 .. RingSize
      /\ rb.buffer \in [Slots -> Byte]
  BY DEF RbType
<1>1. /\ k \in 0 .. Len(data) /\ rb.itemCount + k \in rb.itemCount .. RingSize
      /\ u + k \in 0 .. RingSize
  <2>1. k \in 0 .. Len(data) /\ rb.itemCount + k \in rb.itemCount .. RingSize
    BY <1>0, AcceptedType
  <2> HIDE DEF k
  <2> QED BY <1>0, <2>1, RingSizeAssumption
<1>2. /\ new.r = rb.r /\ new.itemCount = rb.itemCount + k /\ new.w = (rb.w + k) % RingSize
      /\ new.overflow = (rb.overflow \/ k < Len(data))
      /\ new.buffer = [i \in Slots |-> IF Position(i) <= k THEN data[Position(i)] ELSE rb.buffer[i]]
  BY DEF RbWrite
<1> HIDE DEF new, k
<1>3. new.w = Place(rb.r + u + k)
  <2>1. rb.w + k \in 0 .. 2 * RingSize - 1
    BY <1>0, <1>1, RingSizeAssumption DEF Slots
  <2>2. new.w = Place(rb.w + k)
    BY <1>2, <2>1, PlaceMod
  <2>3. Place(rb.w + k) = Place(rb.r + u + k)
    <3>1. k \in Nat /\ u \in Int /\ 0 <= u /\ u + k \in 0 .. RingSize
      BY <1>0, <1>1
    <3> QED BY <1>0, <3>1, PlaceFurther
  <2> QED BY <2>2, <2>3
<1>4. ASSUME NEW i \in 1 .. RingSize
      PROVE  /\ Place(rb.r + i - 1) \in Slots
             /\ Position(Place(rb.r + i - 1)) = IF i > u THEN i - u ELSE i - u + RingSize
  <2>1. Place(rb.r + i - 1) \in Slots
    BY <1>0, RingSizeAssumption DEF Place, Slots
  <2>2. u \in 0 .. RingSize
    BY <1>0, RingSizeAssumption
  <2>3. (Place(rb.r + i - 1) - rb.w) % RingSize = IF i > u THEN i - u - 1 ELSE i - u - 1 + RingSize
    BY <1>0, <2>2, DistanceMod
  <2> QED BY <2>1, <2>2, <2>3, RingSizeAssumption
<1> HIDE DEF Position
<1>5. ASSUME NEW i \in 1 .. u
      PROVE  new.buffer[Place(rb.r + i - 1)] = rb.buffer[Place(rb.r + i - 1)]
  <2>1. i \in 1 .. RingSize
    BY <1>0, RingSizeAssumption
  <2>2. Position(Place(rb.r + i - 1)) = i - u + RingSize /\ Place(rb.r + i - 1) \in Slots
    BY <1>0, <1>4, <2>1
  <2>3. ~(i - u + RingSize <= k)
    BY <1>0, <1>1, RingSizeAssumption
  <2> QED BY <1>2, <2>2, <2>3
<1>6. ASSUME NEW j \in 1 .. k
      PROVE  new.buffer[Place(rb.r + u + j - 1)] = data[j]
  <2>1. u + j \in 1 .. RingSize /\ u + j > u /\ u + j - u = j
    BY <1>0, <1>1, RingSizeAssumption
  <2>2. Position(Place(rb.r + (u + j) - 1)) = j /\ Place(rb.r + (u + j) - 1) \in Slots
    BY <1>4, <2>1
  <2>3. rb.r + (u + j) - 1 = rb.r + u + j - 1
    BY <1>0, <1>1 DEF Slots
  <2>4. j <= k
    BY <1>1
  <2> QED BY <1>2, <2>2, <2>3, <2>4
<1> QED BY <1>1, <1>2, <1>3, <1>5, <1>6 DEF new, k

-----------------------------------------------------------------------------
(* The DMA buffer holds the bytes that have not been moved.                *)

UartType == [data: Byte, fresh: BOOLEAN, idle: BOOLEAN]

LEMMA DmaNumbers ==
  ASSUME TypeOK
  PROVE  /\ Half \in Nat /\ Half >= 2 /\ DmaSize \in Nat /\ DmaSize = Half + Half
         /\ dma.pos \in 0 .. DmaSize - 1 /\ lastPos \in {0, Half}
         /\ sent \in Nat /\ uart.data \in Nat /\ dma \in DmaType /\ uart \in UartType
BY SerialAssumption DEF TypeOK, DmaSize, Cells, DmaType, UartType, Byte

LEMMA InitQInv == Init => QInv
<1> SUFFICES ASSUME Init PROVE DmaOK /\ RingOK
  BY DEF QInv
<1>1. Pending = 0 /\ Held = 0 /\ Moved = 0
  BY DEF Init, Pending, Held, Moved
<1>2. DmaOK
  BY <1>1, SerialAssumption DEF Init, DmaOK
<1>3. RingOK
  BY <1>1, RingSizeAssumption DEF Init, RbInit, RingOK, Available, Newest, Place
<1> QED BY <1>2, <1>3

(* A byte on the line is one more that has not been moved.                 *)
LEMMA LineByteDma ==
  ASSUME TypeOK, DmaOK, LineByte, ~raced, ~raced'
  PROVE  DmaOK' /\ Moved' = Moved
<1> USE DmaNumbers
<1>1. sent' = sent + 1 /\ lastPos' = lastPos /\ irq' = irq /\ Moved \in Nat
  BY DEF LineByte, DmaOK
<1>2. CASE /\ dma.running
           /\ ~(FillsHalf(dma) /\ (dma.ht \/ dma.tc))
           /\ dma' = Stored(dma, sent + 1)
           /\ uart' = [uart EXCEPT !.fresh = TRUE]
           /\ raced' = (raced \/ (irq = "entered" /\ FillsHalf(dma)))
  <2>1. irq # "stopped" /\ uart.data = 0 /\ uart'.data = 0 /\ ~(irq = "entered" /\ FillsHalf(dma))
    BY <1>2 DEF DmaOK, UartType
  <2>2. /\ dma'.pos = IF dma.pos = DmaSize - 1 THEN 0 ELSE dma.pos + 1
        /\ dma'.ht = (dma.ht \/ dma.pos = Half - 1)
        /\ dma'.tc = (dma.tc \/ dma.pos = DmaSize - 1)
        /\ dma'.running = dma.running
        /\ dma'.buf = [dma.buf EXCEPT ![dma.pos] = sent + 1]
    BY <1>2 DEF Stored
  <2>3. dma.ht \in BOOLEAN /\ dma.tc \in BOOLEAN /\ dma.buf \in [Cells -> Byte]
    BY DEF DmaType
  <2>4. /\ Pending \in 0 .. DmaSize - 1 /\ Pending' = Pending + 1
        /\ Cell(lastPos + Pending) = dma.pos
    BY <1>1, <2>1, <2>2, <2>3, <1>2 DEF DmaOK, FillsHalf, Pending, Cell
  <2>5. Held = 0 /\ Held' = 0 /\ Moved = sent - Pending
    BY <2>1, <2>4 DEF Held, Moved
  <2>6. Moved' = Moved
    BY <1>1, <2>4, <2>5 DEF Moved
  <2>7. ASSUME NEW i \in 1 .. Pending'
        PROVE  dma'.buf[Cell(lastPos + i - 1)] = Moved + i
    <3>1. CASE i = Pending + 1
      <4>1. Cell(lastPos + i - 1) = dma.pos
        BY <2>4, <3>1
      <4>2. Moved + i = sent + 1
        BY <1>1, <2>4, <2>5, <3>1
      <4> QED BY <2>2, <2>3, <4>1, <4>2 DEF Cells
    <3>2. CASE i # Pending + 1
      <4>1. i \in 1 .. Pending
        BY <2>4, <3>2
      <4>2. Cell(lastPos + i - 1) \in Cells /\ Cell(lastPos + i - 1) # dma.pos
        BY <2>4, <4>1 DEF Cell, Cells
      <4>3. dma.buf[Cell(lastPos + i - 1)] = Moved + i
        BY <4>1 DEF DmaOK
      <4> QED BY <2>2, <2>3, <4>2, <4>3
    <3> QED BY <3>1, <3>2
  <2>8. /\ ~(dma'.ht /\ dma'.tc)
        /\ dma'.ht => lastPos = 0 /\ dma'.pos >= Half
        /\ dma'.tc => lastPos = Half /\ dma'.pos < Half
        /\ ~dma'.ht /\ ~dma'.tc => dma'.pos \in lastPos .. lastPos + Half - 1
        /\ irq # "none" => ~dma'.ht /\ ~dma'.tc
    <3>1. irq \in {"none", "entered"}
      BY <2>1 DEF TypeOK
    <3>2. CASE FillsHalf(dma)
      <4>1. irq = "none" /\ ~dma.ht /\ ~dma.tc
        BY <1>2, <2>1, <3>1, <3>2
      <4>2. dma.pos \in lastPos .. lastPos + Half - 1
        BY <4>1 DEF DmaOK
      <4>3. CASE dma.pos = Half - 1
        <5>1. Half - 1 # DmaSize - 1
          OBVIOUS
        <5>2. dma'.ht /\ ~dma'.tc
          BY <2>2, <4>1, <4>3, <5>1
        <5>3. dma'.pos = Half /\ lastPos = 0
          BY <2>2, <4>2, <4>3
        <5> QED BY <4>1, <5>2, <5>3
      <4>4. CASE dma.pos = DmaSize - 1
        <5>1. Half - 1 # DmaSize - 1
          OBVIOUS
        <5>2. ~dma'.ht /\ dma'.tc
          BY <2>2, <4>1, <4>4, <5>1
        <5>3. dma'.pos = 0 /\ lastPos = Half
          BY <2>2, <4>2, <4>4
        <5> QED BY <4>1, <5>2, <5>3
      <4> QED BY <3>2, <4>3, <4>4 DEF FillsHalf
    <3>3. CASE ~FillsHalf(dma)
      <4>1. dma.pos # Half - 1 /\ dma.pos # DmaSize - 1
        BY <3>3 DEF FillsHalf
      <4>2. dma'.ht = dma.ht /\ dma'.tc = dma.tc
        BY <2>2, <2>3, <4>1
      <4>3. dma'.pos = dma.pos + 1
        BY <2>2, <4>1
      <4>4. /\ ~(dma.ht /\ dma.tc)
            /\ dma.ht => lastPos = 0 /\ dma.pos >= Half
            /\ dma.tc => lastPos = Half /\ dma.pos < Half
            /\ ~dma.ht /\ ~dma.tc => dma.pos \in lastPos .. lastPos + Half - 1
            /\ irq # "none" => ~dma.ht /\ ~dma.tc
        BY <2>1 DEF DmaOK
      <4> HIDE DEF DmaOK
      <4>5. dma.ht => lastPos = 0 /\ dma'.pos >= Half
        BY <4>3, <4>4
      <4>6. dma.tc => lastPos = Half /\ dma'.pos < Half
        BY <4>1, <4>3, <4>4
      <4>7. ~dma.ht /\ ~dma.tc => dma'.pos \in lastPos .. lastPos + Half - 1
        BY <4>1, <4>3, <4>4
      <4> QED BY <4>2, <4>4, <4>5, <4>6, <4>7
    <3> QED BY <3>2, <3>3
  <2> QED BY <1>1, <2>1, <2>2, <2>6, <2>7, <2>8 DEF DmaOK
<1>3. CASE /\ ~dma.running
           /\ uart.data = 0
           /\ uart' = [data |-> sent + 1, fresh |-> TRUE, idle |-> uart.idle]
           /\ UNCHANGED <<dma, raced>>
  <2>1. irq = "stopped" /\ uart'.data = sent' /\ uart'.data # 0
    BY <1>1, <1>3 DEF DmaOK
  <2>2. Pending = 0 /\ Pending' = 0 /\ Held = 0 /\ Held' = 1
    BY <1>1, <1>3, <2>1 DEF Pending, Held
  <2>3. Moved' = Moved
    BY <1>1, <2>2 DEF Moved
  <2> QED BY <1>1, <1>3, <2>1, <2>2, <2>3 DEF DmaOK
<1> QED BY <1>2, <1>3 DEF LineByte

LEMMA IdleDma ==
  ASSUME TypeOK, DmaOK, LineIdle \/ IdleEnter \/ IdleRestart
  PROVE  DmaOK' /\ Moved' = Moved
<1> USE DmaNumbers
<1>1. CASE LineIdle \/ IdleEnter
  <2>1. /\ dma' = dma /\ lastPos' = lastPos /\ sent' = sent /\ uart'.data = uart.data
        /\ irq # "stopped" /\ irq' # "stopped"
        /\ irq' # "none" => ~dma.ht /\ ~dma.tc
    BY <1>1 DEF LineIdle, IdleEnter, UartType
  <2>2. Pending' = Pending /\ Held' = Held /\ Moved' = Moved
    BY <2>1 DEF Pending, Held, Moved
  <2> QED BY <2>1, <2>2 DEF DmaOK
<1>2. CASE IdleRestart
  <2>1. /\ lastPos' = 0 /\ sent' = sent /\ uart'.data = 0 /\ irq = "stopped" /\ irq' = "none"
        /\ ~dma.ht /\ ~dma.tc /\ Moved \in Nat
        /\ uart.data # 0 => uart.data = sent
    BY <1>2 DEF IdleRestart, DmaOK, UartType
  <2>2. CASE uart.data = 0
    <3>1. /\ dma'.pos = 0 /\ dma'.ht = dma.ht /\ dma'.tc = dma.tc /\ dma'.running
      BY <1>2, <2>2 DEF IdleRestart
    <3>2. Pending = 0 /\ Pending' = 0 /\ Held = 0 /\ Held' = 0
      BY <2>1, <2>2, <3>1 DEF Pending, Held
    <3>3. Moved' = Moved
      BY <2>1, <3>2 DEF Moved
    <3> QED BY <2>1, <3>1, <3>2, <3>3 DEF DmaOK
  <2>3. CASE uart.data # 0
    <3> DEFINE d == [buf |-> dma.buf, pos |-> 0, ht |-> dma.ht, tc |-> dma.tc, running |-> TRUE]
    <3>1. dma' = Stored(d, uart.data)
      BY <1>2, <2>3 DEF IdleRestart
    <3>2. /\ dma'.pos = 1 /\ dma'.running
          /\ dma'.ht = (dma.ht \/ 0 = Half - 1) /\ dma'.tc = (dma.tc \/ 0 = DmaSize - 1)
          /\ dma'.buf = [dma.buf EXCEPT ![0] = uart.data]
      BY <3>1 DEF Stored
    <3>3. ~dma'.ht /\ ~dma'.tc
      <4>1. 0 # Half - 1 /\ 0 # DmaSize - 1
        OBVIOUS
      <4> QED BY <2>1, <3>2, <4>1
    <3>4. dma'.buf[0] = uart.data
      BY <3>2 DEF DmaType, Cells
    <3>5. Pending = 0 /\ Pending' = 1 /\ Held = 1 /\ Held' = 0
      BY <2>1, <2>3, <3>2 DEF Pending, Held
    <3>6. Moved' = Moved /\ Moved + 1 = sent
      BY <2>1, <3>5 DEF Moved
    <3>7. ASSUME NEW i \in 1 .. Pending'
          PROVE  dma'.buf[Cell(lastPos' + i - 1)] = Moved + i
      <4>1. i = 1 /\ Cell(lastPos' + i - 1) = 0
        BY <2>1, <3>5 DEF Cell
      <4> QED BY <2>1, <2>3, <3>4, <3>6, <4>1
    <3> QED BY <2>1, <3>2, <3>3, <3>6, <3>7 DEF DmaOK
  <2> QED BY <2>2, <2>3
<1> QED BY <1>1, <1>2

(* The interrupt of a full half finds the very bytes that come next.       *)
LEMMA HalfMoved ==
  ASSUME TypeOK, DmaOK, irq = "none", dma.ht \/ (dma.tc /\ ~dma.ht),
         sent' = sent, uart' = uart, irq' = irq, dma'.buf = dma.buf, dma'.pos = dma.pos,
         dma'.running = dma.running, ~dma'.ht, ~dma'.tc,
         lastPos' = IF dma.ht THEN Half ELSE 0
  PROVE  /\ DmaOK' /\ Moved' = Moved + Half
         /\ \A i \in 1 .. Half : dma.buf[(IF dma.ht THEN 0 ELSE Half) + i - 1] = Moved + i
<1> USE DmaNumbers
<1>1. /\ dma.ht \in BOOLEAN /\ dma.tc \in BOOLEAN /\ Moved \in Nat
      /\ dma.ht => lastPos = 0 /\ dma.pos >= Half
      /\ ~dma.ht => lastPos = Half /\ dma.pos < Half
  BY DEF DmaType, DmaOK
<1>2. /\ Pending \in Half .. DmaSize - 1 /\ Pending' = Pending - Half
  BY <1>1 DEF Pending
<1>3. Held' = Held /\ Held \in Nat /\ Moved = sent - Pending - Held
  BY DEF Held, Moved
<1>4. Moved' = Moved + Half
  BY <1>2, <1>3 DEF Moved
<1>5. ASSUME NEW i \in 1 .. Half
      PROVE  dma.buf[(IF dma.ht THEN 0 ELSE Half) + i - 1] = Moved + i
  <2>1. Cell(lastPos + i - 1) = (IF dma.ht THEN 0 ELSE Half) + i - 1 /\ i \in 1 .. Pending
    BY <1>1, <1>2 DEF Cell
  <2>2. dma.buf[Cell(lastPos + i - 1)] = Moved + i
    BY <2>1 DEF DmaOK
  <2> QED BY <2>1, <2>2
<1>6. ASSUME NEW i \in 1 .. Pending'
      PROVE  dma'.buf[Cell(lastPos' + i - 1)] = Moved' + i
  <2>1. i + Half \in 1 .. Pending
    BY <1>2
  <2>2. Cell(lastPos' + i - 1) = Cell(lastPos + (i + Half) - 1)
    BY <1>1, <1>2, <2>1 DEF Cell
  <2>3. dma.buf[Cell(lastPos + (i + Half) - 1)] = Moved + (i + Half)
    BY <2>1 DEF DmaOK
  <2> QED BY <1>1, <1>4, <2>1, <2>2, <2>3
<1>7. dma'.pos \in lastPos' .. lastPos' + Half - 1
  BY <1>1
<1> QED BY <1>1, <1>4, <1>5, <1>6, <1>7 DEF DmaOK

(* So does the silence, for what is left.                                  *)
LEMMA RestMoved ==
  ASSUME TypeOK, DmaOK, IdleStop
  PROVE  /\ DmaOK' /\ Moved' = Moved + Pending
         /\ dma.pos >= lastPos /\ Pending = dma.pos - lastPos
         /\ \A i \in 1 .. Pending : dma.buf[lastPos + i - 1] = Moved + i
<1> USE DmaNumbers
<1>1. /\ irq = "entered" /\ ~dma.ht /\ ~dma.tc /\ dma.pos \in lastPos .. lastPos + Half - 1
      /\ uart.data = 0 /\ Moved \in Nat
  BY DEF IdleStop, DmaOK
<1>2. Pending = dma.pos - lastPos /\ Pending \in 0 .. Half - 1 /\ Held = 0
  BY <1>1 DEF Pending, Held
<1>3. /\ irq' = "stopped" /\ sent' = sent /\ uart' = uart /\ lastPos' = lastPos
      /\ dma'.ht = dma.ht /\ dma'.tc = dma.tc /\ ~dma'.running
  BY DEF IdleStop, DmaType
<1>4. Pending' = 0 /\ Held' = 0
  BY <1>1, <1>3 DEF Pending, Held
<1>5. Moved' = Moved + Pending
  BY <1>2, <1>3, <1>4 DEF Moved
<1>6. ASSUME NEW i \in 1 .. Pending
      PROVE  dma.buf[lastPos + i - 1] = Moved + i
  <2>1. Cell(lastPos + i - 1) = lastPos + i - 1
    BY <1>1, <1>2 DEF Cell
  <2> QED BY <2>1 DEF DmaOK
<1>7. DmaOK'
  BY <1>1, <1>2, <1>3, <1>4, <1>5 DEF DmaOK
<1> QED BY <1>1, <1>2, <1>5, <1>6, <1>7

-----------------------------------------------------------------------------
(* The ring holds the bytes that have been moved and not read.             *)

(* The queue that u bytes of a ring make up.                               *)
FifoOf(rb, u) == [i \in 1 .. u |-> rb.buffer[(rb.r + i - 1) % RingSize]]

LEMMA FifoIs ==
  ASSUME NEW rb \in RbType(Byte), NEW u \in 0 .. RingSize
  PROVE  /\ FifoOf(rb, u) \in Seq(Byte) /\ Len(FifoOf(rb, u)) = u
         /\ \A i \in 1 .. u : FifoOf(rb, u)[i] = rb.buffer[Place(rb.r + i - 1)]
<1>1. ASSUME NEW i \in 1 .. u
      PROVE  /\ rb.buffer[(rb.r + i - 1) % RingSize] = rb.buffer[Place(rb.r + i - 1)]
             /\ rb.buffer[(rb.r + i - 1) % RingSize] \in Byte
  <2>1. rb.r + i - 1 \in 0 .. 2 * RingSize - 1 /\ rb.buffer \in [Slots -> Byte]
    BY RingSizeAssumption DEF RbType, Slots
  <2>2. (rb.r + i - 1) % RingSize = Place(rb.r + i - 1) /\ Place(rb.r + i - 1) \in Slots
    BY <2>1, PlaceMod
  <2> QED BY <2>1, <2>2
<1>2. u \in Nat
  BY RingSizeAssumption
<1>3. FifoOf(rb, u) \in [1 .. u -> Byte]
  BY <1>1 DEF FifoOf
<1>4. FifoOf(rb, u) \in Seq(Byte) /\ Len(FifoOf(rb, u)) = u
  BY <1>2, <1>3, SeqDef
<1> QED BY <1>1, <1>4 DEF FifoOf

LEMMA RingNumbers ==
  ASSUME TypeOK, RingOK
  PROVE  /\ ring \in RbType(Byte) /\ ring.itemCount \in 0 .. RingSize
         /\ ring.r \in Slots /\ ring.w \in Slots /\ ring.overflow \in BOOLEAN
         /\ unread \in 0 .. ring.itemCount /\ unread \in 0 .. RingSize
         /\ last \in Nat
<1>1. /\ ring \in RbType(Byte) /\ ring.itemCount \in 0 .. RingSize
      /\ ring.r \in Slots /\ ring.w \in Slots /\ ring.overflow \in BOOLEAN
  BY DEF TypeOK, RbType
<1>2. unread \in Nat /\ last \in Nat
  BY SerialAssumption DEF TypeOK, Byte
<1>3. unread = Available
  BY DEF RingOK
<1> QED BY <1>1, <1>2, <1>3, RingSizeAssumption DEF Available

(* A step that leaves the ring and its reader alone.                       *)
LEMMA RingStays ==
  ASSUME RingOK, UNCHANGED <<ring, main, last, unread>>, Moved' = Moved
  PROVE  RingOK'
<1>1. Newest' = Newest /\ Available' = Available
  BY DEF Newest, Available
<1> QED BY <1>1 DEF RingOK

(* A batch of the bytes that come next arrives, whole or with the flag.    *)
LEMMA Moving ==
  ASSUME TypeOK, RingOK, Moved \in Nat, NEW data \in Seq(Byte),
         ProcessData(RbWrite(ring, data)), ~raced', UNCHANGED <<main, last>>,
         Moved' = Moved + Len(data), \A i \in 1 .. Len(data) : data[i] = Moved + i
  PROVE  RingOK' /\ Line!Arrive
<1> DEFINE k == Accepted(ring, Len(data))
           q == FifoOf(ring, unread)
           n == FifoOf(ring, unread)'
<1>1. /\ ring \in RbType(Byte) /\ ring.itemCount \in 0 .. RingSize
      /\ ring.r \in Slots /\ ring.w \in Slots /\ ring.overflow \in BOOLEAN
      /\ unread \in 0 .. ring.itemCount /\ unread \in 0 .. RingSize /\ last \in Nat
  BY RingNumbers
<1>2. /\ unread = Available /\ ring.w = Place(ring.r + unread)
      /\ main.at = "store" => main.count = ring.itemCount
      /\ Newest <= Moved /\ (ring.overflow \/ Newest = Moved)
  BY DEF RingOK
<1>3. /\ ring' = RbWrite(ring, data)
      /\ unread' = unread + ring'.itemCount - ring.itemCount
      /\ main.at = "store" => ring'.itemCount = ring.itemCount
  BY DEF ProcessData
<1>4. /\ k \in 0 .. Len(data) /\ unread + k \in 0 .. RingSize
      /\ ring'.r = ring.r /\ ring'.itemCount = ring.itemCount + k
      /\ ring'.w = Place(ring.r + unread + k)
      /\ ring'.overflow = (ring.overflow \/ k < Len(data))
      /\ \A i \in 1 .. unread :
           ring'.buffer[Place(ring.r + i - 1)] = ring.buffer[Place(ring.r + i - 1)]
      /\ \A j \in 1 .. k : ring'.buffer[Place(ring.r + unread + j - 1)] = data[j]
  BY <1>1, <1>2, <1>3, WriteQueue
<1>5. ring' \in RbType(Byte) /\ Len(data) \in Nat
  BY <1>1, <1>3, WriteType
<1> HIDE DEF k
<1>6. unread' = unread + k /\ unread' \in 0 .. RingSize /\ k \in Nat
  <2>1. unread' = unread + (ring.itemCount + k) - ring.itemCount
    BY <1>3, <1>4
  <2>2. k \in Nat /\ unread \in Nat /\ ring.itemCount \in Nat
    BY <1>1, <1>4, <1>5
  <2>3. unread' = unread + k
    BY <2>1, <2>2
  <2> QED BY <1>4, <2>2, <2>3
<1>7. /\ q \in Seq(Byte) /\ Len(q) = unread
      /\ \A i \in 1 .. unread : q[i] = ring.buffer[Place(ring.r + i - 1)]
  BY <1>1, FifoIs
<1>8. /\ n \in Seq(Byte) /\ Len(n) = unread'
      /\ \A i \in 1 .. unread' : n[i] = ring'.buffer[Place(ring.r + i - 1)]
  BY <1>4, <1>5, <1>6, FifoIs
<1>9. Newest = (IF unread = 0 THEN last ELSE q[unread])
  BY <1>1, <1>7 DEF Newest
<1>10. Newest' = (IF unread' = 0 THEN last ELSE n[unread'])
  <2>1. Newest' = IF unread' = 0 THEN last ELSE ring'.buffer[Place(ring.r + unread' - 1)]
    BY <1>4 DEF Newest
  <2>2. ASSUME unread' # 0 PROVE n[unread'] = ring'.buffer[Place(ring.r + unread' - 1)]
    <3>1. unread' \in 1 .. unread'
      BY <1>6, <2>2, RingSizeAssumption
    <3> QED BY <1>8, <3>1
  <2> QED BY <2>1, <2>2
<1> HIDE DEF q, n
<1>11. ASSUME NEW i \in 1 .. unread
       PROVE  n[i] = q[i]
  <2>1. i \in 1 .. unread'
    BY <1>1, <1>6
  <2> QED BY <1>4, <1>7, <1>8, <2>1
<1>12. ASSUME NEW i \in unread + 1 .. unread'
       PROVE  n[i] = Moved + (i - unread)
  <2>1. i - unread \in 1 .. k /\ i \in 1 .. unread' /\ i - unread \in 1 .. Len(data)
    BY <1>1, <1>4, <1>5, <1>6
  <2>2. ring.r + unread + (i - unread) - 1 = ring.r + i - 1
    BY <1>1 DEF Slots
  <2>3. n[i] = data[i - unread]
    BY <1>4, <1>8, <2>1, <2>2
  <2> QED BY <2>1, <2>3
<1>13. Newest <= Newest' /\ Newest' <= Moved' /\ (ring'.overflow \/ Newest' = Moved')
  <2>1. CASE k = 0
    <3>1. Newest' = Newest
      BY <1>1, <1>6, <1>9, <1>10, <1>11, <2>1
    <3>2. Newest \in Int
      <4>1. CASE unread = 0
        BY <1>1, <1>9, <4>1
      <4>2. CASE unread # 0
        <5>1. q[unread] \in Byte
          BY <1>1, <1>7, <4>2
        <5> QED BY <1>9, <4>2, <5>1, SerialAssumption DEF Byte
      <4> QED BY <4>1, <4>2
    <3>3. Newest <= Moved'
      BY <1>2, <1>5, <3>2
    <3>4. ring'.overflow \/ Newest = Moved'
      <4>1. CASE Len(data) = 0
        <5>1. Moved' = Moved
          BY <4>1
        <5>2. ring.overflow => ring'.overflow
          BY <1>4
        <5> QED BY <1>2, <5>1, <5>2
      <4>2. CASE Len(data) # 0
        <5>1. k < Len(data)
          BY <1>5, <2>1, <4>2
        <5> QED BY <1>4, <5>1
      <4> QED BY <4>1, <4>2
    <3> QED BY <3>1, <3>2, <3>3, <3>4
  <2>2. CASE k # 0
    <3>1. Newest' = Moved + k
      BY <1>1, <1>4, <1>6, <1>10, <1>12, <2>2
    <3>2. Newest \in Int
      <4>1. CASE unread = 0
        BY <1>1, <1>9, <4>1
      <4>2. CASE unread # 0
        <5>1. q[unread] \in Byte
          BY <1>1, <1>7, <4>2
        <5> QED BY <1>9, <4>2, <5>1, SerialAssumption DEF Byte
      <4> QED BY <4>1, <4>2
    <3>3. Newest <= Newest' /\ Newest' <= Moved'
      BY <1>2, <1>4, <1>5, <3>1, <3>2
    <3>4. k = Len(data) => Newest' = Moved'
      BY <3>1
    <3>5. ASSUME k # Len(data) PROVE ring'.overflow
      <4>1. k < Len(data)
        BY <1>4, <1>5, <3>5
      <4> QED BY <1>4, <4>1
    <3> QED BY <3>3, <3>4, <3>5
  <2> QED BY <2>1, <2>2
<1>14. RingOK'
  <2>1. Available' = unread'
    BY <1>1, <1>2, <1>3, <1>4, <1>6 DEF Available
  <2>2. ring'.w = Place(ring'.r + unread')
    <3>1. ring.r + unread + k = ring.r + unread'
      <4>1. ring.r \in Int /\ unread \in Int /\ k \in Int
        BY <1>1, <1>6 DEF Slots
      <4> QED BY <1>6, <4>1
    <3> QED BY <1>4, <3>1
  <2>3. main'.at = "store" => main'.count = ring'.itemCount
    BY <1>2, <1>3
  <2> QED BY <1>13, <2>1, <2>2, <2>3 DEF RingOK
<1>15. Line!Arrive
  <2>1. Len(n) >= Len(q) /\ \A i \in 1 .. Len(q) : n[i] = q[i]
    BY <1>1, <1>4, <1>6, <1>7, <1>8, <1>11
  <2>2. ASSUME NEW i \in Len(q) + 1 .. Len(n)
        PROVE  \/ n[i] = (IF i = 1 THEN last ELSE n[i - 1]) + 1
               \/ ring'.overflow /\ n[i] > (IF i = 1 THEN last ELSE n[i - 1])
    <3>1. i \in unread + 1 .. unread' /\ n[i] = Moved + (i - unread)
      BY <1>7, <1>8, <1>12, <2>2
    <3>2. CASE i # unread + 1
      <4>1. i - 1 \in unread + 1 .. unread' /\ i # 1
        <5>1. unread \in Nat /\ unread' \in Int /\ i \in Int
          BY <1>1, <1>6, <3>1, RingSizeAssumption
        <5> QED BY <3>1, <3>2, <5>1
      <4>2. n[i - 1] = Moved + (i - 1 - unread)
        BY <1>12, <4>1
      <4>3. i \in Int /\ unread \in Int
        BY <1>1, <1>6, <3>1
      <4> QED BY <3>1, <4>1, <4>2, <4>3
    <3>3. CASE i = unread + 1
      <4>1. (IF i = 1 THEN last ELSE n[i - 1]) = Newest /\ Newest \in Int
        <5>1. CASE unread = 0
          BY <1>1, <1>9, <3>3, <5>1
        <5>2. CASE unread # 0
          <6>1. i # 1 /\ i - 1 = unread /\ unread \in 1 .. unread
            BY <1>1, <3>3, <5>2
          <6>2. n[i - 1] = q[unread] /\ q[unread] \in Byte
            BY <1>7, <1>11, <6>1
          <6> QED BY <1>9, <5>2, <6>1, <6>2, SerialAssumption DEF Byte
        <5> QED BY <5>1, <5>2
      <4>2. n[i] = Moved + 1
        BY <1>1, <3>1, <3>3
      <4>3. CASE Newest = Moved
        BY <4>1, <4>2, <4>3
      <4>4. CASE ring.overflow
        <5>1. n[i] > Newest
          BY <1>2, <4>1, <4>2
        <5>2. ring'.overflow
          BY <1>4, <4>4
        <5> QED BY <4>1, <5>1, <5>2
      <4> QED BY <1>2, <4>3, <4>4
    <3> QED BY <3>2, <3>3
  <2>3. ring.overflow => ring'.overflow
    BY <1>4
  <2> QED BY <2>1, <2>2, <2>3 DEF Line!Arrive, Line!Before, FifoOf, q, n
<1> QED BY <1>14, <1>15

(* The main loop takes the oldest byte.                                    *)
LEMMA TakeDelivers ==
  ASSUME TypeOK, RingOK, Take, Moved' = Moved
  PROVE  RingOK' /\ Line!Deliver
<1> DEFINE q == FifoOf(ring, unread)
           n == FifoOf(ring, unread)'
<1>1. /\ ring \in RbType(Byte) /\ ring.itemCount \in 0 .. RingSize
      /\ ring.r \in Slots /\ unread \in 0 .. RingSize /\ last \in Nat
  BY RingNumbers
<1>2. unread = ring.itemCount /\ unread \in 1 .. RingSize
  BY <1>1 DEF RingOK, Available, Take
<1>3. /\ ring' \in RbType(Byte) /\ ring'.itemCount = ring.itemCount
      /\ ring'.buffer = ring.buffer /\ ring'.w = ring.w /\ ring'.overflow = ring.overflow
      /\ ring'.r = (ring.r + 1) % RingSize
  <2>1. ring' = RbTake(ring)
    BY DEF Take
  <2> QED BY <1>1, <2>1, TakeType DEF RbTake, RbType
<1>4. ring'.r = Place(ring.r + 1)
  <2>1. ring.r + 1 \in 0 .. 2 * RingSize - 1
    BY <1>1, RingSizeAssumption DEF Slots
  <2> QED BY <1>3, <2>1, PlaceMod
<1>5. ASSUME NEW i \in 1 .. unread
      PROVE  Place(ring'.r + (i - 1)) = Place(ring.r + i)
  <2>1. i - 1 \in Nat /\ 1 + (i - 1) \in 0 .. RingSize
    BY <1>2, RingSizeAssumption
  <2>2. Place(ring'.r + (i - 1)) = Place(ring.r + 1 + (i - 1))
    BY <1>1, <1>4, <2>1, PlaceFurther
  <2>3. ring.r + 1 + (i - 1) = ring.r + i
    BY <1>1 DEF Slots
  <2> QED BY <2>2, <2>3
<1>6. unread' = unread - 1 /\ unread' \in 0 .. RingSize
  BY <1>2, RingSizeAssumption DEF Take
<1>7. /\ q \in Seq(Byte) /\ Len(q) = unread
      /\ \A i \in 1 .. unread : q[i] = ring.buffer[Place(ring.r + i - 1)]
  BY <1>1, FifoIs
<1>8. /\ n \in Seq(Byte) /\ Len(n) = unread'
      /\ \A i \in 1 .. unread' : n[i] = ring'.buffer[Place(ring'.r + i - 1)]
  BY <1>3, <1>6, FifoIs
<1>9. last' = q[1]
  <2>1. last' = ring.buffer[ring.r]
    BY DEF Take, RbHead
  <2>2. Place(ring.r + 1 - 1) = ring.r /\ 1 \in 1 .. unread
    BY <1>1, <1>2, RingSizeAssumption DEF Place, Slots
  <2> QED BY <1>7, <2>1, <2>2
<1> HIDE DEF q, n
<1>10. ASSUME NEW i \in 1 .. unread'
       PROVE  n[i] = q[i + 1]
  <2>1. i \in 1 .. unread /\ i + 1 \in 1 .. unread
    BY <1>2, <1>6
  <2>2. ring'.r + i - 1 = ring'.r + (i - 1) /\ ring.r + (i + 1) - 1 = ring.r + i
    <3>1. ring'.r \in Int /\ ring.r \in Int /\ i \in Int
      BY <1>1, <1>3 DEF RbType, Slots
    <3> QED BY <3>1
  <2>3. n[i] = ring.buffer[Place(ring.r + i)]
    BY <1>3, <1>5, <1>8, <2>1, <2>2
  <2>4. q[i + 1] = ring.buffer[Place(ring.r + i)]
    BY <1>7, <2>1, <2>2
  <2> QED BY <2>3, <2>4
<1>11. q # <<>> /\ Head(q) = q[1] /\ n = Tail(q)
  <2>1. q # <<>>
    BY <1>2, <1>7, EmptySeq
  <2>2. Head(q) = q[1]
    BY <1>7, <2>1
  <2>3. /\ Tail(q) \in Seq(Byte) /\ Len(Tail(q)) = Len(q) - 1
        /\ \A i \in 1 .. Len(Tail(q)) : Tail(q)[i] = q[i + 1]
    BY <1>7, <2>1, HeadTailProperties
  <2>4. Len(n) = Len(Tail(q))
    BY <1>6, <1>7, <1>8, <2>3
  <2>5. \A i \in 1 .. Len(n) : n[i] = Tail(q)[i]
    BY <1>8, <1>10, <2>3, <2>4
  <2>6. n = Tail(q)
    BY <1>8, <2>3, <2>4, <2>5, SeqEqual
  <2> QED BY <2>1, <2>2, <2>6
<1>12. Line!Deliver
  BY <1>3, <1>9, <1>11 DEF Line!Deliver, FifoOf, q, n
<1>13. Newest' = Newest
  <2>1. Newest = q[unread]
    <3>1. unread \in 1 .. unread /\ unread # 0
      BY <1>2
    <3> QED BY <1>7, <3>1 DEF Newest
  <2>2. CASE unread = 1
    BY <1>6, <1>9, <2>1, <2>2 DEF Newest
  <2>3. CASE unread # 1
    <3>1. unread' \in 1 .. unread' /\ unread' # 0 /\ unread' + 1 = unread
      BY <1>2, <1>6, <2>3
    <3>2. Newest' = n[unread']
      BY <1>8, <3>1 DEF Newest
    <3> QED BY <1>10, <2>1, <3>1, <3>2
  <2> QED BY <2>2, <2>3
<1>14. main'.at = "load"
  BY DEF Take, TypeOK
<1>15. unread' = Available'
  BY <1>2, <1>3, <1>6, <1>14 DEF Available
<1>16. ring'.w = Place(ring'.r + unread')
  <2>1. unread \in 1 .. unread
    BY <1>2
  <2>2. Place(ring'.r + unread') = Place(ring.r + unread)
    BY <1>5, <1>6, <2>1
  <2> QED BY <1>3, <2>2 DEF RingOK
<1>17. RingOK'
  BY <1>3, <1>13, <1>14, <1>15, <1>16 DEF RingOK
<1> QED BY <1>12, <1>17

(* The load and the store of the count change nothing of the queue.        *)
LEMMA CountStays ==
  ASSUME TypeOK, RingOK, Load \/ Store, Moved' = Moved
  PROVE  RingOK' /\ UNCHANGED Line!lineVars
<1>1. /\ ring'.r = ring.r /\ ring'.w = ring.w /\ ring'.buffer = ring.buffer
      /\ ring'.overflow = ring.overflow
      /\ unread' = unread /\ last' = last /\ raced' = raced
  BY RingNumbers DEF Load, Store, RbCount, RbType
<1>2. Newest' = Newest
  BY <1>1 DEF Newest
<1>3. UNCHANGED Line!lineVars
  BY <1>1 DEF Line!lineVars
<1>4. CASE Load
  <2>1. ring' = ring /\ main' = [at |-> "store", count |-> ring.itemCount] /\ main.at = "load"
    BY <1>4 DEF Load
  <2> QED BY <1>1, <1>2, <1>3, <2>1 DEF RingOK, Available
<1>5. CASE Store
  <2>1. main' = [at |-> "test", count |-> 0] /\ main.at = "store" /\ ring' = RbCount(ring, main.count)
    BY <1>5 DEF Store
  <2>2. ring'.itemCount = ring.itemCount - 1
    BY <2>1, RingNumbers DEF RingOK, RbCount, RbType
  <2> QED BY <1>1, <1>2, <1>3, <2>1, <2>2 DEF RingOK, Available
<1> QED BY <1>4, <1>5

(* A full half arrives.                                                    *)
LEMMA DmaIrqArrives ==
  ASSUME TypeOK, DmaOK, RingOK, DmaIrq, ~raced'
  PROVE  DmaOK' /\ RingOK' /\ Line!Arrive
<1> DEFINE from == IF dma.ht THEN 0 ELSE Half
<1>1. /\ irq = "none" /\ (dma.ht \/ (dma.tc /\ ~dma.ht)) /\ ~(dma.ht /\ dma.tc)
      /\ dma \in DmaType /\ Half \in Nat /\ DmaSize = Half + Half
  BY DmaNumbers DEF DmaIrq, DmaOK
<1>2. /\ dma'.buf = dma.buf /\ dma'.pos = dma.pos /\ dma'.running = dma.running
      /\ ~dma'.ht /\ ~dma'.tc
  <2>1. CASE dma.ht /\ dma' = [dma EXCEPT !.ht = FALSE]
    BY <1>1, <2>1 DEF DmaType
  <2>2. CASE ~dma.ht /\ dma' = [dma EXCEPT !.tc = FALSE]
    BY <1>1, <2>2 DEF DmaType
  <2> QED BY <2>1, <2>2 DEF DmaIrq
<1>3. lastPos' = IF dma.ht THEN Half ELSE 0
  BY DEF DmaIrq
<1>4. ProcessData(RbWrite(ring, Segment(from, Half)))
  BY DEF DmaIrq
<1>5. sent' = sent /\ uart' = uart /\ irq' = irq /\ main' = main /\ last' = last
  BY DEF DmaIrq
<1>6. /\ DmaOK' /\ Moved' = Moved + Half
      /\ \A i \in 1 .. Half : dma.buf[from + i - 1] = Moved + i
  BY <1>1, <1>2, <1>3, <1>5, HalfMoved
<1>7. from \in Nat /\ from + Half <= DmaSize
  BY <1>1
<1> HIDE DEF from
<1> DEFINE data == Segment(from, Half)
<1>8. data \in Seq(Byte)
  BY <1>1, <1>7, SegmentType
<1>9. Len(data) = Half /\ \A i \in 1 .. Half : data[i] = Moved + i
  BY <1>1, <1>6 DEF Segment
<1>10. ProcessData(RbWrite(ring, data))
  BY <1>4
<1> HIDE DEF data
<1>11. Moved \in Nat
  BY DEF DmaOK
<1>12. Moved' = Moved + Len(data) /\ \A i \in 1 .. Len(data) : data[i] = Moved + i
  BY <1>6, <1>9
<1>13. RingOK' /\ Line!Arrive
  BY <1>5, <1>8, <1>10, <1>11, <1>12, Moving
<1> QED BY <1>6, <1>13

(* So does what is left at a silence.                                      *)
LEMMA IdleStopArrives ==
  ASSUME TypeOK, DmaOK, RingOK, IdleStop, ~raced'
  PROVE  DmaOK' /\ RingOK' /\ (Line!Arrive \/ UNCHANGED Line!lineVars)
<1>1. /\ DmaOK' /\ Moved' = Moved + Pending
      /\ dma.pos >= lastPos /\ Pending = dma.pos - lastPos
      /\ \A i \in 1 .. Pending : dma.buf[lastPos + i - 1] = Moved + i
  BY RestMoved
<1>2. /\ Moved \in Nat /\ dma \in DmaType /\ Half \in Nat /\ DmaSize = Half + Half
      /\ dma.pos \in 0 .. DmaSize - 1 /\ lastPos \in {0, Half}
  BY DmaNumbers DEF DmaOK
<1>3. main' = main /\ last' = last
  BY DEF IdleStop
<1>4. CASE dma.pos = lastPos /\ UNCHANGED <<ring, unread, raced>>
  <2>1. Moved' = Moved
    BY <1>1, <1>2, <1>4
  <2>2. RingOK'
    BY <1>3, <1>4, <2>1, RingStays
  <2>3. UNCHANGED Line!lineVars
    BY <1>3, <1>4 DEF Line!lineVars
  <2> QED BY <1>1, <2>2, <2>3
<1>5. CASE /\ dma.pos > lastPos
           /\ ProcessData(RbWrite(ring, Segment(lastPos, dma.pos - lastPos)))
  <2> DEFINE data == Segment(lastPos, Pending)
  <2>1. Pending \in Nat /\ lastPos \in Nat /\ lastPos + Pending <= DmaSize
    BY <1>1, <1>2
  <2>2. data \in Seq(Byte)
    BY <1>2, <2>1, SegmentType
  <2>3. Len(data) = Pending /\ \A i \in 1 .. Pending : data[i] = Moved + i
    BY <1>1, <2>1 DEF Segment
  <2>4. ProcessData(RbWrite(ring, data))
    BY <1>1, <1>5
  <2> HIDE DEF data
  <2>5. Moved' = Moved + Len(data) /\ \A i \in 1 .. Len(data) : data[i] = Moved + i
    BY <1>1, <2>3
  <2>6. RingOK' /\ Line!Arrive
    BY <1>2, <1>3, <2>2, <2>4, <2>5, Moving
  <2> QED BY <1>1, <2>6
<1>6. dma.pos < lastPos => FALSE
  BY <1>1, <1>2
<1> QED BY <1>4, <1>5, <1>6 DEF IdleStop

-----------------------------------------------------------------------------
(* A step of the reception is one of the line, and keeps the invariant.    *)
LineStep == [Line!Promised \/ Line!Broken]_(Line!lineVars)

LEMMA NextLine == TypeOK /\ QInv /\ [Next]_vars => QInv' /\ LineStep
<1> SUFFICES ASSUME TypeOK, QInv, [Next]_vars PROVE QInv' /\ LineStep
  OBVIOUS
<1>1. raced \in BOOLEAN /\ raced' \in BOOLEAN /\ (raced => raced')
  <2>1. raced \in BOOLEAN
    BY DEF TypeOK
  <2>2. ASSUME NEW rb, ProcessData(rb)
        PROVE  raced' \in BOOLEAN /\ (raced => raced')
    BY <2>2 DEF ProcessData
  <2>3. CASE DmaIrq \/ IdleStop
    BY <2>1, <2>2, <2>3 DEF DmaIrq, IdleStop
  <2>4. CASE LineByte
    <3>1. CASE raced' = (raced \/ (irq = "entered" /\ FillsHalf(dma)))
      <4> DEFINE hit == irq = "entered" /\ FillsHalf(dma)
      <4>1. raced' = (raced \/ hit)
        BY <3>1
      <4> HIDE DEF hit
      <4>2. raced' \in BOOLEAN
        BY <4>1
      <4>3. raced => raced'
        BY <4>1
      <4> QED BY <2>1, <4>2, <4>3
    <3>2. CASE raced' = raced
      BY <2>1, <3>2
    <3> QED BY <2>4, <3>1, <3>2 DEF LineByte
  <2>5. CASE LineIdle \/ IdleEnter \/ IdleRestart \/ MainLoop \/ UNCHANGED vars
    BY <2>1, <2>5 DEF LineIdle, IdleEnter, IdleRestart, MainLoop, Take, Load, Store, vars
  <2> QED BY <2>3, <2>4, <2>5 DEF Next, Interrupts
<1>2. CASE raced'
  <2>1. (~raced') = FALSE
    BY <1>2
  <2>2. LineStep
    BY <2>1 DEF LineStep, Line!Broken
  <2> QED BY <1>2, <2>2 DEF QInv
<1>3. CASE ~raced'
  <2>1. ~raced /\ DmaOK /\ RingOK
    BY <1>1, <1>3 DEF QInv
  <2>2. (~raced) = TRUE /\ (~raced') = TRUE
    BY <1>3, <2>1
  <2>3. ASSUME Line!Arrive \/ Line!Deliver PROVE LineStep
    BY <1>3, <2>1, <2>3 DEF LineStep, Line!Promised
  <2>4. ASSUME UNCHANGED Line!lineVars PROVE LineStep
    BY <2>4 DEF LineStep
  <2>5. ASSUME UNCHANGED <<ring, main, last, unread>>, Moved' = Moved
        PROVE  RingOK' /\ LineStep
    <3>1. UNCHANGED Line!lineVars
      BY <2>2, <2>5 DEF Line!lineVars
    <3> QED BY <2>1, <2>4, <2>5, <3>1, RingStays
  <2>6. CASE LineByte
    <3>1. DmaOK' /\ Moved' = Moved
      BY <1>3, <2>1, <2>6, LineByteDma
    <3>2. UNCHANGED <<ring, main, last, unread>>
      BY <2>6 DEF LineByte
    <3> QED BY <2>5, <3>1, <3>2 DEF QInv
  <2>7. CASE LineIdle \/ IdleEnter \/ IdleRestart
    <3>1. DmaOK' /\ Moved' = Moved
      BY <2>1, <2>7, IdleDma
    <3>2. UNCHANGED <<ring, main, last, unread>>
      BY <2>7 DEF LineIdle, IdleEnter, IdleRestart
    <3> QED BY <2>5, <3>1, <3>2 DEF QInv
  <2>8. CASE DmaIrq
    BY <1>3, <2>1, <2>3, <2>8, DmaIrqArrives DEF QInv
  <2>9. CASE IdleStop
    BY <1>3, <2>1, <2>3, <2>4, <2>9, IdleStopArrives DEF QInv
  <2>10. ASSUME UNCHANGED <<dma, lastPos, uart, irq, sent>>
         PROVE  DmaOK' /\ Moved' = Moved
    <3>1. Pending' = Pending /\ Held' = Held /\ Moved' = Moved
      BY <2>10 DEF Pending, Held, Moved
    <3> QED BY <2>1, <2>10, <3>1 DEF DmaOK
  <2>11. CASE Take
    <3>1. DmaOK' /\ Moved' = Moved
      BY <2>10, <2>11 DEF Take
    <3> QED BY <2>1, <2>3, <2>11, <3>1, TakeDelivers DEF QInv
  <2>12. CASE Load \/ Store
    <3>1. DmaOK' /\ Moved' = Moved
      BY <2>10, <2>12 DEF Load, Store
    <3> QED BY <2>1, <2>4, <2>12, <3>1, CountStays DEF QInv
  <2>13. CASE UNCHANGED vars
    <3>1. DmaOK' /\ Moved' = Moved
      BY <2>10, <2>13 DEF vars
    <3>2. UNCHANGED <<ring, main, last, unread>>
      BY <2>13 DEF vars
    <3> QED BY <2>5, <3>1, <3>2 DEF QInv
  <2> QED BY <2>6, <2>7, <2>8, <2>9, <2>11, <2>12, <2>13 DEF Next, Interrupts, MainLoop
<1> QED BY <1>2, <1>3

(* The reception is a line that loses bytes only with its flag set and     *)
(* never repeats or reorders any, until an interrupt falls into one of the *)
(* two windows (usart1_dma_rx.c and ringbuffer_large.c).                   *)
THEOREM LineCorrect == Spec => LineSpec
<1>1. Init => Line!LineInit
  <2> SUFFICES ASSUME Init PROVE Line!LineInit
    OBVIOUS
  <2>1. unread = 0 /\ last = 0 /\ ring.overflow = FALSE /\ (~raced) = TRUE
    BY DEF Init, RbInit
  <2>2. [i \in 1 .. unread |-> ring.buffer[(ring.r + i - 1) % RingSize]] = <<>>
    BY <2>1
  <2> QED BY <2>1, <2>2 DEF Line!LineInit
<1>2. IInv => TypeOK
  BY DEF IInv
<1>3. TypeOK /\ QInv /\ [Next]_vars => QInv' /\ [Line!Promised \/ Line!Broken]_(Line!lineVars)
  BY NextLine DEF LineStep
<1> QED BY <1>1, <1>2, <1>3, IInvInvariant, InitQInv, PTL DEF Spec, LineSpec, Line!LineSpec
================================================================================
