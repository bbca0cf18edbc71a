--------------------------- MODULE CardReader_proofs ---------------------------
(***************************************************************************)
(* What the receiver of the card reader promises for any cards that meet a *)
(* condition on their bytes, and for any number of losses.                 *)
(***************************************************************************)
EXTENDS CardReader, SequenceTheorems, FiniteSetTheorems, FunctionTheorems, TLAPS

-----------------------------------------------------------------------------
(* Checksums and frames.                                                   *)

LEMMA ParityType ==
  ASSUME NEW bytes \in Seq(Byte), NEW w \in Nat
  PROVE  Parity(bytes, w) \in 0 .. 1
<1> DEFINE ones == {i \in DOMAIN bytes : (bytes[i] \div w) % 2 = 1}
<1>1. Len(bytes) \in Nat /\ DOMAIN bytes = 1 .. Len(bytes)
  OBVIOUS
<1>2. IsFiniteSet(1 .. Len(bytes))
  BY <1>1, FS_Interval
<1>3. ones \in SUBSET (1 .. Len(bytes))
  BY <1>1
<1> HIDE DEF ones
<1>4. IsFiniteSet(ones)
  BY <1>2, <1>3, FS_Subset
<1>5. Cardinality(ones) \in Nat
  BY <1>4, FS_CardinalityType
<1>6. Cardinality(ones) % 2 \in 0 .. 1
  BY <1>5
<1> QED BY <1>6 DEF Parity, ones

LEMMA ChecksumType ==
  ASSUME NEW bytes \in Seq(Byte)
  PROVE  RFID_CalcChecksum(bytes) \in Byte
<1> DEFINE p1 == Parity(bytes, 1)    p2 == Parity(bytes, 2)
           p4 == Parity(bytes, 4)    p8 == Parity(bytes, 8)
           p16 == Parity(bytes, 16)  p32 == Parity(bytes, 32)
           p64 == Parity(bytes, 64)  p128 == Parity(bytes, 128)
<1>1. /\ p1 \in 0 .. 1 /\ p2 \in 0 .. 1 /\ p4 \in 0 .. 1 /\ p8 \in 0 .. 1
      /\ p16 \in 0 .. 1 /\ p32 \in 0 .. 1 /\ p64 \in 0 .. 1 /\ p128 \in 0 .. 1
  BY ParityType
<1>2. RFID_CalcChecksum(bytes) = 255 - (p1 + 2 * p2 + 4 * p4 + 8 * p8
                                        + 16 * p16 + 32 * p32 + 64 * p64 + 128 * p128)
  BY DEF RFID_CalcChecksum
<1> HIDE DEF p1, p2, p4, p8, p16, p32, p64, p128
<1>3. 255 - (p1 + 2 * p2 + 4 * p4 + 8 * p8 + 16 * p16 + 32 * p32 + 64 * p64 + 128 * p128)
        \in 0 .. 255
  BY <1>1
<1> QED BY <1>2, <1>3, Zenon DEF Byte

LEMMA FramedIs ==
  ASSUME NEW bytes \in Seq(Byte)
  PROVE  /\ Framed(bytes) \in Seq(Byte) /\ Len(Framed(bytes)) = Len(bytes) + 1
         /\ \A i \in 1 .. Len(bytes) : Framed(bytes)[i] = bytes[i]
         /\ Len(bytes) >= 5 => Whole(Framed(bytes))
<1>1. RFID_CalcChecksum(bytes) \in Byte /\ Len(bytes) \in Nat
  BY ChecksumType
<1> DEFINE sum == RFID_CalcChecksum(bytes)
           f == Append(bytes, sum)
<1>2. /\ f \in Seq(Byte) /\ Len(f) = Len(bytes) + 1
      /\ \A i \in 1 .. Len(bytes) : f[i] = bytes[i]
      /\ f[Len(bytes) + 1] = sum
  BY <1>1, AppendProperties
<1>3. SubSeq(f, 1, Len(f) - 1) = bytes
  <2> HIDE DEF sum, f
  <2>1. Len(f) - 1 = Len(bytes)
    BY <1>1, <1>2
  <2>2. /\ SubSeq(f, 1, Len(bytes)) \in Seq(Byte)
        /\ Len(SubSeq(f, 1, Len(bytes))) = Len(bytes)
        /\ \A i \in 1 .. Len(bytes) : SubSeq(f, 1, Len(bytes))[i] = f[i]
    BY <1>1, <1>2
  <2>3. SubSeq(f, 1, Len(bytes)) = bytes
    BY <1>2, <2>2, SeqEqual
  <2> QED BY <2>1, <2>3
<1>4. f[Len(f)] = RFID_CalcChecksum(SubSeq(f, 1, Len(f) - 1))
  BY <1>2, <1>3
<1>5. Framed(bytes) = f
  BY DEF Framed
<1> HIDE DEF f, sum
<1>6. Len(bytes) >= 5 => Whole(f)
  BY <1>1, <1>2, <1>4 DEF Whole
<1> QED BY <1>2, <1>5, <1>6

LEMMA AppendIs ==
  ASSUME NEW s \in Seq(Byte), NEW last \in Byte
  PROVE  /\ Append(s, last) \in Seq(Byte) /\ Len(Append(s, last)) = Len(s) + 1
         /\ \A i \in 1 .. Len(s) : Append(s, last)[i] = s[i]
         /\ Append(s, last)[Len(s) + 1] = last
BY AppendProperties

LEMMA JoinedIs ==
  ASSUME NEW s \in Seq(Byte), NEW t \in Seq(Byte)
  PROVE  /\ s \o t \in Seq(Byte) /\ Len(s \o t) = Len(s) + Len(t)
         /\ \A i \in 1 .. Len(s) : (s \o t)[i] = s[i]
<1>1. Len(s) \in Nat /\ Len(t) \in Nat
  OBVIOUS
<1>2. \A i \in 1 .. Len(s) : i \in 1 .. Len(s) + Len(t) /\ i <= Len(s)
  BY <1>1
<1> QED BY <1>2, ConcatProperties

LEMMA CardBytes ==
  ASSUME NEW c \in Cards
  PROVE  /\ c.uid \in Seq(Byte) /\ Len(c.uid) = 4
         /\ c.data \in Seq(Byte) /\ Len(c.data) = 16
<1>1. c.uid \in [1 .. 4 -> Byte] /\ c.data \in [1 .. 16 -> Byte]
  BY CardReaderAssumption
<1>2. 4 \in Nat /\ 16 \in Nat
  OBVIOUS
<1>9. ASSUME NEW n \in Nat, NEW s \in [1 .. n -> Byte]  PROVE s \in Seq(Byte)
  BY SeqDef, Zenon
<1>3. c.uid \in Seq(Byte)
  BY <1>1, <1>2, <1>9
<1>4. c.data \in Seq(Byte)
  BY <1>1, <1>2, <1>9
<1>5. DOMAIN c.uid = 1 .. 4 /\ DOMAIN c.data = 1 .. 16
  BY <1>1, Zenon
<1>6. DOMAIN c.uid = 1 .. Len(c.uid) /\ DOMAIN c.data = 1 .. Len(c.data)
      /\ Len(c.uid) \in Nat /\ Len(c.data) \in Nat
  BY <1>3, <1>4, LenProperties, Zenon
<1>7. ASSUME NEW n \in Nat, NEW k \in Nat, 1 .. n = 1 .. k  PROVE  n = k
  <2>1. n >= 1 => n \in 1 .. k
    BY <1>7
  <2>2. k >= 1 => k \in 1 .. n
    BY <1>7
  <2> QED BY <2>1, <2>2
<1>8. Len(c.uid) = 4 /\ Len(c.data) = 16
  BY <1>2, <1>5, <1>6, <1>7, Zenon
<1> QED BY <1>3, <1>4, <1>8

IdBlock(c) == AutoFrame("idblock", c)

LEMMA AutoFrameIs ==
  ASSUME NEW c
  PROVE  /\ AutoFrame("id", c) = Framed(<<4, 12, 2, 48, 0, 4, 0>> \o c.uid)
         /\ AutoFrame("block", c) = Framed(<<4, 22, 3, 48, 0>> \o c.data)
         /\ AutoFrame("idblock", c) = Framed(<<4, 28, 4, 48, 0, 4, 0>> \o c.uid \o c.data)
BY DEF AutoFrame

(* The frame of a card and its block: 28 bytes.                            *)
LEMMA IdBlockIs ==
  ASSUME NEW c \in Cards
  PROVE  /\ IdBlock(c) \in Seq(Byte) /\ Len(IdBlock(c)) = 28
         /\ IdBlock(c)[1] = 4 /\ IdBlock(c)[2] = 28 /\ IdBlock(c)[3] = 4
         /\ IdBlock(c)[4] = 48 /\ IdBlock(c)[5] = 0 /\ IdBlock(c)[6] = 4
         /\ IdBlock(c)[7] = 0
         /\ Whole(IdBlock(c)) /\ IsAuto(IdBlock(c))
<1> DEFINE head == <<4, 28, 4, 48, 0, 4, 0>>
           one == head \o c.uid
           two == one \o c.data
<1>1. /\ head \in Seq(Byte) /\ Len(head) = 7
      /\ head[1] = 4 /\ head[2] = 28 /\ head[3] = 4 /\ head[4] = 48 /\ head[5] = 0
      /\ head[6] = 4 /\ head[7] = 0
  BY DEF Byte
<1>2. IdBlock(c) = Framed(two)
  BY AutoFrameIs DEF IdBlock
<1> HIDE DEF head
<1>3. c.uid \in Seq(Byte) /\ Len(c.uid) = 4 /\ c.data \in Seq(Byte) /\ Len(c.data) = 16
  BY CardBytes
<1>4. /\ one \in Seq(Byte) /\ Len(one) = 11
      /\ \A i \in 1 .. 7 : one[i] = head[i]
  <2>1. /\ one \in Seq(Byte) /\ Len(one) = Len(head) + Len(c.uid)
        /\ \A i \in 1 .. Len(head) : one[i] = head[i]
    BY <1>1, <1>3, JoinedIs
  <2> HIDE DEF one
  <2> QED BY <1>1, <1>3, <2>1
<1> HIDE DEF one
<1>5. /\ two \in Seq(Byte) /\ Len(two) = 27
      /\ \A i \in 1 .. 11 : two[i] = one[i]
  <2>1. /\ two \in Seq(Byte) /\ Len(two) = Len(one) + Len(c.data)
        /\ \A i \in 1 .. Len(one) : two[i] = one[i]
    BY <1>3, <1>4, JoinedIs
  <2> HIDE DEF two
  <2> QED BY <1>3, <1>4, <2>1
<1> HIDE DEF two
<1>6. /\ IdBlock(c) \in Seq(Byte) /\ Len(IdBlock(c)) = 28 /\ Whole(IdBlock(c))
      /\ \A i \in 1 .. 27 : IdBlock(c)[i] = two[i]
  <2>1. /\ Framed(two) \in Seq(Byte) /\ Len(Framed(two)) = Len(two) + 1
        /\ \A i \in 1 .. Len(two) : Framed(two)[i] = two[i]
        /\ Len(two) >= 5 => Whole(Framed(two))
    BY <1>5, FramedIs
  <2> QED BY <1>2, <1>5, <2>1
<1>7. \A i \in 1 .. 7 : IdBlock(c)[i] = head[i]
  <2>1. SUFFICES ASSUME NEW i \in 1 .. 7  PROVE IdBlock(c)[i] = head[i]
    OBVIOUS
  <2>2. i \in 1 .. 11 /\ i \in 1 .. 27
    OBVIOUS
  <2> QED BY <1>4, <1>5, <1>6, <2>1, <2>2, Zenon
<1>8. /\ IdBlock(c)[1] = 4 /\ IdBlock(c)[2] = 28 /\ IdBlock(c)[3] = 4
      /\ IdBlock(c)[4] = 48 /\ IdBlock(c)[5] = 0 /\ IdBlock(c)[6] = 4
      /\ IdBlock(c)[7] = 0
  BY <1>1, <1>7
<1> QED BY <1>6, <1>8 DEF IsAuto

LEMMA AutoFrameType ==
  ASSUME NEW m \in Modes \ {"command"}, NEW c \in Cards
  PROVE  /\ AutoFrame(m, c) \in Seq(Byte) /\ Len(AutoFrame(m, c)) \in {12, 22, 28}
         /\ AutoFrame(m, c)[1] = 4 /\ AutoFrame(m, c)[2] = Len(AutoFrame(m, c))
         /\ AutoFrame(m, c)[3] \in 2 .. 4 /\ (AutoFrame(m, c)[3] = 4 => m = "idblock")
         /\ Whole(AutoFrame(m, c))
<1>1. c.uid \in Seq(Byte) /\ Len(c.uid) = 4 /\ c.data \in Seq(Byte) /\ Len(c.data) = 16
  BY CardBytes
<1>2. CASE m = "id"
  <2> DEFINE head == <<4, 12, 2, 48, 0, 4, 0>>
             one == head \o c.uid
  <2>1. head \in Seq(Byte) /\ Len(head) = 7 /\ head[1] = 4 /\ head[2] = 12 /\ head[3] = 2
    BY DEF Byte
  <2>2. AutoFrame(m, c) = Framed(one)
    BY <1>2, AutoFrameIs
  <2> HIDE DEF head
  <2>3. /\ one \in Seq(Byte) /\ Len(one) = Len(head) + Len(c.uid)
        /\ \A i \in 1 .. Len(head) : one[i] = head[i]
    BY <1>1, <2>1, JoinedIs
  <2> HIDE DEF one
  <2>4. /\ Framed(one) \in Seq(Byte) /\ Len(Framed(one)) = Len(one) + 1
        /\ \A i \in 1 .. Len(one) : Framed(one)[i] = one[i]
        /\ Len(one) >= 5 => Whole(Framed(one))
    BY <2>3, FramedIs
  <2> QED BY <1>1, <2>1, <2>2, <2>3, <2>4
<1>3. CASE m = "block"
  <2> DEFINE head == <<4, 22, 3, 48, 0>>
             one == head \o c.data
  <2>1. head \in Seq(Byte) /\ Len(head) = 5 /\ head[1] = 4 /\ head[2] = 22 /\ head[3] = 3
    BY DEF Byte
  <2>2. AutoFrame(m, c) = Framed(one)
    BY <1>3, AutoFrameIs
  <2> HIDE DEF head
  <2>3. /\ one \in Seq(Byte) /\ Len(one) = Len(head) + Len(c.data)
        /\ \A i \in 1 .. Len(head) : one[i] = head[i]
    BY <1>1, <2>1, JoinedIs
  <2> HIDE DEF one
  <2>4. /\ Framed(one) \in Seq(Byte) /\ Len(Framed(one)) = Len(one) + 1
        /\ \A i \in 1 .. Len(one) : Framed(one)[i] = one[i]
        /\ Len(one) >= 5 => Whole(Framed(one))
    BY <2>3, FramedIs
  <2> QED BY <1>1, <2>1, <2>2, <2>3, <2>4
<1>4. CASE m = "idblock"
  <2>1. AutoFrame(m, c) = IdBlock(c)
    BY <1>4 DEF IdBlock
  <2>2. IdBlock(c) \in Seq(Byte) /\ Len(IdBlock(c)) = 28 /\ Whole(IdBlock(c))
        /\ IdBlock(c)[1] = 4 /\ IdBlock(c)[2] = 28 /\ IdBlock(c)[3] = 4
    BY IdBlockIs
  <2>3. 28 \in {12, 22, 28} /\ 4 \in 2 .. 4
    OBVIOUS
  <2> QED BY <1>4, <2>1, <2>2, <2>3, Zenon
<1> QED BY <1>2, <1>3, <1>4 DEF Modes

LEMMA AnswerType ==
  /\ Answer \in Seq(Byte) /\ Len(Answer) = 8
  /\ Answer[1] = 1 /\ Answer[2] = 8 /\ Answer[3] = 161 /\ Answer[4] = 48
  /\ Answer[5] = 0 /\ Answer[6] = 0 /\ Answer[7] = 0
<1> DEFINE head == <<1, 8, SetWorkMode, 48, 0, 0, 0>>
<1>1. /\ head \in Seq(Byte) /\ Len(head) = 7
      /\ head[1] = 1 /\ head[2] = 8 /\ head[3] = 161 /\ head[4] = 48 /\ head[5] = 0
      /\ head[6] = 0 /\ head[7] = 0
  BY DEF Byte, SetWorkMode
<1>2. Answer = Framed(head)
  BY DEF Answer
<1> HIDE DEF head
<1>3. /\ Framed(head) \in Seq(Byte) /\ Len(Framed(head)) = Len(head) + 1
      /\ \A i \in 1 .. Len(head) : Framed(head)[i] = head[i]
  BY <1>1, FramedIs
<1> QED BY <1>1, <1>2, <1>3

-----------------------------------------------------------------------------
(* Types.                                                                  *)

TypeOK ==
  /\ reader \in [mode: Modes, out: Seq(Byte), owes: BOOLEAN]
  /\ rx \in [buf: Seq(Byte), expected: Byte, ready: BOOLEAN]
  /\ program \in {"setting", "waiting", "running"}
  /\ mode \in {"command", "idblock"}
  /\ recent \in BOOLEAN
  /\ unread \in Nat
  /\ lost \in SUBSET (0 .. 4)
  /\ faults \in 0 .. MaxFaults

LEMMA EmptyType == Empty \in [buf: Seq(Byte), expected: Byte, ready: BOOLEAN]
<1>1. <<>> \in Seq(Byte) /\ 0 \in Byte
  BY DEF Byte
<1> QED BY <1>1 DEF Empty

(* The byte is kept after the others, ignored, or drops them.              *)
LEMMA OnRxByteBuf ==
  ASSUME rx \in [buf: Seq(Byte), expected: Byte, ready: BOOLEAN], NEW byte \in Byte
  PROVE  /\ RFID_OnRxByte(byte) \in [buf: Seq(Byte), expected: Byte, ready: BOOLEAN]
         /\ \/ RFID_OnRxByte(byte) = rx
            \/ RFID_OnRxByte(byte) = Empty
            \/ RFID_OnRxByte(byte).buf = Append(rx.buf, byte)
<1> DEFINE buf == Append(rx.buf, byte)
           expected == IF Len(buf) = 2 THEN byte ELSE rx.expected
           ready == expected # 0 /\ Len(buf) >= expected
           kept == [buf |-> buf, expected |-> expected, ready |-> ready]
<1>1. /\ RFID_OnRxByte(byte) \in {rx, Empty, kept}
  BY DEF RFID_OnRxByte
<1>2. kept \in [buf: Seq(Byte), expected: Byte, ready: BOOLEAN]
  <2>1. buf \in Seq(Byte)
    OBVIOUS
  <2>2. expected \in Byte
    OBVIOUS
  <2>3. ready \in BOOLEAN
    OBVIOUS
  <2> HIDE DEF buf, expected, ready
  <2> QED BY <2>1, <2>2, <2>3
<1>3. kept.buf = buf
  OBVIOUS
<1> HIDE DEF kept
<1> QED BY <1>1, <1>2, <1>3, EmptyType

LEMMA OutHeadTail ==
  ASSUME NEW s \in Seq(Byte), s # <<>>
  PROVE  /\ Head(s) \in Byte /\ Tail(s) \in Seq(Byte) /\ Len(s) >= 1
         /\ Head(s) = s[1] /\ Len(Tail(s)) = Len(s) - 1
         /\ \A i \in 1 .. Len(s) - 1 : i + 1 \in 1 .. Len(s) /\ Tail(s)[i] = s[i + 1]
<1>1. Len(s) \in Nat /\ Len(s) # 0
  BY EmptySeq
<1>2. Head(s) = s[1] /\ Tail(s) \in Seq(Byte) /\ Len(Tail(s)) = Len(s) - 1
  BY HeadTailProperties
<1>3. \A i \in 1 .. Len(s) - 1 : Tail(s)[i] = s[i + 1]
  BY <1>1, <1>2, HeadTailProperties
<1>4. \A i \in 1 .. Len(s) - 1 : i + 1 \in 1 .. Len(s)
  BY <1>1
<1>5. s[1] \in Byte
  BY <1>1
<1> QED BY <1>1, <1>2, <1>3, <1>4, <1>5

LEMMA InitType == Init => TypeOK
<1> SUFFICES ASSUME Init PROVE TypeOK
  OBVIOUS
<1>1. reader \in [mode: Modes, out: Seq(Byte), owes: BOOLEAN]
  <2>1. <<>> \in Seq(Byte)
    OBVIOUS
  <2> QED BY <2>1, CardReaderAssumption DEF Init
<1>2. rx \in [buf: Seq(Byte), expected: Byte, ready: BOOLEAN]
  BY EmptyType DEF Init
<1> QED BY <1>1, <1>2, CardReaderAssumption DEF Init, TypeOK

LEMMA NextType == TypeOK /\ [Next]_vars => TypeOK'
<1> SUFFICES ASSUME TypeOK, [Next]_vars PROVE TypeOK'
  OBVIOUS
<1> USE DEF TypeOK
<1>1. CASE \E c \in Cards : CardShown(c)
  <2> PICK c \in Cards : CardShown(c)
    BY <1>1
  <2>1. reader.mode \in Modes \ {"command"}
    BY DEF CardShown
  <2>2. AutoFrame(reader.mode, c) \in Seq(Byte)
    BY <2>1, AutoFrameType
  <2> QED BY <2>2 DEF CardShown
<1>2. CASE ReaderAnswers
  <2>1. "idblock" \in Modes
    BY DEF Modes
  <2> QED BY <1>2, <2>1, AnswerType DEF ReaderAnswers
<1>3. CASE ByteComes
  <2>1. reader.out \in Seq(Byte) /\ reader.out # <<>>
    BY <1>3 DEF ByteComes
  <2>2. Head(reader.out) \in Byte /\ Tail(reader.out) \in Seq(Byte)
    BY <2>1, OutHeadTail
  <2>3. RFID_OnRxByte(Head(reader.out)) \in [buf: Seq(Byte), expected: Byte, ready: BOOLEAN]
    BY <2>2, OnRxByteBuf
  <2> QED BY <1>3, <2>2, <2>3 DEF ByteComes
<1>4. CASE ByteLost
  <2>1. reader.out \in Seq(Byte) /\ reader.out # <<>>
    BY <1>4 DEF ByteLost
  <2>2. Tail(reader.out) \in Seq(Byte)
    BY <2>1, OutHeadTail
  <2>3. lost' \in SUBSET (0 .. 4)
    BY <1>4 DEF ByteLost, Headers
  <2>4. faults' \in 0 .. MaxFaults
    BY <1>4, CardReaderAssumption DEF ByteLost
  <2> QED BY <1>4, <2>2, <2>3, <2>4 DEF ByteLost
<1>5. CASE \E arrives \in BOOLEAN : SendMode(arrives)
  <2> PICK arrives \in BOOLEAN : SendMode(arrives)
    BY <1>5
  <2>1. faults' \in 0 .. MaxFaults
    BY CardReaderAssumption DEF SendMode
  <2> QED BY <2>1, EmptyType DEF SendMode
<1>6. CASE RFID_WaitConfigResp
  BY <1>6, EmptyType DEF RFID_WaitConfigResp, RFID_TryGetFrame
<1>7. CASE SetModeTimeout
  BY <1>7 DEF SetModeTimeout
<1>8. CASE rfid_task
  <2>1. unread' \in Nat
    BY <1>8 DEF rfid_task
  <2>2. recent' \in BOOLEAN
    BY <1>8 DEF rfid_task
  <2>3. rx' \in [buf: Seq(Byte), expected: Byte, ready: BOOLEAN]
    BY <1>8, EmptyType DEF rfid_task, RFID_TryGetFrame
  <2> QED BY <1>8, <2>1, <2>2, <2>3 DEF rfid_task
<1>9. CASE TwoSeconds
  BY <1>9 DEF TwoSeconds
<1>10. CASE UNCHANGED vars
  BY <1>10 DEF vars
<1> QED BY <1>1, <1>2, <1>3, <1>4, <1>5, <1>6, <1>7, <1>8, <1>9, <1>10 DEF Next

(* Every variable keeps its type: what the receiver holds are bytes, and   *)
(* the line has lost nothing but what the bound allows.                    *)
THEOREM CardReaderTypes == Spec => []TypeOK
<1> QED BY InitType, NextType, PTL DEF Spec

-----------------------------------------------------------------------------
(* The mode.                                                               *)

Without(s, byte) == \A i \in 1 .. Len(s) : s[i] # byte

LEMMA WithoutTail ==
  ASSUME NEW s \in Seq(Byte), s # <<>>, NEW byte, Without(s, byte)
  PROVE  Head(s) # byte /\ Without(Tail(s), byte)
<1>1. Len(s) \in Nat /\ 1 \in 1 .. Len(s)
  BY OutHeadTail
<1> QED BY <1>1, OutHeadTail DEF Without

LEMMA WithoutAppend ==
  ASSUME NEW s \in Seq(Byte), NEW last \in Byte, NEW byte, Without(s, byte), last # byte
  PROVE  Without(Append(s, last), byte)
<1>1. Len(s) \in Nat /\ Len(Append(s, last)) = Len(s) + 1
  BY AppendProperties
<1>2. SUFFICES ASSUME NEW i \in 1 .. Len(s) + 1  PROVE Append(s, last)[i] # byte
  BY <1>1 DEF Without
<1>3. CASE i = Len(s) + 1
  BY <1>3, AppendProperties
<1>4. CASE i # Len(s) + 1
  <2>1. i \in 1 .. Len(s)
    BY <1>1, <1>4
  <2> QED BY <2>1, AppendProperties DEF Without
<1> QED BY <1>3, <1>4

(* Before the reader has carried the command out no byte on the way, nor   *)
(* one the receiver holds, can be the answer's third.                      *)
ModeInv ==
  /\ TypeOK
  /\ reader.mode # "idblock" => /\ Without(reader.out, SetWorkMode)
                                /\ Without(rx.buf, SetWorkMode)
  /\ ModeIsTrue

LEMMA WithoutEmpty == Without(<<>>, SetWorkMode)
BY DEF Without

LEMMA InitMode == Init => ModeInv
BY InitType, WithoutEmpty DEF Init, ModeInv, ModeIsTrue, Empty

LEMMA NextMode ==
  ASSUME NoAnswerByte, ModeInv, [Next]_vars
  PROVE  ModeInv'
<1>1. TypeOK /\ TypeOK'
  BY NextType DEF ModeInv
<1>2. ModeIsTrue /\ (reader.mode # "idblock" => /\ Without(reader.out, SetWorkMode)
                                                /\ Without(rx.buf, SetWorkMode))
  BY DEF ModeInv
<1>3. SUFFICES /\ reader'.mode # "idblock" => /\ Without(reader'.out, SetWorkMode)
                                              /\ Without(rx'.buf, SetWorkMode)
               /\ ModeIsTrue'
  BY <1>1 DEF ModeInv
<1>4. Without(Empty.buf, SetWorkMode)
  BY WithoutEmpty DEF Empty
<1> USE DEF ModeIsTrue
<1>5. CASE \E c \in Cards : CardShown(c)
  <2> PICK c \in Cards : CardShown(c)
    BY <1>5
  <2>1. reader.mode \in Modes \ {"command"}
    BY <1>1 DEF CardShown, TypeOK
  <2>2. reader' = [mode |-> reader.mode, out |-> AutoFrame(reader.mode, c), owes |-> reader.owes]
    BY <1>1 DEF CardShown, TypeOK
  <2>3. Without(AutoFrame(reader.mode, c), SetWorkMode)
    <3>1. AutoFrame(reader.mode, c) \in Seq(Byte)
      BY <2>1, AutoFrameType
    <3>2. DOMAIN AutoFrame(reader.mode, c) = 1 .. Len(AutoFrame(reader.mode, c))
      BY <3>1
    <3> QED BY <2>1, <3>2 DEF NoAnswerByte, Without
  <2> QED BY <1>2, <2>2, <2>3 DEF CardShown
<1>6. CASE ReaderAnswers
  BY <1>6 DEF ReaderAnswers
<1>7. CASE ByteComes
  <2>1. reader.out \in Seq(Byte) /\ reader.out # <<>> /\ rx.buf \in Seq(Byte)
    BY <1>1, <1>7 DEF ByteComes, TypeOK
  <2>2. reader' = [mode |-> reader.mode, out |-> Tail(reader.out), owes |-> reader.owes]
    BY <1>1, <1>7 DEF ByteComes, TypeOK
  <2>3. Head(reader.out) \in Byte
    BY <2>1, OutHeadTail
  <2>4. reader.mode # "idblock" => /\ Without(Tail(reader.out), SetWorkMode)
                                   /\ Without(Append(rx.buf, Head(reader.out)), SetWorkMode)
    BY <1>2, <2>1, <2>3, WithoutTail, WithoutAppend
  <2>5. \/ rx' = rx
        \/ rx' = Empty
        \/ rx'.buf = Append(rx.buf, Head(reader.out))
    BY <1>1, <1>7, <2>3, OnRxByteBuf DEF ByteComes, TypeOK
  <2>6. mode' = mode
    BY <1>7 DEF ByteComes
  <2> QED BY <1>2, <1>4, <2>2, <2>4, <2>5, <2>6
<1>8. CASE ByteLost
  <2>1. reader.out \in Seq(Byte) /\ reader.out # <<>>
    BY <1>1, <1>8 DEF ByteLost, TypeOK
  <2>2. reader' = [mode |-> reader.mode, out |-> Tail(reader.out), owes |-> reader.owes]
    BY <1>1, <1>8 DEF ByteLost, TypeOK
  <2>3. rx' = rx /\ mode' = mode
    BY <1>8 DEF ByteLost
  <2> QED BY <1>2, <2>1, <2>2, <2>3, WithoutTail
<1>9. CASE \E arrives \in BOOLEAN : SendMode(arrives)
  <2> PICK arrives \in BOOLEAN : SendMode(arrives)
    BY <1>9
  <2>1. reader' = [mode |-> reader.mode, out |-> reader.out, owes |-> arrives]
    BY <1>1 DEF SendMode, TypeOK
  <2> QED BY <1>2, <1>4, <2>1 DEF SendMode
<1>10. CASE RFID_WaitConfigResp
  <2>1. rx' = Empty /\ reader' = reader
    BY <1>10 DEF RFID_WaitConfigResp, RFID_TryGetFrame
  <2>2. CASE Whole(rx.buf) /\ IsAnswer(rx.buf)
    <3>1. 3 \in 1 .. Len(rx.buf) /\ rx.buf[3] = SetWorkMode
      BY <1>1, <2>2 DEF Whole, IsAnswer, TypeOK
    <3>2. reader.mode = "idblock"
      BY <1>2, <3>1 DEF Without
    <3> QED BY <1>4, <2>1, <3>2
  <2>3. CASE ~(Whole(rx.buf) /\ IsAnswer(rx.buf))
    <3>1. mode' = mode
      BY <1>10, <2>3 DEF RFID_WaitConfigResp
    <3> QED BY <1>2, <1>4, <2>1, <3>1
  <2> QED BY <2>2, <2>3
<1>11. CASE SetModeTimeout
  BY <1>2, <1>11 DEF SetModeTimeout
<1>12. CASE rfid_task
  BY <1>2, <1>4, <1>12 DEF rfid_task, RFID_TryGetFrame
<1>13. CASE TwoSeconds
  BY <1>2, <1>13 DEF TwoSeconds
<1>14. CASE UNCHANGED vars
  BY <1>2, <1>14 DEF vars
<1> QED BY <1>5, <1>6, <1>7, <1>8, <1>9, <1>10, <1>11, <1>12, <1>13, <1>14 DEF Next

(* A reader believed to send card numbers does, for any number of losses   *)
(* and any lateness of the task, where no card's frame holds the byte that *)
(* names the setting of the mode.                                          *)
THEOREM CardReaderModeIsTrue ==
  ASSUME NoAnswerByte
  PROVE  Spec => []ModeIsTrue
<1>1. Init => ModeInv
  BY InitMode
<1>2. ModeInv /\ [Next]_vars => ModeInv'
  BY NextMode
<1>3. ModeInv => ModeIsTrue
  BY DEF ModeInv
<1> QED BY <1>1, <1>2, <1>3, PTL DEF Spec

-----------------------------------------------------------------------------
(* The receiver's bounds.                                                  *)

(* Nothing, a header, or from the length byte on no more than the length,  *)
(* which is at most the 64 bytes of s_rx_buf (rfid_reader.c:94).           *)
RxOK ==
  \/ Len(rx.buf) \in 0 .. 1 /\ rx.expected = 0 /\ ~rx.ready
  \/ /\ rx.expected \in 6 .. 64
     /\ Len(rx.buf) \in 2 .. rx.expected
     /\ rx.ready <=> Len(rx.buf) = rx.expected

LEMMA EmptyOK == Empty.buf = <<>> /\ Len(Empty.buf) = 0 /\ Empty.expected = 0 /\ ~Empty.ready
BY DEF Empty

LEMMA NotYetAll ==
  ASSUME NEW n \in Nat, NEW e, e \in 6 .. 64, n \in 2 .. e, n # e
  PROVE  n < e /\ n + 1 \in 2 .. e
OBVIOUS

LEMMA FromTwo ==
  ASSUME NEW n \in Nat
  PROVE  /\ n = 0 \/ n = 1 \/ n >= 2
         /\ n >= 2 => ~(n \in 0 .. 1)
OBVIOUS

(* RFID_OnRxByte, case by case.                                            *)
LEMMA OnRxByteIs ==
  ASSUME rx \in [buf: Seq(Byte), expected: Byte, ready: BOOLEAN], RxOK, NEW byte \in Byte
  PROVE  /\ rx.ready => RFID_OnRxByte(byte) = rx
         /\ rx.buf = <<>> /\ byte \notin Headers => RFID_OnRxByte(byte) = rx
         /\ rx.buf = <<>> /\ byte \in Headers =>
              RFID_OnRxByte(byte) = [buf |-> <<byte>>, expected |-> 0, ready |-> FALSE]
         /\ Len(rx.buf) = 1 /\ byte \notin 6 .. 64 => RFID_OnRxByte(byte) = Empty
         /\ Len(rx.buf) = 1 /\ byte \in 6 .. 64 =>
              RFID_OnRxByte(byte) =
                [buf |-> Append(rx.buf, byte), expected |-> byte, ready |-> FALSE]
         /\ ~rx.ready /\ Len(rx.buf) >= 2 =>
              RFID_OnRxByte(byte) = [buf |-> Append(rx.buf, byte), expected |-> rx.expected,
                                     ready |-> Len(rx.buf) + 1 = rx.expected]
<1>1. rx.buf \in Seq(Byte)
  OBVIOUS
<1> DEFINE n == Len(rx.buf)
<1>2. n \in Nat
  BY <1>1
<1>3. rx.expected \in 0 .. 255 /\ byte \in 0 .. 255
  BY DEF Byte
<1>4. Len(Append(rx.buf, byte)) = n + 1
  BY <1>1, AppendProperties
<1>5. rx.buf = <<>> <=> n = 0
  BY <1>1, EmptySeq
<1>6. \/ n \in 0 .. 1 /\ rx.expected = 0 /\ ~rx.ready
      \/ rx.expected \in 6 .. 64 /\ n \in 2 .. rx.expected /\ (rx.ready <=> n = rx.expected)
  BY DEF RxOK
<1> DEFINE buf == Append(rx.buf, byte)
           expected == IF Len(buf) = 2 THEN byte ELSE rx.expected
<1>7. RFID_OnRxByte(byte) =
        CASE rx.ready                                         -> rx
          [] ~rx.ready /\ rx.buf = <<>> /\ byte \notin Headers -> rx
          [] Len(buf) = 2 /\ byte \notin 6 .. 64              -> Empty
          [] OTHER -> [buf |-> buf, expected |-> expected,
                       ready |-> expected # 0 /\ Len(buf) >= expected]
  BY Zenon DEF RFID_OnRxByte
<1> HIDE DEF n, buf
<1>8. rx.ready => n >= 2
  BY <1>2, <1>6
<1>9. rx.ready => RFID_OnRxByte(byte) = rx
  <2>1. rx.ready => Len(buf) # 2
    BY <1>2, <1>4, <1>8 DEF buf
  <2>2. rx.ready => rx.buf # <<>>
    BY <1>2, <1>5, <1>8
  <2> QED BY <1>7, <2>1, <2>2
<1>10. rx.buf = <<>> => ~rx.ready /\ rx.expected = 0 /\ Len(buf) = 1
  BY <1>2, <1>4, <1>5, <1>6 DEF buf
<1>11. ASSUME rx.buf = <<>>, byte \notin Headers PROVE RFID_OnRxByte(byte) = rx
  <2>1. ~rx.ready /\ Len(buf) # 2
    BY <1>10, <1>11
  <2> HIDE DEF expected
  <2> QED BY <1>7, <1>11, <2>1
<1>12. ASSUME rx.buf = <<>>, byte \in Headers
       PROVE  RFID_OnRxByte(byte) = [buf |-> <<byte>>, expected |-> 0, ready |-> FALSE]
  <2>1. buf = <<byte>>
    BY <1>12 DEF buf
  <2>2. RFID_OnRxByte(byte) = [buf |-> buf, expected |-> 0, ready |-> FALSE]
    <3>1. Len(buf) # 2 /\ ~(0 # 0 /\ Len(buf) >= 0)
      BY <1>10, <1>12
    <3>2. expected = 0
      BY <1>10, <1>12, <3>1
    <3> HIDE DEF expected
    <3> QED BY <1>7, <1>10, <1>12, <3>1, <3>2, Zenon
  <2> QED BY <2>1, <2>2
<1>13. n = 1 => rx.buf # <<>> /\ ~rx.ready /\ rx.expected = 0 /\ Len(buf) = 2
  BY <1>2, <1>4, <1>5, <1>6 DEF buf
<1>14. n = 1 /\ byte \notin 6 .. 64 => RFID_OnRxByte(byte) = Empty
  BY <1>7, <1>13
<1>15. ASSUME n = 1, byte \in 6 .. 64
       PROVE  RFID_OnRxByte(byte) = [buf |-> buf, expected |-> byte, ready |-> FALSE]
  <2>1. ~(byte # 0 /\ 2 >= byte)
    BY <1>15
  <2> QED BY <1>7, <1>13, <1>15, <2>1
<1>16. ASSUME ~rx.ready, n >= 2
       PROVE  RFID_OnRxByte(byte) = [buf |-> buf, expected |-> rx.expected,
                                     ready |-> n + 1 = rx.expected]
  <2>1. rx.buf # <<>> /\ Len(buf) # 2
    BY <1>2, <1>4, <1>5, <1>16 DEF buf
  <2>2. RFID_OnRxByte(byte) = [buf |-> buf, expected |-> rx.expected,
                               ready |-> rx.expected # 0 /\ Len(buf) >= rx.expected]
    BY <1>7, <1>16, <2>1
  <2>3. rx.expected \in 6 .. 64 /\ n < rx.expected
    <3>1. ~(n \in 0 .. 1)
      BY <1>2, <1>16
    <3>2. rx.expected \in 6 .. 64 /\ n \in 2 .. rx.expected /\ n # rx.expected
      BY <1>6, <1>16, <3>1, Zenon
    <3> QED BY <1>2, <3>2, NotYetAll, Zenon
  <2>4. Len(buf) = n + 1
    BY <1>4 DEF buf
  <2> DEFINE e == rx.expected
             l == Len(buf)
  <2>7. e \in 6 .. 64 /\ n < e /\ l = n + 1
    BY <2>3, <2>4
  <2> HIDE DEF e, l
  <2>8. e # 0 /\ l >= e <=> n + 1 = e
    BY <1>2, <2>7
  <2>5. rx.expected # 0 /\ Len(buf) >= rx.expected <=> n + 1 = rx.expected
    BY <2>8 DEF e, l
  <2>6. (rx.expected # 0 /\ Len(buf) >= rx.expected) = (n + 1 = rx.expected)
    BY <2>5, Zenon
  <2> QED BY <2>2, <2>6, Zenon
<1> QED BY <1>9, <1>11, <1>12, <1>14, <1>15, <1>16 DEF buf, n

LEMMA OnRxByteOK ==
  ASSUME TypeOK, RxOK, NEW byte \in Byte, rx' = RFID_OnRxByte(byte)
  PROVE  RxOK'
<1>1. rx \in [buf: Seq(Byte), expected: Byte, ready: BOOLEAN]
  BY DEF TypeOK
<1> DEFINE n == Len(rx.buf)
<1>2. n \in Nat
  BY <1>1
<1>3. rx.buf = <<>> <=> n = 0
  BY <1>1, EmptySeq
<1>4. Len(Append(rx.buf, byte)) = n + 1
  BY <1>1, AppendProperties
<1>5. CASE rx' = rx
  BY <1>5 DEF RxOK
<1>6. CASE rx' = Empty
  BY <1>6, EmptyOK DEF RxOK
<1>7. CASE rx.buf = <<>> /\ byte \in Headers
  <2>1. rx' = [buf |-> <<byte>>, expected |-> 0, ready |-> FALSE]
    BY <1>1, <1>7, OnRxByteIs
  <2>2. Len(<<byte>>) = 1
    OBVIOUS
  <2> QED BY <2>1, <2>2 DEF RxOK
<1>8. CASE n = 1 /\ byte \in 6 .. 64
  <2>1. rx' = [buf |-> Append(rx.buf, byte), expected |-> byte, ready |-> FALSE]
    BY <1>1, <1>8, OnRxByteIs
  <2>2. Len(rx'.buf) = 2 /\ rx'.expected = byte /\ ~rx'.ready
    BY <1>4, <1>8, <2>1
  <2>3. 2 \in 2 .. byte /\ 2 # byte
    BY <1>8
  <2> HIDE DEF n
  <2> QED BY <1>8, <2>2, <2>3 DEF RxOK
<1>9. CASE ~rx.ready /\ n >= 2
  <2> DEFINE all == n + 1 = rx.expected
  <2>1. rx' = [buf |-> Append(rx.buf, byte), expected |-> rx.expected, ready |-> all]
    BY <1>1, <1>9, OnRxByteIs
  <2>2. rx.expected \in 6 .. 64 /\ n \in 2 .. rx.expected /\ n # rx.expected
    <3>1. ~(n \in 0 .. 1)
      BY <1>2, <1>9, FromTwo, Zenon
    <3> QED BY <1>9, <3>1, Zenon DEF RxOK
  <2> DEFINE e == rx.expected
  <2>8. e \in 6 .. 64 /\ n \in 2 .. e /\ n # e
    BY <2>2
  <2> HIDE DEF e, n
  <2>9. n + 1 \in 2 .. e
    BY <1>2, <2>8
  <2>3. n + 1 \in 2 .. rx.expected
    BY <2>9 DEF e
  <2>4. all \in BOOLEAN
    OBVIOUS
  <2> HIDE DEF all, n
  <2>5. Len(rx'.buf) = n + 1 /\ rx'.expected = rx.expected
    BY <1>4, <2>1 DEF n
  <2>6. rx'.ready = all
    BY <2>1
  <2>7. rx'.ready <=> Len(rx'.buf) = rx'.expected
    BY <2>5, <2>6 DEF all
  <2> QED BY <2>2, <2>3, <2>5, <2>7 DEF RxOK
<1>10. (rx.ready => rx' = rx) /\ (rx.buf = <<>> /\ byte \notin Headers => rx' = rx)
  BY <1>1, OnRxByteIs
<1>11. n = 1 /\ byte \notin 6 .. 64 => rx' = Empty
  BY <1>1, OnRxByteIs
<1> HIDE DEF n
<1>12. n = 0 \/ n = 1 \/ n >= 2
  BY <1>2, FromTwo, Zenon
<1>13. rx.ready \/ ~rx.ready
  OBVIOUS
<1>14. CASE n = 0
  BY <1>3, <1>5, <1>7, <1>10, <1>14
<1>15. CASE n = 1
  BY <1>6, <1>8, <1>11, <1>15
<1>16. CASE n >= 2
  <2>1. CASE rx.ready
    BY <1>5, <1>10, <2>1
  <2>2. CASE ~rx.ready
    BY <1>9, <1>16, <2>2
  <2> QED BY <2>1, <2>2
<1> QED BY <1>12, <1>14, <1>15, <1>16

LEMMA NextRx ==
  ASSUME TypeOK, RxOK, [Next]_vars
  PROVE  RxOK'
<1>1. CASE ByteComes
  <2>1. reader.out \in Seq(Byte) /\ reader.out # <<>>
    BY <1>1 DEF ByteComes, TypeOK
  <2>2. Head(reader.out) \in Byte
    BY <2>1, OutHeadTail
  <2> QED BY <1>1, <2>2, OnRxByteOK DEF ByteComes
<1>2. CASE rx' = rx
  BY <1>2 DEF RxOK
<1>3. CASE rx' = Empty
  BY <1>3, EmptyOK DEF RxOK
<1> QED BY <1>1, <1>2, <1>3
        DEF Next, vars, CardShown, ReaderAnswers, ByteLost, SendMode, RFID_WaitConfigResp,
            RFID_TryGetFrame, SetModeTimeout, rfid_task, TwoSeconds

(* The receiver never holds more than the frame it expects, nor expects    *)
(* more than s_rx_buf holds (RFID_FRAME_MAX_LEN), whatever the cards and   *)
(* the losses.                                                             *)
THEOREM CardReaderBufferBounded == Spec => []RxOK
<1>1. Init => TypeOK /\ RxOK
  BY InitType, EmptyOK DEF Init, RxOK
<1>2. TypeOK /\ RxOK /\ [Next]_vars => TypeOK' /\ RxOK'
  BY NextType, NextRx
<1> QED BY <1>1, <1>2, PTL DEF Spec

-----------------------------------------------------------------------------
(* The fourth frame.                                                       *)

(* The answer's checksum is no length longer than 58 either: of its bytes  *)
(* two hold the bit of weight 32 and none that of weight 64.               *)
LEMMA AnswerShort == \A i \in 1 .. Len(Answer) : Answer[i] \notin 59 .. 64
<1> DEFINE head == <<1, 8, 161, 48, 0, 0, 0>>
<1>1. /\ head \in Seq(Byte) /\ DOMAIN head = 1 .. 7 /\ Len(head) = 7
      /\ head[1] = 1 /\ head[2] = 8 /\ head[3] = 161 /\ head[4] = 48
      /\ head[5] = 0 /\ head[6] = 0 /\ head[7] = 0
  BY DEF Byte
<1>2. Answer = Append(head, RFID_CalcChecksum(head))
  BY DEF Answer, Framed, SetWorkMode
<1> HIDE DEF head
<1>3. Parity(head, 64) = 0
  <2>1. \A i \in 1 .. 7 : (head[i] \div 64) % 2 # 1
    BY <1>1
  <2>2. {i \in DOMAIN head : (head[i] \div 64) % 2 = 1} = {}
    BY <1>1, <2>1
  <2>3. Cardinality({}) = 0
    BY FS_EmptySet
  <2> QED BY <2>2, <2>3 DEF Parity
<1>4. Parity(head, 32) = 0
  <2>1. \A i \in 1 .. 7 : (head[i] \div 32) % 2 = 1 <=> i \in {3, 4}
    BY <1>1
  <2>2. {i \in DOMAIN head : (head[i] \div 32) % 2 = 1} = {3, 4}
    BY <1>1, <2>1
  <2>3. IsFiniteSet({}) /\ Cardinality({}) = 0
    BY FS_EmptySet
  <2>4. IsFiniteSet({3}) /\ Cardinality({3}) = 1
    BY <2>3, FS_Singleton
  <2>5. Cardinality({3} \cup {4}) = 2
    BY <2>4, FS_AddElement
  <2>6. {3} \cup {4} = {3, 4} /\ 2 % 2 = 0
    OBVIOUS
  <2> QED BY <2>2, <2>5, <2>6, Zenon DEF Parity
<1>5. RFID_CalcChecksum(head) \notin 59 .. 64
  <2> DEFINE p1 == Parity(head, 1)    p2 == Parity(head, 2)    p4 == Parity(head, 4)
             p8 == Parity(head, 8)    p16 == Parity(head, 16)  p128 == Parity(head, 128)
             p32 == Parity(head, 32)  p64 == Parity(head, 64)
  <2>1. /\ p1 \in 0 .. 1 /\ p2 \in 0 .. 1 /\ p4 \in 0 .. 1 /\ p8 \in 0 .. 1
        /\ p16 \in 0 .. 1 /\ p128 \in 0 .. 1 /\ p32 = 0 /\ p64 = 0
    BY <1>1, <1>3, <1>4, ParityType
  <2>2. RFID_CalcChecksum(head) = 255 - (p1 + 2 * p2 + 4 * p4 + 8 * p8
                                         + 16 * p16 + 32 * p32 + 64 * p64 + 128 * p128)
    BY DEF RFID_CalcChecksum
  <2> HIDE DEF p1, p2, p4, p8, p16, p128, p32, p64
  <2>3. 255 - (p1 + 2 * p2 + 4 * p4 + 8 * p8 + 16 * p16 + 32 * p32 + 64 * p64 + 128 * p128)
          \notin 59 .. 64
    BY <2>1
  <2> QED BY <2>2, <2>3, Zenon
<1>6. RFID_CalcChecksum(head) \in Byte
  BY <1>1, ChecksumType
<1> DEFINE sum == RFID_CalcChecksum(head)
<1> HIDE DEF sum
<1>7. /\ \A i \in 1 .. 7 : Answer[i] = head[i]
      /\ Answer[8] = sum /\ Len(Answer) = 8
  <2>1. sum \in Byte /\ Answer = Append(head, sum)
    BY <1>2, <1>6 DEF sum
  <2>3. head \in Seq(Byte)
    BY <1>1
  <2>2. /\ Len(Append(head, sum)) = Len(head) + 1
        /\ \A i \in 1 .. Len(head) : Append(head, sum)[i] = head[i]
        /\ Append(head, sum)[Len(head) + 1] = sum
    BY <2>1, <2>3, AppendIs
  <2> QED BY <1>1, <2>1, <2>2
<1>8. \A i \in 1 .. 7 : Answer[i] \notin 59 .. 64
  BY <1>1, <1>7
<1>9. Answer[8] \notin 59 .. 64
  BY <1>5, <1>7 DEF sum
<1> QED BY <1>7, <1>8, <1>9

(* Where the receiver can be, by the frames sent since the last disturbed  *)
(* one and by the bytes of the last of them that are gone: between frames; *)
(* with one byte; in what it takes for a frame, which will end so far into *)
(* the frames sent; in step; or with a frame to be taken.                  *)
Gone == 28 - Len(reader.out)
Rest == rx.expected - Len(rx.buf)

Quiet(sent, gone) == gone = 0 \/ sent \in {1, 2} \/ (sent = 3 /\ gone >= 22)
OneByte(sent, gone) == (sent = 1 /\ gone = 0) \/ (sent \in {1, 2} /\ gone \in {3, 6})
EndsAt(sent, end) ==
  \/ sent = 1 /\ end \in 0 .. 56
  \/ sent = 2 /\ end \in 0 .. 28 \cup {50}
  \/ sent = 3 /\ end = 22

Suffix(c) ==
  /\ Len(reader.out) <= 28
  /\ \A i \in 1 .. Len(reader.out) : reader.out[i] = IdBlock(c)[Gone + i]
InStep(c) ==
  /\ ~rx.ready /\ rx.buf # <<>> /\ Len(rx.buf) = Gone
  /\ Len(rx.buf) >= 2 => rx.expected = 28
  /\ \A i \in 1 .. Len(rx.buf) : rx.buf[i] = IdBlock(c)[i]
Where(c) ==
  \/ rx.buf = <<>> /\ Quiet(unread, Gone)
  \/ Len(rx.buf) = 1 /\ OneByte(unread, Gone)
  \/ ~rx.ready /\ Len(rx.buf) >= 2 /\ EndsAt(unread, Gone + Rest)
  \/ InStep(c)
  \/ rx.ready /\ (Quiet(unread, Gone) \/ (Gone = 28 /\ rx.buf = IdBlock(c)))

Short ==
  /\ rx.expected <= 58
  /\ \A i \in 1 .. Len(reader.out) : reader.out[i] \notin 59 .. 64

FourthInv ==
  /\ TypeOK /\ RxOK /\ Short
  /\ reader.owes => unread = 0
  /\ unread \in 0 .. 5
  /\ unread > 0 => \E c \in Cards : Suffix(c) /\ Where(c)
  /\ unread = 5 => Gone = 0 /\ CardRead

LEMMA HeaderPlaces ==
  ASSUME PlainCards, NEW c \in Cards, NEW k \in 1 .. 28, IdBlock(c)[k] \in Headers
  PROVE  k \in {1, 3, 6}
<1>1. k \notin 8 .. 28
  BY DEF PlainCards, Plain, IdBlock
<1>2. k \in 1 .. 7
  BY <1>1
<1>3. k # 2 /\ k # 4 /\ k # 5 /\ k # 7
  <2>1. /\ IdBlock(c)[2] = 28 /\ IdBlock(c)[4] = 48 /\ IdBlock(c)[5] = 0
        /\ IdBlock(c)[7] = 0
    BY IdBlockIs
  <2>2. 28 \notin Headers /\ 48 \notin Headers /\ 0 \notin Headers
    BY DEF Headers
  <2> QED BY <2>1, <2>2
<1> QED BY <1>2, <1>3

(* Arithmetic of the places: a frame more is sent, and a byte more gone.   *)
LEMMA PlacesShown ==
  ASSUME NEW sent \in 0 .. 5, NEW rest \in Nat, rest >= 1,
         EndsAt(sent, 28 + rest)
  PROVE  EndsAt(sent + 1, 0 + rest)
BY DEF EndsAt

LEMMA PlacesFirst ==
  ASSUME NEW rest \in 0 .. 56
  PROVE  EndsAt(1, 0 + rest)
BY DEF EndsAt

LEMMA PlacesByte ==
  ASSUME NEW sent \in 1 .. 5, NEW gone \in 0 .. 27
  PROVE  /\ Quiet(sent, gone) /\ gone # 0 => Quiet(sent, gone + 1)
         /\ Quiet(sent, gone) /\ gone \in {2, 5} => OneByte(sent, gone + 1)
         /\ OneByte(sent, gone) => Quiet(sent, gone + 1) /\ gone \in {0, 3, 6}
         /\ OneByte(sent, 3) => EndsAt(sent, 50)
         /\ EndsAt(sent, gone + 1) => Quiet(sent, gone + 1)
<1>1. Quiet(sent, gone) /\ gone # 0 => Quiet(sent, gone + 1)
  BY DEF Quiet
<1>2. Quiet(sent, gone) /\ gone \in {2, 5} => OneByte(sent, gone + 1)
  BY DEF Quiet, OneByte
<1>3. OneByte(sent, gone) => Quiet(sent, gone + 1) /\ gone \in {0, 3, 6}
  BY DEF Quiet, OneByte
<1>4. OneByte(sent, 3) => EndsAt(sent, 50)
  BY DEF OneByte, EndsAt
<1>5. EndsAt(sent, gone + 1) => Quiet(sent, gone + 1)
  BY DEF Quiet, EndsAt
<1> QED BY <1>1, <1>2, <1>3, <1>4, <1>5

(* A frame in step to its end is the card's.                               *)
LEMMA InStepIsWhole ==
  ASSUME NEW c \in Cards, NEW buf \in Seq(Byte), Len(buf) = 28,
         \A i \in 1 .. 28 : buf[i] = IdBlock(c)[i]
  PROVE  buf = IdBlock(c)
<1>1. IdBlock(c) \in Seq(Byte) /\ Len(IdBlock(c)) = 28
  BY IdBlockIs
<1> QED BY <1>1, SeqEqual

LEMMA WholeIsRead ==
  ASSUME NEW c \in Cards, rx.ready, rx.buf = IdBlock(c)
  PROVE  CardRead
BY IdBlockIs DEF CardRead

LEMMA NextShort ==
  ASSUME PlainCards, FourthInv, [Next]_vars
  PROVE  Short'
<1>1. TypeOK /\ TypeOK' /\ RxOK /\ Short
  BY NextType DEF FourthInv
<1>2. \A i \in 1 .. Len(reader.out) : reader.out[i] \notin 59 .. 64
  BY <1>1 DEF Short
<1>3. rx.expected <= 58
  BY <1>1 DEF Short
<1>4. rx' = Empty => rx'.expected <= 58
  BY EmptyOK
<1>5. ASSUME reader.out # <<>>, reader'.out = Tail(reader.out)
      PROVE  \A i \in 1 .. Len(reader'.out) : reader'.out[i] \notin 59 .. 64
  <2>1. reader.out \in Seq(Byte)
    BY <1>1 DEF TypeOK
  <2>2. /\ Len(Tail(reader.out)) = Len(reader.out) - 1
        /\ \A i \in 1 .. Len(reader.out) - 1 :
             i + 1 \in 1 .. Len(reader.out) /\ Tail(reader.out)[i] = reader.out[i + 1]
    BY <1>5, <2>1, OutHeadTail
  <2> QED BY <1>2, <1>5, <2>2
<1>6. CASE \E c \in Cards : CardShown(c)
  <2> PICK c \in Cards : CardShown(c)
    BY <1>6
  <2>1. reader.mode \in Modes \ {"command"} /\ reader'.out = AutoFrame(reader.mode, c) /\ rx' = rx
    BY <1>1 DEF CardShown, TypeOK
  <2>2. AutoFrame(reader.mode, c) \in Seq(Byte)
    BY <2>1, AutoFrameType
  <2>3. \A i \in 1 .. Len(AutoFrame(reader.mode, c)) : AutoFrame(reader.mode, c)[i] \notin 59 .. 64
    <3>1. DOMAIN AutoFrame(reader.mode, c) = 1 .. Len(AutoFrame(reader.mode, c))
      BY <2>2
    <3>2. \A i \in DOMAIN AutoFrame(reader.mode, c) : AutoFrame(reader.mode, c)[i] \notin 59 .. 64
      BY <2>1, Zenon DEF PlainCards, Plain
    <3> QED BY <3>1, <3>2
  <2> QED BY <1>3, <2>1, <2>3 DEF Short
<1>7. CASE ReaderAnswers
  <2>1. reader'.out = Answer /\ rx' = rx
    BY <1>7 DEF ReaderAnswers
  <2> QED BY <1>3, <2>1, AnswerShort DEF Short
<1>8. CASE ByteComes
  <2>1. reader.out \in Seq(Byte) /\ reader.out # <<>> /\ reader'.out = Tail(reader.out)
        /\ rx' = RFID_OnRxByte(Head(reader.out))
    BY <1>1, <1>8 DEF ByteComes, TypeOK
  <2>2. Head(reader.out) \in Byte /\ Head(reader.out) \notin 59 .. 64
    BY <1>2, <2>1, OutHeadTail
  <2>3. rx \in [buf: Seq(Byte), expected: Byte, ready: BOOLEAN]
    BY <1>1 DEF TypeOK
  <2>4. \/ RFID_OnRxByte(Head(reader.out)) = rx
        \/ RFID_OnRxByte(Head(reader.out)) = Empty
        \/ RFID_OnRxByte(Head(reader.out)).expected = rx.expected
        \/ RFID_OnRxByte(Head(reader.out)).expected = 0
        \/ /\ RFID_OnRxByte(Head(reader.out)).expected = Head(reader.out)
           /\ Head(reader.out) \in 6 .. 64
    <3>1. \/ rx.ready
          \/ rx.buf = <<>>
          \/ Len(rx.buf) = 1
          \/ ~rx.ready /\ Len(rx.buf) >= 2
      <4>1. Len(rx.buf) \in Nat /\ (rx.buf = <<>> <=> Len(rx.buf) = 0)
        BY <2>3, EmptySeq
      <4> QED BY <4>1, FromTwo
    <3>2. CASE rx.ready
      BY <1>1, <2>2, <2>3, <3>2, OnRxByteIs
    <3>3. CASE rx.buf = <<>>
      BY <1>1, <2>2, <2>3, <3>3, OnRxByteIs
    <3>4. CASE Len(rx.buf) = 1
      <4>1. CASE Head(reader.out) \in 6 .. 64
        BY <1>1, <2>2, <2>3, <3>4, <4>1, OnRxByteIs
      <4>2. CASE Head(reader.out) \notin 6 .. 64
        BY <1>1, <2>2, <2>3, <3>4, <4>2, OnRxByteIs
      <4> QED BY <4>1, <4>2
    <3>5. CASE ~rx.ready /\ Len(rx.buf) >= 2
      BY <1>1, <2>2, <2>3, <3>5, OnRxByteIs
    <3> QED BY <3>1, <3>2, <3>3, <3>4, <3>5
  <2>5. rx'.expected <= 58
    <3>1. Head(reader.out) \in 6 .. 64 => Head(reader.out) <= 58
      BY <2>2
    <3>2. 0 <= 58
      OBVIOUS
    <3> DEFINE r == RFID_OnRxByte(Head(reader.out))
    <3>3. rx' = r
      BY <2>1
    <3>4. r = rx \/ r = Empty \/ r.expected \in {rx.expected, 0}
          \/ (r.expected = Head(reader.out) /\ Head(reader.out) <= 58)
      BY <2>4, <3>1
    <3> HIDE DEF r
    <3> QED BY <1>3, <1>4, <3>2, <3>3, <3>4
  <2> QED BY <1>5, <2>1, <2>5 DEF Short
<1>9. CASE ByteLost
  <2>1. reader.out # <<>> /\ reader'.out = Tail(reader.out) /\ rx' = rx
    BY <1>1, <1>9 DEF ByteLost, TypeOK
  <2> QED BY <1>3, <1>5, <2>1 DEF Short
<1>10. ASSUME reader'.out = reader.out, rx' = rx \/ rx' = Empty
       PROVE  Short'
  BY <1>2, <1>3, <1>4, <1>10 DEF Short
<1>11. CASE \E arrives \in BOOLEAN : SendMode(arrives)
  BY <1>1, <1>10, <1>11 DEF SendMode, TypeOK
<1>12. CASE RFID_WaitConfigResp \/ rfid_task
  BY <1>10, <1>12 DEF RFID_WaitConfigResp, RFID_TryGetFrame, rfid_task
<1>13. CASE SetModeTimeout \/ TwoSeconds \/ UNCHANGED vars
  BY <1>10, <1>13 DEF SetModeTimeout, TwoSeconds, vars
<1> QED BY <1>6, <1>7, <1>8, <1>9, <1>11, <1>12, <1>13 DEF Next

LEMMA RxLen ==
  ASSUME TypeOK, RxOK
  PROVE  /\ rx.buf \in Seq(Byte) /\ Len(rx.buf) \in Nat
         /\ rx.buf = <<>> <=> Len(rx.buf) = 0
         /\ Len(rx.buf) = 0 \/ Len(rx.buf) = 1 \/ Len(rx.buf) >= 2
         /\ rx.ready => Len(rx.buf) >= 2
         /\ Len(rx.buf) >= 2 => /\ rx.expected \in 6 .. 64 /\ Len(rx.buf) \in 2 .. rx.expected
                                /\ rx.ready <=> Len(rx.buf) = rx.expected
<1>1. rx.buf \in Seq(Byte)
  BY DEF TypeOK
<1>2. Len(rx.buf) \in Nat
  BY <1>1
<1>3. rx.buf = <<>> <=> Len(rx.buf) = 0
  BY <1>1, EmptySeq
<1>4. Len(rx.buf) = 0 \/ Len(rx.buf) = 1 \/ Len(rx.buf) >= 2
  BY <1>2, FromTwo, Zenon
<1>5. Len(rx.buf) >= 2 => ~(Len(rx.buf) \in 0 .. 1)
  BY <1>2, FromTwo, Zenon
<1>6. rx.ready => Len(rx.buf) >= 2
  <2>1. rx.expected \in 6 .. 64 /\ Len(rx.buf) \in 2 .. rx.expected => Len(rx.buf) >= 2
    BY <1>2
  <2> QED BY <2>1, Zenon DEF RxOK
<1>7. Len(rx.buf) >= 2 => /\ rx.expected \in 6 .. 64 /\ Len(rx.buf) \in 2 .. rx.expected
                          /\ rx.ready <=> Len(rx.buf) = rx.expected
  BY <1>5, Zenon DEF RxOK
<1> QED BY <1>1, <1>2, <1>3, <1>4, <1>6, <1>7, Zenon

LEMMA RestBounds ==
  ASSUME NEW e \in 6 .. 64, NEW n \in 2 .. e
  PROVE  /\ e - n \in Nat
         /\ e <= 58 => e - n \in 0 .. 56
         /\ e # n => e - n >= 1
OBVIOUS

(* A frame is shown when the one before it is through.                     *)
LEMMA ShownWhere ==
  ASSUME FourthInv, NEW c \in Cards, reader.out = <<>>, rx' = rx,
         reader'.out = IdBlock(c), unread' = unread + 1
  PROVE  /\ unread + 1 \in 0 .. 5
         /\ Suffix(c)' /\ Where(c)'
         /\ unread + 1 = 5 => Gone' = 0 /\ CardRead'
<1>1. TypeOK /\ RxOK /\ Short /\ unread \in 0 .. 5
  BY DEF FourthInv
<1>2. Len(reader.out) = 0 /\ Gone = 28
  BY DEF Gone
<1>3. Len(reader'.out) = 28 /\ Gone' = 0
  BY IdBlockIs DEF Gone
<1>4. Suffix(c)'
  BY <1>3 DEF Suffix
<1>5. CardRead' <=> CardRead
  BY DEF CardRead
<1>6. unread # 5
  <2>1. unread = 5 => Gone = 0
    BY DEF FourthInv
  <2> QED BY <1>2, <2>1
<1>7. unread + 1 \in 0 .. 5
  BY <1>1, <1>6
<1>8. unread > 0 => \E d \in Cards : Suffix(d) /\ Where(d)
  BY DEF FourthInv
<1>9. Quiet(unread + 1, 0)
  BY DEF Quiet
<1>12. Quiet(unread', Gone') /\ rx'.buf = rx.buf /\ rx'.ready = rx.ready
  BY <1>3, <1>9
<1>10. CASE unread = 0
  <2>1. unread' = 1
    BY <1>10
  <2>2. OneByte(1, 0)
    BY DEF OneByte
  <2>3. ASSUME rx.buf = <<>> PROVE Where(c)'
    BY <1>12, <2>3, Zenon DEF Where
  <2>4. ASSUME Len(rx.buf) = 1 PROVE Where(c)'
    BY <1>3, <1>12, <2>1, <2>2, <2>4, Zenon DEF Where
  <2>5. ASSUME rx.ready PROVE Where(c)'
    BY <1>12, <2>5, Zenon DEF Where
  <2>6. ASSUME ~rx.ready /\ Len(rx.buf) >= 2 PROVE Where(c)'
    <3>1. rx.expected \in 6 .. 64 /\ Len(rx.buf) \in 2 .. rx.expected /\ rx.expected <= 58
      BY <1>1, <2>6, RxLen DEF Short
    <3>2. Rest \in 0 .. 56
      BY <3>1, RestBounds, Zenon DEF Rest
    <3>3. EndsAt(1, 0 + Rest) /\ Rest' = Rest
      BY <3>2, PlacesFirst DEF Rest
    <3> QED BY <1>3, <1>12, <2>1, <2>6, <3>3, Zenon DEF Where
  <2>7. Where(c)'
    BY <1>1, <2>3, <2>4, <2>5, <2>6, RxLen
  <2> QED BY <1>4, <1>7, <1>10, <2>7
<1>11. CASE unread > 0
  <2> PICK d \in Cards : Suffix(d) /\ Where(d)
    BY <1>8, <1>11
  <2>1. ~OneByte(unread, Gone)
    BY <1>2 DEF OneByte
  <2>2. ~InStep(d)
    <3>1. SUFFICES ASSUME InStep(d) PROVE FALSE
      OBVIOUS
    <3>2. Len(rx.buf) = 28 /\ rx.expected = 28 /\ ~rx.ready
      BY <1>2, <3>1 DEF InStep
    <3> QED BY <1>1, <3>2, RxLen
  <2>3. CASE rx.buf = <<>> /\ Quiet(unread, Gone)
    <3>1. Where(c)'
      BY <1>3, <1>9, <2>3 DEF Where
    <3>2. unread + 1 # 5
      BY <1>1, <1>2, <2>3 DEF Quiet
    <3> QED BY <1>4, <1>7, <3>1, <3>2
  <2>4. CASE ~rx.ready /\ Len(rx.buf) >= 2 /\ EndsAt(unread, Gone + Rest)
    <3>1. rx.expected \in 6 .. 64 /\ Len(rx.buf) \in 2 .. rx.expected /\ rx.expected # Len(rx.buf)
      BY <1>1, <2>4, RxLen
    <3>2. Rest \in Nat /\ Rest >= 1
      BY <3>1, RestBounds, Zenon DEF Rest
    <3>3. EndsAt(unread, 28 + Rest)
      BY <1>2, <2>4
    <3>4. EndsAt(unread + 1, 0 + Rest) /\ Rest' = Rest
      <4>1. EndsAt(unread + 1, 0 + Rest)
        BY <1>1, <3>2, <3>3, PlacesShown
      <4> QED BY <4>1 DEF Rest
    <3>5. Where(c)'
      BY <1>3, <2>4, <3>4 DEF Where
    <3>6. unread + 1 # 5
      BY <1>1, <3>3 DEF EndsAt
    <3> QED BY <1>4, <1>7, <3>5, <3>6
  <2>5. CASE rx.ready /\ (Quiet(unread, Gone) \/ (Gone = 28 /\ rx.buf = IdBlock(d)))
    <3>1. Where(c)'
      BY <1>3, <1>9, <2>5 DEF Where
    <3>2. unread + 1 = 5 => CardRead
      <4>1. unread + 1 = 5 => ~Quiet(unread, Gone)
        BY <1>1, <1>2 DEF Quiet
      <4> QED BY <2>5, <4>1, WholeIsRead
    <3> QED BY <1>3, <1>4, <1>5, <1>7, <3>1, <3>2
  <2> QED BY <2>1, <2>2, <2>3, <2>4, <2>5 DEF Where
<1> QED BY <1>1, <1>10, <1>11

LEMMA InFrame ==
  ASSUME NEW l \in 1 .. 28
  PROVE  l \in Nat /\ l >= 1 /\ l <= 28
OBVIOUS

LEMMA SuffixPlaces ==
  ASSUME NEW l \in Nat, l >= 1, l <= 28
  PROVE  /\ l \in 1 .. 28 /\ 1 \in 1 .. l
         /\ 28 - l \in 0 .. 27 /\ 28 - l + 1 \in 1 .. 28
         /\ 28 - (l - 1) = 28 - l + 1 /\ l - 1 <= 28
OBVIOUS

(* A byte of the frame comes, and no frame waits.                          *)
LEMMA ByteWhere ==
  ASSUME PlainCards, TypeOK, RxOK, NEW c \in Cards, Suffix(c), Where(c), unread \in 1 .. 5,
         ~rx.ready, reader.out # <<>>, reader'.out = Tail(reader.out),
         rx' = RFID_OnRxByte(Head(reader.out)), unread' = unread
  PROVE  Suffix(c)' /\ Where(c)'
<1> DEFINE b == Head(reader.out)
           n == Len(rx.buf)
           out == reader.out
<1>1. /\ out \in Seq(Byte) /\ b \in Byte /\ Len(out) \in 1 .. 28 /\ b = out[1]
      /\ Len(Tail(out)) = Len(out) - 1
      /\ \A i \in 1 .. Len(out) - 1 : i + 1 \in 1 .. Len(out) /\ Tail(out)[i] = out[i + 1]
  <2>1. out \in Seq(Byte) /\ Len(out) <= 28 /\ Len(out) \in Nat
    BY DEF TypeOK, Suffix
  <2> HIDE DEF out, b
  <2>2. /\ b \in Byte /\ Len(out) >= 1 /\ b = out[1]
        /\ Len(Tail(out)) = Len(out) - 1
        /\ \A i \in 1 .. Len(out) - 1 : i + 1 \in 1 .. Len(out) /\ Tail(out)[i] = out[i + 1]
    BY <2>1, OutHeadTail DEF out, b
  <2>3. Len(out) \in 1 .. 28
    BY <2>1, <2>2, SuffixPlaces, Zenon
  <2> QED BY <2>1, <2>2, <2>3, Zenon
<1> DEFINE g == 28 - Len(out)
<1>2. Gone = g /\ g \in 0 .. 27 /\ Gone' = g + 1
  <2>1. Gone = g /\ Gone' = 28 - (Len(out) - 1)
    BY <1>1, Zenon DEF Gone
  <2>2. g \in 0 .. 27 /\ 28 - (Len(out) - 1) = g + 1
    <3>1. Len(out) \in Nat /\ Len(out) >= 1 /\ Len(out) <= 28
      BY <1>1, InFrame, Zenon
    <3> QED BY <3>1, SuffixPlaces, Zenon
  <2> QED BY <2>1, <2>2, Zenon
<1>3. \A i \in 1 .. Len(out) : out[i] = IdBlock(c)[g + i]
  BY <1>2 DEF Suffix
<1>4. b = IdBlock(c)[g + 1] /\ g + 1 \in 1 .. 28
  <2>1. 1 \in 1 .. Len(out)
    BY <1>1
  <2>2. b = IdBlock(c)[g + 1]
    BY <1>1, <1>3, <2>1, Zenon
  <2> HIDE DEF g
  <2> QED BY <1>2, <2>2
<1>5. Suffix(c)'
  <2>1. Len(reader'.out) = Len(out) - 1
    BY <1>1
  <2>2. ASSUME NEW i \in 1 .. Len(out) - 1
        PROVE  Tail(out)[i] = IdBlock(c)[g + 1 + i]
    <3>1. i + 1 \in 1 .. Len(out) /\ Tail(out)[i] = out[i + 1]
      BY <1>1
    <3>2. out[i + 1] = IdBlock(c)[g + (i + 1)]
      BY <1>3, <3>1
    <3>3. g + (i + 1) = g + 1 + i
      BY <1>2
    <3> QED BY <3>1, <3>2, <3>3
  <2>3. reader'.out = Tail(out)
    OBVIOUS
  <2>4. Len(out) - 1 <= 28
    <3>1. Len(out) \in Nat /\ Len(out) >= 1 /\ Len(out) <= 28
      BY <1>1, InFrame, Zenon
    <3> QED BY <3>1, SuffixPlaces, Zenon
  <2> HIDE DEF g, out
  <2> QED BY <1>2, <2>1, <2>2, <2>3, <2>4 DEF Suffix
<1>6. /\ rx.buf \in Seq(Byte) /\ n \in Nat
      /\ rx.buf = <<>> <=> n = 0
      /\ n = 0 \/ n = 1 \/ n >= 2
      /\ n >= 2 => /\ rx.expected \in 6 .. 64 /\ n \in 2 .. rx.expected
                   /\ n # rx.expected
  BY RxLen
<1>7. rx \in [buf: Seq(Byte), expected: Byte, ready: BOOLEAN]
  BY DEF TypeOK
<1>8. /\ rx.buf = <<>> /\ b \notin Headers => rx' = rx
      /\ rx.buf = <<>> /\ b \in Headers =>
           rx' = [buf |-> <<b>>, expected |-> 0, ready |-> FALSE]
      /\ n = 1 /\ b \notin 6 .. 64 => rx' = Empty
      /\ n = 1 /\ b \in 6 .. 64 =>
           rx' = [buf |-> Append(rx.buf, b), expected |-> b, ready |-> FALSE]
      /\ n >= 2 => rx' = [buf |-> Append(rx.buf, b), expected |-> rx.expected,
                          ready |-> n + 1 = rx.expected]
  BY <1>1, <1>7, OnRxByteIs
<1>9. /\ Append(rx.buf, b) \in Seq(Byte) /\ Len(Append(rx.buf, b)) = n + 1
      /\ \A i \in 1 .. n : Append(rx.buf, b)[i] = rx.buf[i]
      /\ Append(rx.buf, b)[n + 1] = b
  BY <1>1, <1>6, AppendIs
<1>10. /\ Quiet(unread, g) /\ g # 0 => Quiet(unread, g + 1)
       /\ Quiet(unread, g) /\ g \in {2, 5} => OneByte(unread, g + 1)
       /\ OneByte(unread, g) => Quiet(unread, g + 1) /\ g \in {0, 3, 6}
       /\ OneByte(unread, 3) => EndsAt(unread, 50)
       /\ EndsAt(unread, g + 1) => Quiet(unread, g + 1)
  BY <1>2, PlacesByte
<1>11. /\ IdBlock(c)[1] = 4 /\ IdBlock(c)[2] = 28 /\ IdBlock(c)[4] = 48 /\ IdBlock(c)[7] = 0
  BY IdBlockIs
<1>12. b \in Headers => g \in {0, 2, 5}
  <2>1. b \in Headers => g + 1 \in {1, 3, 6}
    BY <1>4, HeaderPlaces, Zenon
  <2> HIDE DEF g, b
  <2> QED BY <1>2, <2>1
<1>13. n = 0 \/ n = 1 \/ n >= 2
  BY <1>6
<1> HIDE DEF b, n, g, out
<1>14. CASE n = 0
  <2>1. rx.buf = <<>> /\ ~InStep(c)
    BY <1>6, <1>14 DEF InStep
  <2>2. Quiet(unread, g)
    BY <1>2, <1>6, <1>14, <2>1 DEF Where, n
  <2>3. CASE b \notin Headers
    <3>1. g # 0
      BY <1>4, <1>11, <2>3 DEF Headers
    <3>2. rx' = rx /\ Quiet(unread, g + 1)
      BY <1>8, <1>10, <2>1, <2>2, <2>3, <3>1
    <3> QED BY <1>2, <1>5, <2>1, <3>2 DEF Where
  <2>4. CASE b \in Headers
    <3>1. rx' = [buf |-> <<b>>, expected |-> 0, ready |-> FALSE]
      BY <1>8, <2>1, <2>4
    <3>2. rx'.buf = <<b>> /\ Len(rx'.buf) = 1 /\ rx'.buf[1] = b /\ ~rx'.ready /\ rx'.buf # <<>>
      <4>1. rx'.buf = <<b>> /\ ~rx'.ready
        BY <3>1
      <4>2. Len(<<b>>) = 1 /\ <<b>>[1] = b /\ <<b>> # <<>>
        OBVIOUS
      <4> QED BY <4>1, <4>2, Zenon
    <3>3. CASE g = 0
      <4>1. Len(rx'.buf) = Gone' /\ ~(Len(rx'.buf) >= 2)
        <5>1. 0 + 1 = 1 /\ ~(1 >= 2)
          OBVIOUS
        <5> QED BY <1>2, <3>2, <3>3, <5>1, Zenon
      <4>2. \A i \in 1 .. Len(rx'.buf) : rx'.buf[i] = IdBlock(c)[i]
        BY <1>4, <3>2, <3>3
      <4>3. InStep(c)'
        BY <3>2, <4>1, <4>2 DEF InStep
      <4> QED BY <1>5, <4>3 DEF Where
    <3>4. CASE g \in {2, 5}
      BY <1>2, <1>5, <1>10, <2>2, <3>2, <3>4 DEF Where
    <3> QED BY <1>12, <2>4, <3>3, <3>4
  <2> QED BY <2>3, <2>4
<1>15. CASE n = 1
  <2>1. OneByte(unread, g) \/ InStep(c)
    <3>1. rx.buf # <<>> /\ ~(n >= 2)
      BY <1>6, <1>15
    <3> QED BY <1>2, <3>1, Zenon DEF Where, n
  <2>2. CASE OneByte(unread, g)
    <3>1. g \in {0, 3, 6} /\ Quiet(unread, g + 1)
      BY <1>10, <2>2
    <3>2. CASE g \in {0, 6}
      <4>1. b \notin 6 .. 64
        <5>1. b = IdBlock(c)[0 + 1] \/ b = IdBlock(c)[6 + 1]
          BY <1>4, <3>2
        <5>2. b = 4 \/ b = 0
          BY <1>11, <5>1
        <5>3. 4 \notin 6 .. 64 /\ 0 \notin 6 .. 64
          OBVIOUS
        <5> QED BY <5>2, <5>3, Zenon
      <4>2. rx' = Empty
        BY <1>8, <1>15, <4>1
      <4> QED BY <1>2, <1>5, <3>1, <4>2, EmptyOK DEF Where
    <3>3. CASE g = 3
      <4>1. b = 48
        BY <1>4, <1>11, <3>3
      <4>2. rx' = [buf |-> Append(rx.buf, b), expected |-> 48, ready |-> FALSE]
        BY <1>8, <1>15, <4>1
      <4>3. Len(rx'.buf) = 2 /\ rx'.expected = 48 /\ ~rx'.ready
        <5>1. rx'.buf = Append(rx.buf, b) /\ rx'.expected = 48 /\ ~rx'.ready
          BY <4>2
        <5>2. Len(Append(rx.buf, b)) = 1 + 1 /\ 1 + 1 = 2
          BY <1>9, <1>15
        <5> QED BY <5>1, <5>2, Zenon
      <4>4. Gone' + Rest' = 50
        <5>1. Gone' = 3 + 1 /\ Rest' = 48 - 2
          BY <1>2, <3>3, <4>3, Zenon DEF Rest
        <5>2. 3 + 1 + (48 - 2) = 50
          OBVIOUS
        <5> QED BY <5>1, <5>2, Zenon
      <4>5. EndsAt(unread, 50)
        BY <1>10, <2>2, <3>3
      <4>6. Len(rx'.buf) >= 2
        <5>1. 2 >= 2
          OBVIOUS
        <5> QED BY <4>3, <5>1, Zenon
      <4> QED BY <1>5, <4>3, <4>4, <4>5, <4>6, Zenon DEF Where
    <3> QED BY <3>1, <3>2, <3>3
  <2>3. CASE InStep(c)
    <3>1. g = 1 /\ \A i \in 1 .. 1 : rx.buf[i] = IdBlock(c)[i]
      BY <1>2, <1>15, <2>3 DEF InStep, n
    <3>2. b = 28
      BY <1>4, <1>11, <3>1
    <3>3. rx' = [buf |-> Append(rx.buf, b), expected |-> 28, ready |-> FALSE]
      BY <1>8, <1>15, <3>2
    <3>4. /\ rx'.buf = Append(rx.buf, b) /\ Len(rx'.buf) = 2 /\ rx'.expected = 28 /\ ~rx'.ready
          /\ rx'.buf[1] = rx.buf[1] /\ rx'.buf[2] = b /\ rx'.buf # <<>>
      <4>1. rx'.buf = Append(rx.buf, b) /\ rx'.expected = 28 /\ ~rx'.ready
        BY <3>3
      <4>2. /\ Len(Append(rx.buf, b)) = 2 /\ Append(rx.buf, b)[1] = rx.buf[1]
            /\ Append(rx.buf, b)[2] = b
        BY <1>9, <1>15
      <4>3. Append(rx.buf, b) # <<>>
        BY <1>9, <4>2, EmptySeq
      <4> QED BY <4>1, <4>2, <4>3, Zenon
    <3>5. \A i \in 1 .. 2 : rx'.buf[i] = IdBlock(c)[i]
      BY <1>4, <3>1, <3>4
    <3>6. Gone' = 2
      BY <1>2, <3>1
    <3>7. InStep(c)'
      BY <3>4, <3>5, <3>6 DEF InStep
    <3> QED BY <1>5, <3>7 DEF Where
  <2> QED BY <2>1, <2>2, <2>3
<1>16. CASE n >= 2
  <2> DEFINE all == n + 1 = rx.expected
             e == rx.expected
  <2>1. /\ rx' = [buf |-> Append(rx.buf, b), expected |-> rx.expected, ready |-> all]
    BY <1>8, <1>16
  <2>2. all \in BOOLEAN
    OBVIOUS
  <2>3. e \in 6 .. 64 /\ n \in 2 .. e /\ n # e
    BY <1>6, <1>16
  <2> HIDE DEF all
  <2>4. /\ rx'.buf = Append(rx.buf, b) /\ Len(rx'.buf) = n + 1 /\ rx'.expected = e
        /\ rx'.ready = all
    BY <1>9, <2>1
  <2> HIDE DEF e
  <2>5. Gone' + Rest' = g + (e - n) /\ Gone + Rest = g + (e - n)
    <3>1. Gone' + Rest' = (g + 1) + (e - (n + 1)) /\ Gone + Rest = g + (e - n)
      BY <1>2, <2>4 DEF Rest, n, e
    <3>2. (g + 1) + (e - (n + 1)) = g + (e - n)
      BY <1>2, <1>6, <2>3
    <3> QED BY <3>1, <3>2
  <2>6. Len(rx'.buf) >= 2 /\ rx'.buf # <<>> /\ ~(n = 1) /\ rx.buf # <<>>
    <3>1. n + 1 >= 2 /\ n # 1 /\ n # 0
      BY <1>6, <1>16
    <3>2. rx'.buf \in Seq(Byte) /\ Len(rx'.buf) # 0
      <4>1. n + 1 # 0
        BY <1>6
      <4> QED BY <1>9, <2>4, <4>1, Zenon
    <3> QED BY <1>6, <2>4, <3>1, <3>2, EmptySeq
  <2>7. EndsAt(unread, Gone + Rest) \/ InStep(c)
    BY <2>6, Zenon DEF Where, n
  <2>8. CASE EndsAt(unread, Gone + Rest)
    <3>1. CASE all
      <4>1. e - n = 1
        BY <1>6, <2>3, <3>1 DEF all, e
      <4>2. EndsAt(unread, g + 1)
        BY <2>5, <2>8, <4>1
      <4>3. Quiet(unread', Gone')
        BY <1>2, <1>10, <4>2
      <4>4. rx'.ready
        BY <2>4, <3>1
      <4> QED BY <1>5, <4>3, <4>4, Zenon DEF Where
    <3>2. CASE ~all
      <4>1. ~rx'.ready
        BY <2>4, <3>2
      <4>2. EndsAt(unread', Gone' + Rest')
        BY <2>5, <2>8
      <4> QED BY <1>5, <2>6, <4>1, <4>2, Zenon DEF Where
    <3> QED BY <3>1, <3>2
  <2>9. CASE InStep(c)
    <3>1. n = g /\ e = 28 /\ \A i \in 1 .. n : rx.buf[i] = IdBlock(c)[i]
      BY <1>2, <1>16, <2>9 DEF InStep, n, e
    <3>2. \A i \in 1 .. n + 1 : rx'.buf[i] = IdBlock(c)[i]
      <4>1. SUFFICES ASSUME NEW i \in 1 .. n + 1 PROVE rx'.buf[i] = IdBlock(c)[i]
        OBVIOUS
      <4>2. CASE i = n + 1
        BY <1>4, <1>9, <2>4, <3>1, <4>2
      <4>3. CASE i # n + 1
        <5>1. i \in 1 .. n
          BY <1>6, <4>3
        <5> QED BY <1>9, <2>4, <3>1, <5>1
      <4> QED BY <4>2, <4>3
    <3>3. CASE all
      <4>1. n + 1 = 28
        BY <3>1, <3>3 DEF all, e
      <4>2. rx'.buf \in Seq(Byte) /\ Len(rx'.buf) = 28 /\ rx'.ready /\ Gone' = 28
        BY <1>2, <1>9, <2>4, <3>1, <3>3, <4>1
      <4>3. \A i \in 1 .. 28 : rx'.buf[i] = IdBlock(c)[i]
        BY <3>2, <4>1
      <4>4. rx'.buf = IdBlock(c)
        BY <4>2, <4>3, InStepIsWhole
      <4> QED BY <1>5, <4>2, <4>4, Zenon DEF Where
    <3>4. CASE ~all
      <4>1. ~rx'.ready /\ Len(rx'.buf) = Gone' /\ rx'.expected = 28
        BY <1>2, <2>4, <3>1, <3>4
      <4>2. \A i \in 1 .. Len(rx'.buf) : rx'.buf[i] = IdBlock(c)[i]
        BY <2>4, <3>2
      <4>3. InStep(c)'
        BY <2>6, <4>1, <4>2 DEF InStep
      <4> QED BY <1>5, <4>3 DEF Where
    <3> QED BY <3>3, <3>4
  <2> QED BY <2>7, <2>8, <2>9
<1> QED BY <1>13, <1>14, <1>15, <1>16

LEMMA InitFourth == Init => FourthInv
<1> SUFFICES ASSUME Init PROVE FourthInv
  OBVIOUS
<1>1. TypeOK
  BY InitType
<1>2. rx = Empty /\ reader.out = <<>> /\ unread = 0
  BY DEF Init
<1>3. RxOK
  BY <1>2, EmptyOK DEF RxOK
<1>4. Short
  BY <1>2, EmptyOK DEF Short
<1> QED BY <1>1, <1>2, <1>3, <1>4 DEF FourthInv

(* The rest of the invariant, where no frame is counted any more.          *)
LEMMA NoneUnread ==
  ASSUME unread' = 0
  PROVE  /\ reader'.owes => unread' = 0
         /\ unread' \in 0 .. 5
         /\ unread' > 0 => \E c \in Cards : Suffix(c)' /\ Where(c)'
         /\ unread' = 5 => Gone' = 0 /\ CardRead'
OBVIOUS

LEMMA NextUnread ==
  ASSUME PlainCards, FourthInv, [Next]_vars
  PROVE  /\ reader'.owes => unread' = 0
         /\ unread' \in 0 .. 5
         /\ unread' > 0 => \E c \in Cards : Suffix(c)' /\ Where(c)'
         /\ unread' = 5 => Gone' = 0 /\ CardRead'
<1>1. TypeOK /\ RxOK /\ unread \in 0 .. 5 /\ (reader.owes => unread = 0)
  BY DEF FourthInv
<1>2. unread > 0 => \E c \in Cards : Suffix(c) /\ Where(c)
  BY DEF FourthInv
<1>3. unread = 5 => Gone = 0 /\ CardRead
  BY DEF FourthInv
<1>4. CASE \E c \in Cards : CardShown(c)
  <2> PICK c \in Cards : CardShown(c)
    BY <1>4
  <2>1. CASE reader.mode = "idblock"
    <3>1. /\ reader.out = <<>> /\ rx' = rx /\ unread' = unread + 1
          /\ reader' = [mode |-> reader.mode, out |-> IdBlock(c), owes |-> reader.owes]
      BY <1>1, <2>1 DEF CardShown, TypeOK, IdBlock
    <3>2. ~reader.owes
      BY DEF CardShown
    <3>3. reader'.out = IdBlock(c) /\ ~reader'.owes
      BY <3>1, <3>2
    <3>4. /\ unread + 1 \in 0 .. 5 /\ Suffix(c)' /\ Where(c)'
          /\ unread + 1 = 5 => Gone' = 0 /\ CardRead'
      BY <3>1, <3>3, ShownWhere
    <3> QED BY <3>1, <3>3, <3>4
  <2>2. CASE reader.mode # "idblock"
    <3>1. unread' = 0
      BY <2>2 DEF CardShown
    <3> QED BY <3>1, NoneUnread
  <2> QED BY <2>1, <2>2
<1>5. CASE ReaderAnswers
  <2>1. unread' = 0
    BY <1>1, <1>5 DEF ReaderAnswers
  <2> QED BY <2>1, NoneUnread
<1>6. CASE ByteComes
  <2>1. CASE rx.ready \/ unread = 0
    <3>1. unread' = 0
      BY <1>6, <2>1 DEF ByteComes
    <3> QED BY <3>1, NoneUnread
  <2>2. CASE ~rx.ready /\ unread # 0
    <3>1. /\ reader.out # <<>> /\ rx' = RFID_OnRxByte(Head(reader.out)) /\ unread' = unread
          /\ reader' = [mode |-> reader.mode, out |-> Tail(reader.out), owes |-> reader.owes]
      BY <1>1, <1>6, <2>2 DEF ByteComes, TypeOK
    <3>2. unread \in 1 .. 5 /\ unread > 0
      BY <1>1, <2>2
    <3>3. reader'.out = Tail(reader.out) /\ reader'.owes = reader.owes
      BY <3>1
    <3>4. PICK c \in Cards : Suffix(c) /\ Where(c)
      BY <1>2, <3>2
    <3>5. Suffix(c)' /\ Where(c)'
      BY <1>1, <2>2, <3>1, <3>2, <3>3, <3>4, ByteWhere
    <3>6. unread # 5
      BY <1>3, <2>2 DEF CardRead
    <3> QED BY <1>1, <2>2, <3>1, <3>3, <3>5, <3>6
  <2> QED BY <2>1, <2>2
<1>7. CASE ByteLost \/ \E arrives \in BOOLEAN : SendMode(arrives)
  <2>1. unread' = 0
    BY <1>7 DEF ByteLost, SendMode
  <2> QED BY <2>1, NoneUnread
<1>8. ASSUME rx.ready, rx' = Empty, reader' = reader,
             unread' = (IF Whole(rx.buf) /\ IsAuto(rx.buf) THEN 0 ELSE unread)
      PROVE  /\ reader'.owes => unread' = 0
             /\ unread' \in 0 .. 5
             /\ unread' > 0 => \E c \in Cards : Suffix(c)' /\ Where(c)'
             /\ unread' = 5 => Gone' = 0 /\ CardRead'
  <2>1. CASE CardRead \/ unread = 0
    <3>1. unread' = 0
      BY <1>8, <2>1 DEF CardRead
    <3> QED BY <3>1, NoneUnread
  <2>2. CASE ~CardRead /\ unread # 0
    <3>1. unread' = unread
      BY <1>8, <2>2 DEF CardRead
    <3>2. unread > 0
      BY <1>1, <2>2
    <3>3. PICK c \in Cards : Suffix(c) /\ Where(c)
      BY <1>2, <3>2
    <3>4. Len(rx.buf) >= 2 /\ rx.buf # <<>>
      BY <1>1, <1>8, RxLen
    <3>5. ~(Len(rx.buf) = 1)
      <4>1. ~(1 >= 2)
        OBVIOUS
      <4> QED BY <3>4, <4>1, Zenon
    <3>6. Quiet(unread, Gone)
      <4>1. rx.buf # IdBlock(c)
        BY <1>8, <2>2, WholeIsRead
      <4> QED BY <1>8, <3>3, <3>4, <3>5, <4>1, Zenon DEF Where, InStep
    <3>7. rx'.buf = <<>> /\ Gone' = Gone
      BY <1>8, EmptyOK DEF Gone
    <3>8. Where(c)'
      BY <3>1, <3>6, <3>7, Zenon DEF Where
    <3>9. Suffix(c)'
      BY <1>8, <3>3 DEF Suffix, Gone
    <3>10. unread # 5
      BY <1>3, <2>2
    <3> QED BY <1>1, <1>8, <3>1, <3>8, <3>9, <3>10
  <2> QED BY <2>1, <2>2
<1>9. CASE RFID_WaitConfigResp
  BY <1>8, <1>9 DEF RFID_WaitConfigResp, RFID_TryGetFrame
<1>10. CASE rfid_task
  BY <1>8, <1>10 DEF rfid_task, RFID_TryGetFrame
<1>11. CASE SetModeTimeout \/ TwoSeconds \/ UNCHANGED vars
  <2>1. rx' = rx /\ reader' = reader /\ unread' = unread
    BY <1>11 DEF SetModeTimeout, TwoSeconds, vars
  <2>2. /\ Gone' = Gone /\ CardRead' = CardRead
        /\ \A c : Suffix(c)' = Suffix(c) /\ Where(c)' = Where(c)
    BY <2>1 DEF Gone, CardRead, Suffix, Where, InStep, Rest
  <2> QED BY <1>1, <1>2, <1>3, <2>1, <2>2
<1> QED BY <1>4, <1>5, <1>6, <1>7, <1>9, <1>10, <1>11 DEF Next

LEMMA NextFourth ==
  ASSUME PlainCards, FourthInv, [Next]_vars
  PROVE  FourthInv'
<1>1. TypeOK' /\ RxOK' /\ Short'
  BY NextType, NextRx, NextShort DEF FourthInv
<1> QED BY <1>1, NextUnread DEF FourthInv

LEMMA FourthIsEnough ==
  ASSUME FourthInv, unread > 3, reader.out = <<>>
  PROVE  rx.ready /\ \E c \in Cards : rx.buf = IdBlock(c)
<1>1. TypeOK /\ RxOK /\ unread \in {4, 5} /\ Gone = 28
  BY DEF FourthInv, Gone
<1>2. PICK c \in Cards : Suffix(c) /\ Where(c)
  BY <1>1 DEF FourthInv
<1>3. ~Quiet(unread, Gone) /\ ~OneByte(unread, Gone) /\ ~EndsAt(unread, Gone + Rest)
  BY <1>1 DEF Quiet, OneByte, EndsAt
<1>4. ~InStep(c)
  <2>1. SUFFICES ASSUME InStep(c) PROVE FALSE
    OBVIOUS
  <2>2. Len(rx.buf) = 28 /\ rx.expected = 28 /\ ~rx.ready
    BY <1>1, <2>1 DEF InStep
  <2> QED BY <1>1, <2>2, RxLen
<1> QED BY <1>2, <1>3, <1>4, Zenon DEF Where

(* However many bytes the line loses, and however late the task comes, the *)
(* fourth whole frame after the last disturbance waits to be taken, for    *)
(* cards without bytes that look like the beginning of a frame.            *)
THEOREM CardReaderFourthIsRecognised ==
  ASSUME PlainCards
  PROVE  Spec => []FourthIsRecognised
<1>1. Init => FourthInv
  BY InitFourth
<1>2. FourthInv /\ [Next]_vars => FourthInv'
  BY NextFourth
<1>3. FourthInv => FourthIsRecognised
  BY FourthIsEnough, WholeIsRead DEF FourthIsRecognised
<1> QED BY <1>1, <1>2, <1>3, PTL DEF Spec

(* And what is taken for it is it: bytes of one card's frame from the      *)
(* header to the checksum, not a frame found between two of them.          *)
THEOREM CardReaderFourthIsWhole ==
  ASSUME PlainCards
  PROVE  Spec => [](unread > 3 /\ reader.out = <<>> => CardRead /\ FramesAreComplete)
<1>1. Init => FourthInv
  BY InitFourth
<1>2. FourthInv /\ [Next]_vars => FourthInv'
  BY NextFourth
<1>3. FourthInv => (unread > 3 /\ reader.out = <<>> => CardRead /\ FramesAreComplete)
  <2>1. SUFFICES ASSUME FourthInv, unread > 3, reader.out = <<>>
                 PROVE  CardRead /\ FramesAreComplete
    OBVIOUS
  <2>2. PICK c \in Cards : rx.ready /\ rx.buf = IdBlock(c)
    BY <2>1, FourthIsEnough
  <2>3. "idblock" \in Modes \ {"command"}
    BY DEF Modes
  <2> QED BY <2>2, <2>3, WholeIsRead DEF FramesAreComplete, IdBlock
<1> QED BY <1>1, <1>2, <1>3, PTL DEF Spec

-----------------------------------------------------------------------------
(* Nothing lost.                                                           *)

(* What the reader sends.                                                  *)
Sent == {AutoFrame(m, c) : m \in Modes \ {"command"}, c \in Cards} \cup {Answer}

LEMMA SentIs ==
  ASSUME NoFrameWithin, NEW f \in Sent
  PROVE  /\ f \in Seq(Byte) /\ Len(f) \in 8 .. 28
         /\ f[1] \in {1, 4} /\ f[2] = Len(f)
         /\ f[1] = 4 => \E m \in Modes \ {"command"}, c \in Cards : f = AutoFrame(m, c)
         /\ \A i \in 2 .. Len(f) - 1 :
              f[i] = 4 /\ f[i + 1] \in 6 .. 64 => i + 2 <= Len(f) /\ f[i + 2] \notin 2 .. 4
<1>1. CASE f = Answer
  <2>1. f \in Seq(Byte) /\ Len(f) = 8 /\ f[1] = 1 /\ f[2] = 8
    BY <1>1, AnswerType
  <2>2. \A i \in 2 .. 7 : f[i] # 4
    BY <1>1, AnswerType
  <2>3. Len(f) - 1 = 7
    BY <2>1
  <2> QED BY <2>1, <2>2, <2>3
<1>2. CASE f # Answer
  <2>1. PICK m \in Modes \ {"command"}, c \in Cards : f = AutoFrame(m, c)
    BY <1>2 DEF Sent
  <2>2. f \in Seq(Byte) /\ Len(f) \in {12, 22, 28} /\ f[1] = 4 /\ f[2] = Len(f)
    BY <2>1, AutoFrameType
  <2>3. \A i \in 2 .. Len(f) - 1 :
          f[i] = 4 /\ f[i + 1] \in 6 .. 64 => i + 2 <= Len(f) /\ f[i + 2] \notin 2 .. 4
    BY <2>1, Zenon DEF NoFrameWithin
  <2> QED BY <2>1, <2>2, <2>3
<1> QED BY <1>1, <1>2

(* The bytes on their way are the rest of a frame of the reader's mode, or *)
(* of the answer, and a receiver that holds the header of a card's frame   *)
(* is in step with it; or has it whole; or began at a byte within a frame, *)
(* and its third byte, at the latest, will be or is that of no card's      *)
(* frame.                                                                  *)
At(f) == Len(f) - Len(reader.out)

OfMode(f) == f # Answer => /\ reader.mode # "command"
                           /\ \E c \in Cards : f = AutoFrame(reader.mode, c)

Remains(f) ==
  /\ OfMode(f)
  /\ Len(reader.out) <= Len(f)
  /\ \A i \in 1 .. Len(reader.out) : reader.out[i] = f[At(f) + i]

WithIt(f) ==
  /\ ~rx.ready /\ Len(rx.buf) = At(f)
  /\ Len(rx.buf) >= 2 => rx.expected = Len(f)
  /\ \A i \in 1 .. Len(rx.buf) : rx.buf[i] = f[i]

Begun(f) ==
  \/ WithIt(f)
  \/ rx.ready /\ rx.buf \in Sent
  \/ Len(rx.buf) = 1 /\ (At(f) = 0 \/ (At(f) >= 2 /\ f[At(f)] = 4))
  \/ /\ Len(rx.buf) = 2 /\ ~rx.ready
     /\ At(f) >= 3 /\ f[At(f) - 1] = 4 /\ f[At(f)] \in 6 .. 64
     /\ rx.buf[2] = f[At(f)] /\ rx.expected = f[At(f)]
  \/ Len(rx.buf) >= 3 /\ rx.buf[3] \notin 2 .. 4

Whence(f) == Remains(f) /\ (rx.buf # <<>> /\ rx.buf[1] = 4 => Begun(f))

LosslessInv ==
  /\ TypeOK /\ RxOK
  /\ lost = {} => \E f \in Sent : Whence(f)

LEMMA InitLossless == Init => LosslessInv
<1> SUFFICES ASSUME Init PROVE LosslessInv
  OBVIOUS
<1>1. TypeOK
  BY InitType
<1>2. rx = Empty /\ reader.out = <<>>
  BY DEF Init
<1>3. RxOK
  BY <1>2, EmptyOK DEF RxOK
<1>4. Answer \in Sent
  BY DEF Sent
<1>5. Whence(Answer)
  BY <1>2, EmptyOK, AnswerType DEF Whence, Remains, OfMode
<1> QED BY <1>1, <1>3, <1>4, <1>5 DEF LosslessInv

LEMMA FrameLen ==
  ASSUME NEW l \in 8 .. 28
  PROVE  /\ l \in Nat /\ l >= 2 /\ l \in 6 .. 64
         /\ l - 1 \in 2 .. l - 1 /\ l - 1 + 1 = l /\ ~(l - 1 + 2 <= l)
OBVIOUS

(* A frame is sent after the one before it.                                *)
LEMMA SentNext ==
  ASSUME NoFrameWithin, TypeOK, RxOK, NEW f \in Sent, Whence(f),
         NEW g \in Sent, reader.out = <<>>, reader'.out = g, OfMode(g)', rx' = rx
  PROVE  Whence(g)'
<1>1. /\ f \in Seq(Byte) /\ Len(f) \in 8 .. 28 /\ g \in Seq(Byte) /\ Len(g) \in 8 .. 28
  BY SentIs
<1>2. At(f) = Len(f) /\ At(g)' = 0
  BY <1>1 DEF At
<1>3. Remains(g)'
  BY <1>1, <1>2 DEF Remains
<1>4. SUFFICES ASSUME rx.buf # <<>>, rx.buf[1] = 4  PROVE Begun(g)'
  BY <1>3 DEF Whence
<1>5. Begun(f)
  BY <1>4 DEF Whence
<1>6. ~WithIt(f)
  <2>1. SUFFICES ASSUME WithIt(f) PROVE FALSE
    OBVIOUS
  <2>2. Len(rx.buf) = Len(f) /\ ~rx.ready
    BY <1>2, <2>1 DEF WithIt
  <2>3. Len(rx.buf) >= 2
    BY <1>1, <2>2, FrameLen, Zenon
  <2>4. rx.expected = Len(f)
    BY <2>1, <2>3 DEF WithIt
  <2> QED BY <2>2, <2>3, <2>4, RxLen
<1>7. ~(At(f) >= 3 /\ f[At(f) - 1] = 4 /\ f[At(f)] \in 6 .. 64)
  <2>1. SUFFICES ASSUME f[Len(f) - 1] = 4, f[Len(f)] \in 6 .. 64  PROVE FALSE
    BY <1>2
  <2>2. /\ Len(f) - 1 \in 2 .. Len(f) - 1 /\ Len(f) - 1 + 1 = Len(f)
        /\ ~(Len(f) - 1 + 2 <= Len(f))
    BY <1>1, FrameLen, Zenon
  <2> QED BY <2>1, <2>2, SentIs
<1>8. CASE rx.ready /\ rx.buf \in Sent
  BY <1>8 DEF Begun
<1>9. CASE Len(rx.buf) = 1
  BY <1>2, <1>9 DEF Begun
<1>10. CASE Len(rx.buf) >= 3 /\ rx.buf[3] \notin 2 .. 4
  BY <1>10 DEF Begun
<1> QED BY <1>5, <1>6, <1>7, <1>8, <1>9, <1>10, Zenon DEF Begun

LEMMA RemainsPlaces ==
  ASSUME NEW l \in 8 .. 28, NEW o \in Nat, o >= 1, o <= l
  PROVE  /\ l - o \in 0 .. 27 /\ l - o + 1 \in 1 .. l /\ l - (o - 1) = l - o + 1
         /\ o - 1 <= l /\ 1 \in 1 .. o
OBVIOUS

(* A byte leaves the reader, to come or to be lost.                        *)
LEMMA OutGoes ==
  ASSUME NoFrameWithin, TypeOK, NEW f \in Sent, Remains(f), reader.out # <<>>,
         reader'.out = Tail(reader.out), reader'.mode = reader.mode
  PROVE  /\ Remains(f)' /\ At(f) \in 0 .. 27 /\ At(f) + 1 \in 1 .. Len(f) /\ At(f)' = At(f) + 1
         /\ Head(reader.out) \in Byte /\ Head(reader.out) = f[At(f) + 1]
<1> DEFINE b == Head(reader.out)
           out == reader.out
           k == Len(f) - Len(out)
<1>1. f \in Seq(Byte) /\ Len(f) \in 8 .. 28
  BY SentIs
<1>2. /\ out \in Seq(Byte) /\ Len(out) \in Nat /\ Len(out) <= Len(f)
      /\ \A i \in 1 .. Len(out) : out[i] = f[k + i]
  BY DEF TypeOK, Remains, At
<1>3. /\ b \in Byte /\ Len(out) >= 1 /\ b = out[1]
      /\ Len(Tail(out)) = Len(out) - 1
      /\ \A i \in 1 .. Len(out) - 1 : i + 1 \in 1 .. Len(out) /\ Tail(out)[i] = out[i + 1]
  BY <1>2, OutHeadTail
<1> HIDE DEF b, out
<1>4. /\ k \in 0 .. 27 /\ k + 1 \in 1 .. Len(f) /\ Len(f) - (Len(out) - 1) = k + 1
      /\ Len(out) - 1 <= Len(f) /\ 1 \in 1 .. Len(out)
  BY <1>1, <1>2, <1>3, RemainsPlaces, Zenon
<1>5. At(f) = k /\ At(f)' = k + 1
  BY <1>3, <1>4, Zenon DEF At, out
<1>6. b = f[k + 1]
  BY <1>2, <1>3, <1>4, Zenon
<1> HIDE DEF k
<1>7. Remains(f)'
  <2>1. ASSUME NEW i \in 1 .. Len(out) - 1
        PROVE  Tail(out)[i] = f[k + 1 + i]
    <3>1. i + 1 \in 1 .. Len(out) /\ Tail(out)[i] = out[i + 1]
      BY <1>3
    <3>2. out[i + 1] = f[k + (i + 1)]
      BY <1>2, <3>1
    <3>3. k + (i + 1) = k + 1 + i
      BY <1>4
    <3> QED BY <3>1, <3>2, <3>3
  <2>2. reader'.out = Tail(out)
    BY DEF out
  <2>3. OfMode(f)'
    BY DEF Remains, OfMode
  <2> QED BY <1>3, <1>4, <1>5, <2>1, <2>2, <2>3 DEF Remains
<1> QED BY <1>3, <1>4, <1>5, <1>6, <1>7, Zenon DEF b

LEMMA Places ==
  ASSUME NEW k \in 0 .. 27
  PROVE  /\ k # 0 => k + 1 >= 2
         /\ k >= 2 => k + 1 >= 3
         /\ (k + 1) - 1 = k
OBVIOUS

(* A byte comes.                                                           *)
LEMMA ByteWhence ==
  ASSUME NoFrameWithin, TypeOK, RxOK, NEW f \in Sent, Whence(f), reader.out # <<>>,
         reader'.out = Tail(reader.out), reader'.mode = reader.mode,
         rx' = RFID_OnRxByte(Head(reader.out))
  PROVE  Whence(f)'
<1> DEFINE b == Head(reader.out)
           n == Len(rx.buf)
           k == At(f)
<1>1. /\ f \in Seq(Byte) /\ Len(f) \in 8 .. 28 /\ f[1] \in {1, 4} /\ f[2] = Len(f)
      /\ \A i \in 2 .. Len(f) - 1 :
           f[i] = 4 /\ f[i + 1] \in 6 .. 64 => i + 2 <= Len(f) /\ f[i + 2] \notin 2 .. 4
  BY SentIs
<1>2. Remains(f)
  BY DEF Whence
<1> HIDE DEF n
<1>3. /\ Remains(f)' /\ k \in 0 .. 27 /\ k + 1 \in 1 .. Len(f) /\ At(f)' = k + 1
      /\ b \in Byte /\ b = f[k + 1]
  BY <1>2, OutGoes
<1> HIDE DEF b
<1>4. k \in 0 .. 27 /\ k + 1 \in 1 .. Len(f)
  BY <1>3
<1>5. At(f) = k /\ At(f)' = k + 1
  BY <1>3
<1> HIDE DEF k
<1>6. b = f[k + 1]
  BY <1>3
<1>7. Remains(f)'
  BY <1>3
<1>8. /\ rx.buf \in Seq(Byte) /\ n \in Nat
      /\ rx.buf = <<>> <=> n = 0
      /\ n = 0 \/ n = 1 \/ n >= 2
      /\ rx.ready => n >= 2
      /\ n >= 2 => /\ rx.expected \in 6 .. 64 /\ n \in 2 .. rx.expected
                   /\ rx.ready <=> n = rx.expected
  BY RxLen DEF n
<1>9. rx \in [buf: Seq(Byte), expected: Byte, ready: BOOLEAN]
  BY DEF TypeOK
<1>10. /\ rx.ready => rx' = rx
       /\ rx.buf = <<>> /\ b \notin Headers => rx' = rx
       /\ rx.buf = <<>> /\ b \in Headers =>
            rx' = [buf |-> <<b>>, expected |-> 0, ready |-> FALSE]
       /\ n = 1 /\ b \notin 6 .. 64 => rx' = Empty
       /\ n = 1 /\ b \in 6 .. 64 =>
            rx' = [buf |-> Append(rx.buf, b), expected |-> b, ready |-> FALSE]
       /\ ~rx.ready /\ n >= 2 =>
            rx' = [buf |-> Append(rx.buf, b), expected |-> rx.expected,
                   ready |-> n + 1 = rx.expected]
  BY <1>3, <1>9, OnRxByteIs DEF b, n
<1>11. /\ Append(rx.buf, b) \in Seq(Byte) /\ Len(Append(rx.buf, b)) = n + 1
       /\ \A i \in 1 .. n : Append(rx.buf, b)[i] = rx.buf[i]
       /\ Append(rx.buf, b)[n + 1] = b
  BY <1>3, <1>8, AppendIs DEF n
<1>12. SUFFICES ASSUME rx'.buf # <<>>, rx'.buf[1] = 4  PROVE Begun(f)'
  BY <1>7, Zenon DEF Whence
<1>13. rx.buf # <<>> /\ rx.buf[1] = 4 => Begun(f)
  BY DEF Whence
<1>14. CASE rx.ready
  <2>1. rx' = rx /\ Begun(f)
    BY <1>10, <1>12, <1>13, <1>14
  <2>2. n >= 2 /\ n # 1 /\ ~WithIt(f)
    <3>1. n >= 2 /\ ~WithIt(f)
      BY <1>8, <1>14 DEF WithIt
    <3>2. ~(1 >= 2)
      OBVIOUS
    <3> QED BY <3>1, <3>2, Zenon
  <2>3. rx.buf \in Sent \/ (n >= 3 /\ rx.buf[3] \notin 2 .. 4)
    BY <1>14, <2>1, <2>2, Zenon DEF Begun, n
  <2>4. rx'.buf = rx.buf /\ rx'.ready
    BY <1>14, <2>1
  <2> QED BY <2>3, <2>4, Zenon DEF Begun, n
<1>15. CASE n = 0
  <2>1. rx.buf = <<>>
    BY <1>8, <1>15
  <2>2. b \in Headers /\ rx' = [buf |-> <<b>>, expected |-> 0, ready |-> FALSE]
    BY <1>10, <1>12, <2>1
  <2>3. rx'.buf = <<b>> /\ ~rx'.ready
    BY <2>2
  <2>4. Len(<<b>>) = 1 /\ <<b>>[1] = b /\ ~(1 >= 2)
    OBVIOUS
  <2>5. Len(rx'.buf) = 1 /\ rx'.buf[1] = b /\ b = 4 /\ ~(Len(rx'.buf) >= 2)
    BY <1>12, <2>3, <2>4, Zenon
  <2>6. CASE k = 0
    <3>1. 0 + 1 = 1
      OBVIOUS
    <3>2. At(f)' = 1 /\ f[1] = b
      BY <1>5, <1>6, <2>6, <3>1
    <3>3. \A i \in 1 .. Len(rx'.buf) : rx'.buf[i] = f[i]
      BY <2>5, <3>2
    <3>4. WithIt(f)'
      BY <2>3, <2>5, <3>2, <3>3, Zenon DEF WithIt
    <3> QED BY <3>4, Zenon DEF Begun
  <2>7. CASE k # 0
    <3>1. k + 1 >= 2
      BY <1>4, <2>7, Places, Zenon
    <3>2. f[k + 1] = 4
      BY <1>6, <2>5
    <3> QED BY <1>5, <2>5, <3>1, <3>2, Zenon DEF Begun
  <2> QED BY <2>6, <2>7
<1>16. CASE n = 1
  <2>1. b \in 6 .. 64 /\ rx' = [buf |-> Append(rx.buf, b), expected |-> b, ready |-> FALSE]
    BY <1>10, <1>12, <1>16, EmptyOK
  <2>2. /\ rx'.buf = Append(rx.buf, b) /\ rx'.expected = b /\ ~rx'.ready
    BY <2>1
  <2>3. /\ Len(rx'.buf) = 2 /\ rx'.buf[1] = rx.buf[1] /\ rx'.buf[2] = b
    <3>1. 1 + 1 = 2 /\ 1 \in 1 .. 1
      OBVIOUS
    <3> QED BY <1>11, <1>16, <2>2, <3>1, Zenon
  <2>4. rx.buf # <<>> /\ rx.buf[1] = 4 /\ ~(n >= 2) /\ ~(n >= 3) /\ ~(n = 2)
    BY <1>8, <1>12, <1>16, <2>3
  <2>5. \/ WithIt(f)
        \/ k = 0
        \/ k >= 2 /\ f[k] = 4
    <3>1. ~rx.ready
      BY <1>8, <2>4
    <3> QED BY <1>5, <1>13, <2>4, <3>1, Zenon DEF Begun, n
  <2>6. CASE WithIt(f)
    <3>1. k = 1 /\ rx.buf[1] = f[1]
      <4>1. k = 1 /\ \A i \in 1 .. 1 : rx.buf[i] = f[i]
        BY <1>5, <1>16, <2>6, Zenon DEF WithIt, n
      <4>2. 1 \in 1 .. 1
        OBVIOUS
      <4> QED BY <4>1, <4>2, Zenon
    <3>2. 1 + 1 = 2
      OBVIOUS
    <3>3. b = f[2] /\ At(f)' = 2
      BY <1>5, <1>6, <3>1, <3>2
    <3>4. \A i \in 1 .. 2 : rx'.buf[i] = f[i]
      BY <2>3, <3>1, <3>3
    <3>5. rx'.expected = Len(f)
      BY <1>1, <2>2, <3>3
    <3>6. WithIt(f)'
      BY <2>2, <2>3, <3>3, <3>4, <3>5 DEF WithIt
    <3> QED BY <3>6, Zenon DEF Begun
  <2>7. CASE k = 0
    <3>1. b = f[0 + 1]
      BY <1>6, <2>7
    <3>2. b \in {1, 4}
      BY <1>1, <3>1
    <3>3. 1 \notin 6 .. 64 /\ 4 \notin 6 .. 64
      OBVIOUS
    <3> QED BY <2>1, <3>2, <3>3
  <2>8. CASE k >= 2 /\ f[k] = 4
    <3>1. k + 1 >= 3 /\ (k + 1) - 1 = k
      BY <1>4, <2>8
    <3>2. f[k + 1] \in 6 .. 64
      BY <1>6, <2>1
    <3>3. Len(rx'.buf) = 2 /\ ~rx'.ready /\ rx'.buf[2] = f[k + 1] /\ rx'.expected = f[k + 1]
      BY <1>6, <2>2, <2>3
    <3>4. At(f)' >= 3
      BY <1>5, <3>1
    <3>5. f[At(f)' - 1] = 4
      BY <1>5, <2>8, <3>1, Zenon
    <3>6. f[At(f)'] \in 6 .. 64
      BY <1>5, <3>2
    <3> QED BY <1>5, <3>3, <3>4, <3>5, <3>6, Zenon DEF Begun
  <2> QED BY <2>5, <2>6, <2>7, <2>8
<1>17. CASE ~rx.ready /\ n >= 2
  <2> DEFINE all == n + 1 = rx.expected
             e == rx.expected
  <2>1. /\ rx' = [buf |-> Append(rx.buf, b), expected |-> rx.expected, ready |-> all]
    BY <1>10, <1>17
  <2>2. all \in BOOLEAN
    OBVIOUS
  <2>3. e \in 6 .. 64 /\ n \in 2 .. e /\ n # e
    BY <1>8, <1>17
  <2> HIDE DEF all
  <2>4. /\ rx'.buf = Append(rx.buf, b) /\ rx'.expected = e /\ rx'.ready = all
    BY <2>1
  <2>5. Len(rx'.buf) = n + 1 /\ rx'.buf[1] = rx.buf[1]
    BY <1>8, <1>11, <1>17, <2>4
  <2> HIDE DEF e
  <2>6. n + 1 >= 3 /\ n # 1 /\ n # 0
    BY <1>8, <1>17
  <2>7. rx.buf # <<>> /\ rx.buf[1] = 4
    BY <1>8, <1>12, <2>5, <2>6
  <2>8. \/ WithIt(f)
        \/ n = 2 /\ k >= 3 /\ f[k - 1] = 4 /\ f[k] \in 6 .. 64
        \/ n >= 3 /\ rx.buf[3] \notin 2 .. 4
    BY <1>5, <1>13, <1>17, <2>6, <2>7, Zenon DEF Begun, n
  <2>9. CASE WithIt(f)
    <3>1. n = k /\ e = Len(f) /\ \A i \in 1 .. n : rx.buf[i] = f[i]
      BY <1>5, <1>17, <2>9 DEF WithIt, n, e
    <3>2. \A i \in 1 .. n + 1 : rx'.buf[i] = f[i]
      <4>1. SUFFICES ASSUME NEW i \in 1 .. n + 1 PROVE rx'.buf[i] = f[i]
        OBVIOUS
      <4>2. CASE i = n + 1
        BY <1>6, <1>11, <2>4, <3>1, <4>2
      <4>3. CASE i # n + 1
        <5>1. i \in 1 .. n
          BY <1>8, <4>3
        <5> QED BY <1>11, <2>4, <3>1, <5>1
      <4> QED BY <4>2, <4>3
    <3>3. CASE all
      <4>1. n + 1 = Len(f)
        BY <3>1, <3>3 DEF all, e
      <4>2. rx'.buf \in Seq(Byte) /\ Len(rx'.buf) = Len(f) /\ rx'.ready
        BY <1>11, <2>4, <2>5, <3>3, <4>1
      <4>3. rx'.buf = f
        BY <1>1, <3>2, <4>1, <4>2, SeqEqual
      <4> QED BY <4>2, <4>3, Zenon DEF Begun
    <3>4. CASE ~all
      <4>1. ~rx'.ready /\ Len(rx'.buf) = At(f)' /\ rx'.expected = Len(f)
        BY <1>5, <2>4, <2>5, <3>1, <3>4
      <4>2. \A i \in 1 .. Len(rx'.buf) : rx'.buf[i] = f[i]
        BY <2>5, <3>2
      <4>3. WithIt(f)'
        BY <4>1, <4>2, Zenon DEF WithIt
      <4> QED BY <4>3, Zenon DEF Begun
    <3> QED BY <3>3, <3>4
  <2>10. CASE n = 2 /\ k >= 3 /\ f[k - 1] = 4 /\ f[k] \in 6 .. 64
    <3>1. k - 1 \in 2 .. Len(f) - 1 /\ k - 1 + 1 = k /\ k - 1 + 2 = k + 1
      BY <1>1, <1>4, <2>10
    <3>2. f[k + 1] \notin 2 .. 4
      BY <1>1, <2>10, <3>1
    <3>3. rx'.buf[3] = b /\ Len(rx'.buf) >= 3
      BY <1>11, <2>4, <2>5, <2>10
    <3> QED BY <1>6, <3>2, <3>3 DEF Begun
  <2>11. CASE n >= 3 /\ rx.buf[3] \notin 2 .. 4
    <3>1. 3 \in 1 .. n
      BY <1>8, <2>11
    <3>2. rx'.buf[3] = rx.buf[3] /\ Len(rx'.buf) >= 3
      BY <1>11, <2>4, <2>5, <2>6, <3>1
    <3> QED BY <2>11, <3>2, Zenon DEF Begun
  <2> QED BY <2>8, <2>9, <2>10, <2>11
<1> QED BY <1>8, <1>14, <1>15, <1>16, <1>17

LEMMA NextLossless ==
  ASSUME NoFrameWithin, LosslessInv, [Next]_vars
  PROVE  LosslessInv'
<1>1. TypeOK /\ RxOK /\ TypeOK' /\ RxOK'
  BY NextType, NextRx DEF LosslessInv
<1>2. lost = {} => \E f \in Sent : Whence(f)
  BY DEF LosslessInv
<1>3. SUFFICES ASSUME lost' = {}  PROVE \E f \in Sent : Whence(f)'
  BY <1>1 DEF LosslessInv
<1>4. ~ByteLost
  BY <1>3 DEF ByteLost
<1>5. lost = {}
  BY <1>3, <1>4 DEF Next, vars, CardShown, ReaderAnswers, ByteComes, SendMode,
                    RFID_WaitConfigResp, SetModeTimeout, rfid_task, TwoSeconds
<1>6. PICK f \in Sent : Whence(f)
  BY <1>2, <1>5
<1>7. CASE \E c \in Cards : CardShown(c)
  <2> PICK c \in Cards : CardShown(c)
    BY <1>7
  <2>1. reader.mode \in Modes \ {"command"}
    BY <1>1 DEF CardShown, TypeOK
  <2>2. AutoFrame(reader.mode, c) \in Sent
    BY <2>1 DEF Sent
  <2>3. /\ reader.out = <<>> /\ reader'.out = AutoFrame(reader.mode, c) /\ rx' = rx
        /\ reader'.mode = reader.mode
    BY <1>1 DEF CardShown, TypeOK
  <2>4. OfMode(AutoFrame(reader.mode, c))'
    BY <2>1, <2>3 DEF OfMode
  <2> QED BY <1>1, <1>6, <2>2, <2>3, <2>4, SentNext
<1>8. CASE ReaderAnswers
  <2>1. Answer \in Sent
    BY DEF Sent
  <2>2. reader.out = <<>> /\ reader'.out = Answer /\ rx' = rx
    BY <1>8 DEF ReaderAnswers
  <2>3. OfMode(Answer)'
    BY DEF OfMode
  <2> QED BY <1>1, <1>6, <2>1, <2>2, <2>3, SentNext
<1>9. CASE ByteComes
  <2>1. reader.out # <<>> /\ reader'.out = Tail(reader.out)
        /\ rx' = RFID_OnRxByte(Head(reader.out)) /\ reader'.mode = reader.mode
    BY <1>1, <1>9 DEF ByteComes, TypeOK
  <2> QED BY <1>1, <1>6, <2>1, ByteWhence
<1>10. ASSUME reader'.out = reader.out, reader'.mode = reader.mode, rx' = Empty
       PROVE  Whence(f)'
  BY <1>6, <1>10, EmptyOK DEF Whence, Remains, At, OfMode
<1>11. CASE \E arrives \in BOOLEAN : SendMode(arrives)
  BY <1>1, <1>6, <1>10, <1>11 DEF SendMode, TypeOK
<1>12. CASE RFID_WaitConfigResp \/ rfid_task
  BY <1>6, <1>10, <1>12 DEF RFID_WaitConfigResp, RFID_TryGetFrame, rfid_task
<1>13. CASE SetModeTimeout \/ TwoSeconds \/ UNCHANGED vars
  <2>1. rx' = rx /\ reader' = reader
    BY <1>13 DEF SetModeTimeout, TwoSeconds, vars
  <2>2. Whence(f)' = Whence(f)
    BY <2>1 DEF Whence, Remains, OfMode, Begun, WithIt, At
  <2> QED BY <1>6, <2>2
<1> QED BY <1>4, <1>7, <1>8, <1>9, <1>11, <1>12, <1>13 DEF Next

LEMMA LosslessIsEnough ==
  ASSUME NoFrameWithin, LosslessInv, lost = {}
  PROVE  FramesAreComplete
<1>1. SUFFICES ASSUME CardRead
               PROVE  \E m \in Modes \ {"command"}, c \in Cards : rx.buf = AutoFrame(m, c)
  BY DEF FramesAreComplete
<1>2. rx.ready /\ rx.buf \in Seq(Byte) /\ Len(rx.buf) >= 6 /\ rx.buf[1] = 4 /\ rx.buf[3] \in 2 .. 4
  BY <1>1 DEF CardRead, Whole, IsAuto, LosslessInv, TypeOK
<1>3. rx.buf # <<>> /\ Len(rx.buf) # 1 /\ Len(rx.buf) # 2
  BY <1>2
<1>4. PICK f \in Sent : Whence(f)
  BY DEF LosslessInv
<1>5. rx.buf \in Sent
  BY <1>2, <1>3, <1>4, Zenon DEF Whence, Begun, WithIt
<1> QED BY <1>2, <1>5, SentIs

(* While the line loses nothing every frame taken for a card's is one, in  *)
(* every mode, however late the task comes, and wherever in a frame the    *)
(* receiver begins, for cards without a header, a length and the number of *)
(* a card's frame in their bytes.                                          *)
THEOREM CardReaderLosslessFrames ==
  ASSUME NoFrameWithin
  PROVE  Spec => [](lost = {} => FramesAreComplete)
<1>1. Init => LosslessInv
  BY InitLossless
<1>2. LosslessInv /\ [Next]_vars => LosslessInv'
  BY NextLossless
<1>3. LosslessInv => (lost = {} => FramesAreComplete)
  BY LosslessIsEnough
<1> QED BY <1>1, <1>2, <1>3, PTL DEF Spec

-----------------------------------------------------------------------------
(* The checksum and a lost byte.                                           *)

Weights == {1, 2, 4, 8, 16, 32, 64, 128}
Bit(byte, w) == (byte \div w) % 2
Ones(bytes, w) == {i \in DOMAIN bytes : (bytes[i] \div w) % 2 = 1}

LEMMA BitType ==
  ASSUME NEW byte \in Byte, NEW w \in Weights
  PROVE  Bit(byte, w) \in 0 .. 1
BY DEF Bit, Byte, Weights

LEMMA ByteIsBits ==
  ASSUME NEW b \in Byte
  PROVE  b = Bit(b, 1) + 2 * Bit(b, 2) + 4 * Bit(b, 4) + 8 * Bit(b, 8) + 16 * Bit(b, 16)
             + 32 * Bit(b, 32) + 64 * Bit(b, 64) + 128 * Bit(b, 128)
BY DEF Bit, Byte

LEMMA BytesByBits ==
  ASSUME NEW a \in Byte, NEW b \in Byte, \A w \in Weights : Bit(a, w) = Bit(b, w)
  PROVE  a = b
<1>1. /\ Bit(a, 1) = Bit(b, 1) /\ Bit(a, 2) = Bit(b, 2) /\ Bit(a, 4) = Bit(b, 4)
      /\ Bit(a, 8) = Bit(b, 8) /\ Bit(a, 16) = Bit(b, 16) /\ Bit(a, 32) = Bit(b, 32)
      /\ Bit(a, 64) = Bit(b, 64) /\ Bit(a, 128) = Bit(b, 128)
  BY DEF Weights
<1>2. a = Bit(a, 1) + 2 * Bit(a, 2) + 4 * Bit(a, 4) + 8 * Bit(a, 8) + 16 * Bit(a, 16)
          + 32 * Bit(a, 32) + 64 * Bit(a, 64) + 128 * Bit(a, 128)
  BY ByteIsBits
<1>3. b = Bit(b, 1) + 2 * Bit(b, 2) + 4 * Bit(b, 4) + 8 * Bit(b, 8) + 16 * Bit(b, 16)
          + 32 * Bit(b, 32) + 64 * Bit(b, 64) + 128 * Bit(b, 128)
  BY ByteIsBits
<1> QED BY <1>1, <1>2, <1>3

(* The checksum holds a bit exactly when an even number of the bytes do.   *)
LEMMA ChecksumBits ==
  ASSUME NEW bytes \in Seq(Byte), NEW w \in Weights
  PROVE  Bit(RFID_CalcChecksum(bytes), w) = 1 - Parity(bytes, w)
<1> DEFINE p1 == Parity(bytes, 1)    p2 == Parity(bytes, 2)
           p4 == Parity(bytes, 4)    p8 == Parity(bytes, 8)
           p16 == Parity(bytes, 16)  p32 == Parity(bytes, 32)
           p64 == Parity(bytes, 64)  p128 == Parity(bytes, 128)
           q1 == 1 - p1    q2 == 1 - p2    q4 == 1 - p4    q8 == 1 - p8
           q16 == 1 - p16  q32 == 1 - p32  q64 == 1 - p64  q128 == 1 - p128
           sum == q1 + 2 * q2 + 4 * q4 + 8 * q8 + 16 * q16 + 32 * q32 + 64 * q64 + 128 * q128
<1>1. /\ p1 \in 0 .. 1 /\ p2 \in 0 .. 1 /\ p4 \in 0 .. 1 /\ p8 \in 0 .. 1
      /\ p16 \in 0 .. 1 /\ p32 \in 0 .. 1 /\ p64 \in 0 .. 1 /\ p128 \in 0 .. 1
  BY ParityType
<1>2. RFID_CalcChecksum(bytes) = 255 - (p1 + 2 * p2 + 4 * p4 + 8 * p8
                                        + 16 * p16 + 32 * p32 + 64 * p64 + 128 * p128)
  BY DEF RFID_CalcChecksum
<1> HIDE DEF p1, p2, p4, p8, p16, p32, p64, p128
<1>3. 255 - (p1 + 2 * p2 + 4 * p4 + 8 * p8 + 16 * p16 + 32 * p32 + 64 * p64 + 128 * p128) = sum
  BY <1>1
<1>4. /\ q1 \in 0 .. 1 /\ q2 \in 0 .. 1 /\ q4 \in 0 .. 1 /\ q8 \in 0 .. 1
      /\ q16 \in 0 .. 1 /\ q32 \in 0 .. 1 /\ q64 \in 0 .. 1 /\ q128 \in 0 .. 1
  BY <1>1
<1>5. RFID_CalcChecksum(bytes) = sum
  BY <1>2, <1>3, Zenon
<1> HIDE DEF q1, q2, q4, q8, q16, q32, q64, q128
<1>6. /\ (sum \div 1) % 2 = q1 /\ (sum \div 2) % 2 = q2
  BY <1>4
<1>7. /\ (sum \div 4) % 2 = q4 /\ (sum \div 8) % 2 = q8
  BY <1>4
<1>8. /\ (sum \div 16) % 2 = q16 /\ (sum \div 32) % 2 = q32
  BY <1>4
<1>9. /\ (sum \div 64) % 2 = q64 /\ (sum \div 128) % 2 = q128
  BY <1>4
<1> HIDE DEF sum
<1> QED BY <1>5, <1>6, <1>7, <1>8, <1>9
        DEF Bit, Weights, q1, q2, q4, q8, q16, q32, q64, q128, p1, p2, p4, p8, p16, p32, p64, p128

LEMMA OnesFinite ==
  ASSUME NEW bytes \in Seq(Byte), NEW w
  PROVE  /\ IsFiniteSet(Ones(bytes, w)) /\ Cardinality(Ones(bytes, w)) \in Nat
         /\ Ones(bytes, w) = {i \in 1 .. Len(bytes) : Bit(bytes[i], w) = 1}
         /\ Parity(bytes, w) = Cardinality(Ones(bytes, w)) % 2
<1>1. Len(bytes) \in Nat /\ DOMAIN bytes = 1 .. Len(bytes)
  OBVIOUS
<1>2. IsFiniteSet(1 .. Len(bytes))
  BY <1>1, FS_Interval
<1>3. Ones(bytes, w) = {i \in 1 .. Len(bytes) : Bit(bytes[i], w) = 1}
  BY <1>1 DEF Ones, Bit
<1>4. Ones(bytes, w) \in SUBSET (1 .. Len(bytes))
  BY <1>3
<1>5. IsFiniteSet(Ones(bytes, w)) /\ Cardinality(Ones(bytes, w)) \in Nat
  BY <1>2, <1>4, FS_Subset, FS_CardinalityType
<1> QED BY <1>3, <1>5 DEF Parity, Ones

(* One byte taken out and another appended: the sequence s is f without    *)
(* its j-th byte and one byte more.                                        *)
Shifted(f, s, j) ==
  /\ Len(s) = Len(f)
  /\ \A i \in 1 .. j - 1 : s[i] = f[i]
  /\ \A i \in j .. Len(f) - 1 : s[i] = f[i + 1]

LEMMA OnesMoved ==
  ASSUME NEW f \in Seq(Byte), NEW s \in Seq(Byte), NEW w, NEW j \in 1 .. Len(f), Shifted(f, s, j)
  PROVE  Cardinality(Ones(s, w) \ {Len(f)}) = Cardinality(Ones(f, w) \ {j})
<1> DEFINE n == Len(f)
           A == Ones(f, w) \ {j}
           B == Ones(s, w) \ {n}
<1>1. n \in Nat /\ j \in 1 .. n /\ Len(s) = n
  BY DEF Shifted
<1>2. \A i \in 1 .. j - 1 : s[i] = f[i]
  BY DEF Shifted
<1>3. \A i \in j .. n - 1 : s[i] = f[i + 1]
  BY DEF Shifted
<1> HIDE DEF n
<1>4. \A i : i \in A <=> i \in 1 .. n /\ i # j /\ Bit(f[i], w) = 1
  BY OnesFinite DEF n
<1>5. \A i : i \in B <=> i \in 1 .. n /\ i # n /\ Bit(s[i], w) = 1
  BY <1>1, OnesFinite
<1>6. IsFiniteSet(A)
  BY OnesFinite, FS_Subset
<1> HIDE DEF A, B
<1> DEFINE m == [i \in A |-> IF i < j THEN i ELSE i - 1]
<1>7. ASSUME NEW i \in A
      PROVE  m[i] \in B
  <2>1. i \in 1 .. n /\ i # j /\ Bit(f[i], w) = 1
    BY <1>4
  <2>2. CASE i < j
    <3>1. m[i] = i /\ i \in 1 .. j - 1 /\ i # n
      BY <1>1, <2>1, <2>2
    <3>2. s[i] = f[i]
      BY <1>2, <3>1
    <3> QED BY <1>5, <2>1, <3>1, <3>2
  <2>3. CASE ~(i < j)
    <3>1. m[i] = i - 1
      BY <2>3
    <3>2. i - 1 \in j .. n - 1 /\ i - 1 + 1 = i /\ i - 1 \in 1 .. n /\ i - 1 # n
      BY <1>1, <2>1, <2>3
    <3>3. s[i - 1] = f[i]
      BY <1>3, <3>2
    <3> HIDE DEF m
    <3> QED BY <1>5, <2>1, <3>1, <3>2, <3>3
  <2> QED BY <2>2, <2>3
<1>8. m \in [A -> B]
  BY <1>7
<1>9. \A a, b \in A : m[a] = m[b] => a = b
  <2>1. SUFFICES ASSUME NEW a \in A, NEW b \in A, m[a] = m[b]  PROVE a = b
    OBVIOUS
  <2>2. a \in 1 .. n /\ a # j /\ b \in 1 .. n /\ b # j
    BY <1>4
  <2>3. (IF a < j THEN a ELSE a - 1) = (IF b < j THEN b ELSE b - 1)
    BY <2>1
  <2> QED BY <1>1, <2>2, <2>3
<1>10. ASSUME NEW t \in B
       PROVE  \E a \in A : m[a] = t
  <2>1. t \in 1 .. n /\ t # n /\ Bit(s[t], w) = 1
    BY <1>5
  <2>2. CASE t < j
    <3>1. t \in 1 .. j - 1 /\ t # j
      BY <1>1, <2>1, <2>2
    <3>2. t \in A
      BY <1>2, <1>4, <2>1, <3>1
    <3> QED BY <2>2, <3>2
  <2>3. CASE ~(t < j)
    <3>1. t \in j .. n - 1 /\ t + 1 \in 1 .. n /\ t + 1 # j /\ ~(t + 1 < j) /\ t + 1 - 1 = t
      BY <1>1, <2>1, <2>3
    <3>2. t + 1 \in A
      BY <1>3, <1>4, <2>1, <3>1
    <3>3. m[t + 1] = t
      BY <3>1, <3>2
    <3> QED BY <3>2, <3>3
  <2> QED BY <2>2, <2>3
<1> HIDE DEF m
<1>11. m \in Bijection(A, B)
  BY <1>8, <1>9, <1>10, Fun_IsBij
<1>12. ExistsBijection(A, B)
  BY <1>11, Fun_ExistsBij
<1>13. Cardinality(B) = Cardinality(A)
  BY <1>6, <1>12, FS_Bijection
<1> QED BY <1>13 DEF A, B, n

LEMMA ParityShifted ==
  ASSUME NEW f \in Seq(Byte), NEW s \in Seq(Byte), NEW w \in Weights, NEW j \in 1 .. Len(f),
         Shifted(f, s, j)
  PROVE  Parity(s, w) = (Parity(f, w) + Bit(f[j], w) + Bit(s[Len(f)], w)) % 2
<1> DEFINE n == Len(f)
           A == Cardinality(Ones(f, w))
           B == Cardinality(Ones(s, w))
           C == Cardinality(Ones(f, w) \ {j})
           x == Bit(f[j], w)
           y == Bit(s[n], w)
<1>1. n \in Nat /\ j \in 1 .. n /\ n \in 1 .. n /\ Len(s) = n
  BY DEF Shifted
<1>2. x \in 0 .. 1 /\ y \in 0 .. 1
  <2>1. f[j] \in Byte /\ s[n] \in Byte
    BY <1>1
  <2> QED BY <2>1, BitType
<1>3. /\ A \in Nat /\ B \in Nat /\ Parity(f, w) = A % 2 /\ Parity(s, w) = B % 2
      /\ IsFiniteSet(Ones(f, w)) /\ IsFiniteSet(Ones(s, w))
  BY OnesFinite
<1>4. j \in Ones(f, w) <=> x = 1
  BY <1>1, OnesFinite
<1>5. n \in Ones(s, w) <=> y = 1
  BY <1>1, OnesFinite
<1>6. Cardinality(Ones(s, w) \ {n}) = C
  BY OnesMoved
<1>7. C = IF x = 1 THEN A - 1 ELSE A
  BY <1>3, <1>4, FS_RemoveElement
<1>8. C = IF y = 1 THEN B - 1 ELSE B
  BY <1>3, <1>5, <1>6, FS_RemoveElement
<1> HIDE DEF n, A, B, C, x, y
<1>9. A = C + x /\ B = C + y /\ C \in Int
  BY <1>2, <1>3, <1>7, <1>8
<1>10. B % 2 = ((A % 2) + x + y) % 2
  BY <1>2, <1>3, <1>9
<1> QED BY <1>3, <1>10 DEF x, y, n

(* A frame is whole when every bit is set in an odd number of its bytes.   *)
LEMMA WholeByBits ==
  ASSUME NEW f \in Seq(Byte), Len(f) >= 6
  PROVE  Whole(f) <=> \A w \in Weights : Parity(f, w) = 1
<1> DEFINE n == Len(f)
           front == SubSeq(f, 1, n - 1)
           sum == RFID_CalcChecksum(front)
<1>1. n \in Nat /\ n >= 6 /\ n - 1 \in 0 .. n /\ n \in 1 .. n
  OBVIOUS
<1>2. /\ front \in Seq(Byte) /\ Len(front) = n - 1
      /\ \A i \in 1 .. n - 1 : front[i] = f[i]
  BY <1>1
<1> HIDE DEF n, front
<1>3. sum \in Byte /\ f[n] \in Byte
  <2>1. sum \in Byte
    BY <1>2, ChecksumType
  <2>2. f[n] \in Byte
    BY <1>1 DEF n
  <2> QED BY <2>1, <2>2
<1> HIDE DEF sum
<1>4. ASSUME NEW w \in Weights
      PROVE  Bit(f[n], w) = Bit(sum, w) <=> Parity(f, w) = 1
  <2> DEFINE A == Ones(front, w)
             q == Cardinality(A)
             x == Bit(f[n], w)
  <2>1. /\ IsFiniteSet(A) /\ q \in Nat /\ Parity(front, w) = q % 2
        /\ A = {i \in 1 .. n - 1 : Bit(front[i], w) = 1}
    BY <1>2, OnesFinite
  <2>2. Ones(f, w) = {i \in 1 .. n : Bit(f[i], w) = 1}
    BY OnesFinite DEF n
  <2>3. Bit(sum, w) = 1 - Parity(front, w)
    BY <1>2, ChecksumBits DEF sum
  <2>4. x \in 0 .. 1
    BY <1>3, BitType
  <2>5. n \notin A
    BY <1>1, <2>1
  <2>6. Ones(f, w) = IF x = 1 THEN A \cup {n} ELSE A
    <3>1. ASSUME NEW i
          PROVE  i \in Ones(f, w) <=> i \in A \/ (i = n /\ x = 1)
      <4>1. CASE i \in 1 .. n - 1
        <5>1. i \in 1 .. n /\ i # n /\ front[i] = f[i]
          BY <1>1, <1>2, <4>1
        <5> QED BY <2>1, <2>2, <4>1, <5>1
      <4>2. CASE i = n
        BY <1>1, <2>2, <2>5, <4>2
      <4>3. CASE i \notin 1 .. n - 1 /\ i # n
        <5>1. i \notin 1 .. n
          BY <1>1, <4>3
        <5> QED BY <2>1, <2>2, <4>3, <5>1
      <4> QED BY <4>1, <4>2, <4>3
    <3> HIDE DEF A, x
    <3> QED BY <3>1
  <2>7. Cardinality(Ones(f, w)) = q + x
    <3>1. CASE x = 1
      BY <2>1, <2>5, <2>6, <3>1, FS_AddElement
    <3>2. CASE x = 0
      BY <2>1, <2>6, <3>2
    <3> QED BY <2>4, <3>1, <3>2
  <2>8. Parity(f, w) = (q + x) % 2
    BY <2>7, OnesFinite
  <2> HIDE DEF A, q, x
  <2>9. x = 1 - (q % 2) <=> (q + x) % 2 = 1
    BY <2>1, <2>4
  <2> QED BY <2>1, <2>3, <2>8, <2>9, Zenon DEF x
<1>5. Whole(f) <=> f[n] = sum
  BY <1>1 DEF Whole, n, front, sum
<1>6. f[n] = sum <=> \A w \in Weights : Bit(f[n], w) = Bit(sum, w)
  BY <1>3, BytesByBits
<1> QED BY <1>4, <1>5, <1>6

(* A frame that has lost a byte and taken the next one for its last passes *)
(* the checksum exactly when the two are equal.                            *)
THEOREM CardReaderShiftedChecksum ==
  ASSUME NEW f \in Seq(Byte), NEW s \in Seq(Byte), NEW j \in 1 .. Len(f), Shifted(f, s, j),
         Whole(f)
  PROVE  Whole(s) <=> s[Len(f)] = f[j]
<1>1. Len(f) \in Nat /\ Len(f) >= 6 /\ Len(s) = Len(f) /\ Len(f) \in 1 .. Len(f)
  BY DEF Whole, Shifted
<1>2. f[j] \in Byte /\ s[Len(f)] \in Byte
  BY <1>1
<1>3. \A w \in Weights : Parity(f, w) = 1
  BY <1>1, WholeByBits
<1>4. ASSUME NEW w \in Weights
      PROVE  Parity(s, w) = 1 <=> Bit(s[Len(f)], w) = Bit(f[j], w)
  <2> DEFINE x == Bit(f[j], w)
             y == Bit(s[Len(f)], w)
  <2>1. x \in 0 .. 1 /\ y \in 0 .. 1
    BY <1>2, BitType
  <2>2. Parity(s, w) = (1 + x + y) % 2
    BY <1>3, ParityShifted
  <2> HIDE DEF x, y
  <2>3. (1 + x + y) % 2 = 1 <=> y = x
    BY <2>1
  <2> QED BY <2>2, <2>3 DEF x, y
<1>5. Whole(s) <=> \A w \in Weights : Parity(s, w) = 1
  BY <1>1, WholeByBits
<1> QED BY <1>2, <1>4, <1>5, BytesByBits

-----------------------------------------------------------------------------
(* One byte lost.                                                          *)

LEMMA ByteAt ==
  ASSUME NEW s \in Seq(Byte), NEW i \in 1 .. Len(s)
  PROVE  s[i] \in Byte
OBVIOUS

LEMMA SeqOfBytes ==
  ASSUME NEW n \in Nat, NEW t \in [1 .. n -> Byte]
  PROVE  t \in Seq(Byte)
BY SeqDef, Zenon

LEMMA LongIs ==
  ASSUME NEW c \in Cards, NEW d \in Cards, NEW answered \in BOOLEAN
  PROVE  LET s == LongFrame(c, d, answered)
         IN /\ s \in Seq(Byte) /\ Len(s) = 48 /\ s[1] = 4 /\ s[2] = 48
            /\ \A i \in 3 .. 25 : s[i] = IdBlock(c)[i + 3]
            /\ ~answered => \A i \in 26 .. 48 : s[i] = IdBlock(d)[i - 25]
            /\ answered => /\ \A i \in 26 .. 33 : s[i] = Answer[i - 25]
                           /\ \A i \in 34 .. 48 : s[i] = IdBlock(d)[i - 33]
<1> DEFINE f == IdBlock(c)
           next == IdBlock(d)
           more == IF answered THEN Answer \o next ELSE next
           long == [i \in 1 .. 48 |-> CASE i < 3        -> f[i + 2]
                                       [] i \in 3 .. 25 -> f[i + 3]
                                       [] OTHER         -> more[i - 25]]
<1>1. LongFrame(c, d, answered) = long
  BY DEF LongFrame, IdBlock
<1>2. f \in Seq(Byte) /\ Len(f) = 28 /\ f[3] = 4 /\ f[4] = 48
  BY IdBlockIs
<1>3. next \in Seq(Byte) /\ Len(next) = 28
  BY IdBlockIs
<1>4. /\ more \in Seq(Byte) /\ Len(more) >= 23
      /\ ~answered => more = next
      /\ answered => /\ \A i \in 1 .. 8 : more[i] = Answer[i]
                     /\ \A i \in 9 .. 36 : more[i] = next[i - 8]
  <2> DEFINE both == Answer \o next
  <2>1. Answer \in Seq(Byte) /\ Len(Answer) = 8
    BY AnswerType
  <2> HIDE DEF next
  <2>2. /\ both \in Seq(Byte) /\ Len(both) = Len(Answer) + Len(next)
        /\ \A i \in 1 .. Len(Answer) + Len(next) :
             both[i] = IF i <= Len(Answer) THEN Answer[i] ELSE next[i - Len(Answer)]
    BY <1>3, <2>1, ConcatProperties
  <2>3. CASE answered
    <3>1. more = both
      BY <2>3
    <3> HIDE DEF more, both
    <3>2. Len(both) = 36 /\ \A i \in 1 .. 36 : both[i] = IF i <= 8 THEN Answer[i] ELSE next[i - 8]
      BY <1>3, <2>1, <2>2
    <3>3. \A i \in 1 .. 8 : both[i] = Answer[i]
      BY <3>2
    <3>4. \A i \in 9 .. 36 : both[i] = next[i - 8]
      BY <3>2
    <3>5. Len(both) >= 23
      BY <3>2
    <3> QED BY <2>2, <2>3, <3>1, <3>3, <3>4, <3>5
  <2>4. CASE ~answered
    <3>1. more = next
      BY <2>4
    <3> HIDE DEF more
    <3>2. Len(next) >= 23
      BY <1>3
    <3> QED BY <1>3, <2>4, <3>1, <3>2, Zenon
  <2> QED BY <2>3, <2>4
<1> HIDE DEF f, next, more
<1>5. long[1] = f[3] /\ long[2] = f[4]
  OBVIOUS
<1>6. \A i \in 3 .. 25 : long[i] = f[i + 3]
  OBVIOUS
<1>7. \A i \in 26 .. 48 : long[i] = more[i - 25]
  OBVIOUS
<1>8. DOMAIN long = 1 .. 48 /\ long = [i \in 1 .. 48 |-> long[i]]
  OBVIOUS
<1> HIDE DEF long
<1>9. ASSUME NEW i \in 1 .. 48
      PROVE  long[i] \in Byte
  <2>1. CASE i \in {1, 2}
    <3>1. 3 \in 1 .. Len(f) /\ 4 \in 1 .. Len(f)
      BY <1>2
    <3>2. f[3] \in Byte /\ f[4] \in Byte
      BY <1>2, <3>1, ByteAt, Zenon
    <3> QED BY <1>5, <2>1, <3>2
  <2>2. CASE i \in 3 .. 25
    <3>1. i + 3 \in 1 .. Len(f)
      BY <1>2, <2>2
    <3>2. f[i + 3] \in Byte
      BY <1>2, <3>1, ByteAt, Zenon
    <3> QED BY <1>6, <2>2, <3>2
  <2>3. CASE i \in 26 .. 48
    <3>1. i - 25 \in 1 .. Len(more)
      BY <1>4, <2>3
    <3>2. more[i - 25] \in Byte
      BY <1>4, <3>1, ByteAt, Zenon
    <3> QED BY <1>7, <2>3, <3>2
  <2>4. i \in {1, 2} \/ i \in 3 .. 25 \/ i \in 26 .. 48
    OBVIOUS
  <2> QED BY <2>1, <2>2, <2>3, <2>4
<1>10. long \in [1 .. 48 -> Byte]
  BY <1>8, <1>9
<1>11. long \in Seq(Byte) /\ Len(long) = 48
  <2>1. 48 \in Nat
    OBVIOUS
  <2>2. long \in Seq(Byte)
    BY <1>10, <2>1, SeqOfBytes, Zenon
  <2> QED BY <1>8, <2>2
<1>13. ASSUME answered
       PROVE  /\ \A i \in 26 .. 33 : long[i] = Answer[i - 25]
              /\ \A i \in 34 .. 48 : long[i] = next[i - 33]
  <2>1. ASSUME NEW i \in 26 .. 33  PROVE long[i] = Answer[i - 25]
    <3>1. i \in 26 .. 48 /\ i - 25 \in 1 .. 8
      OBVIOUS
    <3> QED BY <1>4, <1>7, <1>13, <3>1
  <2>2. ASSUME NEW i \in 34 .. 48  PROVE long[i] = next[i - 33]
    <3>1. i \in 26 .. 48 /\ i - 25 \in 9 .. 36 /\ i - 25 - 8 = i - 33
      OBVIOUS
    <3> QED BY <1>4, <1>7, <1>13, <3>1
  <2> QED BY <2>1, <2>2
<1>14. ~answered => \A i \in 26 .. 48 : long[i] = next[i - 25]
  BY <1>4, <1>7
<1> QED BY <1>1, <1>2, <1>5, <1>6, <1>11, <1>13, <1>14 DEF f, next

LEMMA SentMore ==
  ASSUME TypeOK, NEW f \in Sent
  PROVE  /\ f[1] = 1 => f = Answer
         /\ f[1] = 4 => f # Answer /\ f[3] \in 2 .. 4 /\ Whole(f) /\ Len(f) <= 28
         /\ NoAnswerHeader /\ f[1] = 4 => \A i \in 1 .. Len(f) : f[i] # 1
         /\ OfMode(f) /\ f[3] = 4 => reader.mode = "idblock" /\ \E c \in Cards : f = IdBlock(c)
<1>1. CASE f = Answer
  <2>1. f[1] = 1 /\ f[3] = 161
    BY <1>1, AnswerType
  <2>2. 1 # 4 /\ 161 # 4
    OBVIOUS
  <2> QED BY <1>1, <2>1, <2>2, Zenon
<1>2. CASE f # Answer
  <2>1. PICK m \in Modes \ {"command"}, c \in Cards : f = AutoFrame(m, c)
    BY <1>2 DEF Sent
  <2>2. f \in Seq(Byte) /\ Len(f) \in {12, 22, 28} /\ f[1] = 4 /\ f[3] \in 2 .. 4 /\ Whole(f)
    BY <2>1, AutoFrameType
  <2>3. DOMAIN f = 1 .. Len(f) /\ Len(f) <= 28 /\ f[1] # 1
    <3>1. Len(f) <= 28
      <4>1. ASSUME NEW l \in {12, 22, 28}  PROVE l <= 28
        OBVIOUS
      <4> QED BY <2>2, <4>1, Zenon
    <3>2. f[1] # 1
      <4>1. 4 # 1
        OBVIOUS
      <4> QED BY <2>2, <4>1, Zenon
    <3>3. DOMAIN f = 1 .. Len(f)
      BY <2>2
    <3> QED BY <3>1, <3>2, <3>3
  <2>4. NoAnswerHeader => \A i \in 1 .. Len(f) : f[i] # 1
    BY <2>1, <2>3 DEF NoAnswerHeader
  <2>5. ASSUME OfMode(f), f[3] = 4
        PROVE  reader.mode = "idblock" /\ \E d \in Cards : f = IdBlock(d)
    <3>1. PICK d \in Cards : f = AutoFrame(reader.mode, d)
      BY <1>2, <2>5 DEF OfMode
    <3>2. reader.mode \in Modes \ {"command"}
      BY <1>2, <2>5 DEF OfMode, TypeOK
    <3>3. reader.mode = "idblock"
      BY <2>5, <3>1, <3>2, AutoFrameType
    <3> QED BY <3>1, <3>3 DEF IdBlock
  <2> QED BY <1>2, <2>2, <2>3, <2>4, <2>5
<1> QED BY <1>1, <1>2

(* With a 4 in a card's frame and a byte after it left out.                *)
LEMMA SentLess ==
  ASSUME NoFrameWithin, NoFrameWithinLess, NEW f \in Sent, NEW i \in 2 .. Len(f) - 2, f[i] = 4
  PROVE  /\ f[i + 2] \in 6 .. 64 => i + 3 <= Len(f) /\ f[i + 3] \notin 2 .. 4
         /\ f[i + 1] \in 6 .. 64 /\ i # 3 => i + 3 <= Len(f) /\ f[i + 3] \notin 2 .. 4
<1>1. f # Answer
  <2>1. SUFFICES ASSUME f = Answer PROVE FALSE
    OBVIOUS
  <2>2. Len(f) = 8 /\ \A k \in 2 .. 6 : f[k] # 4
    BY <2>1, AnswerType
  <2> QED BY <2>2
<1>2. PICK m \in Modes \ {"command"}, c \in Cards : f = AutoFrame(m, c)
  BY <1>1 DEF Sent
<1> QED BY <1>2, Zenon DEF NoFrameWithinLess

(* A byte taken by the receiver.                                           *)
LEMMA RxTakes ==
  ASSUME TypeOK, RxOK, NEW b \in Byte, rx' = RFID_OnRxByte(b)
  PROVE  LET n == Len(rx.buf)
         IN /\ n \in Nat /\ (n = 0 \/ n = 1 \/ n >= 2) /\ (rx.buf = <<>> <=> n = 0)
            /\ rx.ready => n >= 2 /\ rx' = rx
            /\ n = 0 /\ b \notin Headers => rx' = rx
            /\ n = 0 /\ b \in Headers =>
                 /\ rx'.buf \in Seq(Byte) /\ Len(rx'.buf) = 1 /\ rx'.buf[1] = b /\ ~rx'.ready
            /\ n = 1 => ~rx.ready
            /\ n = 1 /\ b \notin 6 .. 64 => rx'.buf = <<>>
            /\ n = 1 /\ b \in 6 .. 64 =>
                 /\ rx'.buf \in Seq(Byte) /\ Len(rx'.buf) = 2 /\ rx'.buf[1] = rx.buf[1]
                 /\ rx'.buf[2] = b /\ rx'.expected = b /\ ~rx'.ready
            /\ ~rx.ready /\ n >= 2 =>
                 /\ rx'.buf \in Seq(Byte) /\ Len(rx'.buf) = n + 1
                 /\ \A i \in 1 .. n : rx'.buf[i] = rx.buf[i]
                 /\ rx'.buf[n + 1] = b
                 /\ rx.expected \in 6 .. 64 /\ n < rx.expected /\ rx'.expected = rx.expected
                 /\ rx'.ready <=> n + 1 = rx.expected
<1> DEFINE n == Len(rx.buf)
           more == Append(rx.buf, b)
<1>1. /\ rx.buf \in Seq(Byte) /\ n \in Nat
      /\ rx.buf = <<>> <=> n = 0
      /\ n = 0 \/ n = 1 \/ n >= 2
      /\ rx.ready => n >= 2
      /\ n >= 2 => /\ rx.expected \in 6 .. 64 /\ n \in 2 .. rx.expected
                   /\ rx.ready <=> n = rx.expected
  BY RxLen
<1>2. rx \in [buf: Seq(Byte), expected: Byte, ready: BOOLEAN]
  BY DEF TypeOK
<1>3. /\ rx.ready => rx' = rx
      /\ rx.buf = <<>> /\ b \notin Headers => rx' = rx
      /\ rx.buf = <<>> /\ b \in Headers =>
           rx' = [buf |-> <<b>>, expected |-> 0, ready |-> FALSE]
      /\ n = 1 /\ b \notin 6 .. 64 => rx' = Empty
      /\ n = 1 /\ b \in 6 .. 64 => rx' = [buf |-> more, expected |-> b, ready |-> FALSE]
      /\ ~rx.ready /\ n >= 2 =>
           rx' = [buf |-> more, expected |-> rx.expected, ready |-> n + 1 = rx.expected]
  BY <1>2, OnRxByteIs
<1>4. /\ more \in Seq(Byte) /\ Len(more) = n + 1
      /\ \A i \in 1 .. n : more[i] = rx.buf[i]
      /\ more[n + 1] = b
  BY <1>1, AppendIs
<1> HIDE DEF n, more
<1>5. ASSUME n = 0, b \in Headers
      PROVE  /\ rx'.buf \in Seq(Byte) /\ Len(rx'.buf) = 1 /\ rx'.buf[1] = b /\ ~rx'.ready
  <2>1. rx'.buf = <<b>> /\ ~rx'.ready
    BY <1>1, <1>3, <1>5
  <2>2. <<b>> \in Seq(Byte) /\ Len(<<b>>) = 1 /\ <<b>>[1] = b
    OBVIOUS
  <2> QED BY <2>1, <2>2, Zenon
<1>6. ASSUME n = 1
      PROVE  ~rx.ready /\ (b \notin 6 .. 64 => rx'.buf = <<>>)
  <2>1. ~(1 >= 2)
    OBVIOUS
  <2>2. ~rx.ready
    BY <1>1, <1>6, <2>1
  <2>3. b \notin 6 .. 64 => rx'.buf = <<>>
    BY <1>3, <1>6, EmptyOK
  <2> QED BY <2>2, <2>3
<1>7. ASSUME n = 1, b \in 6 .. 64
      PROVE  /\ rx'.buf \in Seq(Byte) /\ Len(rx'.buf) = 2 /\ rx'.buf[1] = rx.buf[1]
             /\ rx'.buf[2] = b /\ rx'.expected = b /\ ~rx'.ready
  <2>1. rx'.buf = more /\ rx'.expected = b /\ ~rx'.ready
    BY <1>3, <1>7
  <2>2. 1 + 1 = 2 /\ 1 \in 1 .. 1
    OBVIOUS
  <2> QED BY <1>4, <1>7, <2>1, <2>2, Zenon
<1>8. ASSUME ~rx.ready, n >= 2
      PROVE  /\ rx'.buf \in Seq(Byte) /\ Len(rx'.buf) = n + 1
             /\ \A i \in 1 .. n : rx'.buf[i] = rx.buf[i]
             /\ rx'.buf[n + 1] = b
             /\ rx.expected \in 6 .. 64 /\ n < rx.expected /\ rx'.expected = rx.expected
             /\ rx'.ready <=> n + 1 = rx.expected
  <2> DEFINE all == n + 1 = rx.expected
             e == rx.expected
  <2>1. rx' = [buf |-> more, expected |-> e, ready |-> all]
    BY <1>3, <1>8
  <2>2. all \in BOOLEAN
    OBVIOUS
  <2>3. e \in 6 .. 64 /\ n \in 2 .. e /\ n # e
    BY <1>1, <1>8
  <2> HIDE DEF all, e
  <2>4. n < e
    BY <1>1, <2>3, NotYetAll, Zenon
  <2>5. rx'.buf = more /\ rx'.expected = e /\ rx'.ready = all
    BY <2>1
  <2>6. rx'.ready <=> all
    BY <2>2, <2>5
  <2> QED BY <1>4, <2>3, <2>4, <2>5, <2>6, Zenon DEF all, e
<1> QED BY <1>1, <1>3, <1>5, <1>6, <1>7, <1>8, Zenon DEF n

(* A frame without its j-th byte, which is no header.                      *)
Lacking(h, j) ==
  /\ h[1] = 4 /\ j \in 3 .. Len(h) /\ h[j] \notin {1, 4}
  /\ ~rx.ready /\ rx.expected = Len(h) /\ Len(rx.buf) >= 2
  /\ \A i \in 1 .. Len(rx.buf) : rx.buf[i] = IF i < j THEN h[i] ELSE h[i + 1]

(* The receiver lacks a byte of the frame on its way, or of the one before *)
(* and only that.                                                          *)
Behind(f) ==
  \/ \E j \in 3 .. At(f) : Lacking(f, j) /\ Len(rx.buf) + 1 = At(f)
  \/ \E h \in Sent, j \in 3 .. 28 : Lacking(h, j) /\ At(f) = 0 /\ Len(rx.buf) + 1 = Len(h)

Holds(s) == \A i \in 1 .. Len(rx.buf) : rx.buf[i] = s[i]

(* The receiver began at the third byte of a frame and lacks the fifth.    *)
Long(f) ==
  /\ reader.mode = "idblock"
  /\ ~rx.ready /\ rx.expected = 48 /\ Len(rx.buf) >= 2
  /\ \E c \in Cards :
       \/ /\ f = IdBlock(c) /\ At(f) = Len(rx.buf) + 3
          /\ \A d \in Cards, answered \in BOOLEAN : Holds(LongFrame(c, d, answered))
       \/ /\ f = Answer /\ 25 + At(f) = Len(rx.buf) /\ ~reader.owes
          /\ \A d \in Cards : Holds(LongFrame(c, d, TRUE))
       \/ \E d \in Cards :
            /\ f = IdBlock(d)
            /\ \/ 25 + At(f) = Len(rx.buf) /\ Holds(LongFrame(c, d, FALSE))
               \/ 33 + At(f) = Len(rx.buf) /\ Holds(LongFrame(c, d, TRUE))

Astray(f) ==
  \/ WithIt(f) \/ Behind(f) \/ Long(f)
  \/ rx.ready /\ (rx.buf \in Sent \/ ~Whole(rx.buf))
  \/ /\ Len(rx.buf) = 1
     /\ At(f) < Len(f) /\ f[At(f) + 1] \in 6 .. 64 => At(f) + 2 <= Len(f) /\ f[At(f) + 2] \notin 2 .. 4
  \/ Len(rx.buf) = 2 /\ ~rx.ready /\ At(f) < Len(f) /\ f[At(f) + 1] \notin 2 .. 4
  \/ Len(rx.buf) >= 3 /\ rx.buf[3] \notin 2 .. 4

After(f) == Remains(f) /\ (rx.buf # <<>> /\ rx.buf[1] = 4 => Astray(f))

OneLossInv ==
  /\ LosslessInv
  /\ faults = 0 => lost = {}
  /\ faults = 1 /\ lost # {} /\ 4 \notin lost => \E f \in Sent : After(f)

LEMMA LongBytes ==
  ASSUME NEW c \in Cards, NEW d \in Cards
  PROVE  /\ \A i \in 26 .. 48 : LongFrame(c, d, FALSE)[i] = IdBlock(d)[i - 25]
         /\ \A i \in 26 .. 33 : LongFrame(c, d, TRUE)[i] = Answer[i - 25]
         /\ \A i \in 34 .. 48 : LongFrame(c, d, TRUE)[i] = IdBlock(d)[i - 33]
<1>1. TRUE \in BOOLEAN /\ FALSE \in BOOLEAN /\ TRUE /\ ~FALSE
  OBVIOUS
<1> QED BY <1>1, LongIs, Zenon

(* Where the bytes of a frame are that begins within another.              *)
LEMMA LongPlaces ==
  ASSUME NEW n \in Nat, NEW k \in 0 .. 27, n >= 2, n < 48
  PROVE  /\ k = n + 3 => n + 1 \in 3 .. 25 /\ k + 1 = n + 1 + 3 /\ ~(n + 1 = 48)
         /\ 25 + k = n => n + 1 \in 26 .. 48 /\ k + 1 = (n + 1) - 25 /\ 25 + (k + 1) = n + 1
         /\ 25 + k = n /\ k + 1 <= 8 => n + 1 \in 26 .. 33 /\ ~(n + 1 = 48)
         /\ 33 + k = n => n + 1 \in 34 .. 48 /\ k + 1 = (n + 1) - 33 /\ 33 + (k + 1) = n + 1
OBVIOUS

LEMMA BehindPlaces ==
  ASSUME NEW n \in Nat, NEW k \in 0 .. 27, NEW l \in 8 .. 28, k + 1 \in 1 .. l, n + 1 = k
  PROVE  n + 1 + 1 = k + 1 /\ ~(n + 1 = l)
OBVIOUS

(* A byte of the long frame comes.                                         *)
LEMMA ByteLong ==
  ASSUME NoLongFrame, NoFrameWithin, TypeOK, RxOK, NEW f \in Sent, Remains(f), Long(f),
         reader.out # <<>>, reader'.out = Tail(reader.out), reader'.mode = reader.mode,
         reader'.owes = reader.owes, rx' = RFID_OnRxByte(Head(reader.out))
  PROVE  Long(f)' \/ (rx'.ready /\ ~Whole(rx'.buf))
<1> DEFINE b == Head(reader.out)
           n == Len(rx.buf)
           k == At(f)
<1>1. /\ k \in 0 .. 27 /\ k + 1 \in 1 .. Len(f) /\ At(f)' = k + 1
      /\ b \in Byte /\ b = f[k + 1]
  BY OutGoes
<1>2. rx.expected = 48 /\ n >= 2 /\ ~rx.ready /\ reader.mode = "idblock"
  BY DEF Long
<1> HIDE DEF b
<1>3. /\ n \in Nat /\ n < 48 /\ rx'.expected = 48
      /\ rx'.buf \in Seq(Byte) /\ Len(rx'.buf) = n + 1
      /\ \A i \in 1 .. n : rx'.buf[i] = rx.buf[i]
      /\ rx'.buf[n + 1] = b
      /\ rx'.ready <=> n + 1 = 48
  <2>1. rx' = RFID_OnRxByte(b)
    BY DEF b
  <2> QED BY <1>1, <1>2, <2>1, RxTakes
<1> HIDE DEF n
<1>4. n + 1 >= 2
  BY <1>2, <1>3
<1>5. ASSUME NEW s, Holds(s), s[n + 1] = b
      PROVE  Holds(s)'
  <2>1. SUFFICES ASSUME NEW i \in 1 .. n + 1  PROVE rx'.buf[i] = s[i]
    BY <1>3 DEF Holds
  <2>2. CASE i = n + 1
    BY <1>3, <1>5, <2>2
  <2>3. CASE i # n + 1
    <3>1. i \in 1 .. n
      BY <1>3, <2>3
    <3> QED BY <1>3, <1>5, <3>1 DEF Holds, n
  <2> QED BY <2>2, <2>3
<1> HIDE DEF k
<1>6. /\ k = n + 3 => n + 1 \in 3 .. 25 /\ k + 1 = n + 1 + 3 /\ ~(n + 1 = 48)
      /\ 25 + k = n => n + 1 \in 26 .. 48 /\ k + 1 = (n + 1) - 25 /\ 25 + (k + 1) = n + 1
      /\ 25 + k = n /\ k + 1 <= 8 => n + 1 \in 26 .. 33 /\ ~(n + 1 = 48)
      /\ 33 + k = n => n + 1 \in 34 .. 48 /\ k + 1 = (n + 1) - 33 /\ 33 + (k + 1) = n + 1
  BY <1>1, <1>2, <1>3, LongPlaces, Zenon
<1>7. ~(n + 1 = 48) => ~rx'.ready
  BY <1>3
<1>8. ASSUME NEW c \in Cards, NEW d \in Cards, NEW answered \in BOOLEAN,
             Holds(LongFrame(c, d, answered))', rx'.ready
      PROVE  ~Whole(rx'.buf)
  <2> DEFINE s == LongFrame(c, d, answered)
  <2>1. s \in Seq(Byte) /\ Len(s) = 48 /\ ~Whole(s)
    <3>1. s \in Seq(Byte) /\ Len(s) = 48
      BY LongIs
    <3>2. s[48] # RFID_CalcChecksum(SubSeq(s, 1, 47))
      BY Zenon DEF NoLongFrame
    <3> HIDE DEF s
    <3>3. Len(s) - 1 = 47
      BY <3>1
    <3> QED BY <3>1, <3>2, <3>3, Zenon DEF Whole
  <2>2. Len(rx'.buf) = 48 /\ \A i \in 1 .. Len(rx'.buf) : rx'.buf[i] = s[i]
    BY <1>3, <1>8 DEF Holds
  <2> HIDE DEF s
  <2>3. rx'.buf = s
    BY <1>3, <2>1, <2>2, SeqEqual
  <2> QED BY <2>1, <2>3
<1>9. PICK c \in Cards :
        \/ /\ f = IdBlock(c) /\ k = n + 3
           /\ \A d \in Cards, answered \in BOOLEAN : Holds(LongFrame(c, d, answered))
        \/ /\ f = Answer /\ 25 + k = n /\ ~reader.owes
           /\ \A d \in Cards : Holds(LongFrame(c, d, TRUE))
        \/ \E d \in Cards :
             /\ f = IdBlock(d)
             /\ \/ 25 + k = n /\ Holds(LongFrame(c, d, FALSE))
                \/ 33 + k = n /\ Holds(LongFrame(c, d, TRUE))
  BY DEF Long, k, n
<1>10. reader'.mode = "idblock" /\ rx'.expected = 48 /\ Len(rx'.buf) >= 2
  BY <1>2, <1>3, <1>4
<1>11. CASE /\ f = IdBlock(c) /\ k = n + 3
            /\ \A d \in Cards, answered \in BOOLEAN : Holds(LongFrame(c, d, answered))
  <2>1. ASSUME NEW d \in Cards, NEW answered \in BOOLEAN
        PROVE  Holds(LongFrame(c, d, answered))'
    <3>1. LongFrame(c, d, answered)[n + 1] = IdBlock(c)[n + 1 + 3]
      BY <1>6, <1>11, LongIs
    <3> QED BY <1>1, <1>5, <1>6, <1>11, <3>1
  <2>2. ~rx'.ready /\ k + 1 = Len(rx'.buf) + 3
    BY <1>3, <1>6, <1>7, <1>11
  <2> QED BY <1>1, <1>10, <1>11, <2>1, <2>2 DEF Long
<1>12. CASE /\ f = Answer /\ 25 + k = n /\ ~reader.owes
            /\ \A d \in Cards : Holds(LongFrame(c, d, TRUE))
  <2>1. k + 1 <= 8
    BY <1>1, <1>12, AnswerType
  <2>2. ASSUME NEW d \in Cards
        PROVE  Holds(LongFrame(c, d, TRUE))'
    <3>1. LongFrame(c, d, TRUE)[n + 1] = Answer[(n + 1) - 25]
      <4>1. \A i \in 26 .. 33 : LongFrame(c, d, TRUE)[i] = Answer[i - 25]
        BY LongBytes, Zenon
      <4>2. n + 1 \in 26 .. 33
        BY <1>6, <1>12, <2>1, Zenon
      <4> QED BY <4>1, <4>2, Zenon
    <3> QED BY <1>1, <1>5, <1>6, <1>12, <3>1
  <2>3. ~rx'.ready /\ 25 + (k + 1) = Len(rx'.buf)
    BY <1>3, <1>6, <1>7, <1>12, <2>1
  <2> QED BY <1>1, <1>10, <1>12, <2>2, <2>3 DEF Long
<1>13. ASSUME NEW d \in Cards, f = IdBlock(d), 25 + k = n, Holds(LongFrame(c, d, FALSE))
       PROVE  Long(f)' \/ (rx'.ready /\ ~Whole(rx'.buf))
  <2>1. LongFrame(c, d, FALSE)[n + 1] = IdBlock(d)[(n + 1) - 25]
    <3>1. \A i \in 26 .. 48 : LongFrame(c, d, FALSE)[i] = IdBlock(d)[i - 25]
      BY LongBytes, Zenon
    <3>2. n + 1 \in 26 .. 48
      BY <1>6, <1>13, Zenon
    <3> QED BY <3>1, <3>2, Zenon
  <2>2. Holds(LongFrame(c, d, FALSE))'
    BY <1>1, <1>5, <1>6, <1>13, <2>1
  <2>3. CASE rx'.ready
    BY <1>8, <2>2, <2>3
  <2>4. CASE ~rx'.ready
    <3>1. 25 + (k + 1) = Len(rx'.buf)
      BY <1>3, <1>6, <1>13
    <3> QED BY <1>1, <1>10, <1>13, <2>2, <2>4, <3>1 DEF Long
  <2> QED BY <2>3, <2>4
<1>14. ASSUME NEW d \in Cards, f = IdBlock(d), 33 + k = n, Holds(LongFrame(c, d, TRUE))
       PROVE  Long(f)' \/ (rx'.ready /\ ~Whole(rx'.buf))
  <2>1. LongFrame(c, d, TRUE)[n + 1] = IdBlock(d)[(n + 1) - 33]
    <3>1. \A i \in 34 .. 48 : LongFrame(c, d, TRUE)[i] = IdBlock(d)[i - 33]
      BY LongBytes, Zenon
    <3>2. n + 1 \in 34 .. 48
      BY <1>6, <1>14, Zenon
    <3> QED BY <3>1, <3>2, Zenon
  <2>2. Holds(LongFrame(c, d, TRUE))'
    BY <1>1, <1>5, <1>6, <1>14, <2>1
  <2>3. CASE rx'.ready
    BY <1>8, <2>2, <2>3
  <2>4. CASE ~rx'.ready
    <3>1. 33 + (k + 1) = Len(rx'.buf)
      BY <1>3, <1>6, <1>14
    <3> QED BY <1>1, <1>10, <1>14, <2>2, <2>4, <3>1 DEF Long
  <2> QED BY <2>3, <2>4
<1> QED BY <1>9, <1>11, <1>12, <1>13, <1>14

(* A byte of the frame that lacks one, or the one that takes its place.    *)
LEMMA ByteBehind ==
  ASSUME NoFrameWithin, TypeOK, RxOK, NEW f \in Sent, Remains(f), Behind(f),
         reader.out # <<>>, reader'.out = Tail(reader.out), reader'.mode = reader.mode,
         rx' = RFID_OnRxByte(Head(reader.out))
  PROVE  Behind(f)' \/ (rx'.ready /\ ~Whole(rx'.buf))
<1> DEFINE b == Head(reader.out)
           n == Len(rx.buf)
           k == At(f)
<1>1. /\ k \in 0 .. 27 /\ k + 1 \in 1 .. Len(f) /\ At(f)' = k + 1
      /\ b \in Byte /\ b = f[k + 1]
  BY OutGoes
<1>2. n >= 2 /\ ~rx.ready
  BY DEF Behind, Lacking
<1> HIDE DEF b
<1>3. /\ n \in Nat
      /\ rx'.buf \in Seq(Byte) /\ Len(rx'.buf) = n + 1
      /\ \A i \in 1 .. n : rx'.buf[i] = rx.buf[i]
      /\ rx'.buf[n + 1] = b
      /\ rx'.expected = rx.expected
      /\ rx'.ready <=> n + 1 = rx.expected
  <2>1. rx' = RFID_OnRxByte(b)
    BY DEF b
  <2> QED BY <1>1, <1>2, <2>1, RxTakes
<1>4. f \in Seq(Byte) /\ Len(f) \in 8 .. 28 /\ f[1] \in {1, 4}
  BY SentIs
<1>5. n + 1 >= 2
  BY <1>2, <1>3
<1>6. \/ \E j \in 3 .. k : Lacking(f, j) /\ n + 1 = k
      \/ \E h \in Sent, j \in 3 .. 28 : Lacking(h, j) /\ k = 0 /\ n + 1 = Len(h)
  BY DEF Behind
<1> HIDE DEF n, k
<1>7. ASSUME NEW j \in 3 .. k, Lacking(f, j), n + 1 = k
      PROVE  Behind(f)'
  <2>1. /\ f[1] = 4 /\ j \in 3 .. Len(f) /\ f[j] \notin {1, 4} /\ rx.expected = Len(f)
        /\ \A i \in 1 .. n : rx.buf[i] = IF i < j THEN f[i] ELSE f[i + 1]
    BY <1>7 DEF Lacking, n
  <2>2. ASSUME NEW i \in 1 .. n + 1
        PROVE  rx'.buf[i] = IF i < j THEN f[i] ELSE f[i + 1]
    <3>1. CASE i = n + 1
      <4>1. ~(n + 1 < j)
        BY <1>1, <1>7
      <4> QED BY <1>1, <1>3, <1>7, <3>1, <4>1
    <3>2. CASE i # n + 1
      <4>1. i \in 1 .. n
        BY <1>3, <3>2
      <4> QED BY <1>3, <2>1, <4>1
    <3> QED BY <3>1, <3>2
  <2>3. (n + 1) + 1 = k + 1 /\ ~(n + 1 = Len(f))
    BY <1>1, <1>3, <1>4, <1>7, BehindPlaces, Zenon
  <2>4. ~rx'.ready
    BY <1>3, <2>1, <2>3
  <2>5. Lacking(f, j)'
    BY <1>3, <1>5, <2>1, <2>2, <2>4 DEF Lacking
  <2>6. j \in 3 .. k + 1 /\ Len(rx'.buf) + 1 = k + 1
    BY <1>1, <1>3, <2>3
  <2> QED BY <1>1, <2>5, <2>6 DEF Behind
<1>8. ASSUME NEW h \in Sent, NEW j \in 3 .. 28, Lacking(h, j), k = 0, n + 1 = Len(h)
      PROVE  rx'.ready /\ ~Whole(rx'.buf)
  <2>1. /\ h[1] = 4 /\ j \in 3 .. Len(h) /\ h[j] \notin {1, 4} /\ rx.expected = Len(h)
        /\ \A i \in 1 .. n : rx.buf[i] = IF i < j THEN h[i] ELSE h[i + 1]
    BY <1>8 DEF Lacking, n
  <2>2. h \in Seq(Byte) /\ Whole(h)
    BY <2>1, SentIs, SentMore
  <2>3. j \in 1 .. Len(h) /\ Len(h) - 1 = n
    BY <1>3, <1>8, <2>1
  <2>4. Shifted(h, rx'.buf, j)
    <3>1. ASSUME NEW i \in 1 .. j - 1
          PROVE  rx'.buf[i] = h[i]
      <4>1. i \in 1 .. n /\ i < j
        BY <1>3, <1>8, <2>1
      <4> QED BY <1>3, <2>1, <4>1
    <3>2. ASSUME NEW i \in j .. n
          PROVE  rx'.buf[i] = h[i + 1]
      <4>1. i \in 1 .. n /\ ~(i < j)
        BY <1>3, <2>1
      <4> QED BY <1>3, <2>1, <4>1
    <3> QED BY <1>3, <1>8, <2>3, <3>1, <3>2 DEF Shifted
  <2>5. Whole(rx'.buf) <=> rx'.buf[Len(h)] = h[j]
    BY <1>3, <2>2, <2>3, <2>4, CardReaderShiftedChecksum
  <2>6. b = f[1]
    <3>1. 0 + 1 = 1
      OBVIOUS
    <3> QED BY <1>1, <1>8, <3>1
  <2>7. rx'.buf[Len(h)] \in {1, 4}
    BY <1>3, <1>4, <1>8, <2>6
  <2> QED BY <1>3, <1>8, <2>1, <2>5, <2>7
<1> QED BY <1>6, <1>7, <1>8

LEMMA NextPlaces ==
  ASSUME NEW k \in 0 .. 27, NEW l \in 8 .. 28, k + 1 \in 1 .. l
  PROVE  /\ k < l /\ (k + 1) + 1 = k + 2 /\ (k + 1) + 2 = k + 3
         /\ k + 1 < l => k + 1 \in 1 .. l - 1
         /\ k # 0 /\ k + 1 < l => k + 1 \in 2 .. l - 1
         /\ k + 2 <= l => k + 1 < l
         /\ k >= 2 /\ k < l => k \in 2 .. l - 1
OBVIOUS

(* A byte comes after the loss.                                            *)
LEMMA ByteAfter ==
  ASSUME NoFrameWithin, NoLongFrame, TypeOK, RxOK, NEW f \in Sent, After(f),
         reader.out # <<>>, reader'.out = Tail(reader.out), reader'.mode = reader.mode,
         reader'.owes = reader.owes, rx' = RFID_OnRxByte(Head(reader.out))
  PROVE  After(f)'
<1> DEFINE b == Head(reader.out)
           n == Len(rx.buf)
           k == At(f)
<1>1. /\ f \in Seq(Byte) /\ Len(f) \in 8 .. 28 /\ f[1] \in {1, 4} /\ f[2] = Len(f)
      /\ \A i \in 2 .. Len(f) - 1 :
           f[i] = 4 /\ f[i + 1] \in 6 .. 64 => i + 2 <= Len(f) /\ f[i + 2] \notin 2 .. 4
  BY SentIs
<1>2. Remains(f) /\ (rx.buf # <<>> /\ rx.buf[1] = 4 => Astray(f))
  BY DEF After
<1>3. /\ Remains(f)' /\ k \in 0 .. 27 /\ k + 1 \in 1 .. Len(f) /\ At(f)' = k + 1
      /\ b \in Byte /\ b = f[k + 1]
  BY <1>2, OutGoes
<1>4. rx' = RFID_OnRxByte(b)
  OBVIOUS
<1> HIDE DEF b
<1>5. /\ n \in Nat /\ (n = 0 \/ n = 1 \/ n >= 2) /\ (rx.buf = <<>> <=> n = 0)
      /\ rx.ready => n >= 2 /\ rx' = rx
      /\ n = 0 /\ b \notin Headers => rx' = rx
      /\ n = 0 /\ b \in Headers =>
           /\ rx'.buf \in Seq(Byte) /\ Len(rx'.buf) = 1 /\ rx'.buf[1] = b /\ ~rx'.ready
      /\ n = 1 => ~rx.ready
      /\ n = 1 /\ b \notin 6 .. 64 => rx'.buf = <<>>
      /\ n = 1 /\ b \in 6 .. 64 =>
           /\ rx'.buf \in Seq(Byte) /\ Len(rx'.buf) = 2 /\ rx'.buf[1] = rx.buf[1]
           /\ rx'.buf[2] = b /\ rx'.expected = b /\ ~rx'.ready
      /\ ~rx.ready /\ n >= 2 =>
           /\ rx'.buf \in Seq(Byte) /\ Len(rx'.buf) = n + 1
           /\ \A i \in 1 .. n : rx'.buf[i] = rx.buf[i]
           /\ rx'.buf[n + 1] = b
           /\ rx.expected \in 6 .. 64 /\ n < rx.expected /\ rx'.expected = rx.expected
           /\ rx'.ready <=> n + 1 = rx.expected
  BY <1>3, <1>4, RxTakes
<1>6. SUFFICES ASSUME rx'.buf # <<>>, rx'.buf[1] = 4  PROVE Astray(f)'
  BY <1>3 DEF After
<1>7. ASSUME n # 0, rx.buf[1] = 4
      PROVE  \/ WithIt(f) \/ Behind(f) \/ Long(f)
             \/ rx.ready /\ (rx.buf \in Sent \/ ~Whole(rx.buf))
             \/ /\ n = 1
                /\ k < Len(f) /\ f[k + 1] \in 6 .. 64 => k + 2 <= Len(f) /\ f[k + 2] \notin 2 .. 4
             \/ n = 2 /\ ~rx.ready /\ k < Len(f) /\ f[k + 1] \notin 2 .. 4
             \/ n >= 3 /\ rx.buf[3] \notin 2 .. 4
  BY <1>2, <1>5, <1>7, Zenon DEF Astray
<1>8. /\ WithIt(f) => /\ ~rx.ready /\ n = k
                      /\ n >= 2 => rx.expected = Len(f)
                      /\ \A i \in 1 .. n : rx.buf[i] = f[i]
      /\ Behind(f) \/ Long(f) => ~rx.ready /\ n >= 2
  BY DEF WithIt, Behind, Lacking, Long
<1> HIDE DEF n, k
<1>9. ~(1 >= 2) /\ ~(1 >= 3) /\ ~(0 >= 2) /\ 1 # 0 /\ 1 # 2 /\ 0 # 1
  OBVIOUS
<1>10. n >= 2 => n # 0 /\ n # 1
  BY <1>9, Zenon
<1>11. CASE rx.ready
  <2>1. rx' = rx /\ n # 0 /\ n # 1
    BY <1>5, <1>10, <1>11
  <2>2. \/ rx.ready /\ (rx.buf \in Sent \/ ~Whole(rx.buf))
        \/ n >= 3 /\ rx.buf[3] \notin 2 .. 4
    <3>1. rx.buf[1] = 4
      BY <1>6, <2>1
    <3> QED BY <1>7, <1>8, <1>11, <2>1, <3>1, Zenon
  <2>3. rx'.buf = rx.buf /\ (rx'.ready <=> rx.ready)
    BY <2>1
  <2> QED BY <2>2, <2>3, Zenon DEF Astray, n
<1>12. CASE n = 0
  <2>1. b \in Headers
    BY <1>5, <1>6, <1>12
  <2>2. Len(rx'.buf) = 1 /\ b = 4 /\ ~rx'.ready /\ rx'.buf[1] = b
    BY <1>5, <1>6, <1>12, <2>1
  <2>3. CASE k = 0
    <3>1. 0 + 1 = 1
      OBVIOUS
    <3>2. At(f)' = 1 /\ f[1] = b
      BY <1>3, <2>3, <3>1
    <3>3. \A i \in 1 .. Len(rx'.buf) : rx'.buf[i] = f[i]
      BY <2>2, <3>2
    <3>4. WithIt(f)'
      BY <1>9, <2>2, <3>2, <3>3, Zenon DEF WithIt
    <3> QED BY <3>4, Zenon DEF Astray
  <2>4. CASE k # 0
    <3>1. ASSUME k + 1 < Len(f), f[(k + 1) + 1] \in 6 .. 64
          PROVE  (k + 1) + 2 <= Len(f) /\ f[(k + 1) + 2] \notin 2 .. 4
      <4>1. k + 1 \in 2 .. Len(f) - 1
        BY <1>1, <1>3, <2>4, <3>1, NextPlaces, Zenon
      <4>2. f[k + 1] = 4
        BY <1>3, <2>2
      <4> QED BY <1>1, <3>1, <4>1, <4>2, Zenon
    <3> QED BY <1>3, <2>2, <3>1, Zenon DEF Astray
  <2> QED BY <2>3, <2>4
<1>13. CASE n = 1
  <2>1. b \in 6 .. 64
    BY <1>5, <1>6, <1>13
  <2>2. /\ Len(rx'.buf) = 2 /\ rx'.buf[1] = rx.buf[1] /\ rx'.buf[2] = b
        /\ rx'.expected = b /\ ~rx'.ready
    BY <1>5, <1>13, <2>1
  <2>3. rx.buf[1] = 4 /\ ~rx.ready /\ ~(n >= 2) /\ ~(n >= 3) /\ n # 2 /\ n # 0
    BY <1>5, <1>6, <1>9, <1>13, <2>2, Zenon
  <2>4. \/ WithIt(f)
        \/ k < Len(f) /\ f[k + 1] \in 6 .. 64 => k + 2 <= Len(f) /\ f[k + 2] \notin 2 .. 4
    BY <1>7, <1>8, <2>3, Zenon
  <2>5. CASE WithIt(f)
    <3>1. k = 1 /\ rx.buf[1] = f[1]
      <4>1. 1 \in 1 .. 1
        OBVIOUS
      <4> QED BY <1>8, <1>13, <2>5, <4>1, Zenon
    <3>2. 1 + 1 = 2
      OBVIOUS
    <3>3. b = f[2] /\ At(f)' = 2
      BY <1>3, <3>1, <3>2
    <3>4. \A i \in 1 .. 2 : rx'.buf[i] = f[i]
      BY <2>2, <3>1, <3>3
    <3>5. rx'.expected = Len(f)
      BY <1>1, <2>2, <3>3
    <3>6. WithIt(f)'
      BY <2>2, <3>3, <3>4, <3>5 DEF WithIt
    <3> QED BY <3>6, Zenon DEF Astray
  <2>6. CASE k < Len(f) /\ f[k + 1] \in 6 .. 64 => k + 2 <= Len(f) /\ f[k + 2] \notin 2 .. 4
    <3>1. k < Len(f) /\ (k + 1) + 1 = k + 2 /\ (k + 2 <= Len(f) => k + 1 < Len(f))
      BY <1>1, <1>3, NextPlaces, Zenon
    <3>2. f[k + 1] \in 6 .. 64
      BY <1>3, <2>1
    <3>3. k + 1 < Len(f) /\ f[(k + 1) + 1] \notin 2 .. 4
      BY <2>6, <3>1, <3>2, Zenon
    <3> QED BY <1>3, <2>2, <3>3, Zenon DEF Astray
  <2> QED BY <2>4, <2>5, <2>6
<1>14. CASE ~rx.ready /\ n >= 2
  <2>1. /\ rx'.buf \in Seq(Byte) /\ Len(rx'.buf) = n + 1
        /\ \A i \in 1 .. n : rx'.buf[i] = rx.buf[i]
        /\ rx'.buf[n + 1] = b
        /\ rx'.expected = rx.expected
        /\ rx'.ready <=> n + 1 = rx.expected
    BY <1>5, <1>14
  <2>2. rx.buf[1] = 4 /\ n # 0 /\ n # 1 /\ n + 1 >= 3
    <3>1. 1 \in 1 .. n /\ n + 1 >= 3
      BY <1>5, <1>14
    <3> QED BY <1>6, <1>10, <1>14, <2>1, <3>1
  <2>3. \/ WithIt(f) \/ Behind(f) \/ Long(f)
        \/ n = 2 /\ k < Len(f) /\ f[k + 1] \notin 2 .. 4
        \/ n >= 3 /\ rx.buf[3] \notin 2 .. 4
    BY <1>7, <1>14, <2>2, Zenon
  <2>4. CASE WithIt(f)
    <3>1. n = k /\ rx.expected = Len(f) /\ \A i \in 1 .. n : rx.buf[i] = f[i]
      BY <1>8, <1>14, <2>4
    <3>2. \A i \in 1 .. n + 1 : rx'.buf[i] = f[i]
      <4>1. SUFFICES ASSUME NEW i \in 1 .. n + 1 PROVE rx'.buf[i] = f[i]
        OBVIOUS
      <4>2. CASE i = n + 1
        BY <1>3, <2>1, <3>1, <4>2
      <4>3. CASE i # n + 1
        <5>1. i \in 1 .. n
          BY <1>5, <4>3
        <5> QED BY <2>1, <3>1, <5>1
      <4> QED BY <4>2, <4>3
    <3>3. CASE rx'.ready
      <4>1. Len(rx'.buf) = Len(f)
        BY <2>1, <3>1, <3>3
      <4>2. \A i \in 1 .. Len(rx'.buf) : rx'.buf[i] = f[i]
        BY <2>1, <3>2
      <4>3. rx'.buf = f
        BY <1>1, <2>1, <4>1, <4>2, SeqEqual
      <4> QED BY <3>3, <4>3, Zenon DEF Astray
    <3>4. CASE ~rx'.ready
      <4>1. Len(rx'.buf) = At(f)' /\ rx'.expected = Len(f)
        BY <1>3, <2>1, <3>1
      <4>2. \A i \in 1 .. Len(rx'.buf) : rx'.buf[i] = f[i]
        BY <2>1, <3>2
      <4>3. WithIt(f)'
        BY <3>4, <4>1, <4>2, Zenon DEF WithIt
      <4> QED BY <4>3, Zenon DEF Astray
    <3> QED BY <3>3, <3>4
  <2>5. CASE Behind(f)
    <3>1. Behind(f)' \/ (rx'.ready /\ ~Whole(rx'.buf))
      BY <1>2, <2>5, ByteBehind
    <3> QED BY <3>1, Zenon DEF Astray
  <2>6. CASE Long(f)
    <3>1. Long(f)' \/ (rx'.ready /\ ~Whole(rx'.buf))
      BY <1>2, <2>6, ByteLong
    <3> QED BY <3>1, Zenon DEF Astray
  <2>7. CASE n = 2 /\ k < Len(f) /\ f[k + 1] \notin 2 .. 4
    <3>1. 2 + 1 = 3
      OBVIOUS
    <3>2. rx'.buf[3] = b /\ Len(rx'.buf) >= 3
      BY <2>1, <2>2, <2>7, <3>1
    <3> QED BY <1>3, <2>7, <3>2 DEF Astray
  <2>8. CASE n >= 3 /\ rx.buf[3] \notin 2 .. 4
    <3>1. 3 \in 1 .. n
      BY <1>5, <2>8
    <3>2. rx'.buf[3] = rx.buf[3] /\ Len(rx'.buf) >= 3
      BY <2>1, <2>2, <3>1
    <3> QED BY <2>8, <3>2, Zenon DEF Astray
  <2> QED BY <2>3, <2>4, <2>5, <2>6, <2>7, <2>8
<1> QED BY <1>5, <1>11, <1>12, <1>13, <1>14

(* A frame is sent after the one before it.                                *)
LEMMA SentAfter ==
  ASSUME NoFrameWithin, TypeOK, TypeOK', RxOK, NEW f \in Sent, After(f),
         NEW g \in Sent, reader.out = <<>>, reader'.out = g, OfMode(g)', rx' = rx,
         reader'.mode \in {reader.mode, "idblock"}, ~reader'.owes,
         reader.owes \/ g # Answer
  PROVE  After(g)'
<1> DEFINE n == Len(rx.buf)
           l == Len(f)
<1>1. /\ f \in Seq(Byte) /\ l \in 8 .. 28 /\ g \in Seq(Byte) /\ Len(g) \in 8 .. 28
      /\ g[1] \in {1, 4}
  BY SentIs
<1>2. At(f) = l /\ At(g)' = 0
  BY <1>1 DEF At
<1>3. Remains(g)'
  BY <1>1, <1>2 DEF Remains
<1>4. SUFFICES ASSUME rx.buf # <<>>, rx.buf[1] = 4  PROVE Astray(g)'
  BY <1>3 DEF After
<1>5. Astray(f)
  BY <1>4 DEF After
<1>6. n \in Nat /\ (rx.ready <=> rx'.ready)
  BY DEF TypeOK
<1> HIDE DEF l
<1>7. l >= 2 /\ ~(l < l) /\ ~(l = 0) /\ l \in Nat
  BY <1>1
<1>8. ~WithIt(f)
  <2>1. SUFFICES ASSUME WithIt(f) PROVE FALSE
    OBVIOUS
  <2>2. n = l /\ ~rx.ready
    BY <1>2, <2>1 DEF WithIt
  <2>3. rx.expected = l
    BY <1>7, <2>1, <2>2 DEF WithIt, l
  <2> QED BY <1>7, <2>2, <2>3, RxLen
<1>9. CASE Behind(f)
  <2>1. PICK j \in 3 .. l : Lacking(f, j) /\ n + 1 = l
    BY <1>2, <1>7, <1>9 DEF Behind, l
  <2>2. j \in 3 .. 28
    BY <1>1, <2>1
  <2>3. Lacking(f, j)'
    BY <2>1 DEF Lacking
  <2>4. Behind(g)'
    BY <1>2, <2>1, <2>2, <2>3 DEF Behind, l
  <2> QED BY <2>4, Zenon DEF Astray
<1>10. CASE Long(f)
  <2>1. /\ reader.mode = "idblock" /\ ~rx.ready /\ rx.expected = 48 /\ n >= 2
    BY <1>10 DEF Long
  <2>2. n < 48
    <3>1. n \in 2 .. 48 /\ n # 48
      BY <2>1, RxLen
    <3> HIDE DEF n
    <3> QED BY <3>1
  <2>3. reader'.mode = "idblock"
    BY <2>1
  <2>4. g # Answer => \E d \in Cards : g = IdBlock(d)
    BY <2>3 DEF OfMode, IdBlock
  <2>5. PICK c \in Cards :
          \/ /\ f = IdBlock(c) /\ l = n + 3
             /\ \A d \in Cards, answered \in BOOLEAN : Holds(LongFrame(c, d, answered))
          \/ /\ f = Answer /\ 25 + l = n /\ ~reader.owes
             /\ \A d \in Cards : Holds(LongFrame(c, d, TRUE))
          \/ \E d \in Cards :
               /\ f = IdBlock(d)
               /\ \/ 25 + l = n /\ Holds(LongFrame(c, d, FALSE))
                  \/ 33 + l = n /\ Holds(LongFrame(c, d, TRUE))
    BY <1>2, <1>10 DEF Long
  <2>6. \A s : Holds(s) => Holds(s)'
    BY DEF Holds
  <2>7. ~rx'.ready /\ rx'.expected = 48 /\ Len(rx'.buf) >= 2 /\ Len(rx'.buf) = n
    BY <2>1
  <2>8. CASE /\ f = IdBlock(c) /\ l = n + 3
             /\ \A d \in Cards, answered \in BOOLEAN : Holds(LongFrame(c, d, answered))
    <3>1. 25 + 0 = n
      <4>1. l = 28
        BY <2>8, IdBlockIs DEF l
      <4> HIDE DEF n
      <4> QED BY <1>6, <2>8, <4>1
    <3>2. CASE g = Answer
      <4>1. \A d \in Cards : Holds(LongFrame(c, d, TRUE))'
        BY <2>6, <2>8
      <4>2. Long(g)'
        BY <1>2, <2>3, <2>7, <3>1, <3>2, <4>1 DEF Long
      <4> QED BY <4>2, Zenon DEF Astray
    <3>3. CASE g # Answer
      <4>1. PICK d \in Cards : g = IdBlock(d)
        BY <2>4, <3>3
      <4>2. Holds(LongFrame(c, d, FALSE))'
        BY <2>6, <2>8
      <4>3. Long(g)'
        BY <1>2, <2>3, <2>7, <3>1, <4>1, <4>2 DEF Long
      <4> QED BY <4>3, Zenon DEF Astray
    <3> QED BY <3>2, <3>3
  <2>9. CASE /\ f = Answer /\ 25 + l = n /\ ~reader.owes
             /\ \A d \in Cards : Holds(LongFrame(c, d, TRUE))
    <3>1. 33 + 0 = n
      <4>1. l = 8
        BY <2>9, AnswerType DEF l
      <4> QED BY <2>9, <4>1
    <3>2. PICK d \in Cards : g = IdBlock(d)
      BY <2>4, <2>9
    <3>3. Holds(LongFrame(c, d, TRUE))'
      BY <2>6, <2>9
    <3>4. Long(g)'
      BY <1>2, <2>3, <2>7, <3>1, <3>2, <3>3 DEF Long
    <3> QED BY <3>4, Zenon DEF Astray
  <2>10. ASSUME NEW d \in Cards, f = IdBlock(d), 25 + l = n \/ 33 + l = n
         PROVE  FALSE
    <3>1. l = 28
      BY <2>10, IdBlockIs DEF l
    <3> HIDE DEF n
    <3> QED BY <2>2, <2>10, <3>1
  <2> QED BY <2>5, <2>8, <2>9, <2>10
<1>11. CASE rx.ready /\ (rx.buf \in Sent \/ ~Whole(rx.buf))
  BY <1>11 DEF Astray
<1>12. CASE n = 1
  <2>1. ASSUME g[0 + 1] \in 6 .. 64  PROVE FALSE
    <3>1. 0 + 1 = 1
      OBVIOUS
    <3>2. g[1] \in 6 .. 64
      BY <2>1, <3>1
    <3>3. 1 \notin 6 .. 64 /\ 4 \notin 6 .. 64
      OBVIOUS
    <3> QED BY <1>1, <3>2, <3>3
  <2>2. Len(rx'.buf) = 1
    BY <1>12
  <2> QED BY <1>2, <2>1, <2>2, Zenon DEF Astray
<1>13. CASE n >= 3 /\ rx.buf[3] \notin 2 .. 4
  BY <1>13 DEF Astray
<1> QED BY <1>2, <1>5, <1>7, <1>8, <1>9, <1>10, <1>11, <1>12, <1>13, Zenon DEF Astray, l

LEMMA LostPlaces ==
  ASSUME NEW k \in 0 .. 27, NEW l \in 8 .. 28, k + 1 \in 1 .. l
  PROVE  /\ k >= 2 /\ k + 1 < l => k \in 2 .. l - 2
         /\ k + 3 = (k + 1) + 2 /\ k + 2 = (k + 1) + 1
OBVIOUS

LEMMA NumberNoLength == ASSUME NEW x \in 2 .. 4 PROVE x \notin 6 .. 64
OBVIOUS

(* The byte lost.                                                          *)
LEMMA LossAfter ==
  ASSUME NoFrameWithin, NoFrameWithinLess, NoAnswerHeader, TypeOK, RxOK,
         NEW f \in Sent, Whence(f), reader.out # <<>>, Head(reader.out) # 4,
         reader'.out = Tail(reader.out), reader'.mode = reader.mode, rx' = rx
  PROVE  After(f)'
<1> DEFINE b == Head(reader.out)
           n == Len(rx.buf)
           k == At(f)
           l == Len(f)
<1>1. /\ f \in Seq(Byte) /\ l \in 8 .. 28 /\ f[1] \in {1, 4} /\ f[2] = l
      /\ \A i \in 2 .. l - 1 :
           f[i] = 4 /\ f[i + 1] \in 6 .. 64 => i + 2 <= l /\ f[i + 2] \notin 2 .. 4
  BY SentIs
<1>2. Remains(f) /\ (rx.buf # <<>> /\ rx.buf[1] = 4 => Begun(f))
  BY DEF Whence
<1>3. /\ Remains(f)' /\ k \in 0 .. 27 /\ k + 1 \in 1 .. l /\ At(f)' = k + 1
      /\ b \in Byte /\ b = f[k + 1]
  BY <1>2, OutGoes
<1>4. f[k + 1] # 4
  BY <1>3
<1>5. SUFFICES ASSUME rx.buf # <<>>, rx.buf[1] = 4  PROVE Astray(f)'
  BY <1>3 DEF After
<1>6. Begun(f)
  BY <1>2, <1>5
<1> HIDE DEF b
<1>7. /\ n \in Nat /\ n # 0 /\ (n = 0 \/ n = 1 \/ n >= 2)
      /\ rx.ready => n >= 2
      /\ n >= 2 => rx.expected \in 6 .. 64 /\ n \in 2 .. rx.expected
  BY <1>5, RxLen
<1>8. rx'.buf = rx.buf /\ rx'.expected = rx.expected /\ (rx'.ready <=> rx.ready)
      /\ Len(rx'.buf) = n
  OBVIOUS
<1>9. \/ WithIt(f)
      \/ rx.ready /\ rx.buf \in Sent
      \/ n = 1 /\ (k = 0 \/ (k >= 2 /\ f[k] = 4))
      \/ /\ n = 2 /\ ~rx.ready
         /\ k >= 3 /\ f[k - 1] = 4 /\ f[k] \in 6 .. 64
         /\ rx.buf[2] = f[k] /\ rx.expected = f[k]
      \/ n >= 3 /\ rx.buf[3] \notin 2 .. 4
  BY <1>6, Zenon DEF Begun
<1>10. CASE rx.ready /\ rx.buf \in Sent
  BY <1>10 DEF Astray
<1>11. CASE n >= 3 /\ rx.buf[3] \notin 2 .. 4
  BY <1>11 DEF Astray
<1>12. CASE WithIt(f)
  <2>1. /\ ~rx.ready /\ n = k
        /\ n >= 2 => rx.expected = l
        /\ \A i \in 1 .. n : rx.buf[i] = f[i]
    BY <1>12 DEF WithIt
  <2> HIDE DEF n, k, l
  <2>2. f[1] = 4
    BY <1>5, <1>7, <2>1
  <2>3. CASE n = 1
    <3>1. ASSUME f[(k + 1) + 1] \in 6 .. 64  PROVE FALSE
      <4>1. f[3] \in 2 .. 4
        BY <2>2, SentMore
      <4>2. f[3] \in 6 .. 64
        BY <2>1, <2>3, <3>1
      <4> QED BY <4>1, <4>2, NumberNoLength, Zenon
    <3>2. Len(rx'.buf) = 1
      BY <1>8, <2>3
    <3> QED BY <1>3, <3>1, <3>2, Zenon DEF Astray
  <2>4. CASE n >= 2
    <3>1. k + 1 \in 3 .. l /\ k + 1 \in 3 .. k + 1 /\ n + 1 = k + 1
      BY <1>1, <1>3, <2>1, <2>4
    <3>2. f[k + 1] \notin {1, 4}
      <4>1. k + 1 \in 1 .. Len(f)
        BY <1>3 DEF l
      <4>2. f[k + 1] # 1
        BY <2>2, <4>1, SentMore
      <4> QED BY <1>4, <4>2
    <3>3. \A i \in 1 .. n : i < k + 1
      BY <1>3, <2>1
    <3>4. \A i \in 1 .. n : rx.buf[i] = IF i < k + 1 THEN f[i] ELSE f[i + 1]
      BY <2>1, <3>3
    <3>5. PICK j \in 3 .. l : j = k + 1
      BY <3>1
    <3>6. Behind(f)'
      <4>1. /\ rx'.expected = Len(f) /\ ~rx'.ready
            /\ Len(rx'.buf) = n /\ Len(rx'.buf) >= 2 /\ j \in 3 .. Len(f)
        BY <1>8, <2>1, <2>4 DEF l
      <4>2. /\ f[j] \notin {1, 4}
            /\ \A i \in 1 .. Len(rx'.buf) : rx'.buf[i] = IF i < j THEN f[i] ELSE f[i + 1]
        BY <1>8, <3>2, <3>4, <3>5, Zenon
      <4>3. Lacking(f, j)'
        BY <2>2, <4>1, <4>2, Zenon DEF Lacking
      <4>4. j \in 3 .. At(f)' /\ Len(rx'.buf) + 1 = At(f)'
        BY <1>3, <1>8, <3>1, <3>5
      <4> QED BY <4>3, <4>4, Zenon DEF Behind
    <3> QED BY <3>6, Zenon DEF Astray
  <2> QED BY <1>7, <2>3, <2>4
<1>13. CASE n = 1 /\ k = 0
  <2>1. f = Answer
    <3>1. 0 + 1 = 1
      OBVIOUS
    <3>2. f[1] = 1
      BY <1>1, <1>4, <1>13, <3>1
    <3> QED BY <3>2, SentMore
  <2>2. /\ At(f)' = 1 /\ 1 + 2 <= Len(f) /\ f[1 + 2] \notin 2 .. 4
    BY <1>3, <1>13, <2>1, AnswerType
  <2>3. Len(rx'.buf) = 1
    BY <1>8, <1>13
  <2> QED BY <2>2, <2>3, Zenon DEF Astray
<1>14. CASE n = 1 /\ k >= 2 /\ f[k] = 4
  <2> HIDE DEF k, l
  <2>1. ASSUME k + 1 < l, f[(k + 1) + 1] \in 6 .. 64
        PROVE  (k + 1) + 2 <= l /\ f[(k + 1) + 2] \notin 2 .. 4
    <3>1. k \in 2 .. l - 2 /\ k + 3 = (k + 1) + 2 /\ k + 2 = (k + 1) + 1
      BY <1>1, <1>3, <1>14, <2>1, LostPlaces, Zenon
    <3> QED BY <1>14, <2>1, <3>1, SentLess, Zenon DEF l
  <2>2. Len(rx'.buf) = 1
    BY <1>8, <1>14
  <2> QED BY <1>3, <2>1, <2>2, Zenon DEF Astray, l
<1>15. CASE /\ n = 2 /\ ~rx.ready
            /\ k >= 3 /\ f[k - 1] = 4 /\ f[k] \in 6 .. 64
            /\ rx.buf[2] = f[k] /\ rx.expected = f[k]
  <2> HIDE DEF n, k, l
  <2>1. /\ k - 1 \in 2 .. l - 2 /\ (k - 1) + 1 = k /\ (k - 1) + 3 = k + 2
        /\ (k - 1 = 3 <=> k = 4) /\ k + 2 = (k + 1) + 1 /\ (k + 2 <= l => k + 1 < l)
    BY <1>1, <1>3, <1>15
  <2>2. CASE k # 4
    <3>1. k + 2 <= l /\ f[k + 2] \notin 2 .. 4
      BY <1>15, <2>1, <2>2, SentLess, Zenon DEF l
    <3>2. k + 1 < l /\ f[(k + 1) + 1] \notin 2 .. 4
      BY <2>1, <3>1, Zenon
    <3>3. Len(rx'.buf) = 2 /\ ~rx'.ready
      BY <1>8, <1>15
    <3> QED BY <1>3, <3>2, <3>3, Zenon DEF Astray, l
  <2>3. CASE k = 4
    <3>1. f[3] = 4
      <4>1. k - 1 = 3
        BY <2>3
      <4> QED BY <1>15, <4>1
    <3>2. reader.mode = "idblock" /\ \E c \in Cards : f = IdBlock(c)
      BY <1>2, <3>1, SentMore DEF Remains
    <3>3. PICK c \in Cards : f = IdBlock(c)
      BY <3>2
    <3>4. f[4] = 48
      BY <3>3, IdBlockIs
    <3>5. rx.expected = 48 /\ rx.buf[2] = 48 /\ rx.buf[1] = 4 /\ n = 2
      BY <1>5, <1>15, <2>3, <3>4
    <3>6. ASSUME NEW d \in Cards, NEW answered \in BOOLEAN
          PROVE  Holds(LongFrame(c, d, answered))'
      <4>1. LongFrame(c, d, answered)[1] = 4 /\ LongFrame(c, d, answered)[2] = 48
        BY LongIs
      <4>2. \A i \in 1 .. 2 : rx'.buf[i] = LongFrame(c, d, answered)[i]
        BY <1>8, <3>5, <4>1
      <4> QED BY <1>8, <3>5, <4>2 DEF Holds
    <3>7. At(f)' = Len(rx'.buf) + 3
      BY <1>3, <1>8, <2>3, <3>5
    <3>8. ~rx'.ready /\ rx'.expected = 48 /\ Len(rx'.buf) >= 2 /\ reader'.mode = "idblock"
      BY <1>8, <1>15, <3>2, <3>5
    <3>9. Long(f)'
      BY <3>3, <3>6, <3>7, <3>8 DEF Long
    <3> QED BY <3>9, Zenon DEF Astray
  <2> QED BY <2>2, <2>3
<1> QED BY <1>9, <1>10, <1>11, <1>12, <1>13, <1>14, <1>15, Zenon

LEMMA InitOneLoss == Init => OneLossInv
BY InitLossless DEF Init, OneLossInv

LEMMA NextOneLoss ==
  ASSUME NoFrameWithin, NoFrameWithinLess, NoAnswerHeader, NoLongFrame, OneLossInv, [Next]_vars
  PROVE  OneLossInv'
<1>1. TypeOK /\ RxOK /\ TypeOK' /\ RxOK' /\ LosslessInv'
  BY NextType, NextRx, NextLossless DEF OneLossInv, LosslessInv
<1>2. /\ lost = {} => \E f \in Sent : Whence(f)
      /\ faults = 0 => lost = {}
      /\ faults = 1 /\ lost # {} /\ 4 \notin lost => \E f \in Sent : After(f)
  BY DEF OneLossInv, LosslessInv
<1>3. faults \in Nat
  BY <1>1 DEF TypeOK
<1>4. CASE ByteLost
  <2>1. /\ reader.out # <<>> /\ rx' = rx /\ faults' = faults + 1
        /\ lost' = lost \cup {IF Head(reader.out) \in Headers THEN Head(reader.out) ELSE 0}
    BY <1>4 DEF ByteLost
  <2>2. reader'.out = Tail(reader.out) /\ reader'.mode = reader.mode
    BY <1>1, <1>4 DEF ByteLost, TypeOK
  <2>3. faults' # 0
    BY <1>3, <2>1
  <2>4. SUFFICES ASSUME faults' = 1, 4 \notin lost'  PROVE \E f \in Sent : After(f)'
    BY <1>1, <2>3 DEF OneLossInv
  <2>5. faults = 0
    BY <1>3, <2>1, <2>4
  <2>6. Head(reader.out) # 4
    BY <2>1, <2>4 DEF Headers
  <2>7. PICK f \in Sent : Whence(f)
    BY <1>2, <2>5
  <2> QED BY <1>1, <2>1, <2>2, <2>6, <2>7, LossAfter
<1>5. CASE \E arrives \in BOOLEAN : SendMode(arrives)
  <2> PICK arrives \in BOOLEAN : SendMode(arrives)
    BY <1>5
  <2>1. /\ reader'.out = reader.out /\ reader'.mode = reader.mode /\ rx' = Empty /\ lost' = lost
        /\ faults' \in {faults, faults + 1}
    BY <1>1 DEF SendMode, TypeOK
  <2>2. faults' = 0 => lost' = {}
    BY <1>2, <1>3, <2>1
  <2>3. ASSUME faults' = 1, lost' # {}, 4 \notin lost'
        PROVE  \E f \in Sent : After(f)'
    <3>1. faults = 1
      BY <1>2, <1>3, <2>1, <2>3
    <3>2. PICK f \in Sent : After(f)
      BY <1>2, <2>1, <2>3, <3>1
    <3>3. After(f)'
      BY <2>1, <3>2, EmptyOK DEF After, Remains, At, OfMode
    <3> QED BY <3>3
  <2> QED BY <1>1, <2>2, <2>3 DEF OneLossInv
<1>6. CASE ~ByteLost /\ ~(\E arrives \in BOOLEAN : SendMode(arrives))
  <2>1. lost' = lost /\ faults' = faults
    BY <1>6 DEF Next, vars, CardShown, ReaderAnswers, ByteComes, RFID_WaitConfigResp,
                SetModeTimeout, rfid_task, TwoSeconds
  <2>2. SUFFICES ASSUME faults = 1, lost # {}, 4 \notin lost  PROVE \E f \in Sent : After(f)'
    BY <1>1, <1>2, <2>1 DEF OneLossInv
  <2>3. PICK f \in Sent : After(f)
    BY <1>2, <2>2
  <2>4. CASE \E c \in Cards : CardShown(c)
    <3> PICK c \in Cards : CardShown(c)
      BY <2>4
    <3>1. reader.mode \in Modes \ {"command"}
      BY <1>1 DEF CardShown, TypeOK
    <3>2. PICK g \in Sent : g = AutoFrame(reader.mode, c)
      BY <3>1 DEF Sent
    <3>3. /\ reader.out = <<>> /\ reader'.out = g /\ rx' = rx
          /\ reader'.mode = reader.mode /\ ~reader'.owes
      BY <1>1, <3>2 DEF CardShown, TypeOK
    <3>4. OfMode(g)'
      BY <3>1, <3>2, <3>3 DEF OfMode
    <3>5. g # Answer
      <4>1. g[1] = 4
        BY <3>1, <3>2, AutoFrameType
      <4>2. 4 # 1
        OBVIOUS
      <4> QED BY <4>1, <4>2, AnswerType, Zenon
    <3> QED BY <1>1, <2>3, <3>2, <3>3, <3>4, <3>5, SentAfter
  <2>5. CASE ReaderAnswers
    <3>1. Answer \in Sent
      BY DEF Sent
    <3>2. /\ reader.out = <<>> /\ reader'.out = Answer /\ rx' = rx
          /\ reader'.mode = "idblock" /\ ~reader'.owes /\ reader.owes
      BY <2>5 DEF ReaderAnswers
    <3>3. OfMode(Answer)'
      BY DEF OfMode
    <3> QED BY <1>1, <2>3, <3>1, <3>2, <3>3, SentAfter
  <2>6. CASE ByteComes
    <3>1. /\ reader.out # <<>> /\ reader'.out = Tail(reader.out)
          /\ rx' = RFID_OnRxByte(Head(reader.out)) /\ reader'.mode = reader.mode
          /\ reader'.owes = reader.owes
      BY <1>1, <2>6 DEF ByteComes, TypeOK
    <3> QED BY <1>1, <2>3, <3>1, ByteAfter
  <2>7. CASE RFID_WaitConfigResp \/ rfid_task
    <3>1. rx' = Empty /\ reader' = reader
      BY <2>7 DEF RFID_WaitConfigResp, RFID_TryGetFrame, rfid_task
    <3>2. After(f)'
      BY <2>3, <3>1, EmptyOK DEF After, Remains, At, OfMode
    <3> QED BY <3>2
  <2>8. CASE SetModeTimeout \/ TwoSeconds \/ UNCHANGED vars
    <3>1. rx' = rx /\ reader' = reader
      BY <2>8 DEF SetModeTimeout, TwoSeconds, vars
    <3>2. After(f)' = After(f)
      BY <3>1 DEF After, Remains, OfMode, Astray, WithIt, Behind, Lacking, Long, Holds, At
    <3> QED BY <2>3, <3>2
  <2> QED BY <1>6, <2>4, <2>5, <2>6, <2>7, <2>8 DEF Next
<1> QED BY <1>4, <1>5, <1>6

LEMMA OneLossIsEnough ==
  ASSUME NoFrameWithin, OneLossInv, faults <= 1, 4 \notin lost
  PROVE  FramesAreComplete
<1>1. CASE lost = {}
  BY <1>1, LosslessIsEnough DEF OneLossInv
<1>2. CASE lost # {}
  <2>1. SUFFICES ASSUME CardRead
                 PROVE  \E m \in Modes \ {"command"}, c \in Cards : rx.buf = AutoFrame(m, c)
    BY DEF FramesAreComplete
  <2>2. /\ rx.ready /\ rx.buf \in Seq(Byte) /\ Len(rx.buf) >= 6 /\ rx.buf[1] = 4
        /\ rx.buf[3] \in 2 .. 4 /\ Whole(rx.buf)
    BY <2>1 DEF CardRead, Whole, IsAuto, OneLossInv, LosslessInv, TypeOK
  <2>3. rx.buf # <<>> /\ Len(rx.buf) # 1 /\ Len(rx.buf) # 2
    BY <2>2
  <2>4. faults = 1
    <3>1. faults \in Nat /\ faults # 0
      <4>1. TypeOK /\ faults # 0
        BY <1>2 DEF OneLossInv, LosslessInv
      <4>2. faults \in Nat
        BY <4>1 DEF TypeOK
      <4> QED BY <4>1, <4>2
    <3>2. ASSUME NEW x \in Nat, x # 0, x <= 1  PROVE x = 1
      BY <3>2
    <3> QED BY <3>1, <3>2
  <2>5. PICK f \in Sent : After(f)
    BY <1>2, <2>4 DEF OneLossInv
  <2>6. rx.buf \in Sent
    BY <2>2, <2>3, <2>5, Zenon DEF After, Astray, WithIt, Behind, Lacking, Long
  <2> QED BY <2>2, <2>6, SentIs
<1> QED BY <1>1, <1>2

(* What is taken for the frame of a card is one, complete, after the loss  *)
(* of a command or of a byte, unless that byte is a 4, for cards that meet *)
(* the four conditions; and however many losses there may be after it.     *)
THEOREM CardReaderOneLoss ==
  ASSUME NoFrameWithin, NoFrameWithinLess, NoAnswerHeader, NoLongFrame
  PROVE  Spec => [](faults <= 1 /\ 4 \notin lost => FramesAreComplete)
<1>1. Init => OneLossInv
  BY InitOneLoss
<1>2. OneLossInv /\ [Next]_vars => OneLossInv'
  BY NextOneLoss
<1>3. OneLossInv => (faults <= 1 /\ 4 \notin lost => FramesAreComplete)
  BY OneLossIsEnough
<1> QED BY <1>1, <1>2, <1>3, PTL DEF Spec

(* A line that loses one byte at most deceives the receiver only by losing *)
(* a 4: what it takes for the frame of a card is complete otherwise.       *)
THEOREM CardReaderOnlyALostFour ==
  ASSUME NoFrameWithin, NoFrameWithinLess, NoAnswerHeader, NoLongFrame, MaxFaults <= 1
  PROVE  Spec => []OnlyALostFourMisreads
<1>1. Init => OneLossInv
  BY InitOneLoss
<1>2. OneLossInv /\ [Next]_vars => OneLossInv'
  BY NextOneLoss
<1>3. OneLossInv => OnlyALostFourMisreads
  <2>1. SUFFICES ASSUME OneLossInv, 4 \notin lost  PROVE FramesAreComplete
    BY DEF OnlyALostFourMisreads
  <2>2. faults <= 1
    BY <2>1, CardReaderAssumption DEF OneLossInv, LosslessInv, TypeOK
  <2> QED BY <2>1, <2>2, OneLossIsEnough
<1> QED BY <1>1, <1>2, <1>3, PTL DEF Spec
================================================================================
