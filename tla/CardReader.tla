----------------------------- MODULE CardReader -----------------------------
(***************************************************************************)
(* rfid_reader.c and rfid_task.c as the program uses them: one setting of  *)
(* the work mode at power-up, then a task that takes the frames the reader *)
(* sends of its own accord for every card held to it.  The reader and its  *)
(* line are external.                                                      *)
(*                                                                         *)
(* Bytes are the real ones, since the receiver finds the frames by their   *)
(* values: a byte 1 to 4 begins one wherever it stands, the next byte says *)
(* how long it is, and no pause of the line ever ends it.  Only the bytes  *)
(* that differ between cards are parameters.                               *)
(***************************************************************************)
EXTENDS Integers, Sequences, FiniteSets

CONSTANTS
  Cards,      \* cards: records of uid, 4 bytes, and data, the 16 bytes of block 8
  LeftIn,     \* the modes an earlier life may have left the reader in
  MaxFaults   \* bound: commands and bytes lost on the line

Byte == 0 .. 255
Headers == 1 .. 4          \* RFID_FRAME_HEAD_CONFIG, _CMD, _QUERY, _AUTO
Modes == {"command", "id", "block", "idblock"}

ASSUME CardReaderAssumption ==
  /\ Cards \subseteq [uid: [1 .. 4 -> Byte], data: [1 .. 16 -> Byte]]
  /\ LeftIn \subseteq Modes
  /\ MaxFaults \in Nat

VARIABLES
  reader,   \* mode, bytes on their way, and whether it has a command to answer
  rx,       \* s_rx_buf with s_rx_len, s_rx_expected, s_frame_ready
  program,  \* "setting" the mode, "waiting" for the answer, "running"
  mode,     \* s_config.work_mode
  recent,   \* less than RFID_DEBOUNCE_MS since s_last_card_time
  unread,   \* frames sent in mode idblock since the last one recognised or disturbed
  lost,     \* what the line has lost: the bytes that also begin a frame, 0 for others
  faults

vars == <<reader, rx, program, mode, recent, unread, lost, faults>>

Empty == [buf |-> <<>>, expected |-> 0, ready |-> FALSE]      \* RFID_ResetRxState

Init ==
  /\ reader \in [mode: LeftIn, out: {<<>>}, owes: {FALSE}]
  /\ rx = Empty
  /\ program = "setting"
  /\ mode = "command"
  /\ recent = TRUE        \* the clock and s_last_card_time both begin at 0
  /\ unread = 0
  /\ lost = {}
  /\ faults = 0

-----------------------------------------------------------------------------
(* Frames.                                                                 *)

\* The parity of the bits of weight w: exclusive or, bit by bit.
Parity(bytes, w) == Cardinality({i \in DOMAIN bytes : (bytes[i] \div w) % 2 = 1}) % 2

RFID_CalcChecksum(bytes) ==
  255 - (Parity(bytes, 1) + 2 * Parity(bytes, 2) + 4 * Parity(bytes, 4)
         + 8 * Parity(bytes, 8) + 16 * Parity(bytes, 16) + 32 * Parity(bytes, 32)
         + 64 * Parity(bytes, 64) + 128 * Parity(bytes, 128))

Framed(bytes) == Append(bytes, RFID_CalcChecksum(bytes))

\* The frame of a card in each mode: header, length, mode, address, status.
AutoFrame(m, c) ==
  CASE m = "id"      -> Framed(<<4, 12, 2, 48, 0, 4, 0>> \o c.uid)
    [] m = "block"   -> Framed(<<4, 22, 3, 48, 0>> \o c.data)
    [] m = "idblock" -> Framed(<<4, 28, 4, 48, 0, 4, 0>> \o c.uid \o c.data)

SetWorkMode == 161
Answer == Framed(<<1, 8, SetWorkMode, 48, 0, 0, 0>>)

\* RFID_FRAME_AUTO_ID, _AUTO_BLOCK or _AUTO_ID_BLOCK.
IsAuto(f) ==
  /\ f[1] = 4
  /\ \/ f[3] = 2 /\ Len(f) >= 12
     \/ f[3] = 3 /\ Len(f) >= 22
     \/ f[3] = 4 /\ Len(f) >= 28

\* RFID_FRAME_CMD_RESP of the configuration command.
IsAnswer(f) == f[1] = 1 /\ f[3] = SetWorkMode

\* Mutant: the checksum is not compared.
WholeUnchecked(f) == Len(f) >= 6

\* RFID_ParseFrame has a frame.
Whole(f) == Len(f) >= 6 /\ f[Len(f)] = RFID_CalcChecksum(SubSeq(f, 1, Len(f) - 1))

\* Mutant: a length out of bounds is believed.
RFID_OnRxByteUnbounded(byte) ==
  LET buf == Append(rx.buf, byte)
      expected == IF Len(buf) = 2 THEN byte ELSE rx.expected
  IN CASE rx.ready                              -> rx
       [] ~rx.ready /\ rx.buf = <<>> /\ byte \notin Headers -> rx
       [] OTHER -> [buf |-> buf, expected |-> expected,
                    ready |-> expected # 0 /\ Len(buf) >= expected]

\* What a byte from the line leaves in the receiver.
RFID_OnRxByte(byte) ==
  LET buf == Append(rx.buf, byte)
      expected == IF Len(buf) = 2 THEN byte ELSE rx.expected
  IN CASE rx.ready                                         -> rx
       [] ~rx.ready /\ rx.buf = <<>> /\ byte \notin Headers -> rx
       [] Len(buf) = 2 /\ byte \notin 6 .. 64              -> Empty
       [] OTHER -> [buf |-> buf, expected |-> expected,
                    ready |-> expected # 0 /\ Len(buf) >= expected]

-----------------------------------------------------------------------------
(* The reader and the line.                                                *)

\* The reader sends the frame of a card; the frame before it is through.
CardShown(c) ==
  /\ reader.mode # "command"
  /\ reader.out = <<>>
  /\ ~reader.owes
  /\ reader' = [reader EXCEPT !.out = AutoFrame(reader.mode, c)]
  /\ unread' = IF reader.mode = "idblock" THEN unread + 1 ELSE 0
  /\ UNCHANGED <<rx, program, mode, recent, lost, faults>>

\* The reader carries out RFID_SetWorkMode(RFID_MODE_AUTO_ID_BLOCK) and says so.
ReaderAnswers ==
  /\ reader.owes
  /\ reader.out = <<>>
  /\ reader' = [mode |-> "idblock", out |-> Answer, owes |-> FALSE]
  /\ UNCHANGED <<rx, program, mode, recent, unread, lost, faults>>

\* UART5_IRQHandler.  A byte that finds a frame not yet taken is dropped.
ByteComes ==
  /\ reader.out # <<>>
  /\ rx' = RFID_OnRxByte(Head(reader.out))
  /\ unread' = IF rx.ready THEN 0 ELSE unread
  /\ reader' = [reader EXCEPT !.out = Tail(@)]
  /\ UNCHANGED <<program, mode, recent, lost, faults>>

ByteLost ==
  /\ faults < MaxFaults
  /\ reader.out # <<>>
  /\ reader' = [reader EXCEPT !.out = Tail(@)]
  /\ unread' = 0
  /\ lost' = lost \cup {IF Head(reader.out) \in Headers THEN Head(reader.out) ELSE 0}
  /\ faults' = faults + 1
  /\ UNCHANGED <<rx, program, mode, recent>>

-----------------------------------------------------------------------------
(* The program.                                                            *)

\* RFID_SetWorkMode, RFID_SendConfigCommand: the receiver is emptied, even of
\* half a frame, and the command sent.  It may not arrive.
SendMode(arrives) ==
  /\ program = "setting"
  /\ arrives \/ faults < MaxFaults
  /\ program' = "waiting"
  /\ rx' = Empty
  /\ reader' = [reader EXCEPT !.owes = arrives]
  /\ unread' = 0
  /\ faults' = IF arrives THEN faults ELSE faults + 1
  /\ UNCHANGED <<mode, recent, lost>>

\* RFID_TryGetFrame takes what is there, good or bad.
RFID_TryGetFrame == rx.ready /\ rx' = Empty

\* Mutant: any frame is the answer.
RFID_WaitConfigRespAny ==
  /\ program = "waiting"
  /\ RFID_TryGetFrame
  /\ program' = "running" /\ mode' = "idblock"
  /\ unread' = IF Whole(rx.buf) /\ IsAuto(rx.buf) THEN 0 ELSE unread
  /\ UNCHANGED <<reader, recent, lost, faults>>

\* RFID_WaitConfigResp: only the answer ends the wait before its time.
RFID_WaitConfigResp ==
  /\ program = "waiting"
  /\ RFID_TryGetFrame
  /\ \/ /\ Whole(rx.buf) /\ IsAnswer(rx.buf)
        /\ program' = "running"
        /\ mode' = IF rx.buf[5] = 0 THEN "idblock" ELSE mode
     \/ /\ ~(Whole(rx.buf) /\ IsAnswer(rx.buf))
        /\ UNCHANGED <<program, mode>>
  /\ unread' = IF Whole(rx.buf) /\ IsAuto(rx.buf) THEN 0 ELSE unread
  /\ UNCHANGED <<reader, recent, lost, faults>>

\* RFID_RET_TIMEOUT; main prints a warning and goes on.
SetModeTimeout ==
  /\ program = "waiting"
  /\ program' = "running"
  /\ UNCHANGED <<reader, rx, mode, recent, unread, lost, faults>>

\* rfid_task with RFID_PollAutoFrame: a card is handed on unless one was in
\* the last two seconds.
rfid_task ==
  /\ program = "running"
  /\ RFID_TryGetFrame
  /\ \/ /\ Whole(rx.buf) /\ IsAuto(rx.buf)
        /\ unread' = 0
        /\ recent' = TRUE      \* and the uid goes on, unless recent
     \/ /\ ~(Whole(rx.buf) /\ IsAuto(rx.buf))
        /\ UNCHANGED <<unread, recent>>
  /\ UNCHANGED <<reader, program, mode, lost, faults>>

TwoSeconds ==
  /\ program = "running"
  /\ recent
  /\ recent' = FALSE
  /\ UNCHANGED <<reader, rx, program, mode, unread, lost, faults>>

Next ==
  \/ \E c \in Cards : CardShown(c)
  \/ ReaderAnswers \/ ByteComes \/ ByteLost
  \/ \E arrives \in BOOLEAN : SendMode(arrives)
  \/ RFID_WaitConfigResp \/ SetModeTimeout
  \/ rfid_task \/ TwoSeconds

Spec == Init /\ [][Next]_vars

-----------------------------------------------------------------------------
(* The task has a card's frame to take.                                   *)
CardRead == rx.ready /\ Whole(rx.buf) /\ IsAuto(rx.buf)

(* What is taken for the frame of a card is one, complete, as              *)
(* RFID_API_Reference.md:230 says; never bytes of two frames or of a part. *)
FramesAreComplete ==
  CardRead => \E m \in Modes \ {"command"}, c \in Cards : rx.buf = AutoFrame(m, c)

(* So it is, however late the task comes and wherever in a frame the       *)
(* receiver begins, unless the line has lost a byte 4: that one the header *)
(* of the next frame replaces, and the checksum is right for bytes moved   *)
(* down by one (rfid_reader.c:101, 601).                                   *)
OnlyALostFourMisreads == 4 \notin lost => FramesAreComplete

(* A reader believed to send card numbers does: neither a card's frame nor *)
(* a piece of one passes for the answer (rfid_reader.c:845).               *)
ModeIsTrue == mode = "idblock" => reader.mode = "idblock"

(* After a lost byte, a byte dropped because the task came late, or the    *)
(* start, at most three whole frames pass unrecognised: the fourth, once   *)
(* through, waits to be taken (rfid_reader.c:78, 101).                     *)
FourthIsRecognised ==
  unread > 3 /\ reader.out = <<>> => CardRead

-----------------------------------------------------------------------------
(* Conditions on the cards.                                                *)

(* No frame of a card holds the byte that names the setting of the mode.  *)
NoAnswerByte ==
  \A c \in Cards, m \in Modes \ {"command"} :
    \A i \in DOMAIN AutoFrame(m, c) : AutoFrame(m, c)[i] # SetWorkMode

(* No byte of the card, nor its checksum, is taken for a header, and no    *)
(* byte of a frame for a length longer than two of the longest frames less *)
(* what they have before it.                                               *)
Plain(c) ==
  /\ \A i \in 8 .. 28 : AutoFrame("idblock", c)[i] \notin Headers
  /\ \A m \in Modes \ {"command"} :
       \A i \in DOMAIN AutoFrame(m, c) : AutoFrame(m, c)[i] \notin 59 .. 64

PlainCards == \A c \in Cards : Plain(c)

(* Where a frame holds a 4 after its header, no length and number of a     *)
(* frame of a card follow it.                                              *)
NoFrameWithin ==
  \A c \in Cards, m \in Modes \ {"command"} :
    LET f == AutoFrame(m, c)
    IN \A i \in 2 .. Len(f) - 1 :
         f[i] = 4 /\ f[i + 1] \in 6 .. 64 => i + 2 <= Len(f) /\ f[i + 2] \notin 2 .. 4

(* No frame of a card holds the answer's header.                           *)
NoAnswerHeader ==
  \A c \in Cards, m \in Modes \ {"command"} :
    \A i \in DOMAIN AutoFrame(m, c) : AutoFrame(m, c)[i] # 1

(* Nor do a length and a number follow such a 4 when one byte after it is  *)
(* left out, but in one place: <<4, 48, 0, 4>> at the third byte of every  *)
(* "idblock" frame, which begins a frame of 48 bytes.                      *)
NoFrameWithinLess ==
  \A c \in Cards, m \in Modes \ {"command"} :
    LET f == AutoFrame(m, c)
        Other(i) == i + 3 <= Len(f) /\ f[i + 3] \notin 2 .. 4
    IN \A i \in 2 .. Len(f) - 2 :
         f[i] = 4 => /\ f[i + 2] \in 6 .. 64 => Other(i)
                     /\ f[i + 1] \in 6 .. 64 /\ ~(m = "idblock" /\ i = 3) => Other(i)

\* Those 48 bytes: of one card's frame, and of the next or of the answer and the next.
LongFrame(c, d, answered) ==
  LET f == AutoFrame("idblock", c)
      next == AutoFrame("idblock", d)
      more == IF answered THEN Answer \o next ELSE next
  IN [i \in 1 .. 48 |-> CASE i < 3        -> f[i + 2]
                          [] i \in 3 .. 25 -> f[i + 3]
                          [] OTHER         -> more[i - 25]]

(* They do not pass the checksum: their last byte is not the one computed. *)
NoLongFrame ==
  \A c, d \in Cards, answered \in BOOLEAN :
    LET f == LongFrame(c, d, answered)
    IN f[48] # RFID_CalcChecksum(SubSeq(f, 1, 47))
=============================================================================
