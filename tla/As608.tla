-------------------------------- MODULE As608 --------------------------------
(***************************************************************************)
(* as608.c and the USART2 handler of ch32v30x_it.c: the line to the        *)
(* fingerprint sensor.  Every PS_ function sends a command and waits in    *)
(* JudgeStr for an answer, at most two seconds.  An answer says neither    *)
(* which command it answers nor is its length or checksum looked at.       *)
(*                                                                         *)
(* rx is AS608_RX_BUF and AS608_RX_STA, cut down to what is read of them:  *)
(* the flag of a complete answer, whether a header lies in the received    *)
(* length, the confirmation code (byte 9) and the page (bytes 10 and 11,   *)
(* which are the checksum in the answers of all commands but the search).  *)
(* Bytes stay in the buffer when the length is set to zero; which of those *)
(* of earlier answers an incomplete one meets there is left open.          *)
(***************************************************************************)
EXTENDS Integers, Sequences

CONSTANTS
  Fingers,
  NoFinger,
  Pages,       \* template numbers that are searched, 0 .. 98
  Checksum     \* the page that the checksum of a plain answer OK looks like, 10

ASSUME As608Assumption == NoFinger \notin Fingers /\ Checksum \in Pages

VARIABLES
  rx,       \* AS608_RX_BUF, AS608_RX_STA
  call,     \* the command whose answer the program waits for
  owed,     \* commands sent and not yet answered by the sensor
  sensor    \* image, character buffers and templates in the sensor (external)

Codes == {"ok", "nofinger", "error"}      \* 0x00, 0x02, any other
Touch == Fingers \cup {NoFinger}

Cmd(op, buf, page) == [op |-> op, buf |-> buf, page |-> page]

PS_GetImage == Cmd("GetImage", 0, 0)
PS_GenChar(buf) == Cmd("GenChar", buf, 0)
PS_Match == Cmd("Match", 0, 0)
PS_RegModel == Cmd("RegModel", 0, 0)

\* Mutant: the low byte of the page is not sent.
PS_StoreCharLow(page) == Cmd("StoreChar", 2, 1)

PS_StoreChar(page) == Cmd("StoreChar", 2, page)

PS_HighSpeedSearch == Cmd("Search", 1, 0)
NoCommand == Cmd("none", 0, 0)

Commands == {PS_GetImage, PS_GenChar(1), PS_GenChar(2), PS_Match, PS_RegModel,
             PS_HighSpeedSearch} \cup {PS_StoreChar(page) : page \in Pages}

Sensors == [image: Touch, buf: [1 .. 2 -> Touch], lib: [Pages -> Touch]]

As608TypeOK ==
  /\ rx \in [done: BOOLEAN, headed: BOOLEAN, code: Codes, page: Pages]
  /\ call \in Commands \cup {NoCommand}
  /\ owed \in Seq(Commands)
  /\ sensor \in Sensors

\* Nothing received since the length was set to zero.
Silence == [done |-> FALSE, headed |-> FALSE, code |-> "error", page |-> Checksum]

\* The sensor keeps its templates without power.
As608Init(templates) ==
  /\ rx = Silence
  /\ call = NoCommand
  /\ owed = <<>>
  /\ sensor = [image |-> NoFinger, buf |-> [b \in 1 .. 2 |-> NoFinger], lib |-> templates]

-----------------------------------------------------------------------------
(* What the sensor makes of a command with finger f on it: the sensors it  *)
(* may become and the answers it may give.  An image and a buffer are      *)
(* empty when what they hold has been used.                                *)

Answer(s, code, page) == [sensor |-> s, code |-> code, page |-> page]
Plain(s, code) == Answer(s, code, Checksum)

Matching(s) == {page \in Pages : s.lib[page] = s.buf[1] /\ s.buf[1] # NoFinger}

Imaged(f) == [sensor EXCEPT !.image = f]

Featured(b) ==
  [image |-> NoFinger, buf |-> [sensor.buf EXCEPT ![b] = sensor.image], lib |-> sensor.lib]

SameFinger == sensor.buf[1] = sensor.buf[2] /\ sensor.buf[1] # NoFinger

Emptied == [b \in 1 .. 2 |-> NoFinger]

Executed(c, f) ==
  CASE c.op = "GetImage" ->
         IF f = NoFinger THEN {Plain(Imaged(NoFinger), "nofinger")}
         ELSE {Plain(Imaged(f), "ok"), Plain(Imaged(NoFinger), "error")}
    [] c.op = "GenChar" ->
         {Plain(Imaged(NoFinger), "error")} \cup
         IF sensor.image = NoFinger THEN {} ELSE {Plain(Featured(c.buf), "ok")}
    [] c.op \in {"Match", "RegModel"} ->
         {Plain(sensor, IF SameFinger THEN "ok" ELSE "error")}
    [] c.op = "StoreChar" ->
         {Plain([image |-> sensor.image, buf |-> Emptied,
                 lib   |-> [sensor.lib EXCEPT ![c.page] = sensor.buf[2]]], "ok")}
    [] c.op = "Search" ->
         LET after == [sensor EXCEPT !.buf = Emptied]
         IN  IF Matching(sensor) = {} THEN {Plain(after, "error")}
             ELSE {Answer(after, "ok", page) : page \in Matching(sensor)}

-----------------------------------------------------------------------------
(* USART2_IRQHandler: bytes are taken until the line falls silent after    *)
(* some, and dropped from then until the length is reset.                  *)

Arrived(code, page) ==
  rx' = IF rx.done THEN rx ELSE [done |-> TRUE, headed |-> TRUE, code |-> code, page |-> page]

\* The line falls silent in the middle of an answer: in the header, after
\* it, or after the code.  The rest comes when the flag is set.
ArrivedCut(code) ==
  IF rx.done THEN rx' = rx
  ELSE \/ rx' = [rx EXCEPT !.done = TRUE]
       \/ \E c \in Codes, page \in Pages :
             rx' = [done |-> TRUE, headed |-> TRUE, code |-> c, page |-> page]
       \/ \E page \in Pages :
             rx' = [done |-> TRUE, headed |-> TRUE, code |-> code, page |-> page]

-----------------------------------------------------------------------------
(* The driver.  Sent sends command c after the program has dealt with what *)
(* it waited for; NoCommand: the program waits for nothing more.           *)

Sent(c) ==
  /\ call' = c
  /\ owed' = IF c = NoCommand THEN owed ELSE Append(owed, c)
  /\ rx' = Silence

\* JudgeStr finds a header in what has been received.
Heard == call # NoCommand /\ rx.done /\ rx.headed

\* JudgeStr finds none and goes on waiting.
HeardNoise ==
  /\ call # NoCommand /\ rx.done /\ ~rx.headed
  /\ rx' = Silence
  /\ UNCHANGED <<call, owed, sensor>>

\* JudgeStr has waited for two seconds.
HeardNothing == call # NoCommand /\ ~rx.done
=============================================================================
