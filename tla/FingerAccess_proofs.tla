-------------------------- MODULE FingerAccess_proofs --------------------------
(***************************************************************************)
(* A user's template is his finger, and the fingerprint key lets in only   *)
(* whom it belongs to, for any number of users, fingers and templates.     *)
(***************************************************************************)
EXTENDS FingerAccess, FiniteSetTheorems, SequenceTheorems, TLAPS

-----------------------------------------------------------------------------
(* The sensor: what an executed command leaves of what it found.           *)

LEMMA CommandFields ==
  ASSUME NEW c \in Commands
  PROVE  /\ c # NoCommand
         /\ c.op \in {"GetImage", "GenChar", "Match", "RegModel", "StoreChar", "Search"}
         /\ c.op = "GenChar" => c.buf \in 1 .. 2
         /\ c.op = "StoreChar" => c.page \in Pages
BY DEF Commands, NoCommand, Cmd, PS_GetImage, PS_GenChar, PS_Match, PS_RegModel,
       PS_StoreChar, PS_HighSpeedSearch

LEMMA ImagedFields ==
  ASSUME sensor \in Sensors, NEW f \in Touch
  PROVE  Imaged(f) = [image |-> f, buf |-> sensor.buf, lib |-> sensor.lib]
BY DEF Imaged, Sensors

LEMMA SearchedFields ==
  ASSUME sensor \in Sensors
  PROVE  [sensor EXCEPT !.buf = Emptied] =
           [image |-> sensor.image, buf |-> Emptied, lib |-> sensor.lib]
BY DEF Sensors

LEMMA EmptiedType == Emptied \in [1 .. 2 -> Touch]
BY DEF Emptied, Touch

(* What each command does to the sensor and what its answer tells.         *)
LEMMA ExecutedEffect ==
  ASSUME sensor \in Sensors, NEW c \in Commands, NEW f \in Touch, NEW a \in Executed(c, f)
  PROVE  /\ a.sensor \in Sensors /\ a.code \in Codes /\ a.page \in Pages
         /\ c.op # "StoreChar" => a.sensor.lib = sensor.lib
         /\ c.op \in {"GetImage", "Match", "RegModel"} => a.sensor.buf = sensor.buf
         /\ c.op = "GenChar" =>
              /\ \A b \in 1 .. 2 : b # c.buf => a.sensor.buf[b] = sensor.buf[b]
              /\ a.code = "ok" => a.sensor.buf[c.buf] = sensor.image
         /\ c.op = "Match" /\ a.code = "ok" => sensor.buf[1] = sensor.buf[2]
         /\ c.op = "StoreChar" =>
              a.sensor.lib = [sensor.lib EXCEPT ![c.page] = sensor.buf[2]]
         /\ c.op = "Search" /\ a.code = "ok" => sensor.lib[a.page] = sensor.buf[1]
<1> USE As608Assumption
<1>0. /\ sensor.image \in Touch /\ sensor.buf \in [1 .. 2 -> Touch]
      /\ sensor.lib \in [Pages -> Touch] /\ NoFinger \in Touch
      /\ sensor = [image |-> sensor.image, buf |-> sensor.buf, lib |-> sensor.lib]
  BY DEF Sensors, Touch
<1>1. CASE c.op = "GetImage"
  <2>1. a \in {Plain(Imaged(NoFinger), "nofinger"), Plain(Imaged(f), "ok"),
               Plain(Imaged(NoFinger), "error")}
    BY <1>1 DEF Executed
  <2>2. \E g \in Touch, code \in Codes : a = Plain(Imaged(g), code)
    BY <1>0, <2>1 DEF Codes
  <2>3. PICK g \in Touch, code \in Codes : a = Plain(Imaged(g), code)
    BY <2>2
  <2>4. a = [sensor |-> [image |-> g, buf |-> sensor.buf, lib |-> sensor.lib],
             code |-> code, page |-> Checksum]
    BY <2>3, ImagedFields DEF Plain, Answer
  <2> QED BY <1>0, <1>1, <2>4 DEF Sensors
<1>2. CASE c.op = "GenChar"
  <2>1. c.buf \in 1 .. 2
    BY <1>2, CommandFields
  <2>2. CASE a = Plain(Imaged(NoFinger), "error")
    <3>1. a = [sensor |-> [image |-> NoFinger, buf |-> sensor.buf, lib |-> sensor.lib],
               code |-> "error", page |-> Checksum]
      BY <1>0, <2>2, ImagedFields DEF Plain, Answer
    <3> QED BY <1>0, <1>2, <3>1 DEF Sensors, Codes
  <2>3. CASE a = Plain(Featured(c.buf), "ok")
    <3> DEFINE after == [sensor.buf EXCEPT ![c.buf] = sensor.image]
    <3>1. a = [sensor |-> [image |-> NoFinger, buf |-> after, lib |-> sensor.lib],
               code |-> "ok", page |-> Checksum]
      BY <2>3 DEF Featured, Plain, Answer
    <3>2. /\ after \in [1 .. 2 -> Touch] /\ after[c.buf] = sensor.image
          /\ \A b \in 1 .. 2 : b # c.buf => after[b] = sensor.buf[b]
      BY <1>0, <2>1
    <3> HIDE DEF after
    <3> QED BY <1>0, <1>2, <3>1, <3>2 DEF Sensors, Codes
  <2> QED BY <1>2, <2>2, <2>3 DEF Executed
<1>3. CASE c.op \in {"Match", "RegModel"}
  <2>1. a = [sensor |-> sensor, code |-> IF SameFinger THEN "ok" ELSE "error",
             page |-> Checksum]
    BY <1>3 DEF Executed, Plain, Answer
  <2> QED BY <1>3, <2>1 DEF SameFinger, Codes
<1>4. CASE c.op = "StoreChar"
  <2>1. c.page \in Pages
    BY <1>4, CommandFields
  <2> DEFINE after == [sensor.lib EXCEPT ![c.page] = sensor.buf[2]]
  <2>2. a = [sensor |-> [image |-> sensor.image, buf |-> Emptied, lib |-> after],
             code |-> "ok", page |-> Checksum]
    BY <1>4 DEF Executed, Plain, Answer
  <2>3. after \in [Pages -> Touch]
    BY <1>0, <2>1
  <2> HIDE DEF after
  <2>4. a.sensor.lib = after
    BY <2>2
  <2> QED BY <1>0, <1>4, <2>2, <2>3, <2>4, EmptiedType DEF Sensors, Codes, after
<1>5. CASE c.op = "Search"
  <2> DEFINE after == [image |-> sensor.image, buf |-> Emptied, lib |-> sensor.lib]
  <2>1. \/ a = Plain(after, "error")
        \/ \E page \in Matching(sensor) : a = Answer(after, "ok", page)
    BY <1>5, SearchedFields DEF Executed
  <2>2. after \in Sensors /\ after.lib = sensor.lib
    BY <1>0, EmptiedType DEF Sensors
  <2> HIDE DEF after
  <2>3. CASE a = Plain(after, "error")
    BY <1>5, <2>2, <2>3 DEF Plain, Answer, Codes
  <2>4. CASE \E page \in Matching(sensor) : a = Answer(after, "ok", page)
    BY <1>5, <2>2, <2>4 DEF Answer, Codes, Matching
  <2> QED BY <2>1, <2>3, <2>4
<1> QED BY <1>1, <1>2, <1>3, <1>4, <1>5, CommandFields

-----------------------------------------------------------------------------
(* The invariant.                                                          *)

(* What is not a template number of the dialogue or of the enrolment is    *)
(* none.                                                                   *)
StepsOK ==
  /\ enrol.state # "IDLE" => dialogue.step = "FINGERPRINT" /\ enrol.page \in Pages
  /\ dialogue.page # NoPage => dialogue.step = "PASSWORD"

(* The program waits for a command of the key or of the enrolment's state. *)
CallOK ==
  \/ call = NoCommand
  \/ /\ dialogue.step = "none"
     /\ call \in {PS_GetImage, PS_GenChar(1), PS_HighSpeedSearch}
  \/ /\ dialogue.step = "FINGERPRINT"
     /\ enrol.state \in {"WAIT_FINGER_1", "CAPTURE_1", "REMOVE", "WAIT_FINGER_2",
                         "CAPTURE_2", "MATCH", "STORE"}
     /\ call = EnrolCommand
  \/ /\ dialogue.step = "FINGERPRINT" /\ enrol.state = "STORE"
     /\ call = PS_StoreChar(enrol.page)

(* While no answer is late, the sensor owes at most the one waited for.    *)
LineOK ==
  faults["late"] = 0 =>
     owed = <<>> \/ (owed = <<call>> /\ call # NoCommand /\ ~rx.done)

(* A number that no user's template had when the enrolment began has not   *)
(* come to be one since: only the end of this dialogue gives out numbers.  *)
FreshOK == ~reused /\ enrol.state # "IDLE" => enrol.page \notin HeldPages

CInv == TypeOK /\ StepsOK /\ CallOK /\ LineOK /\ FreshOK

Waiting == owed # <<>>
Succeeded == rx.done /\ rx.code = "ok"

(* What the sensor holds of the finger that is enrolled.                   *)
EnrolData ==
  /\ enrol.state = "CAPTURE_1" =>
       /\ call = NoCommand \/ Waiting => sensor.image = enrol.owner
       /\ call # NoCommand /\ Succeeded => sensor.buf[1] = enrol.owner
  /\ enrol.state \in {"REMOVE", "WAIT_FINGER_2", "CAPTURE_2", "MATCH"} =>
       sensor.buf[1] = enrol.owner
  /\ enrol.state = "MATCH" /\ call # NoCommand /\ Succeeded => sensor.buf[2] = enrol.owner
  /\ enrol.state = "STORE" /\ (call.op # "StoreChar" \/ Waiting) =>
       sensor.buf[2] = enrol.owner
  /\ enrol.state = "STORE" /\ call.op = "StoreChar" /\ Succeeded =>
       sensor.lib[enrol.page] = enrol.owner
  /\ enrol.state = "DONE" => sensor.lib[enrol.page] = enrol.owner

(* And of the finger that is judged.                                       *)
PressData ==
  dialogue.step = "none" =>
    /\ call.op = "GenChar" =>
         (Waiting => sensor.image = presser) /\ (Succeeded => sensor.buf[1] = presser)
    /\ call.op = "Search" =>
         (Waiting => sensor.buf[1] = presser) /\ (Succeeded => sensor.lib[rx.page] = presser)

(* The template of the user about to be added.                             *)
DialogueData == dialogue.page # NoPage => sensor.lib[dialogue.page] = dialogue.owner

DInv == /\ BoundIsOwners /\ OnlyTheOwner
        /\ InStep => EnrolData /\ PressData /\ DialogueData

-----------------------------------------------------------------------------
(* Types and control.                                                      *)

LEMMA FreshPageType == TypeOK => FreshPage \in Pages
<1> SUFFICES ASSUME TypeOK PROVE FreshPage \in Pages
  OBVIOUS
<1>1. MaxUsers \in Nat /\ 1 .. MaxUsers + 1 \subseteq Pages
  BY FingerAssumption
<1>2. IsFiniteSet(Slots) /\ Cardinality(Slots) = MaxUsers
  <2>1. IsFiniteSet(1 .. MaxUsers) /\ Cardinality(1 .. MaxUsers) = IF 1 > MaxUsers THEN 0 ELSE MaxUsers - 1 + 1
    BY <1>1, FS_Interval
  <2> QED BY <1>1, <2>1 DEF Slots
<1>3. Used \in SUBSET Slots
  BY DEF Used
<1>4. Cardinality(Used) <= MaxUsers /\ Cardinality(Used) \in Nat
  BY <1>2, <1>3, FS_Subset, FS_CardinalityType
<1>5. Cardinality(Used) + 1 \in 1 .. MaxUsers + 1
  BY <1>1, <1>4
<1> QED BY <1>1, <1>5 DEF FreshPage

(* A command that is sent, or the end of the waiting.                      *)
LEMMA SentType ==
  ASSUME TypeOK, NEW c \in Commands \cup {NoCommand}, Sent(c)
  PROVE  /\ rx' \in [done: BOOLEAN, headed: BOOLEAN, code: Codes, page: Pages]
         /\ call' \in Commands \cup {NoCommand}
         /\ owed' \in Seq(Commands)
         /\ ~rx'.done
<1>1. Silence \in [done: BOOLEAN, headed: BOOLEAN, code: Codes, page: Pages]
  BY As608Assumption DEF Silence, Codes
<1>2. owed \in Seq(Commands)
  BY DEF TypeOK, As608TypeOK
<1>3. CASE c = NoCommand
  BY <1>1, <1>2, <1>3 DEF Sent, Silence
<1>4. CASE c # NoCommand
  <2>1. c \in Commands
    BY <1>4
  <2>2. owed' = Append(owed, c)
    BY <1>4 DEF Sent
  <2>3. owed' \in Seq(Commands)
    BY <1>2, <2>1, <2>2
  <2> QED BY <1>1, <2>3 DEF Sent, Silence
<1> QED BY <1>3, <1>4

(* An idle program to which no answer is late has none to come; so a       *)
(* command that is then sent is the only one.                              *)
LEMMA SentLine ==
  ASSUME CInv, NEW c \in Commands \cup {NoCommand}, Sent(c),
         faults'["late"] = 0 => owed = <<>>
  PROVE  LineOK'
<1>1. ~rx'.done
  BY SentType DEF CInv
<1>2. CASE c = NoCommand
  BY <1>2 DEF Sent, LineOK
<1>3. CASE c # NoCommand
  <2>1. owed' = Append(owed, c) /\ call' = c
    BY <1>3 DEF Sent
  <2>2. owed = <<>> => owed' = <<c>>
    BY <2>1
  <2> QED BY <1>1, <1>3, <2>1, <2>2 DEF LineOK
<1> QED BY <1>2, <1>3

-----------------------------------------------------------------------------
(* The steps of the enrolment.                                             *)

EnrolType == [state: FpState, page: Pages \cup {NoPage}, attempt: 0 .. FpMaxAttempts,
              retry: BOOLEAN, owner: Touch]

LEMMA FailedEffect ==
  ASSUME enrol \in EnrolType
  PROVE  /\ Failed \in EnrolType
         /\ Failed.state = "ERROR" /\ Failed.page = enrol.page
<1>1. CASE enrol.attempt < FpMaxAttempts
  <2>1. enrol.attempt + 1 \in 0 .. FpMaxAttempts
    BY <1>1, FingerAssumption DEF EnrolType
  <2>2. Failed = [state |-> "ERROR", page |-> enrol.page, attempt |-> enrol.attempt + 1,
                  retry |-> TRUE, owner |-> enrol.owner]
    BY <1>1 DEF Failed, EnrolType
  <2> QED BY <2>1, <2>2 DEF EnrolType, FpState
<1>2. CASE ~(enrol.attempt < FpMaxAttempts)
  <2>1. Failed = [state |-> "ERROR", page |-> enrol.page, attempt |-> enrol.attempt,
                  retry |-> FALSE, owner |-> enrol.owner]
    BY <1>2 DEF Failed, EnrolType
  <2> QED BY <2>1 DEF EnrolType, FpState
<1> QED BY <1>1, <1>2

(* Where the enrolment goes on: it keeps its number, the finger it is of   *)
(* is the one whose first image is taken, and the states that rest on      *)
(* something in the sensor are reached with "ok" only.                     *)
LEMMA EnrolAfterEffect ==
  ASSUME TypeOK, CallOK, call # NoCommand, dialogue.step = "FINGERPRINT",
         NEW code \in Codes
  PROVE  LET next == EnrolAfter(code)
         IN  /\ next \in EnrolType
             /\ next.page = enrol.page /\ next.state # "IDLE"
             /\ code # "ok" => next.state \in {"WAIT_FINGER_1", "WAIT_FINGER_2", "ERROR"}
             /\ code # "ok" /\ next.state = "WAIT_FINGER_2" =>
                  enrol.state \in {"REMOVE", "WAIT_FINGER_2"} /\ next.owner = enrol.owner
             /\ code = "ok" /\ enrol.state = "WAIT_FINGER_1" =>
                  next.state = "CAPTURE_1" /\ next.owner = sensor.image
             /\ code = "ok" /\ enrol.state # "WAIT_FINGER_1" =>
                  /\ next.owner = enrol.owner
                  /\ enrol.state = "CAPTURE_1" => next.state = "REMOVE"
                  /\ enrol.state = "REMOVE" => next.state = "REMOVE"
                  /\ enrol.state = "WAIT_FINGER_2" => next.state = "CAPTURE_2"
                  /\ enrol.state = "CAPTURE_2" => next.state = "MATCH"
                  /\ enrol.state = "MATCH" => next.state = "STORE"
                  /\ enrol.state = "STORE" =>
                       next.state = IF call.op = "StoreChar" THEN "DONE" ELSE "STORE"
<1>1. enrol \in EnrolType /\ sensor.image \in Touch
  BY DEF TypeOK, EnrolType, As608TypeOK, Sensors
<1>2. /\ Failed \in EnrolType
      /\ Failed.state = "ERROR" /\ Failed.page = enrol.page
  BY <1>1, FailedEffect
<1>3. enrol.state \in {"WAIT_FINGER_1", "CAPTURE_1", "REMOVE", "WAIT_FINGER_2",
                       "CAPTURE_2", "MATCH", "STORE"}
  BY DEF CallOK
<1>4. enrol.state = "STORE" => call.op \in {"RegModel", "StoreChar"}
  BY DEF CallOK, EnrolCommand, PS_RegModel, PS_StoreChar, Cmd
<1>5. enrol = [state |-> enrol.state, page |-> enrol.page, attempt |-> enrol.attempt,
               retry |-> enrol.retry, owner |-> enrol.owner]
  BY <1>1 DEF EnrolType
<1> DEFINE To(s) == [enrol EXCEPT !.state = s]
<1>6. ASSUME NEW s \in FpState
      PROVE  /\ To(s) \in EnrolType /\ To(s).state = s
             /\ To(s).page = enrol.page /\ To(s).owner = enrol.owner
  BY <1>1 DEF EnrolType
<1>7. LET c1 == [enrol EXCEPT !.state = "CAPTURE_1", !.owner = sensor.image]
      IN  /\ c1 \in EnrolType /\ c1.state = "CAPTURE_1"
          /\ c1.page = enrol.page /\ c1.owner = sensor.image
  BY <1>1 DEF EnrolType, FpState
<1>8. CASE code = "ok"
  <2>1. CASE enrol.state = "WAIT_FINGER_1"
    <3>1. EnrolAfter(code) = [enrol EXCEPT !.state = "CAPTURE_1", !.owner = sensor.image]
      BY <1>8, <2>1 DEF EnrolAfter
    <3> QED BY <1>7, <1>8, <2>1, <3>1
  <2>2. CASE enrol.state = "CAPTURE_1"
    <3>1. EnrolAfter(code) = To("REMOVE")
      BY <1>8, <2>2 DEF EnrolAfter
    <3> HIDE DEF To
    <3> QED BY <1>6, <1>8, <2>2, <3>1 DEF FpState
  <2>3. CASE enrol.state = "REMOVE"
    <3>1. EnrolAfter(code) = enrol
      BY <1>8, <2>3 DEF EnrolAfter
    <3> QED BY <1>1, <1>8, <2>3, <3>1 DEF EnrolType
  <2>4. CASE enrol.state = "WAIT_FINGER_2"
    <3>1. EnrolAfter(code) = To("CAPTURE_2")
      BY <1>8, <2>4 DEF EnrolAfter
    <3> HIDE DEF To
    <3> QED BY <1>6, <1>8, <2>4, <3>1 DEF FpState
  <2>5. CASE enrol.state = "CAPTURE_2"
    <3>1. EnrolAfter(code) = To("MATCH")
      BY <1>8, <2>5 DEF EnrolAfter
    <3> HIDE DEF To
    <3> QED BY <1>6, <1>8, <2>5, <3>1 DEF FpState
  <2>6. CASE enrol.state = "MATCH"
    <3>1. EnrolAfter(code) = To("STORE")
      BY <1>8, <2>6 DEF EnrolAfter
    <3> HIDE DEF To
    <3> QED BY <1>6, <1>8, <2>6, <3>1 DEF FpState
  <2>7. CASE enrol.state = "STORE" /\ call.op = "StoreChar"
    <3>1. EnrolAfter(code) = To("DONE")
      BY <1>8, <2>7 DEF EnrolAfter
    <3> HIDE DEF To
    <3> QED BY <1>6, <1>8, <2>7, <3>1 DEF FpState
  <2>8. CASE enrol.state = "STORE" /\ call.op = "RegModel"
    <3>1. EnrolAfter(code) = enrol
      BY <1>8, <2>8 DEF EnrolAfter
    <3> QED BY <1>1, <1>8, <2>8, <3>1 DEF EnrolType
  <2> QED BY <1>3, <1>4, <2>1, <2>2, <2>3, <2>4, <2>5, <2>6, <2>7, <2>8
<1>9. CASE code # "ok"
  <2>1. CASE enrol.state = "REMOVE" /\ code = "nofinger"
    <3>1. EnrolAfter(code) = To("WAIT_FINGER_2")
      BY <2>1 DEF EnrolAfter
    <3> HIDE DEF To
    <3> QED BY <1>6, <1>9, <2>1, <3>1 DEF FpState
  <2>2. CASE enrol.state \in {"WAIT_FINGER_1", "WAIT_FINGER_2"} /\ code = "nofinger"
    <3>1. EnrolAfter(code) = enrol
      BY <2>2 DEF EnrolAfter
    <3> QED BY <1>1, <1>9, <2>2, <3>1 DEF EnrolType
  <2>3. CASE code = "error" \/ enrol.state \notin {"REMOVE", "WAIT_FINGER_1", "WAIT_FINGER_2"}
    <3>1. EnrolAfter(code) = Failed
      BY <1>9, <2>3 DEF EnrolAfter
    <3> QED BY <1>2, <1>9, <2>3, <3>1
  <2> QED BY <1>9, <2>1, <2>2, <2>3 DEF Codes
<1> QED BY <1>8, <1>9

-----------------------------------------------------------------------------
(* Types and control are kept by every step.                               *)

RxType == [done: BOOLEAN, headed: BOOLEAN, code: Codes, page: Pages]
DialogueType == [step: {"none", "FINGERPRINT", "PASSWORD"},
                 page: Pages \cup {NoPage}, owner: Touch]
UsersType == [Slots -> [used: BOOLEAN, page: Pages \cup {NoPage}, owner: Touch]]

LEMMA InitCInv == Init => CInv
<1> SUFFICES ASSUME Init PROVE CInv
  OBVIOUS
<1> USE FingerAssumption, As608Assumption
<1> PICK own \in [AtFirst -> Fingers] :
      /\ As608Init([p \in Pages |-> IF p \in AtFirst THEN own[p] ELSE NoFinger])
      /\ users = [s \in Slots |-> IF s \in AtFirst THEN [used |-> TRUE, page |-> s, owner |-> own[s]]
                                ELSE Free]
  BY DEF Init
<1>1. As608TypeOK
  <2>1. rx \in [done: BOOLEAN, headed: BOOLEAN, code: Codes, page: Pages] /\ owed \in Seq(Commands)
    BY DEF As608Init, Silence, Codes
  <2>2. sensor \in Sensors
    BY DEF As608Init, Sensors, Touch
  <2> QED BY <2>1, <2>2 DEF Init, As608Init, As608TypeOK
<1>2. TypeOK
  <2>1. users \in [Slots -> [used: BOOLEAN, page: Pages \cup {NoPage}, owner: Touch]]
    <3>1. \A s \in Slots : s \in Pages
      BY DEF Slots
    <3> QED BY <3>1 DEF Free, Touch
  <2>2. enrol \in [state: FpState, page: Pages \cup {NoPage},
                   attempt: 0 .. FpMaxAttempts, retry: BOOLEAN, owner: Touch]
    BY DEF Init, NoEnrol, FpState, Touch
  <2>3. added \in 0 .. MaxAdded
    BY FingerAssumption DEF Init
  <2>4. faults \in [Disturbances -> 0 .. MaxFaults]
    BY FingerAssumption DEF Init
  <2> QED BY <1>1, <2>1, <2>2, <2>3, <2>4 DEF Init, TypeOK, NoDialogue, Touch
<1>3. StepsOK /\ CallOK /\ LineOK /\ FreshOK
  BY DEF Init, As608Init, NoDialogue, NoEnrol, StepsOK, CallOK, LineOK, FreshOK
<1> QED BY <1>2, <1>3 DEF CInv

LEMMA QuietType ==
  ASSUME TypeOK, Quiet
  PROVE  presser' \in Touch /\ verdict' = NoUser
BY DEF Quiet, TypeOK, Touch

FaultsType == [Disturbances -> 0 .. MaxFaults]

(* A disturbance adds to its own count and leaves the others.              *)
LEMMA DisturbanceCounted ==
  ASSUME faults \in FaultsType, NEW kind \in Disturbances, Disturbance(kind)
  PROVE  /\ faults' \in FaultsType /\ faults'[kind] # 0
         /\ \A other \in Disturbances : faults'[other] = 0 => faults[other] = 0
<1>1. /\ faults' = [faults EXCEPT ![kind] = faults[kind] + 1]
      /\ faults["late"] + faults["lost"] + faults["cut"] < MaxFaults
  BY DEF Disturbance, Disturbed
<1>2. /\ faults["late"] \in Nat /\ faults["lost"] \in Nat /\ faults["cut"] \in Nat
      /\ MaxFaults \in Nat
  BY FingerAssumption DEF FaultsType, Disturbances
<1>3. faults[kind] \in Nat /\ faults[kind] < MaxFaults
  BY <1>1, <1>2 DEF Disturbances
<1> QED BY <1>1, <1>2, <1>3 DEF FaultsType

(* What becomes of an answer on the line.                                  *)
Outcome(a) ==
  \/ Undisturbed /\ sensor' = a.sensor /\ Arrived(a.code, a.page)
  \/ Disturbance("cut") /\ sensor' = a.sensor /\ ArrivedCut(a.code)
  \/ Disturbance("lost") /\ sensor' \in {a.sensor, sensor} /\ rx' = rx

LEMMA SensorAnswersCInv == CInv /\ SensorAnswers => CInv'
<1> SUFFICES ASSUME CInv, SensorAnswers PROVE CInv'
  OBVIOUS
<1>1. TypeOK /\ As608TypeOK /\ owed # <<>> /\ owed \in Seq(Commands) /\ sensor \in Sensors /\ rx \in RxType
  BY DEF CInv, TypeOK, As608TypeOK, SensorAnswers, RxType
<1>2. Head(owed) \in Commands /\ owed' = Tail(owed) /\ owed' \in Seq(Commands)
  BY <1>1, HeadTailProperties DEF SensorAnswers
<1>3. \E finger \in Touch : \E a \in Executed(Head(owed), finger) : Outcome(a)
  BY DEF SensorAnswers, Outcome
<1> PICK finger \in Touch : \E a \in Executed(Head(owed), finger) : Outcome(a)
  BY <1>3
<1> PICK a \in Executed(Head(owed), finger) : Outcome(a)
  OBVIOUS
<1>4. a.sensor \in Sensors /\ a.code \in Codes /\ a.page \in Pages
  BY <1>1, <1>2, ExecutedEffect
<1>5. sensor' \in Sensors
  BY <1>1, <1>4 DEF Outcome
<1>6. rx' \in RxType
  <2>1. CASE Arrived(a.code, a.page)
    BY <1>1, <1>4, <2>1 DEF Arrived, RxType
  <2>2. CASE ArrivedCut(a.code)
    <3>1. CASE rx' = [rx EXCEPT !.done = TRUE]
      BY <1>1, <3>1 DEF RxType
    <3>2. CASE \E c \in Codes, page \in Pages :
                 rx' = [done |-> TRUE, headed |-> TRUE, code |-> c, page |-> page]
      BY <3>2 DEF RxType
    <3> QED BY <1>1, <1>4, <2>2, <3>1, <3>2 DEF ArrivedCut
  <2> QED BY <1>1, <2>1, <2>2 DEF Outcome
<1>7. faults' \in FaultsType /\ (faults'["late"] = 0 => faults["late"] = 0)
  BY <1>1, DisturbanceCounted DEF Outcome, Undisturbed, TypeOK, FaultsType, Disturbances
<1>8. TypeOK'
  BY <1>1, <1>2, <1>5, <1>6, <1>7, QuietType DEF SensorAnswers, TypeOK, As608TypeOK, RxType, FaultsType
<1>9. LineOK'
  <2>1. owed = <<call>> => owed' = <<>>
    BY <1>2
  <2> QED BY <1>1, <1>7, <2>1 DEF CInv, LineOK
<1>10. StepsOK' /\ CallOK' /\ FreshOK'
  BY DEF CInv, SensorAnswers, StepsOK, CallOK, EnrolCommand, FreshOK, HeldPages, Used
<1> QED BY <1>8, <1>9, <1>10 DEF CInv

LEMMA IdleLine ==
  ASSUME CInv, Idle
  PROVE  faults["late"] = 0 => owed = <<>>
BY DEF CInv, LineOK, Idle

LEMMA PressCInv == CInv /\ Press_FR => CInv'
<1> SUFFICES ASSUME CInv, Press_FR PROVE CInv'
  OBVIOUS
<1>1. TypeOK /\ As608TypeOK /\ PS_GetImage \in Commands /\ Sent(PS_GetImage) /\ faults' = faults
  BY DEF CInv, TypeOK, Press_FR, Commands
<1>2. TypeOK'
  BY <1>1, SentType, QuietType DEF Press_FR, TypeOK, As608TypeOK
<1>3. LineOK'
  BY <1>1, IdleLine, SentLine DEF Press_FR
<1>4. StepsOK' /\ CallOK' /\ FreshOK'
  BY <1>1 DEF CInv, Press_FR, Sent, StepsOK, CallOK, FreshOK, HeldPages, Used
<1> QED BY <1>2, <1>3, <1>4 DEF CInv

LEMMA EnrolCommandType ==
  EnrolCommand \in Commands \cup {NoCommand}
BY DEF EnrolCommand, Commands

LEMMA AskingStates ==
  ASSUME EnrolCommand # NoCommand
  PROVE  enrol.state \in {"WAIT_FINGER_1", "CAPTURE_1", "REMOVE", "WAIT_FINGER_2",
                          "CAPTURE_2", "MATCH", "STORE"}
BY DEF EnrolCommand

LEMMA EnrolUpdateCInv == CInv /\ fingerprint_enroll_update => CInv'
<1> SUFFICES ASSUME CInv, fingerprint_enroll_update PROVE CInv'
  OBVIOUS
<1>1. TypeOK /\ As608TypeOK /\ Sent(EnrolCommand) /\ faults' = faults /\ enrol' = enrol
  BY DEF CInv, TypeOK, fingerprint_enroll_update
<1>2. TypeOK'
  BY <1>1, EnrolCommandType, SentType, QuietType DEF fingerprint_enroll_update, TypeOK, As608TypeOK
<1>3. LineOK'
  BY <1>1, EnrolCommandType, IdleLine, SentLine DEF fingerprint_enroll_update
<1>4. CallOK'
  <2>1. EnrolCommand' = EnrolCommand
    BY <1>1 DEF EnrolCommand
  <2> QED BY <1>1, <2>1, AskingStates DEF fingerprint_enroll_update, Sent, CallOK
<1>5. StepsOK' /\ FreshOK'
  BY <1>1 DEF CInv, fingerprint_enroll_update, StepsOK, FreshOK, HeldPages, Used
<1> QED BY <1>2, <1>3, <1>4, <1>5 DEF CInv

LEMMA StartCInv == CInv /\ start_fingerprint_enroll => CInv'
<1> SUFFICES ASSUME CInv, start_fingerprint_enroll PROVE CInv'
  OBVIOUS
<1>1. TypeOK /\ As608TypeOK /\ FreshPage \in Pages
  BY FreshPageType DEF CInv, TypeOK
<1>2. dialogue' = [step |-> "FINGERPRINT", page |-> NoPage, owner |-> NoFinger]
  BY DEF start_fingerprint_enroll, NoDialogue
<1>3. /\ enrol' = [state |-> "WAIT_FINGER_1", page |-> FreshPage, attempt |-> 1,
                   retry |-> FALSE, owner |-> NoFinger]
      /\ enrol' \in EnrolType
  BY <1>1, FingerAssumption DEF start_fingerprint_enroll, EnrolType, FpState, Touch
<1>4. reused' \in BOOLEAN /\ (~reused' => FreshPage \notin HeldPages)
  <2>1. reused' = (reused \/ FreshPage \in HeldPages)
    BY DEF start_fingerprint_enroll
  <2> QED BY <2>1
<1>5. TypeOK'
  <2>1. As608TypeOK'
    BY <1>1 DEF start_fingerprint_enroll, As608TypeOK
  <2>2. dialogue' \in DialogueType
    BY <1>2 DEF DialogueType, Touch
  <2>3. presser' \in Touch /\ verdict' = NoUser
    BY <1>1, QuietType DEF start_fingerprint_enroll
  <2> QED BY <1>1, <1>3, <1>4, <2>1, <2>2, <2>3
          DEF start_fingerprint_enroll, TypeOK, DialogueType, EnrolType
<1>6. FreshOK'
  <2>1. HeldPages' = HeldPages
    BY DEF start_fingerprint_enroll, HeldPages, Used
  <2>2. enrol'.page = FreshPage
    BY <1>3
  <2> QED BY <1>4, <2>1, <2>2 DEF FreshOK
<1>7. LineOK' /\ CallOK'
  BY DEF CInv, start_fingerprint_enroll, Idle, LineOK, CallOK
<1>8. StepsOK'
  BY <1>1, <1>2, <1>3 DEF StepsOK
<1> QED BY <1>5, <1>6, <1>7, <1>8 DEF CInv

(* A step of the program that sends nothing leaves the line as it is.      *)
LEMMA IdleStepCInv ==
  ASSUME CInv, Idle, Quiet, UNCHANGED <<rx, call, owed, sensor, faults>>,
         users' \in UsersType, dialogue' \in DialogueType, enrol' \in EnrolType,
         added' \in 0 .. MaxAdded, reused' = reused, StepsOK', FreshOK'
  PROVE  CInv'
<1>1. TypeOK /\ As608TypeOK
  BY DEF CInv, TypeOK
<1>2. TypeOK'
  BY <1>1, QuietType DEF TypeOK, As608TypeOK, UsersType, DialogueType, EnrolType
<1>3. LineOK' /\ CallOK'
  BY DEF CInv, Idle, LineOK, CallOK
<1> QED BY <1>2, <1>3 DEF CInv

LEMMA EnrolDoneCInv == CInv /\ EnrolDone => CInv'
<1> SUFFICES ASSUME CInv, EnrolDone PROVE CInv'
  OBVIOUS
<1>1. /\ users \in UsersType /\ dialogue \in DialogueType /\ enrol \in EnrolType
      /\ added \in 0 .. MaxAdded
  BY DEF CInv, TypeOK, UsersType, DialogueType, EnrolType
<1>2. enrol' = NoEnrol /\ enrol' \in EnrolType /\ enrol'.state = "IDLE"
  BY FingerAssumption DEF EnrolDone, NoEnrol, EnrolType, FpState, Touch
<1>3. dialogue' = dialogue \/ dialogue' = [step |-> "PASSWORD", page |-> enrol.page, owner |-> enrol.owner]
  BY DEF EnrolDone
<1>4. dialogue' \in DialogueType
  BY <1>1, <1>3 DEF DialogueType, EnrolType
<1>5. StepsOK' /\ FreshOK'
  BY <1>2, <1>3 DEF CInv, StepsOK, FreshOK
<1> QED BY <1>1, <1>2, <1>4, <1>5, IdleStepCInv DEF EnrolDone

LEMMA EnrolRetryCInv == CInv /\ EnrolRetry => CInv'
<1> SUFFICES ASSUME CInv, EnrolRetry PROVE CInv'
  OBVIOUS
<1>1. /\ users \in UsersType /\ dialogue \in DialogueType /\ enrol \in EnrolType
      /\ added \in 0 .. MaxAdded
  BY DEF CInv, TypeOK, UsersType, DialogueType, EnrolType
<1>2. enrol' \in EnrolType /\ enrol'.state = "WAIT_FINGER_1" /\ enrol'.page = enrol.page
  BY <1>1 DEF EnrolRetry, EnrolType, FpState
<1>3. enrol.state = "ERROR"
  BY DEF EnrolRetry
<1>4. HeldPages' = HeldPages
  BY DEF EnrolRetry, HeldPages, Used
<1>5. StepsOK' /\ FreshOK'
  BY <1>2, <1>3, <1>4 DEF CInv, EnrolRetry, StepsOK, FreshOK
<1> QED BY <1>1, <1>2, <1>5, IdleStepCInv DEF EnrolRetry

(* A user who is added takes one free entry and its template number, or    *)
(* the database is full.                                                   *)
LEMMA AddUserEffect ==
  ASSUME TypeOK, NEW page \in Pages \cup {NoPage}, NEW owner \in Touch, AddUser(page, owner)
  PROVE  /\ users' \in UsersType /\ added' \in 0 .. MaxAdded
         /\ \A s \in Slots : users'[s] = users[s]
                               \/ (users'[s].page = page /\ users'[s].owner = owner)
<1>1. users \in UsersType /\ added \in 0 .. MaxAdded
  BY DEF TypeOK, UsersType
<1>2. CASE UNCHANGED <<users, added>>
  BY <1>1, <1>2
<1>3. CASE \E s \in Slots \ Used :
             /\ users' = [users EXCEPT ![s] = [used |-> TRUE, page |-> page, owner |-> owner]]
             /\ added + Disturbed < MaxAdded /\ added' = added + 1
  <2> PICK s \in Slots \ Used :
             /\ users' = [users EXCEPT ![s] = [used |-> TRUE, page |-> page, owner |-> owner]]
             /\ added + Disturbed < MaxAdded /\ added' = added + 1
    BY <1>3
  <2>1. added' \in 0 .. MaxAdded
    <3>1. Disturbed \in Nat
      BY FingerAssumption DEF TypeOK, Disturbed, Disturbances
    <3> QED BY <1>1, <3>1, FingerAssumption
  <2> DEFINE user == [used |-> TRUE, page |-> page, owner |-> owner]
  <2>2. /\ user \in [used: BOOLEAN, page: Pages \cup {NoPage}, owner: Touch]
        /\ user.page = page /\ user.owner = owner
    OBVIOUS
  <2>3. users' = [users EXCEPT ![s] = user]
    OBVIOUS
  <2> HIDE DEF user
  <2>4. users' \in UsersType
    BY <1>1, <2>2, <2>3 DEF UsersType
  <2>5. \A t \in Slots : users'[t] = IF t = s THEN user ELSE users[t]
    BY <1>1, <2>3 DEF UsersType
  <2> QED BY <2>1, <2>2, <2>4, <2>5
<1> QED BY <1>2, <1>3 DEF AddUser

(* Only a user who comes with a template number makes it one in use.       *)
LEMMA HeldByAdded ==
  ASSUME NEW page, users' \in UsersType, users \in UsersType,
         \A s \in Slots : \/ users'[s] = users[s]
                          \/ users'[s].page = page
                          \/ users'[s].page = NoPage
  PROVE  HeldPages' \subseteq HeldPages \cup {page}
<1> SUFFICES ASSUME NEW q \in HeldPages', q # page PROVE q \in HeldPages
  OBVIOUS
<1>1. PICK s \in Slots : users'[s].used /\ users'[s].page = q
  BY DEF HeldPages, Used
<1>2. q # NoPage
  BY DEF HeldPages
<1>3. users'[s] = users[s]
  BY <1>1, <1>2
<1>4. users[s].used /\ users[s].page = q
  BY <1>1, <1>3
<1> QED BY <1>2, <1>4 DEF HeldPages, Used

LEMMA AdministrationCInv == CInv /\ Administration => CInv'
<1> SUFFICES ASSUME CInv, Administration PROVE CInv'
  OBVIOUS
<1>1. /\ users \in UsersType /\ dialogue \in DialogueType /\ enrol \in EnrolType
      /\ added \in 0 .. MaxAdded /\ TypeOK
  BY DEF CInv, TypeOK, UsersType, DialogueType, EnrolType
<1>2. /\ Idle /\ Quiet /\ UNCHANGED <<rx, call, owed, sensor, faults>>
  BY DEF Administration
<1>3. NoEnrol \in EnrolType /\ NoEnrol.state = "IDLE"
  BY FingerAssumption DEF NoEnrol, EnrolType, FpState, Touch
<1>4. /\ NoDialogue \in DialogueType /\ NoDialogue.page = NoPage
      /\ [NoDialogue EXCEPT !.step = "PASSWORD"] \in DialogueType
      /\ [NoDialogue EXCEPT !.step = "PASSWORD"].page = NoPage
  BY DEF NoDialogue, DialogueType, Touch
<1>5. CASE SkipFinger \/ LeaveDialogue
  <2>1. enrol' = NoEnrol /\ UNCHANGED <<users, added, reused>>
    BY <1>5 DEF SkipFinger, LeaveDialogue
  <2>2. dialogue' \in DialogueType /\ dialogue'.page = NoPage
    BY <1>4, <1>5 DEF SkipFinger, LeaveDialogue
  <2>3. StepsOK' /\ FreshOK'
    BY <1>3, <2>1, <2>2 DEF StepsOK, FreshOK
  <2> QED BY <1>1, <1>2, <1>3, <2>1, <2>2, <2>3, IdleStepCInv
<1>6. CASE FinishUser
  <2>1. /\ AddUser(dialogue.page, dialogue.owner) /\ dialogue' = NoDialogue
        /\ UNCHANGED <<enrol, reused>> /\ dialogue.step = "PASSWORD"
    BY <1>6 DEF FinishUser
  <2>2. dialogue.page \in Pages \cup {NoPage} /\ dialogue.owner \in Touch
    BY <1>1 DEF DialogueType
  <2>3. users' \in UsersType /\ added' \in 0 .. MaxAdded
    BY <1>1, <2>1, <2>2, AddUserEffect
  <2>4. enrol.state = "IDLE"
    BY <2>1 DEF CInv, StepsOK
  <2>5. StepsOK' /\ FreshOK'
    BY <1>4, <2>1, <2>4 DEF StepsOK, FreshOK
  <2> QED BY <1>1, <1>2, <1>4, <2>1, <2>3, <2>5, IdleStepCInv
<1>7. CASE RemoteAdd \/ DeleteUser
  <2>1. UNCHANGED <<dialogue, enrol, reused>>
    BY <1>7 DEF RemoteAdd, DeleteUser
  <2>2. /\ users' \in UsersType /\ added' \in 0 .. MaxAdded
        /\ \A s \in Slots : users'[s] = users[s] \/ users'[s].page = NoPage
    <3>1. CASE RemoteAdd
      <4>1. NoPage \in Pages \cup {NoPage} /\ NoFinger \in Touch
        BY DEF Touch
      <4> QED BY <1>1, <3>1, <4>1, AddUserEffect DEF RemoteAdd
    <3>2. CASE DeleteUser
      <4> PICK s \in Used : users' = [users EXCEPT ![s] = Free]
        BY <3>2 DEF DeleteUser
      <4>1. Free \in [used: BOOLEAN, page: Pages \cup {NoPage}, owner: Touch] /\ Free.page = NoPage
        BY DEF Free, Touch
      <4>2. users' \in UsersType
        BY <1>1, <4>1 DEF UsersType
      <4>3. \A t \in Slots : users'[t] = users[t] \/ users'[t] = Free
        BY <1>1 DEF UsersType
      <4> QED BY <1>1, <3>2, <4>1, <4>2, <4>3 DEF DeleteUser
    <3> QED BY <1>7, <3>1, <3>2
  <2>3. HeldPages' \subseteq HeldPages \cup {NoPage}
    BY <1>1, <2>2, HeldByAdded
  <2>4. NoPage \notin HeldPages'
    BY DEF HeldPages
  <2>5. StepsOK' /\ FreshOK'
    BY <2>1, <2>3, <2>4 DEF CInv, StepsOK, FreshOK
  <2> QED BY <1>1, <1>2, <2>1, <2>2, <2>5, IdleStepCInv
<1> QED BY <1>5, <1>6, <1>7 DEF Administration

(* What the key makes of an answer: the next command, or a verdict.        *)
LEMMA PressGoesOnCInv ==
  ASSUME CInv, call # NoCommand, dialogue.step = "none", NEW code \in Codes, NEW page \in Pages,
         PressGoesOn(code, page), UNCHANGED <<sensor, added, reused>>,
         faults' \in FaultsType, faults'["late"] = 0 => owed = <<>>
  PROVE  CInv'
<1>1. TypeOK /\ As608TypeOK /\ sensor.image \in Touch
  BY DEF CInv, TypeOK, As608TypeOK, Sensors
<1>2. PICK c \in {PS_GenChar(1), PS_HighSpeedSearch, NoCommand} :
        /\ Sent(c)
        /\ verdict' \in Slots \cup {NoUser} /\ presser' \in Touch
  <2>1. Holder(page) \subseteq Slots \cup {NoUser}
    BY DEF Holder, Used
  <2>2. presser' \in Touch /\ verdict' \in Slots \cup {NoUser}
    BY <1>1, <2>1 DEF PressGoesOn, TypeOK, Touch
  <2> QED BY <2>2 DEF PressGoesOn
<1>3. c \in Commands \cup {NoCommand}
  BY DEF Commands
<1>4. TypeOK'
  BY <1>1, <1>2, <1>3, SentType DEF PressGoesOn, TypeOK, As608TypeOK, FaultsType
<1>5. LineOK'
  BY <1>2, <1>3, SentLine
<1>6. StepsOK' /\ CallOK' /\ FreshOK'
  BY <1>2 DEF CInv, PressGoesOn, Sent, StepsOK, CallOK, FreshOK, HeldPages, Used
<1> QED BY <1>4, <1>5, <1>6 DEF CInv

LEMMA EnrolGoesOnCInv ==
  ASSUME CInv, call # NoCommand, dialogue.step = "FINGERPRINT", NEW code \in Codes,
         EnrolGoesOn(code), UNCHANGED <<sensor, added, reused>>,
         faults' \in FaultsType, faults'["late"] = 0 => owed = <<>>
  PROVE  CInv'
<1>1. TypeOK /\ As608TypeOK /\ CallOK
  BY DEF CInv, TypeOK
<1>2. /\ enrol' = EnrolAfter(code) /\ enrol' \in EnrolType
      /\ enrol'.page = enrol.page /\ enrol'.state # "IDLE"
  BY <1>1, EnrolAfterEffect DEF EnrolGoesOn
<1>3. enrol.state # "IDLE"
  BY <1>1 DEF CallOK
<1>4. enrol.page \in Pages
  BY <1>3 DEF CInv, StepsOK
<1> DEFINE c == IF code = "ok" /\ call.op = "RegModel" THEN PS_StoreChar(enrol.page) ELSE NoCommand
<1>5. c \in Commands \cup {NoCommand} /\ Sent(c)
  BY <1>4 DEF Commands, EnrolGoesOn
<1>6. CallOK'
  <2>1. CASE code = "ok" /\ call.op = "RegModel"
    <3>1. enrol.state = "STORE"
      BY <1>1, <2>1 DEF CallOK, EnrolCommand, PS_GetImage, PS_GenChar, PS_Match, PS_StoreChar, Cmd
    <3>2. enrol'.state = "STORE"
      BY <1>1, <1>2, <2>1, <3>1, EnrolAfterEffect
    <3>3. call' = PS_StoreChar(enrol'.page)
      BY <1>2, <1>5, <2>1 DEF Sent
    <3> QED BY <3>2, <3>3 DEF CallOK, EnrolGoesOn
  <2>2. CASE ~(code = "ok" /\ call.op = "RegModel")
    BY <1>5, <2>2 DEF Sent, CallOK
  <2> QED BY <2>1, <2>2
<1> HIDE DEF c
<1>7. TypeOK'
  BY <1>1, <1>2, <1>5, SentType, QuietType DEF EnrolGoesOn, TypeOK, As608TypeOK, EnrolType, FaultsType
<1>8. LineOK'
  BY <1>5, SentLine
<1>9. StepsOK' /\ FreshOK'
  BY <1>2, <1>3 DEF CInv, EnrolGoesOn, StepsOK, FreshOK, HeldPages, Used
<1> QED BY <1>6, <1>7, <1>8, <1>9 DEF CInv

LEMMA AnswerHeardCInv == CInv /\ AnswerHeard => CInv'
<1> SUFFICES ASSUME CInv, AnswerHeard PROVE CInv'
  OBVIOUS
<1>1. rx.code \in Codes /\ rx.page \in Pages /\ faults \in FaultsType
  BY DEF CInv, TypeOK, As608TypeOK, FaultsType
<1>2. /\ call # NoCommand /\ faults' = faults
      /\ faults'["late"] = 0 => owed = <<>>
  BY DEF CInv, AnswerHeard, Heard, Undisturbed, LineOK
<1> QED BY <1>1, <1>2, PressGoesOnCInv, EnrolGoesOnCInv DEF AnswerHeard, GoesOn

LEMMA TimeOutCInv == CInv /\ TimeOut => CInv'
<1> SUFFICES ASSUME CInv, TimeOut PROVE CInv'
  OBVIOUS
<1>1. "error" \in Codes /\ rx.page \in Pages /\ faults' \in FaultsType
  BY DisturbanceCounted DEF CInv, TypeOK, As608TypeOK, Codes, TimeOut, Undisturbed, FaultsType, Disturbances
<1>2. /\ call # NoCommand
      /\ faults'["late"] = 0 => owed = <<>>
  BY DisturbanceCounted DEF TimeOut, HeardNothing, CInv, TypeOK, FaultsType, Disturbances
<1> QED BY <1>1, <1>2, PressGoesOnCInv, EnrolGoesOnCInv DEF TimeOut, GoesOn

LEMMA NoiseHeardCInv == CInv /\ NoiseHeard => CInv'
<1> SUFFICES ASSUME CInv, NoiseHeard PROVE CInv'
  OBVIOUS
<1>1. TypeOK /\ As608TypeOK /\ Silence \in RxType
  BY As608Assumption DEF CInv, TypeOK, Silence, RxType, Codes
<1>2. TypeOK'
  BY <1>1, QuietType DEF NoiseHeard, HeardNoise, TypeOK, As608TypeOK, RxType
<1>3. StepsOK' /\ CallOK' /\ LineOK' /\ FreshOK'
  BY DEF CInv, NoiseHeard, HeardNoise, StepsOK, CallOK, EnrolCommand, LineOK, FreshOK, HeldPages, Used
<1> QED BY <1>2, <1>3 DEF CInv

LEMMA NextCInv == CInv /\ [Next]_vars => CInv'
<1> SUFFICES ASSUME CInv, [Next]_vars PROVE CInv'
  OBVIOUS
<1>1. CASE Next
  BY <1>1, SensorAnswersCInv, PressCInv, StartCInv, EnrolUpdateCInv, EnrolDoneCInv, EnrolRetryCInv,
     AdministrationCInv, AnswerHeardCInv, NoiseHeardCInv, TimeOutCInv DEF Next
<1>2. CASE UNCHANGED vars
  BY <1>2 DEF vars, CInv, TypeOK, As608TypeOK, StepsOK, CallOK, EnrolCommand, LineOK, FreshOK,
              HeldPages, Used
<1> QED BY <1>1, <1>2

LEMMA CInvInvariant == Spec => []CInv
BY InitCInv, NextCInv, PTL DEF Spec

(* Every variable keeps its type, whatever answers are late, lost or cut:  *)
(* no template number leaves the sensor's range and no attempt its limit.  *)
THEOREM TypeCorrect == Spec => []TypeOK
BY CInvInvariant, PTL DEF CInv

-----------------------------------------------------------------------------
(* Templates.                                                              *)

(* The answer that comes while none is late is to the command the program  *)
(* waits for.                                                              *)
LEMMA AnswersTheCall ==
  ASSUME CInv, SensorAnswers, faults["late"] = 0
  PROVE  /\ call # NoCommand /\ call \in Commands /\ Head(owed) = call
         /\ owed' = <<>> /\ ~rx.done
<1>1. owed = <<call>> /\ call # NoCommand /\ ~rx.done
  BY DEF CInv, LineOK, SensorAnswers
<1>2. Head(owed) = call /\ Tail(owed) = <<>>
  BY <1>1
<1> QED BY <1>1, <1>2 DEF SensorAnswers, CInv, TypeOK, As608TypeOK

(* A template that a user refers to is written over only by an enrolment   *)
(* that began with its number, or for a late answer's command.             *)
LEMMA HeldTemplates ==
  ASSUME CInv, Next, ~reused, faults["late"] = 0, NEW q \in HeldPages
  PROVE  sensor'.lib[q] = sensor.lib[q]
<1>1. CASE SensorAnswers
  <2>0. sensor \in Sensors
    BY DEF CInv, TypeOK, As608TypeOK
  <2>1. call # NoCommand /\ call \in Commands /\ Head(owed) = call
    BY <1>1, AnswersTheCall
  <2>2. \E finger \in Touch : \E a \in Executed(call, finger) : Outcome(a)
    BY <1>1, <2>1 DEF SensorAnswers, Outcome
  <2> PICK finger \in Touch : \E a \in Executed(call, finger) : Outcome(a)
    BY <2>2
  <2> PICK a \in Executed(call, finger) : Outcome(a)
    OBVIOUS
  <2>3. sensor' \in {a.sensor, sensor}
    BY DEF Outcome
  <2>4. CASE call.op # "StoreChar"
    <3>1. a.sensor.lib = sensor.lib
      BY <2>0, <2>1, <2>4, ExecutedEffect
    <3> QED BY <2>3, <3>1
  <2>5. CASE call.op = "StoreChar"
    <3>1. call = PS_StoreChar(enrol.page) /\ enrol.state = "STORE"
      BY <2>1, <2>5 DEF CInv, CallOK, EnrolCommand, PS_GetImage, PS_GenChar, PS_Match,
                        PS_RegModel, PS_HighSpeedSearch, Cmd
    <3>2. call.page = enrol.page /\ enrol.page \notin HeldPages
      BY <3>1 DEF CInv, FreshOK, PS_StoreChar, Cmd
    <3>3. a.sensor.lib = [sensor.lib EXCEPT ![call.page] = sensor.buf[2]]
      BY <2>0, <2>1, <2>5, ExecutedEffect
    <3>4. q \in Pages /\ q # call.page
      BY <3>2 DEF HeldPages, Used, CInv, TypeOK
    <3>5. a.sensor.lib[q] = sensor.lib[q]
      BY <2>0, <3>3, <3>4 DEF Sensors
    <3> QED BY <2>3, <3>5
  <2> QED BY <2>4, <2>5
<1>2. CASE ~SensorAnswers
  <2>1. sensor' = sensor
    BY <1>2 DEF Next, Press_FR, start_fingerprint_enroll, fingerprint_enroll_update, EnrolDone,
                EnrolRetry, Administration, AnswerHeard, GoesOn, NoiseHeard, HeardNoise, TimeOut
  <2> QED BY <2>1
<1> QED BY <1>1, <1>2

LEMMA FaultsKeepTemplatesStep ==
  CInv /\ [Next]_vars =>
    [~reused /\ faults["late"] = 0 =>
       \A s \in Used : users'[s] = users[s] /\ users[s].page # NoPage =>
          sensor'.lib[users[s].page] = sensor.lib[users[s].page]]_vars
<1> SUFFICES ASSUME CInv, Next, ~reused, faults["late"] = 0,
                    NEW s \in Used, users[s].page # NoPage
             PROVE  sensor'.lib[users[s].page] = sensor.lib[users[s].page]
  OBVIOUS
<1>1. users[s].page \in HeldPages
  BY DEF HeldPages
<1> QED BY <1>1, HeldTemplates

(* While no number is given twice and no answer is late, no step whatever  *)
(* costs a user the template he refers to (user_admin.c:590).              *)
THEOREM FaultsKeepTemplatesCorrect == Spec => FaultsKeepTemplates
<1>1. CInv /\ [Next]_vars =>
        [~reused /\ faults["late"] = 0 =>
           \A s \in Used : users'[s] = users[s] /\ users[s].page # NoPage =>
              sensor'.lib[users[s].page] = sensor.lib[users[s].page]]_vars
  BY FaultsKeepTemplatesStep
<1> QED BY <1>1, CInvInvariant, PTL DEF Spec, FaultsKeepTemplates

-----------------------------------------------------------------------------
(* Whose finger is where.                                                  *)

(* Nothing puts the driver into step again.                                *)
LEMMA OutOfStepForGood ==
  ASSUME CInv, Next, InStep'
  PROVE  InStep
<1>1. ~reused' /\ faults'["late"] = 0 /\ faults'["cut"] = 0 /\ faults \in FaultsType
  BY DEF InStep, CInv, TypeOK, FaultsType
<1>2. reused => reused'
  BY DEF Next, SensorAnswers, Press_FR, start_fingerprint_enroll, fingerprint_enroll_update,
         EnrolDone, EnrolRetry, Administration, SkipFinger, FinishUser, LeaveDialogue, RemoteAdd,
         DeleteUser, AnswerHeard, GoesOn, NoiseHeard, TimeOut
<1>3. faults' = faults \/ \E kind \in Disturbances : Disturbance(kind)
  BY DEF Disturbances, Next, SensorAnswers, Press_FR, start_fingerprint_enroll, fingerprint_enroll_update,
         EnrolDone, EnrolRetry, Administration, AnswerHeard, NoiseHeard, TimeOut,
         Undisturbed
<1> QED BY <1>1, <1>2, <1>3, DisturbanceCounted DEF InStep, Disturbances

LEMMA InStepLate == InStep => ~reused /\ faults["late"] = 0
BY DEF InStep

(* A user who was there keeps his template, in a step that changes users   *)
(* or templates; a new one brings the template that is his.                *)
LEMMA BoundStep ==
  ASSUME CInv, BoundIsOwners, Next, users' \in UsersType, InStep',
         \A s \in Slots : \/ users'[s] = users[s]
                          \/ users'[s].page = NoPage
                          \/ sensor'.lib[users'[s].page] = users'[s].owner
  PROVE  BoundIsOwners'
<1>1. InStep
  BY OutOfStepForGood
<1> SUFFICES ASSUME NEW s \in Used', users'[s].page # NoPage
             PROVE  sensor'.lib[users'[s].page] = users'[s].owner
  BY DEF BoundIsOwners
<1>2. s \in Slots
  BY DEF Used
<1>3. CASE users'[s] = users[s]
  <2>1. s \in Used /\ users[s].page \in HeldPages
    BY <1>2, <1>3 DEF Used, HeldPages
  <2>2. sensor'.lib[users[s].page] = sensor.lib[users[s].page]
    BY <1>1, <2>1, InStepLate, HeldTemplates
  <2> QED BY <1>1, <1>3, <2>1, <2>2 DEF BoundIsOwners
<1> QED BY <1>2, <1>3

LEMMA InitDInv == Init => DInv
<1> SUFFICES ASSUME Init PROVE DInv
  OBVIOUS
<1> PICK own \in [AtFirst -> Fingers] :
      /\ As608Init([p \in Pages |-> IF p \in AtFirst THEN own[p] ELSE NoFinger])
      /\ users = [s \in Slots |-> IF s \in AtFirst THEN [used |-> TRUE, page |-> s, owner |-> own[s]]
                                ELSE Free]
  BY DEF Init
<1>1. \A s \in Used : sensor.lib[users[s].page] = users[s].owner
  <2>1. \A s \in Used : s \in AtFirst /\ s \in Pages
    BY FingerAssumption DEF Used, Slots, Free
  <2> QED BY <2>1 DEF As608Init, Used
<1> QED BY <1>1 DEF Init, As608Init, DInv, BoundIsOwners, OnlyTheOwner, EnrolData, PressData,
                    DialogueData, NoEnrol, NoDialogue, NoCommand, Cmd, Used

(* In a step of which nobody comes out let in, three facts are left.       *)
LEMMA DInvStep ==
  ASSUME CInv, DInv, Next, verdict' = NoUser, users' \in UsersType,
         InStep /\ InStep' =>
           /\ \A s \in Slots : \/ users'[s] = users[s]
                               \/ users'[s].page = NoPage
                               \/ sensor'.lib[users'[s].page] = users'[s].owner
           /\ EnrolData' /\ PressData' /\ DialogueData'
  PROVE  DInv'
<1>1. CASE InStep'
  <2>1. InStep
    BY <1>1, OutOfStepForGood
  <2>2. BoundIsOwners'
    BY <1>1, <2>1, BoundStep DEF DInv
  <2> QED BY <1>1, <2>1, <2>2 DEF DInv, OnlyTheOwner
<1>2. CASE ~InStep'
  BY <1>2 DEF DInv, BoundIsOwners, OnlyTheOwner
<1> QED BY <1>1, <1>2

(* The states of the enrolment in which the program waits.                 *)
LEMMA WaitingFor ==
  ASSUME CInv, call # NoCommand
  PROVE  /\ dialogue.step \in {"none", "FINGERPRINT"}
         /\ dialogue.step = "none" =>
              call \in {PS_GetImage, PS_GenChar(1), PS_HighSpeedSearch} /\ enrol.state = "IDLE"
         /\ dialogue.step = "FINGERPRINT" =>
              /\ enrol.state \in {"WAIT_FINGER_1", "REMOVE", "WAIT_FINGER_2"} => call = PS_GetImage
              /\ enrol.state = "CAPTURE_1" => call = PS_GenChar(1)
              /\ enrol.state = "CAPTURE_2" => call = PS_GenChar(2)
              /\ enrol.state = "MATCH" => call = PS_Match
              /\ enrol.state = "STORE" => call \in {PS_RegModel, PS_StoreChar(enrol.page)}
              /\ enrol.state \notin {"IDLE", "DONE", "ERROR"}
BY DEF CInv, CallOK, StepsOK, EnrolCommand

LEMMA CommandOps ==
  /\ PS_GetImage.op = "GetImage" /\ PS_Match.op = "Match" /\ PS_RegModel.op = "RegModel"
  /\ PS_HighSpeedSearch.op = "Search" /\ NoCommand.op = "none"
  /\ \A b : PS_GenChar(b).op = "GenChar" /\ PS_GenChar(b).buf = b
  /\ \A page : PS_StoreChar(page).op = "StoreChar" /\ PS_StoreChar(page).page = page
BY DEF PS_GetImage, PS_Match, PS_RegModel, PS_HighSpeedSearch, NoCommand, PS_GenChar,
       PS_StoreChar, Cmd

LEMMA SensorAnswersDInv == CInv /\ DInv /\ Next /\ SensorAnswers => DInv'
<1> SUFFICES ASSUME CInv, DInv, Next, SensorAnswers PROVE DInv'
  OBVIOUS
<1>1. /\ verdict' = NoUser /\ users' = users /\ users \in UsersType /\ sensor \in Sensors
      /\ dialogue' = dialogue /\ enrol' = enrol /\ call' = call
  BY DEF SensorAnswers, Quiet, CInv, TypeOK, As608TypeOK, UsersType
<1>2. ASSUME InStep, InStep'
      PROVE  EnrolData' /\ PressData' /\ DialogueData'
  <2>1. /\ call # NoCommand /\ call \in Commands /\ Head(owed) = call
        /\ owed' = <<>> /\ ~rx.done /\ Waiting
    BY <1>2, AnswersTheCall, InStepLate DEF SensorAnswers, Waiting
  <2>2. presser' = presser
    BY <2>1 DEF SensorAnswers, Quiet, Idle
  <2>3. \E finger \in Touch : \E a \in Executed(call, finger) : Outcome(a)
    BY <2>1 DEF SensorAnswers, Outcome
  <2> PICK finger \in Touch : \E a \in Executed(call, finger) : Outcome(a)
    BY <2>3
  <2> PICK a \in Executed(call, finger) : Outcome(a)
    OBVIOUS
  <2>4. ~Waiting'
    BY <2>1 DEF Waiting
  <2>5. /\ sensor' \in {a.sensor, sensor}
        /\ Succeeded' => sensor' = a.sensor /\ a.code = "ok" /\ rx'.page = a.page
    <3>1. ~Disturbance("cut")
      BY <1>2, DisturbanceCounted DEF Disturbances, InStep, CInv, TypeOK, FaultsType
    <3>2. CASE sensor' = a.sensor /\ Arrived(a.code, a.page)
      BY <2>1, <3>2 DEF Arrived, Succeeded
    <3>3. CASE sensor' \in {a.sensor, sensor} /\ rx' = rx
      BY <2>1, <3>3 DEF Succeeded
    <3> QED BY <3>1, <3>2, <3>3 DEF Outcome
  <2>6. /\ call.op \in {"GetImage", "Match", "RegModel"} => a.sensor.buf = sensor.buf
        /\ call.op = "GenChar" =>
              /\ \A b \in 1 .. 2 : b # call.buf => a.sensor.buf[b] = sensor.buf[b]
              /\ a.code = "ok" => a.sensor.buf[call.buf] = sensor.image
        /\ call.op = "Match" /\ a.code = "ok" => sensor.buf[1] = sensor.buf[2]
        /\ call.op = "StoreChar" =>
              a.sensor.lib = [sensor.lib EXCEPT ![call.page] = sensor.buf[2]]
        /\ call.op = "Search" /\ a.code = "ok" =>
              sensor.lib[a.page] = sensor.buf[1] /\ a.sensor.lib = sensor.lib
    BY <1>1, <2>1, ExecutedEffect
  <2>7. EnrolData /\ PressData
    BY <1>2 DEF DInv
  <2>8. CASE dialogue.step = "none"
    <3>1. /\ call \in {PS_GetImage, PS_GenChar(1), PS_HighSpeedSearch} /\ enrol.state = "IDLE"
          /\ dialogue.page = NoPage
      BY <2>1, <2>8, WaitingFor DEF CInv, StepsOK
    <3>2. EnrolData' /\ DialogueData'
      BY <1>1, <3>1 DEF EnrolData, DialogueData
    <3>3. CASE call = PS_GenChar(1)
      <4>1. Succeeded' => sensor'.buf[1] = presser
        BY <2>1, <2>5, <2>6, <2>7, <2>8, <3>3, CommandOps DEF PressData
      <4> QED BY <1>1, <2>2, <2>4, <3>2, <3>3, <4>1, CommandOps DEF PressData
    <3>4. CASE call = PS_HighSpeedSearch
      <4>1. Succeeded' => sensor'.lib[rx'.page] = presser
        BY <2>1, <2>5, <2>6, <2>7, <2>8, <3>4, CommandOps DEF PressData
      <4> QED BY <1>1, <2>2, <2>4, <3>2, <3>4, <4>1, CommandOps DEF PressData
    <3>5. CASE call = PS_GetImage
      BY <1>1, <3>2, <3>5, CommandOps DEF PressData
    <3> QED BY <3>1, <3>3, <3>4, <3>5
  <2>9. CASE dialogue.step = "FINGERPRINT"
    <3>1. PressData' /\ DialogueData'
      BY <1>1, <2>9 DEF PressData, DialogueData, CInv, StepsOK
    <3>2. /\ enrol.state \in {"WAIT_FINGER_1", "REMOVE", "WAIT_FINGER_2"} => call = PS_GetImage
          /\ enrol.state = "CAPTURE_1" => call = PS_GenChar(1)
          /\ enrol.state = "CAPTURE_2" => call = PS_GenChar(2)
          /\ enrol.state = "MATCH" => call = PS_Match
          /\ enrol.state = "STORE" => call \in {PS_RegModel, PS_StoreChar(enrol.page)}
          /\ enrol.state \notin {"IDLE", "DONE", "ERROR"}
      BY <2>1, <2>9, WaitingFor
    <3>3. enrol.state = "CAPTURE_1" => (Succeeded' => sensor'.buf[1] = enrol.owner)
      BY <2>1, <2>5, <2>6, <2>7, <3>2, CommandOps DEF EnrolData
    <3>4. enrol.state \in {"REMOVE", "WAIT_FINGER_2", "CAPTURE_2", "MATCH"} =>
            sensor'.buf[1] = enrol.owner
      <4>1. ASSUME enrol.state \in {"REMOVE", "WAIT_FINGER_2", "CAPTURE_2", "MATCH"}
            PROVE  a.sensor.buf[1] = sensor.buf[1]
        <5>1. CASE enrol.state = "CAPTURE_2"
          <6>1. call.op = "GenChar" /\ call.buf = 2
            BY <3>2, <5>1, CommandOps
          <6> QED BY <2>6, <6>1
        <5>2. CASE enrol.state # "CAPTURE_2"
          BY <2>6, <3>2, <4>1, <5>2, CommandOps
        <5> QED BY <5>1, <5>2
      <4> QED BY <2>5, <2>7, <4>1 DEF EnrolData
    <3>5. enrol.state = "MATCH" /\ Succeeded' => sensor'.buf[2] = enrol.owner
      BY <2>5, <2>6, <2>7, <3>2, CommandOps DEF EnrolData
    <3>6. enrol.state = "STORE" /\ call.op # "StoreChar" => sensor'.buf[2] = enrol.owner
      BY <2>5, <2>6, <2>7, <3>2, CommandOps DEF EnrolData
    <3>7. enrol.state = "STORE" /\ call.op = "StoreChar" /\ Succeeded' =>
            sensor'.lib[enrol.page] = enrol.owner
      <4> SUFFICES ASSUME enrol.state = "STORE", call.op = "StoreChar", Succeeded'
                   PROVE  sensor'.lib[enrol.page] = enrol.owner
        OBVIOUS
      <4>1. call.page = enrol.page /\ enrol.page \in Pages
        BY <3>2, CommandOps DEF CInv, StepsOK
      <4>2. sensor'.lib = [sensor.lib EXCEPT ![enrol.page] = sensor.buf[2]]
        BY <2>5, <2>6, <4>1
      <4>3. sensor.buf[2] = enrol.owner
        BY <2>1, <2>7 DEF EnrolData
      <4> QED BY <1>1, <4>1, <4>2, <4>3 DEF Sensors
    <3>8. EnrolData'
      BY <1>1, <2>1, <2>4, <3>2, <3>3, <3>4, <3>5, <3>6, <3>7 DEF EnrolData
    <3> QED BY <3>1, <3>8
  <2> QED BY <2>1, <2>8, <2>9, WaitingFor
<1> QED BY <1>1, <1>2, DInvStep

(* The steps of an idle program.                                           *)
LEMMA SendingDInv ==
  CInv /\ DInv /\ Next /\ (Press_FR \/ fingerprint_enroll_update) => DInv'
<1> SUFFICES ASSUME CInv, DInv, Next, Press_FR \/ fingerprint_enroll_update PROVE DInv'
  OBVIOUS
<1>1. /\ verdict' = NoUser /\ users' = users /\ users \in UsersType /\ sensor' = sensor
      /\ dialogue' = dialogue /\ enrol' = enrol /\ call = NoCommand
  BY DEF Press_FR, fingerprint_enroll_update, Quiet, Idle, CInv, TypeOK, UsersType
<1>2. ~Succeeded'
  BY DEF Press_FR, fingerprint_enroll_update, Sent, Silence, Succeeded
<1>3. ASSUME InStep PROVE EnrolData' /\ PressData' /\ DialogueData'
  <2>1. EnrolData /\ DialogueData
    BY <1>3 DEF DInv
  <2>2. DialogueData'
    BY <1>1, <2>1 DEF DialogueData
  <2>3. CASE Press_FR
    <3>1. call' = PS_GetImage /\ dialogue.step = "none"
      BY <2>3 DEF Press_FR, Sent
    <3>2. enrol.state = "IDLE"
      BY <3>1 DEF CInv, StepsOK
    <3> QED BY <1>1, <2>2, <3>1, <3>2, CommandOps DEF EnrolData, PressData
  <2>4. CASE fingerprint_enroll_update
    <3>1. dialogue.step = "FINGERPRINT"
      BY <2>4 DEF fingerprint_enroll_update
    <3>2. PressData'
      BY <1>1, <3>1 DEF PressData
    <3>3. call' = EnrolCommand /\ (enrol.state = "STORE" => EnrolCommand = PS_RegModel)
          /\ enrol.state # "DONE"
      BY <2>4, AskingStates DEF fingerprint_enroll_update, Sent, EnrolCommand
    <3>4. EnrolData'
      BY <1>1, <1>2, <2>1, <3>3, CommandOps DEF EnrolData
    <3> QED BY <2>2, <3>2, <3>4
  <2> QED BY <2>3, <2>4
<1> QED BY <1>1, <1>3, DInvStep

LEMMA StartDInv == CInv /\ DInv /\ Next /\ start_fingerprint_enroll => DInv'
<1> SUFFICES ASSUME CInv, DInv, Next, start_fingerprint_enroll PROVE DInv'
  OBVIOUS
<1>1. /\ verdict' = NoUser /\ users' = users /\ users \in UsersType
      /\ enrol'.state = "WAIT_FINGER_1"
      /\ dialogue' = [step |-> "FINGERPRINT", page |-> NoPage, owner |-> NoFinger]
  BY DEF start_fingerprint_enroll, Quiet, NoDialogue, CInv, TypeOK, UsersType
<1>2. EnrolData' /\ PressData' /\ DialogueData'
  BY <1>1 DEF EnrolData, PressData, DialogueData
<1> QED BY <1>1, <1>2, DInvStep

LEMMA EnrolEndsDInv == CInv /\ DInv /\ Next /\ (EnrolDone \/ EnrolRetry) => DInv'
<1> SUFFICES ASSUME CInv, DInv, Next, EnrolDone \/ EnrolRetry PROVE DInv'
  OBVIOUS
<1>1. /\ verdict' = NoUser /\ users' = users /\ users \in UsersType /\ sensor' = sensor
      /\ enrol \in EnrolType
  BY DEF EnrolDone, EnrolRetry, Quiet, CInv, TypeOK, UsersType, EnrolType
<1>2. enrol'.state \in {"IDLE", "WAIT_FINGER_1"}
  <2>1. CASE EnrolDone
    BY <2>1 DEF EnrolDone, NoEnrol
  <2>2. CASE EnrolRetry
    BY <1>1, <2>2 DEF EnrolRetry, EnrolType
  <2> QED BY <2>1, <2>2
<1>3. dialogue'.step # "none" /\ dialogue.page = NoPage
  BY DEF EnrolDone, EnrolRetry, CInv, StepsOK
<1>4. ASSUME InStep PROVE EnrolData' /\ PressData' /\ DialogueData'
  <2>1. EnrolData' /\ PressData'
    BY <1>2, <1>3 DEF EnrolData, PressData
  <2>2. dialogue' = dialogue \/
          (/\ dialogue' = [step |-> "PASSWORD", page |-> enrol.page, owner |-> enrol.owner]
           /\ enrol.state = "DONE")
    BY DEF EnrolDone, EnrolRetry
  <2>3. enrol.state = "DONE" => sensor.lib[enrol.page] = enrol.owner
    BY <1>4 DEF DInv, EnrolData
  <2>4. DialogueData'
    BY <1>1, <1>3, <2>2, <2>3 DEF DialogueData
  <2> QED BY <2>1, <2>4
<1> QED BY <1>1, <1>4, DInvStep

LEMMA AdministrationDInv == CInv /\ DInv /\ Next /\ Administration => DInv'
<1> SUFFICES ASSUME CInv, DInv, Next, Administration PROVE DInv'
  OBVIOUS
<1>1. /\ verdict' = NoUser /\ users \in UsersType /\ dialogue \in DialogueType
      /\ sensor' = sensor /\ call' = call /\ call = NoCommand /\ owed' = owed /\ rx' = rx
      /\ TypeOK /\ users' \in UsersType
  <2>1. CInv'
    BY AdministrationCInv
  <2> QED BY <2>1 DEF Administration, Quiet, Idle, CInv, TypeOK, UsersType, DialogueType
<1>2. NoEnrol.state = "IDLE" /\ NoDialogue.page = NoPage
      /\ [NoDialogue EXCEPT !.step = "PASSWORD"].page = NoPage
  BY DEF NoEnrol, NoDialogue
<1>3. PressData'
  BY <1>1, CommandOps DEF PressData
<1>4. enrol' \in {enrol, NoEnrol} /\ (dialogue' = dialogue \/ dialogue'.page = NoPage)
  BY <1>2 DEF Administration, SkipFinger, FinishUser, LeaveDialogue, RemoteAdd, DeleteUser
<1>5. ASSUME InStep PROVE EnrolData' /\ DialogueData'
  <2>1. EnrolData /\ DialogueData
    BY <1>5 DEF DInv
  <2>2. DialogueData'
    BY <1>1, <1>4, <2>1 DEF DialogueData
  <2>3. EnrolData'
    BY <1>1, <1>2, <1>4, <2>1 DEF EnrolData, Waiting, Succeeded
  <2> QED BY <2>2, <2>3
<1>6. ASSUME InStep, NEW s \in Slots
      PROVE  \/ users'[s] = users[s]
             \/ users'[s].page = NoPage
             \/ sensor'.lib[users'[s].page] = users'[s].owner
  <2>1. CASE FinishUser
    <3>1. AddUser(dialogue.page, dialogue.owner)
      BY <2>1 DEF FinishUser
    <3>2. dialogue.page \in Pages \cup {NoPage} /\ dialogue.owner \in Touch
      BY <1>1 DEF DialogueType
    <3>3. users'[s] = users[s] \/ (users'[s].page = dialogue.page /\ users'[s].owner = dialogue.owner)
      BY <1>1, <3>1, <3>2, AddUserEffect
    <3>4. DialogueData
      BY <1>6 DEF DInv
    <3> QED BY <1>1, <3>3, <3>4 DEF DialogueData
  <2>2. CASE RemoteAdd
    <3>1. NoPage \in Pages \cup {NoPage} /\ NoFinger \in Touch
      BY DEF Touch
    <3>2. users'[s] = users[s] \/ users'[s].page = NoPage
      BY <1>1, <2>2, <3>1, AddUserEffect DEF RemoteAdd
    <3> QED BY <3>2
  <2>3. CASE DeleteUser
    <3>1. users'[s] = users[s] \/ users'[s] = Free
      BY <1>1, <2>3 DEF DeleteUser, UsersType
    <3> QED BY <3>1 DEF Free
  <2>4. CASE SkipFinger \/ LeaveDialogue
    BY <2>4 DEF SkipFinger, LeaveDialogue
  <2> QED BY <2>1, <2>2, <2>3, <2>4 DEF Administration
<1> QED BY <1>1, <1>3, <1>5, <1>6, DInvStep

LEMMA NoiseHeardDInv == CInv /\ DInv /\ Next /\ NoiseHeard => DInv'
<1> SUFFICES ASSUME CInv, DInv, Next, NoiseHeard PROVE DInv'
  OBVIOUS
<1>1. /\ verdict' = NoUser /\ users' = users /\ users \in UsersType /\ presser' = presser
      /\ UNCHANGED <<dialogue, enrol, call, owed, sensor>>
  BY DEF NoiseHeard, HeardNoise, Quiet, Idle, CInv, TypeOK, UsersType
<1>2. ~Succeeded' /\ Waiting' = Waiting
  BY <1>1 DEF NoiseHeard, HeardNoise, Silence, Succeeded, Waiting
<1>3. ASSUME InStep PROVE EnrolData' /\ PressData' /\ DialogueData'
  <2>1. EnrolData /\ PressData /\ DialogueData
    BY <1>3 DEF DInv
  <2>2. DialogueData'
    BY <1>1, <2>1 DEF DialogueData
  <2>3. EnrolData'
    BY <1>1, <1>2, <2>1 DEF EnrolData
  <2>4. PressData'
    BY <1>1, <1>2, <2>1 DEF PressData
  <2> QED BY <2>2, <2>3, <2>4
<1> QED BY <1>1, <1>3, DInvStep

(* An answer or its absence reaches the enrolment.                         *)
LEMMA EnrolGoesOnDInv ==
  ASSUME CInv, DInv, Next, call # NoCommand, dialogue.step = "FINGERPRINT", NEW code \in Codes,
         code = "ok" => Succeeded, EnrolGoesOn(code), UNCHANGED sensor
  PROVE  DInv'
<1>1. /\ verdict' = NoUser /\ users' = users /\ users \in UsersType /\ dialogue' = dialogue
      /\ TypeOK /\ CallOK
  BY DEF EnrolGoesOn, Quiet, CInv, TypeOK, UsersType
<1>2. PressData' /\ DialogueData'
  BY <1>1 DEF PressData, DialogueData, CInv, StepsOK
<1>3. /\ enrol' = EnrolAfter(code)
      /\ Sent(IF code = "ok" /\ call.op = "RegModel" THEN PS_StoreChar(enrol.page) ELSE NoCommand)
  BY DEF EnrolGoesOn
<1>4. ~Succeeded'
  BY DEF EnrolGoesOn, Sent, Silence, Succeeded
<1>5. enrol'.page = enrol.page
  BY <1>1, <1>3, EnrolAfterEffect
<1>6. /\ enrol.state \in {"WAIT_FINGER_1", "REMOVE", "WAIT_FINGER_2"} => call = PS_GetImage
      /\ enrol.state = "CAPTURE_1" => call = PS_GenChar(1)
      /\ enrol.state = "CAPTURE_2" => call = PS_GenChar(2)
      /\ enrol.state = "MATCH" => call = PS_Match
      /\ enrol.state = "STORE" => call \in {PS_RegModel, PS_StoreChar(enrol.page)}
      /\ enrol.state \notin {"IDLE", "DONE", "ERROR"}
  BY WaitingFor
<1>7. enrol.state \in {"WAIT_FINGER_1", "CAPTURE_1", "REMOVE", "WAIT_FINGER_2", "CAPTURE_2",
                       "MATCH", "STORE"}
  BY <1>6 DEF CInv, TypeOK, FpState
<1>8. ASSUME InStep, code = "ok" PROVE EnrolData'
  <2>1. EnrolData /\ Succeeded
    BY <1>8 DEF DInv
  <2>2. CASE enrol.state = "WAIT_FINGER_1"
    <3>1. enrol'.state = "CAPTURE_1" /\ enrol'.owner = sensor.image
      BY <1>1, <1>3, <1>8, <2>2, EnrolAfterEffect
    <3>2. call' = NoCommand
      BY <1>3, <1>6, <2>2, CommandOps DEF Sent
    <3> QED BY <1>4, <3>1, <3>2 DEF EnrolData
  <2>3. CASE enrol.state = "CAPTURE_1"
    <3>1. enrol'.state = "REMOVE" /\ enrol'.owner = enrol.owner
      BY <1>1, <1>3, <1>8, <2>3, EnrolAfterEffect
    <3> QED BY <2>1, <2>3, <3>1 DEF EnrolData
  <2>4. CASE enrol.state \in {"REMOVE", "WAIT_FINGER_2", "CAPTURE_2"}
    <3>1. enrol'.state \in {"REMOVE", "CAPTURE_2", "MATCH"} /\ enrol'.owner = enrol.owner
      BY <1>1, <1>3, <1>8, <2>4, EnrolAfterEffect
    <3> QED BY <1>4, <2>1, <2>4, <3>1 DEF EnrolData
  <2>5. CASE enrol.state = "MATCH"
    <3>1. enrol'.state = "STORE" /\ enrol'.owner = enrol.owner
      BY <1>1, <1>3, <1>8, <2>5, EnrolAfterEffect
    <3> QED BY <1>4, <2>1, <2>5, <3>1 DEF EnrolData
  <2>6. CASE enrol.state = "STORE" /\ call = PS_RegModel
    <3>1. enrol'.state = "STORE" /\ enrol'.owner = enrol.owner
      BY <1>1, <1>3, <1>8, <2>6, CommandOps, EnrolAfterEffect
    <3> QED BY <1>4, <2>1, <2>6, <3>1, CommandOps DEF EnrolData
  <2>7. CASE enrol.state = "STORE" /\ call = PS_StoreChar(enrol.page)
    <3>1. enrol'.state = "DONE" /\ enrol'.owner = enrol.owner
      BY <1>1, <1>3, <1>8, <2>7, CommandOps, EnrolAfterEffect
    <3> QED BY <1>5, <2>1, <2>7, <3>1, CommandOps DEF EnrolData
  <2> QED BY <1>6, <1>7, <2>2, <2>3, <2>4, <2>5, <2>6, <2>7
<1>9. ASSUME InStep, code # "ok" PROVE EnrolData'
  <2>1. /\ enrol'.state \in {"WAIT_FINGER_1", "WAIT_FINGER_2", "ERROR"}
        /\ enrol'.state = "WAIT_FINGER_2" =>
             enrol.state \in {"REMOVE", "WAIT_FINGER_2"} /\ enrol'.owner = enrol.owner
    BY <1>1, <1>3, <1>9, EnrolAfterEffect
  <2>2. EnrolData
    BY <1>9 DEF DInv
  <2> QED BY <2>1, <2>2 DEF EnrolData
<1> QED BY <1>1, <1>2, <1>8, <1>9, DInvStep

(* Or the key.                                                             *)
LEMMA PressGoesOnDInv ==
  ASSUME CInv, DInv, Next, call # NoCommand, dialogue.step = "none", NEW code \in Codes,
         NEW page \in Pages, code = "ok" => Succeeded /\ page = rx.page,
         PressGoesOn(code, page), UNCHANGED sensor
  PROVE  DInv'
<1>1. /\ users' = users /\ users \in UsersType /\ UNCHANGED <<dialogue, enrol>>
      /\ enrol.state = "IDLE" /\ dialogue.page = NoPage
  BY WaitingFor DEF PressGoesOn, CInv, TypeOK, UsersType, StepsOK
<1>2. EnrolData' /\ DialogueData'
  BY <1>1 DEF EnrolData, DialogueData
<1>3. ~Succeeded'
  BY DEF PressGoesOn, Sent, Silence, Succeeded
<1>4. CASE code = "ok" /\ call.op = "GetImage"
  <2>1. Sent(PS_GenChar(1)) /\ verdict' = NoUser /\ presser' = sensor.image
    BY <1>4 DEF PressGoesOn
  <2>2. PressData'
    BY <1>3, <2>1, CommandOps DEF Sent, PressData
  <2> QED BY <1>1, <1>2, <2>1, <2>2, DInvStep
<1>5. CASE code = "ok" /\ call.op = "GenChar"
  <2>1. Sent(PS_HighSpeedSearch) /\ verdict' = NoUser /\ presser' = presser
    BY <1>5 DEF PressGoesOn
  <2>2. InStep => sensor.buf[1] = presser
    BY <1>5 DEF DInv, PressData
  <2>3. InStep => PressData'
    BY <1>3, <2>1, <2>2, CommandOps DEF Sent, PressData
  <2> QED BY <1>1, <1>2, <2>1, <2>3, DInvStep
<1>6. CASE code = "ok" /\ call.op = "Search"
  <2>1. Sent(NoCommand) /\ verdict' \in Holder(page) /\ presser' = presser
    BY <1>6 DEF PressGoesOn
  <2>2. PressData'
    BY <2>1, CommandOps DEF Sent, PressData
  <2>3. ASSUME InStep' PROVE BoundIsOwners' /\ OnlyTheOwner'
    <3>1. InStep
      BY <2>3, OutOfStepForGood
    <3>2. BoundIsOwners'
      BY <1>1, <2>3, BoundStep DEF DInv
    <3>3. sensor.lib[page] = presser
      BY <1>6, <3>1 DEF DInv, PressData
    <3>4. ASSUME verdict' # NoUser PROVE users[verdict'].owner = presser
      <4>1. verdict' \in Used /\ users[verdict'].page = page
        BY <2>1, <3>4 DEF Holder
      <4>2. page # NoPage
        BY FingerAssumption DEF NoPage
      <4> QED BY <3>1, <3>3, <4>1, <4>2 DEF DInv, BoundIsOwners
    <3> QED BY <1>1, <2>1, <3>2, <3>4 DEF OnlyTheOwner
  <2>4. CASE InStep'
    BY <1>2, <2>2, <2>3, <2>4 DEF DInv
  <2>5. CASE ~InStep'
    BY <2>5 DEF DInv, BoundIsOwners, OnlyTheOwner
  <2> QED BY <2>4, <2>5
<1>7. CASE code # "ok"
  <2>1. Sent(NoCommand) /\ verdict' = NoUser
    BY <1>7 DEF PressGoesOn
  <2>2. PressData'
    BY <2>1, CommandOps DEF Sent, PressData
  <2> QED BY <1>1, <1>2, <2>1, <2>2, DInvStep
<1> QED BY <1>4, <1>5, <1>6, <1>7 DEF PressGoesOn

LEMMA AnswerHeardDInv == CInv /\ DInv /\ Next /\ AnswerHeard => DInv'
<1> SUFFICES ASSUME CInv, DInv, Next, AnswerHeard PROVE DInv'
  OBVIOUS
<1>1. /\ rx.code \in Codes /\ rx.page \in Pages
      /\ call # NoCommand /\ (rx.code = "ok" => Succeeded) /\ sensor' = sensor
  BY DEF CInv, TypeOK, As608TypeOK, AnswerHeard, Heard, GoesOn, Succeeded
<1> QED BY <1>1, PressGoesOnDInv, EnrolGoesOnDInv DEF AnswerHeard, GoesOn

LEMMA TimeOutDInv == CInv /\ DInv /\ Next /\ TimeOut => DInv'
<1> SUFFICES ASSUME CInv, DInv, Next, TimeOut PROVE DInv'
  OBVIOUS
<1>1. "error" \in Codes /\ rx.page \in Pages /\ call # NoCommand /\ sensor' = sensor
  BY DEF CInv, TypeOK, As608TypeOK, Codes, TimeOut, HeardNothing, GoesOn
<1> QED BY <1>1, PressGoesOnDInv, EnrolGoesOnDInv DEF TimeOut, GoesOn

LEMMA NextDInv == CInv /\ DInv /\ [Next]_vars => DInv'
<1> SUFFICES ASSUME CInv, DInv, [Next]_vars PROVE DInv'
  OBVIOUS
<1>1. CASE Next
  BY <1>1, SensorAnswersDInv, SendingDInv, StartDInv, EnrolEndsDInv, AdministrationDInv,
     AnswerHeardDInv, NoiseHeardDInv, TimeOutDInv DEF Next
<1>2. CASE UNCHANGED vars
  BY <1>2 DEF vars, DInv, InStep, BoundIsOwners, Used, OnlyTheOwner, EnrolData, PressData,
              DialogueData, Waiting, Succeeded
<1> QED BY <1>1, <1>2

LEMMA DInvInvariant == Spec => []DInv
BY InitDInv, NextDInv, CInvInvariant, PTL DEF Spec

(* Until a number is given twice or an answer is late or cut, the template *)
(* a user refers to is of his finger, whatever enrolments are repeated,    *)
(* broken off or lose an answer (user_admin.c:786).                        *)
THEOREM BoundIsOwnersCorrect == Spec => []BoundIsOwners
BY DInvInvariant, PTL DEF DInv

(* And until then, whom the fingerprint key lets in, his finger was on the *)
(* sensor (key_app.c:319).                                                 *)
THEOREM OnlyTheOwnerCorrect == Spec => []OnlyTheOwner
BY DInvInvariant, PTL DEF DInv

-----------------------------------------------------------------------------
(* One user per template number, with no condition on the disturbances.    *)

(* Nobody has the number that the rest of the dialogue will give.          *)
GivenOK == dialogue.step = "PASSWORD" => dialogue.page \notin HeldPages

TInv == OneUserPerTemplate /\ GivenOK

(* A user with a number nobody has, or without one, comes.                 *)
LEMMA AddUserTemplates ==
  ASSUME TypeOK, OneUserPerTemplate, NEW page, NEW owner, page \notin HeldPages,
         AddUser(page, owner)
  PROVE  OneUserPerTemplate'
<1>1. CASE Used = Slots /\ UNCHANGED <<users, added>>
  BY <1>1 DEF OneUserPerTemplate, Used
<1>2. ASSUME NEW n \in Slots \ Used,
             users' = [users EXCEPT ![n] = [used |-> TRUE, page |-> page, owner |-> owner]]
      PROVE  OneUserPerTemplate'
  <2>1. /\ \A s \in Slots \ {n} : users'[s] = users[s]
        /\ users'[n].page = page
    BY <1>2 DEF TypeOK
  <2>2. \A s \in Used : users[s].page # NoPage => users[s].page # page
    BY DEF HeldPages
  <2> QED BY <2>1, <2>2 DEF OneUserPerTemplate, Used
<1> QED BY <1>1, <1>2 DEF AddUser

LEMMA TInvStep == TypeOK /\ TInv /\ [Next]_vars => TInv'
<1> SUFFICES ASSUME TypeOK, TInv, [Next]_vars PROVE TInv'
  OBVIOUS
<1>1. ASSUME UNCHANGED users, dialogue'.step = "PASSWORD" => dialogue' = dialogue
      PROVE  TInv'
  BY <1>1 DEF TInv, OneUserPerTemplate, GivenOK, HeldPages, Used
<1>2. CASE UNCHANGED vars
  BY <1>1, <1>2 DEF vars
<1>3. CASE SensorAnswers \/ Press_FR \/ fingerprint_enroll_update \/ EnrolRetry \/ NoiseHeard
  BY <1>1, <1>3 DEF SensorAnswers, Press_FR, fingerprint_enroll_update, EnrolRetry, NoiseHeard
<1>4. CASE start_fingerprint_enroll
  BY <1>1, <1>4 DEF start_fingerprint_enroll, NoDialogue
<1>5. CASE AnswerHeard \/ TimeOut
  BY <1>1, <1>5 DEF AnswerHeard, TimeOut, GoesOn, PressGoesOn, EnrolGoesOn
<1>6. CASE EnrolDone
  BY <1>6 DEF EnrolDone, TInv, OneUserPerTemplate, GivenOK, HeldPages, Used
<1>7. CASE Administration
  <2>1. CASE SkipFinger
    <3>1. UNCHANGED users /\ dialogue'.page = NoPage
      BY <2>1 DEF SkipFinger, NoDialogue
    <3> QED BY <3>1 DEF TInv, OneUserPerTemplate, GivenOK, HeldPages, Used
  <2>2. CASE FinishUser
    <3>1. OneUserPerTemplate'
      BY <2>2, AddUserTemplates DEF FinishUser, TInv, GivenOK
    <3> QED BY <2>2, <3>1 DEF FinishUser, NoDialogue, TInv, GivenOK
  <2>3. CASE LeaveDialogue
    BY <1>1, <2>3 DEF LeaveDialogue, NoDialogue
  <2>4. CASE RemoteAdd
    <3>1. NoPage \notin HeldPages /\ AddUser(NoPage, NoFinger) /\ dialogue' = dialogue
      BY <2>4 DEF RemoteAdd, HeldPages
    <3>2. OneUserPerTemplate'
      BY <3>1, AddUserTemplates DEF TInv
    <3>3. HeldPages' \subseteq HeldPages
      BY <3>1 DEF AddUser, HeldPages, Used, TypeOK
    <3> QED BY <3>1, <3>2, <3>3 DEF TInv, GivenOK
  <2>5. CASE DeleteUser
    <3>1. PICK s \in Used : users' = [users EXCEPT ![s] = Free]
      BY <2>5 DEF DeleteUser
    <3>2. dialogue' = dialogue
      BY <2>5 DEF DeleteUser
    <3>3. /\ \A t \in Slots \ {s} : users'[t] = users[t]
          /\ users'[s].page = NoPage /\ ~users'[s].used
      BY <3>1 DEF Free, TypeOK, Used
    <3> QED BY <3>2, <3>3 DEF TInv, OneUserPerTemplate, GivenOK, HeldPages, Used
  <2> QED BY <1>7, <2>1, <2>2, <2>3, <2>4, <2>5 DEF Administration
<1> QED BY <1>2, <1>3, <1>4, <1>5, <1>6, <1>7 DEF Next

(* A template number is of one user at most, whatever is lost, late or cut *)
(* and though numbers are given again (user_admin_on_fingerprint).         *)
THEOREM OneUserPerTemplateCorrect == Spec => []OneUserPerTemplate
<1>1. Init => TInv
  <2>1. Init => \A s \in Used : users[s].page = s
    BY DEF Init, Used, Free
  <2>2. Init => GivenOK
    BY DEF Init, NoDialogue, GivenOK
  <2>3. Init => OneUserPerTemplate
    BY <2>1 DEF OneUserPerTemplate
  <2> QED BY <2>2, <2>3 DEF TInv
<1>2. TInv => OneUserPerTemplate
  BY DEF TInv
<1> QED BY <1>1, <1>2, TInvStep, TypeCorrect, PTL DEF Spec
================================================================================
