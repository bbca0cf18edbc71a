---------------------------- MODULE FingerAccess ----------------------------
(***************************************************************************)
(* Fingers from the sensor to the user database: the fingerprint key       *)
(* (key_app.c), the enrolment (user_admin.c) and the templates in the      *)
(* sensor beside the users that refer to them.                             *)
(*                                                                         *)
(* A command blocks the main loop until its answer or its timeout, so that *)
(* nothing but the sensor moves while call # NoCommand.  What the sensor   *)
(* still does for a command that has timed out is done later.              *)
(***************************************************************************)
EXTENDS As608, FiniteSets

CONSTANTS
  MaxUsers,         \* USER_DB_MAX_USERS, 50
  FpMaxAttempts,    \* FP_ENROLL_MAX_ATTEMPTS
  AtFirst,          \* users enrolled before power-up, each with the number of his entry
  MaxAdded,         \* bound: users added, and disturbances, together
  Faults,           \* which disturbances happen
  MaxFaults         \* bound: how many of them

\* An answer after its timeout, no answer, an answer cut by a pause.
Disturbances == {"late", "lost", "cut"}

ASSUME FingerAssumption ==
  /\ MaxUsers \in Nat
  /\ 1 .. MaxUsers + 1 \subseteq Pages
  /\ 0 \notin Pages
  /\ FpMaxAttempts \in Nat \ {0}
  /\ AtFirst \subseteq 1 .. MaxUsers
  /\ MaxAdded \in Nat /\ Faults \subseteq Disturbances /\ MaxFaults \in Nat

VARIABLES
  users,     \* the entries of the database: in use, fingerprint_id, whose finger
  dialogue,  \* the add-user dialogue from its fingerprint step on
  enrol,     \* s_fp_enroll
  presser,   \* history: whose finger the fingerprint key has taken an image of
  verdict,   \* the user whom this step has let in
  added,     \* history: users added since power-up
  reused,    \* history: an enrolment began with the number of a user's template
  faults     \* history: how often each disturbance has happened

Slots == 1 .. MaxUsers

vars == <<rx, call, owed, sensor, users, dialogue, enrol, presser, verdict,
          added, reused, faults>>

NoPage == 0
NoUser == 0

FpState == {"IDLE", "WAIT_FINGER_1", "CAPTURE_1", "REMOVE", "WAIT_FINGER_2",
            "CAPTURE_2", "MATCH", "STORE", "DONE", "ERROR"}

Free == [used |-> FALSE, page |-> NoPage, owner |-> NoFinger]

TypeOK ==
  /\ As608TypeOK
  /\ users \in [Slots -> [used: BOOLEAN, page: Pages \cup {NoPage}, owner: Touch]]
  /\ dialogue \in [step: {"none", "FINGERPRINT", "PASSWORD"},
                   page: Pages \cup {NoPage}, owner: Touch]
  /\ enrol \in [state: FpState, page: Pages \cup {NoPage},
                attempt: 0 .. FpMaxAttempts, retry: BOOLEAN, owner: Touch]
  /\ presser \in Touch
  /\ verdict \in Slots \cup {NoUser}
  /\ added \in 0 .. MaxAdded
  /\ reused \in BOOLEAN
  /\ faults \in [Disturbances -> 0 .. MaxFaults]

NoDialogue == [step |-> "none", page |-> NoPage, owner |-> NoFinger]
NoEnrol == [state |-> "IDLE", page |-> NoPage, attempt |-> 0, retry |-> FALSE,
            owner |-> NoFinger]

Init ==
  /\ \E own \in [AtFirst -> Fingers] :
       /\ As608Init([p \in Pages |-> IF p \in AtFirst THEN own[p] ELSE NoFinger])
       /\ users = [s \in Slots |-> IF s \in AtFirst THEN [used |-> TRUE, page |-> s, owner |-> own[s]]
                                 ELSE Free]
  /\ dialogue = NoDialogue
  /\ enrol = NoEnrol
  /\ presser = NoFinger
  /\ verdict = NoUser
  /\ added = 0
  /\ reused = FALSE
  /\ faults = [kind \in Disturbances |-> 0]

\* How often something has disturbed the line.
Disturbed == faults["late"] + faults["lost"] + faults["cut"]

-----------------------------------------------------------------------------
(* The database, as far as fingers go. *)

Used == {s \in Slots : users[s].used}

HeldPages == {users[s].page : s \in Used} \ {NoPage}

\* user_db_find_by_fingerprint
Holder(page) ==
  IF page \in HeldPages THEN {s \in Used : users[s].page = page} ELSE {NoUser}

\* user_db_add_user: into the first empty slot, if there is one.
AddUser(page, owner) ==
  \/ \E s \in Slots \ Used :
        /\ 1 .. s - 1 \subseteq Used
        /\ users' = [users EXCEPT ![s] = [used |-> TRUE, page |-> page, owner |-> owner]]
        /\ added + Disturbed < MaxAdded /\ added' = added + 1
  \/ Used = Slots /\ UNCHANGED <<users, added>>

-----------------------------------------------------------------------------
(* The sensor and the line (external). *)

Idle == call = NoCommand

\* Nobody is let in in this step.
Quiet ==
  /\ verdict' = NoUser
  /\ presser' = IF Idle THEN NoFinger ELSE presser

Undisturbed == UNCHANGED faults

Disturbance(kind) ==
  /\ kind \in Faults
  /\ Disturbed < MaxFaults /\ added + Disturbed < MaxAdded
  /\ faults' = [faults EXCEPT ![kind] = @ + 1]

SensorAnswers ==
  /\ owed # <<>>
  /\ owed' = Tail(owed)
  /\ \E finger \in Touch : \E a \in Executed(Head(owed), finger) :
        \/ Undisturbed /\ sensor' = a.sensor /\ Arrived(a.code, a.page)
        \/ Disturbance("cut") /\ sensor' = a.sensor /\ ArrivedCut(a.code)
        \/ Disturbance("lost") /\ sensor' \in {a.sensor, sensor} /\ rx' = rx
  /\ Quiet
  /\ UNCHANGED <<call, users, dialogue, enrol, added, reused>>

-----------------------------------------------------------------------------
(* The fingerprint key: Press_FR and auth_process_fingerprint. *)

Press_FR ==
  /\ Idle /\ dialogue.step = "none"
  /\ Sent(PS_GetImage)
  /\ Quiet
  /\ UNCHANGED <<sensor, users, dialogue, enrol, added, reused, faults>>

\* Mutant: the page is judged whether the search has succeeded or not.
PressJudgesAnyway(code, page) ==
  /\ UNCHANGED <<dialogue, enrol, users>>
  /\ \/ /\ code = "ok" /\ call.op = "GetImage"
        /\ Sent(PS_GenChar(1)) /\ verdict' = NoUser /\ presser' = sensor.image
     \/ /\ code = "ok" /\ call.op = "GenChar"
        /\ Sent(PS_HighSpeedSearch) /\ verdict' = NoUser /\ UNCHANGED presser
     \/ /\ call.op = "Search"
        /\ Sent(NoCommand) /\ verdict' \in Holder(page) /\ UNCHANGED presser
     \/ /\ code # "ok" /\ call.op # "Search"
        /\ Sent(NoCommand) /\ verdict' = NoUser /\ presser' = NoFinger

\* The answer to a command of Press_FR, or its absence.
PressGoesOn(code, page) ==
  /\ UNCHANGED <<dialogue, enrol, users>>
  /\ \/ /\ code = "ok" /\ call.op = "GetImage"
        /\ Sent(PS_GenChar(1)) /\ verdict' = NoUser /\ presser' = sensor.image
     \/ /\ code = "ok" /\ call.op = "GenChar"
        /\ Sent(PS_HighSpeedSearch) /\ verdict' = NoUser /\ UNCHANGED presser
     \/ /\ code = "ok" /\ call.op = "Search"
        /\ Sent(NoCommand) /\ verdict' \in Holder(page) /\ UNCHANGED presser
     \/ code # "ok" /\ Sent(NoCommand) /\ verdict' = NoUser /\ presser' = NoFinger

-----------------------------------------------------------------------------
(* The enrolment. *)

\* The template number of start_fingerprint_enroll.
FreshPage == Cardinality(Used) + 1

\* The dialogue reaches its fingerprint step.
start_fingerprint_enroll ==
  /\ Idle /\ dialogue.step = "none"
  /\ dialogue' = [NoDialogue EXCEPT !.step = "FINGERPRINT"]
  /\ enrol' = [state |-> "WAIT_FINGER_1", page |-> FreshPage, attempt |-> 1,
               retry |-> FALSE, owner |-> NoFinger]
  /\ reused' = (reused \/ FreshPage \in HeldPages)
  /\ Quiet
  /\ UNCHANGED <<rx, call, owed, sensor, users, added, faults>>

EnrolCommand ==
  CASE enrol.state \in {"WAIT_FINGER_1", "REMOVE", "WAIT_FINGER_2"} -> PS_GetImage
    [] enrol.state = "CAPTURE_1" -> PS_GenChar(1)
    [] enrol.state = "CAPTURE_2" -> PS_GenChar(2)
    [] enrol.state = "MATCH" -> PS_Match
    [] enrol.state = "STORE" -> PS_RegModel
    [] OTHER -> NoCommand

\* fingerprint_enroll_update in a state that asks the sensor.
fingerprint_enroll_update ==
  /\ Idle /\ dialogue.step = "FINGERPRINT"
  /\ EnrolCommand # NoCommand
  /\ Sent(EnrolCommand)
  /\ Quiet
  /\ UNCHANGED <<sensor, users, dialogue, enrol, added, reused, faults>>

\* fingerprint_enroll_fail
Failed ==
  IF enrol.attempt < FpMaxAttempts
  THEN [enrol EXCEPT !.state = "ERROR", !.attempt = enrol.attempt + 1, !.retry = TRUE]
  ELSE [enrol EXCEPT !.state = "ERROR", !.retry = FALSE]

EnrolAfter(code) ==
  CASE enrol.state = "REMOVE" /\ code = "nofinger" -> [enrol EXCEPT !.state = "WAIT_FINGER_2"]
    [] enrol.state = "REMOVE" /\ code = "ok" -> enrol
    [] enrol.state \in {"WAIT_FINGER_1", "WAIT_FINGER_2"} /\ code = "nofinger" -> enrol
    [] enrol.state = "WAIT_FINGER_1" /\ code = "ok" ->
         [enrol EXCEPT !.state = "CAPTURE_1", !.owner = sensor.image]
    [] enrol.state = "CAPTURE_1" /\ code = "ok" -> [enrol EXCEPT !.state = "REMOVE"]
    [] enrol.state = "WAIT_FINGER_2" /\ code = "ok" -> [enrol EXCEPT !.state = "CAPTURE_2"]
    [] enrol.state = "CAPTURE_2" /\ code = "ok" -> [enrol EXCEPT !.state = "MATCH"]
    [] enrol.state = "MATCH" /\ code = "ok" -> [enrol EXCEPT !.state = "STORE"]
    [] enrol.state = "STORE" /\ code = "ok" /\ call.op = "StoreChar" -> [enrol EXCEPT !.state = "DONE"]
    [] enrol.state = "STORE" /\ code = "ok" /\ call.op = "RegModel" -> enrol
    [] OTHER -> Failed

EnrolGoesOn(code) ==
  /\ enrol' = EnrolAfter(code)
  /\ Sent(IF code = "ok" /\ call.op = "RegModel" THEN PS_StoreChar(enrol.page) ELSE NoCommand)
  /\ Quiet
  /\ UNCHANGED <<dialogue, users>>

\* Mutant: the number is not tested for being in use.
EnrolDoneUntested ==
  /\ Idle /\ dialogue.step = "FINGERPRINT" /\ enrol.state = "DONE"
  /\ enrol' = NoEnrol
  /\ dialogue' = [step |-> "PASSWORD", page |-> enrol.page, owner |-> enrol.owner]
  /\ Quiet
  /\ UNCHANGED <<rx, call, owed, sensor, users, added, reused, faults>>

\* The template is stored: user_admin_on_fingerprint.
EnrolDone ==
  /\ Idle /\ dialogue.step = "FINGERPRINT" /\ enrol.state = "DONE"
  /\ enrol' = NoEnrol
  /\ dialogue' = IF enrol.page \in HeldPages THEN dialogue
                 ELSE [step |-> "PASSWORD", page |-> enrol.page, owner |-> enrol.owner]
  /\ Quiet
  /\ UNCHANGED <<rx, call, owed, sensor, users, added, reused, faults>>

EnrolRetry ==
  /\ Idle /\ dialogue.step = "FINGERPRINT" /\ enrol.state = "ERROR" /\ enrol.retry
  /\ enrol' = [enrol EXCEPT !.state = "WAIT_FINGER_1", !.retry = FALSE]
  /\ Quiet
  /\ UNCHANGED <<rx, call, owed, sensor, users, dialogue, added, reused, faults>>

-----------------------------------------------------------------------------
(* The rest of the dialogue, and the network. *)

\* Mutant: the number chosen for the template is kept.
SkipKeepingPage ==
  /\ dialogue.step = "FINGERPRINT"
  /\ dialogue' = [step |-> "PASSWORD", page |-> enrol.page, owner |-> enrol.owner]
  /\ enrol' = NoEnrol
  /\ UNCHANGED <<users, added, reused>>

\* The confirm key leaves the finger out.
SkipFinger ==
  /\ dialogue.step = "FINGERPRINT"
  /\ dialogue' = [NoDialogue EXCEPT !.step = "PASSWORD"]
  /\ enrol' = NoEnrol
  /\ UNCHANGED <<users, added, reused>>

\* finish_add_user
FinishUser ==
  /\ dialogue.step = "PASSWORD"
  /\ AddUser(dialogue.page, dialogue.owner)
  /\ dialogue' = NoDialogue
  /\ UNCHANGED <<enrol, reused>>

\* user_admin_cancel, user_admin_exit
LeaveDialogue ==
  /\ dialogue.step # "none"
  /\ dialogue' = NoDialogue
  /\ enrol' = NoEnrol
  /\ UNCHANGED <<users, added, reused>>

\* mqtt_app_cmd_add_user: a user without a finger
RemoteAdd ==
  /\ AddUser(NoPage, NoFinger)
  /\ UNCHANGED <<dialogue, enrol, reused>>

\* From the network, or from the menu.
DeleteUser ==
  /\ \E s \in Used : users' = [users EXCEPT ![s] = Free]
  /\ UNCHANGED <<dialogue, enrol, added, reused>>

Administration ==
  /\ Idle
  /\ SkipFinger \/ FinishUser \/ LeaveDialogue \/ RemoteAdd \/ DeleteUser
  /\ Quiet
  /\ UNCHANGED <<rx, call, owed, sensor, faults>>

-----------------------------------------------------------------------------
(* JudgeStr returns to whoever waits. *)

GoesOn(code, page) ==
  /\ \/ dialogue.step = "none" /\ PressGoesOn(code, page)
     \/ dialogue.step = "FINGERPRINT" /\ EnrolGoesOn(code)
  /\ UNCHANGED <<sensor, added, reused>>

AnswerHeard == Heard /\ GoesOn(rx.code, rx.page) /\ Undisturbed

NoiseHeard ==
  /\ HeardNoise
  /\ Quiet
  /\ UNCHANGED <<users, dialogue, enrol, added, reused, faults>>

\* The answer is lost, or later than two seconds.
TimeOut ==
  /\ HeardNothing
  /\ \/ owed = <<>> /\ Undisturbed
     \/ owed # <<>> /\ Disturbance("late")
  /\ GoesOn("error", rx.page)

Next ==
  \/ SensorAnswers
  \/ Press_FR \/ start_fingerprint_enroll \/ fingerprint_enroll_update
  \/ EnrolDone \/ EnrolRetry \/ Administration
  \/ AnswerHeard \/ NoiseHeard \/ TimeOut

Spec == Init /\ [][Next]_vars

-----------------------------------------------------------------------------
(* Nothing has put the driver out of step with the sensor, and no number   *)
(* has been given twice.  A lost answer does not put it out of step.       *)
InStep == ~reused /\ faults["late"] = 0 /\ faults["cut"] = 0

(* The template a user refers to is of the finger with which he was        *)
(* enrolled, whatever dialogues are begun, repeated and broken off and     *)
(* whatever users come and go, as long as no enrolment begins with the     *)
(* number of a user's template and no answer is late or cut.               *)
BoundIsOwners ==
  InStep => \A s \in Used : users[s].page # NoPage =>
                               sensor.lib[users[s].page] = users[s].owner

(* Whom the fingerprint key lets in, his finger was on the sensor.         *)
OnlyTheOwner == InStep /\ verdict # NoUser => users[verdict].owner = presser

(* Answers that are lost or cut, the failures and repetitions they cause   *)
(* and the answers of earlier commands that they let pass for new ones     *)
(* never cost a user his template.                                         *)
FaultsKeepTemplates ==
  [][~reused /\ faults["late"] = 0 =>
       \A s \in Used : users'[s] = users[s] /\ users[s].page # NoPage =>
          sensor'.lib[users[s].page] = sensor.lib[users[s].page]]_vars

(* A template number is of one user at most, so that a finger names him,   *)
(* whatever answers are lost, late or cut and though numbers are given     *)
(* again: the test for a number in use (user_admin.c:590) comes after the  *)
(* template was stored, but before the user is.                            *)
OneUserPerTemplate ==
  \A s, t \in Used : users[s].page = users[t].page /\ users[s].page # NoPage => s = t

(* user_admin.c:588 asks whether the template number is in use by another  *)
(* user, who then keeps his template.                                      *)
EnrolmentKeepsOthers ==
  [][\A s \in Used : users'[s] = users[s] /\ users[s].page # NoPage =>
        sensor'.lib[users[s].page] = sensor.lib[users[s].page]]_vars
=============================================================================
