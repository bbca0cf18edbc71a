------------------------------ MODULE UserAdmin ------------------------------
(***************************************************************************)
(* User/user_admin.c: the administration mode and the fingerprint          *)
(* enrolment it drives.  admin is s_admin (mode, step of the add-user      *)
(* dialogue, step of the master-password dialogue, whether a user is       *)
(* selected, time since the last activity); fp is s_fp_enroll.  The user   *)
(* being added, the digits and the page id are data of the user database.  *)
(* The inactivity time runs in every mode: leaving the mode does not       *)
(* reset last_activity.  Every dialogue sets its own step when it starts,  *)
(* so the steps a finished one leaves behind are never read: outside their *)
(* dialogue they are kept at their first value.                            *)
(***************************************************************************)
EXTENDS PasswordInput, StatusUi

CONSTANTS AdminTimeout,      \* ADMIN_TIMEOUT_MS
          FpMaxAttempts,     \* FP_ENROLL_MAX_ATTEMPTS
          FpDelay            \* FP_ENROLL_RETRY_DELAY_MS and FP_ENROLL_DONE_HOLD_MS

ASSUME AdminAssumption ==
  /\ AdminTimeout \in Nat /\ AdminTimeout > PwdTimeout
  /\ FpMaxAttempts \in Nat \ {0}
  /\ FpDelay \in Nat \ {0}

VARIABLES admin, fp

AdminState == {"LOCKED", "UNLOCKED", "ADD_USER", "DELETE_USER", "LIST_USERS",
               "CHANGE_MASTER_PWD"}
AddStep == {"NAME", "RFID", "FINGERPRINT", "PASSWORD", "CONFIRM"}
FpState == {"IDLE", "WAIT_FINGER_1", "CAPTURE_1", "REMOVE", "WAIT_FINGER_2",
            "CAPTURE_2", "MATCH", "STORE", "DONE", "ERROR"}

AdminRecord ==
  [state: AdminState, addStep: AddStep, pwdStep: 0..2, selected: BOOLEAN,
   age: 0..AdminTimeout]
FpRecord ==
  [state: FpState, attempt: 0..FpMaxAttempts, retry: BOOLEAN, age: 0..FpDelay]

AdminTypeOK == admin \in AdminRecord /\ fp \in FpRecord

\* The enrolment that has just reached state s in its n-th attempt.
FpAt(s, n, again) == [state |-> s, attempt |-> n, retry |-> again, age |-> 0]

FpIdle == FpAt("IDLE", 0, FALSE)

\* reset_state on admin record a
AdminReset(a) ==
  [state |-> "LOCKED", addStep |-> "NAME", pwdStep |-> 0, selected |-> FALSE,
   age |-> a.age]

\* A dialogue is over and the menu is shown again.
ToMenu(a) == [AdminReset(a) EXCEPT !.state = "UNLOCKED"]

AdminInit ==
  /\ admin = [state |-> "LOCKED", addStep |-> "NAME", pwdStep |-> 0,
              selected |-> FALSE, age |-> 0]
  /\ fp = FpIdle

AdminActive == admin.state # "LOCKED"

\* update_activity
Touched(a) == [a EXCEPT !.age = 0]

\* user_admin_enter with the master password
AdminEntered(a) == Touched(ToMenu(a))

\* wrong variant: the screen is not told
ExitWithoutScreen(a) ==
  /\ admin' = AdminReset(a)
  /\ fp' = FpIdle
  /\ UNCHANGED ui

user_admin_exit(a) ==
  /\ admin' = AdminReset(a)
  /\ fp' = FpIdle
  /\ ui' = UiScreen("IDLE")

---------------------------------------------------------------------------
(* Callbacks of a password entry, on admin record a.                       *)

\* wrong variant: back to the menu, whether the mode is active or not
PasswordDoneToMenu(a, reason) == ToMenu(a)

\* Also called for an entry that outlived a forced exit; the step it then
\* writes is the step of no dialogue.
AddUserPasswordDone(a, reason) ==
  LET b == IF a.state = "LOCKED" THEN a ELSE [a EXCEPT !.addStep = "CONFIRM"]
  IN  IF reason = "COMPLETE" THEN Touched(b) ELSE b

\* Old password, new password, confirmation: the first two start a new entry.
MasterPwdContinues(a, reason) == reason = "COMPLETE" /\ a.pwdStep < 2

\* wrong variant: an entry that is cancelled leaves the dialogue as it is
MasterPwdDoneStuck(a, reason) ==
  IF reason # "COMPLETE" THEN a
  ELSE IF MasterPwdContinues(a, reason) THEN [Touched(a) EXCEPT !.pwdStep = @ + 1]
  ELSE Touched(ToMenu(a))

\* The mode is set without asking whether it was still active.
MasterPwdDone(a, reason) ==
  IF MasterPwdContinues(a, reason) THEN [Touched(a) EXCEPT !.pwdStep = @ + 1]
  ELSE IF reason = "COMPLETE" THEN Touched(ToMenu(a))
  ELSE ToMenu(a)

---------------------------------------------------------------------------
(* Keys in administration mode while no password entry is running; every   *)
(* key counts as activity.  door and auth are not touched.                 *)

FpStarted == FpAt("WAIT_FINGER_1", 1, FALSE)

AdminMenuKey(k) ==
  /\ admin.state = "UNLOCKED"
  /\ \/ /\ k = 1
        /\ admin' = [Touched(admin) EXCEPT !.state = "ADD_USER"]
        /\ fp' = FpIdle
        /\ UNCHANGED <<pwd, ui>>
     \/ /\ k = 2
        /\ admin' = [Touched(admin) EXCEPT !.state = "DELETE_USER"]
        /\ UNCHANGED <<fp, pwd, ui>>
     \/ /\ k = 3
        /\ admin' = [Touched(admin) EXCEPT !.state = "LIST_USERS"]
        /\ UNCHANGED <<fp, pwd, ui>>
     \/ /\ k = 4
        /\ admin' = [Touched(admin) EXCEPT !.state = "CHANGE_MASTER_PWD"]
        /\ pwd' = PwdStarted("masterPwd", 0)
        /\ UNCHANGED <<fp, ui>>
     \/ k \in {12, 15} /\ user_admin_exit(Touched(admin)) /\ UNCHANGED pwd
     \/ k \notin {1, 2, 3, 4, 12, 15} /\ admin' = Touched(admin) /\ UNCHANGED <<fp, pwd, ui>>

\* wrong variant: the enrolment is not reset
CancelKeepingEnrolment ==
  /\ admin' = Touched(ToMenu(admin))
  /\ UNCHANGED <<fp, pwd>>

user_admin_cancel ==
  /\ admin' = Touched(ToMenu(admin))
  /\ fp' = FpIdle
  /\ UNCHANGED pwd

\* user_admin_confirm in the add-user dialogue
AddUserConfirm ==
  \/ /\ admin.addStep = "NAME"
     /\ admin' = [Touched(admin) EXCEPT !.addStep = "RFID"]
     /\ UNCHANGED <<fp, pwd>>
  \/ /\ admin.addStep = "RFID"
     /\ admin' = [Touched(admin) EXCEPT !.addStep = "FINGERPRINT"]
     /\ fp' = FpStarted
     /\ UNCHANGED pwd
  \/ /\ admin.addStep = "FINGERPRINT"
     /\ admin' = [Touched(admin) EXCEPT !.addStep = "PASSWORD"]
     /\ fp' = FpIdle
     /\ pwd' = PwdStarted("addUser", 0)
  \/ /\ admin.addStep = "CONFIRM"
     /\ admin' = Touched(ToMenu(admin))      \* finish_add_user
     /\ UNCHANGED <<fp, pwd>>
  \/ /\ admin.addStep = "PASSWORD"
     /\ admin' = Touched(admin)
     /\ UNCHANGED <<fp, pwd>>

AdminAddUserKey(k) ==
  /\ admin.state = "ADD_USER"
  /\ UNCHANGED ui
  /\ \/ k = 16 /\ AddUserConfirm
     \/ k \in {12, 15} /\ user_admin_cancel
     \/ /\ k \notin {12, 15, 16}
        /\ admin' = Touched(admin)
        /\ pwd' = IF admin.addStep = "PASSWORD"
                  THEN PwdStarted("addUser", IF k \in DigitKey THEN 1 ELSE 0)
                  ELSE pwd
        /\ UNCHANGED fp

AdminDeleteUserKey(k) ==
  /\ admin.state = "DELETE_USER"
  /\ UNCHANGED ui
  /\ \/ /\ k = 16
        /\ admin' = Touched(IF admin.selected THEN ToMenu(admin) ELSE admin)
        /\ UNCHANGED <<fp, pwd>>
     \/ k \in {12, 15} /\ user_admin_cancel
     \/ /\ k \in 1..9            \* a user at that index, or none
        /\ \E s \in {TRUE, admin.selected} :
              admin' = [Touched(admin) EXCEPT !.selected = s]
        /\ UNCHANGED <<fp, pwd>>
     \/ k \in {10, 11, 13, 14} /\ admin' = Touched(admin) /\ UNCHANGED <<fp, pwd>>

\* Any key leaves the user list.
AdminListKey ==
  /\ admin.state = "LIST_USERS"
  /\ admin' = Touched(ToMenu(admin))
  /\ UNCHANGED <<fp, pwd, ui>>

\* The switch of user_admin_on_key.  CHANGE_MASTER_PWD has no case: an entry
\* is always running there (DoorAccess!AdminEntryOwned).
AdminKey(k) ==
  AdminMenuKey(k) \/ AdminAddUserKey(k) \/ AdminDeleteUserKey(k) \/ AdminListKey

\* user_admin_on_rfid: a card is recorded only in its step, and only when no
\* user holds it; recording it starts the enrolment.
user_admin_on_rfid ==
  \/ /\ admin.state = "ADD_USER" /\ admin.addStep = "RFID"
     /\ admin' = [Touched(admin) EXCEPT !.addStep = "FINGERPRINT"]
     /\ fp' = FpStarted
  \/ UNCHANGED <<admin, fp>>     \* another step, or a card already registered

---------------------------------------------------------------------------
(* fingerprint_enroll_update, one sensor command per call.  Its first      *)
(* branch drops an enrolment whose dialogue has moved on; there is never   *)
(* one to drop (DoorAccess!EnrolOnlyInItsStep).                            *)

FpSteps == [WAIT_FINGER_1 |-> "CAPTURE_1", CAPTURE_1 |-> "REMOVE",
            REMOVE |-> "WAIT_FINGER_2", WAIT_FINGER_2 |-> "CAPTURE_2",
            CAPTURE_2 |-> "MATCH", MATCH |-> "STORE", STORE |-> "DONE"]

Enrolling == admin.state = "ADD_USER" /\ admin.addStep = "FINGERPRINT"

\* wrong variant: the attempts are not counted
FpFailedUncounted ==
  FpAt("ERROR", fp.attempt, fp.attempt < FpMaxAttempts)

\* fingerprint_enroll_fail
FpFailed ==
  LET again == fp.attempt < FpMaxAttempts
  IN  FpAt("ERROR", IF again THEN fp.attempt + 1 ELSE fp.attempt, again)

\* The sensor answers: the command succeeded, or failed.  (No finger yet, or
\* finger still there, changes nothing.)
FpSensorAnswer ==
  /\ Enrolling /\ fp.state \in DOMAIN FpSteps
  /\ fp' \in {FpAt(FpSteps[fp.state], fp.attempt, fp.retry), FpFailed}
  /\ admin' = Touched(admin)

\* FP_ENROLL_DONE held long enough: user_admin_on_fingerprint, which refuses
\* a template id that some user already has.
FpDone ==
  /\ Enrolling /\ fp.state = "DONE" /\ fp.age >= FpDelay
  /\ fp' = FpIdle
  /\ admin' \in {admin, [Touched(admin) EXCEPT !.addStep = "PASSWORD"]}

FpRetry ==
  /\ Enrolling /\ fp.state = "ERROR" /\ fp.retry /\ fp.age >= FpDelay
  /\ fp' = FpAt("WAIT_FINGER_1", fp.attempt, FALSE)
  /\ admin' = Touched(admin)

\* user_admin_update
AdminExpired == AdminActive /\ admin.age >= AdminTimeout

AdminTick ==
  /\ admin' = [admin EXCEPT !.age = Older(@, AdminTimeout)]
  /\ fp' = IF fp.state \in {"DONE", "ERROR"} THEN [fp EXCEPT !.age = Older(@, FpDelay)]
                                             ELSE fp

=============================================================================
