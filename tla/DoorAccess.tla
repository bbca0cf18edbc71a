------------------------------ MODULE DoorAccess ------------------------------
(***************************************************************************)
(* The door as its users meet it: the authentication manager, the keypad   *)
(* entry, the administration mode, the bolt and the status screen, driven  *)
(* by keys, cards, fingers, network commands and the periodic tasks.       *)
(*                                                                         *)
(* The scheduler is cooperative and none of these handlers runs in an      *)
(* interrupt, so one handler, with every callback it makes, is one step;   *)
(* the tasks may be delayed for as long as a blocking driver likes, so     *)
(* Tick is never held back for them.  The events the handlers queue for    *)
(* the network and the records they append to the access log are the state *)
(* of other components.                                                    *)
(***************************************************************************)
EXTENDS AuthManager, UserAdmin

CONSTANT CardDebounce       \* RFID_DEBOUNCE_MS

ASSUME CardAssumption == CardDebounce \in Nat \ {0}

VARIABLE card               \* time since s_last_card_time

vars == <<auth, pwd, admin, fp, door, ui, card>>

TypeOK ==
  /\ AuthTypeOK
  /\ PwdTypeOK
  /\ AdminTypeOK
  /\ DoorTypeOK
  /\ UiTypeOK
  /\ card \in 0..CardDebounce

Init ==
  /\ AuthInit
  /\ PwdInit
  /\ AdminInit
  /\ DoorInit
  /\ UiInit
  /\ card = 0

---------------------------------------------------------------------------
(* The end of a password entry runs the callback it was started with.  a   *)
(* is the admin record at that point of the handler.                       *)

\* wrong variant: the lockout is not looked at when the entry completes
PasswordIgnoringLockout(a) ==
  \/ /\ auth' = AuthIdle(auth.fails)
     /\ admin' = AdminEntered(a)
     /\ ui' = UiScreen("ADMIN")
     /\ UNCHANGED door
  \/ (\E found \in Lookup : AuthVerdict(found, ui)) /\ admin' = a

\* What the digits of a completed entry may be: the master password, the
\* password of a user or of a disabled user, or nobody's.
auth_process_password(a) ==
  \/ LockedOut /\ admin' = a /\ UNCHANGED <<auth, door, ui>>
  \/ /\ ~LockedOut                         \* the master password
     /\ auth' = AuthIdle(auth.fails)
     /\ admin' = AdminEntered(a)
     /\ ui' = UiScreen("ADMIN")
     /\ UNCHANGED door
  \/ /\ ~LockedOut
     /\ \E found \in Lookup : AuthVerdict(found, ui)
     /\ admin' = a

\* wrong variant: a cancelled entry is not reported
AuthPwdEndNoCancel(reason, a) ==
  /\ pwd.callback = "auth"
  /\ pwd' = PwdEnded(reason)
  /\ \/ reason = "COMPLETE" /\ auth_process_password(a)
     \/ reason = "CANCELLED" /\ admin' = a /\ UNCHANGED <<auth, door, ui>>

\* password_complete_callback
AuthPwdEnd(reason, a) ==
  /\ pwd.callback = "auth"
  /\ pwd' = PwdEnded(reason)
  /\ \/ reason = "COMPLETE" /\ auth_process_password(a)
     \/ /\ reason = "CANCELLED"
        /\ auth' = AuthIdle(auth.fails)
        /\ admin' = a
        /\ UNCHANGED <<door, ui>>

\* add_user_password_callback and master_pwd_callback
AdminPwdEnd(reason, a) ==
  \/ /\ pwd.callback = "addUser"
     /\ pwd' = PwdEnded(reason)
     /\ admin' = AddUserPasswordDone(a, reason)
     /\ UNCHANGED <<door, ui>>
  \/ /\ pwd.callback = "masterPwd"
     /\ pwd' = IF MasterPwdContinues(a, reason) THEN PwdStarted("masterPwd", 0)
                                               ELSE PwdEnded(reason)
     /\ admin' = MasterPwdDone(a, reason)
     /\ UNCHANGED <<door, ui>>

PwdEnd(reason, a) ==
  AuthPwdEnd(reason, a) \/ (AdminPwdEnd(reason, a) /\ UNCHANGED auth)

\* pwd_input_on_key
PwdKey(k, a) ==
  \/ PwdEditKey(k) /\ admin' = a /\ UNCHANGED <<auth, door, ui>>
  \/ \E reason \in PwdState : PwdEndKey(k, reason) /\ PwdEnd(reason, a)

---------------------------------------------------------------------------
(* matrix_key_scan: a single click goes to the administration mode if that *)
(* is active, else to a running password entry, else it has its own        *)
(* meaning.                                                                *)

KeyInAdmin(k) ==
  /\ AdminActive
  /\ \/ PwdActive /\ PwdKey(k, Touched(admin)) /\ UNCHANGED fp
     \/ ~PwdActive /\ AdminKey(k) /\ UNCHANGED <<auth, door>>
  /\ UNCHANGED card

KeyInEntry(k) ==
  /\ ~AdminActive /\ PwdActive
  /\ \/ k = 15 /\ PwdEnd("CANCELLED", admin)
     \/ k \in DigitKey /\ PwdKey(k, admin)
  /\ UNCHANGED <<fp, card>>

KeyStartsEntry(k) ==
  /\ ~AdminActive /\ ~PwdActive
  /\ k \in DigitKey \cup {14}
  /\ auth_start_password(IF k \in DigitKey THEN 1 ELSE 0)
  /\ UNCHANGED <<admin, fp, door, card>>

\* Key 13: Press_FR finds a template and the manager looks its owner up.
KeyFinger ==
  /\ ~AdminActive /\ ~PwdActive
  /\ \E found \in Lookup : AuthProcessScan(found, "SCANNING_FINGER")
  /\ UNCHANGED <<pwd, admin, fp, card>>

\* A double click of key 16 leaves the administration mode at once.
KeyForceExit ==
  /\ AdminActive
  /\ user_admin_exit(admin)
  /\ UNCHANGED <<auth, pwd, door, card>>

\* rfid_task: a card that is not debounced goes to the administration mode
\* or to the manager.
RfidTask ==
  /\ card = CardDebounce
  /\ card' = 0
  /\ \/ AdminActive /\ user_admin_on_rfid /\ UNCHANGED <<auth, door, ui>>
     \/ /\ ~AdminActive
        /\ \E found \in Lookup : AuthProcessScan(found, "READING_CARD")
        /\ UNCHANGED <<admin, fp>>
  /\ UNCHANGED pwd

\* The unlock and lock commands of mqtt_app_dispatch_cmd.
RemoteUnlock ==
  /\ \E d \in RemoteOpenTimes : door_control_unlock("REMOTE", d)
  /\ UNCHANGED <<auth, pwd, admin, fp, ui, card>>

RemoteLock ==
  /\ door_control_lock
  /\ UNCHANGED <<auth, pwd, admin, fp, ui, card>>

---------------------------------------------------------------------------
(* The periodic tasks, and time.                                           *)

DoorUpdate == door_control_update /\ UNCHANGED <<auth, pwd, admin, fp, ui, card>>

\* auth_manager_update: pwd_input_update first, then the lockout test.
AuthUpdate ==
  /\ \/ /\ PwdExpired
        /\ pwd.callback = "auth"
        /\ pwd' = PwdEnded("TIMEOUT")
        /\ auth' = LockoutExpired(FailCounted(auth))
        /\ ui' = FailureShown(ui, FailCounted(auth))
        /\ UNCHANGED <<admin, door>>
     \/ /\ PwdExpired
        /\ AdminPwdEnd("TIMEOUT", admin)
        /\ auth' = LockoutExpired(auth)
     \/ /\ ~PwdExpired
        /\ LockoutExpired(auth) # auth
        /\ auth' = LockoutExpired(auth)
        /\ UNCHANGED <<pwd, admin, door, ui>>
  /\ UNCHANGED <<fp, card>>

UiTask == UiUpdate(LockoutOver) /\ UNCHANGED <<auth, pwd, admin, fp, door, card>>

EnrollSensor == FpSensorAnswer /\ UNCHANGED <<auth, pwd, door, ui, card>>

EnrollTimed == (FpDone \/ FpRetry) /\ UNCHANGED <<auth, pwd, door, ui, card>>

AdminUpdate ==
  /\ AdminExpired
  /\ user_admin_exit(admin)
  /\ UNCHANGED <<auth, pwd, door, card>>

Tick ==
  /\ AuthTick
  /\ PwdTick
  /\ AdminTick
  /\ DoorTick
  /\ UiTick
  /\ card' = Older(card, CardDebounce)

---------------------------------------------------------------------------
MatrixKey ==
  \E k \in 1..16 : KeyInAdmin(k) \/ KeyInEntry(k) \/ KeyStartsEntry(k)

\* Everything a person at the door can do.
AtTheDoor == MatrixKey \/ KeyFinger \/ KeyForceExit \/ RfidTask

Next ==
  \/ AtTheDoor
  \/ RemoteUnlock
  \/ RemoteLock
  \/ DoorUpdate
  \/ AuthUpdate
  \/ UiTask
  \/ EnrollSensor
  \/ EnrollTimed
  \/ AdminUpdate
  \/ Tick

Spec == Init /\ [][Next]_vars

\* scheduler_run calls every periodic task again and again, and TIM2 never
\* stops; nobody is obliged to press a key, and a finger need not come.
Fairness ==
  /\ WF_vars(DoorUpdate)
  /\ WF_vars(AuthUpdate)
  /\ WF_vars(UiTask)
  /\ WF_vars(EnrollTimed)
  /\ WF_vars(AdminUpdate)
  /\ WF_vars(Tick)

FairSpec == Spec /\ Fairness

---------------------------------------------------------------------------
(* What must never happen.                                                 *)

\* The manager waits for a password only while an entry that will report to
\* it is running, so it can never be left waiting for digits nobody types
\* (auth_start_password against every way pwd_input_* ends an entry).
PasswordWaitHasEntry ==
  auth.state = "PASSWORD_INPUT" => PwdActive /\ pwd.callback = "auth"

\* In administration mode the digits typed go to the dialogue on the screen:
\* an entry that runs is that dialogue's own, and the master-password
\* dialogue is never without one (user_admin_on_key gives it no other way out).
AdminEntryOwned ==
  /\ AdminActive /\ PwdActive =>
       \/ pwd.callback = "masterPwd" /\ admin.state = "CHANGE_MASTER_PWD"
       \/ /\ pwd.callback = "addUser"
          /\ admin.state = "ADD_USER" /\ admin.addStep = "PASSWORD"
  /\ admin.state = "CHANGE_MASTER_PWD" => PwdActive

\* The sensor is never driven outside the fingerprint step of the dialogue,
\* whichever key, card, timeout or callback moved the dialogue on.
EnrolOnlyInItsStep == fp.state # "IDLE" => Enrolling

\* The administration screen is never shown to somebody outside the mode
\* (door_status_ui_on_admin_exit on every path to reset_state).
AdminScreenIsAdmin == ui.state = "ADMIN" => AdminActive

\* This step opens the door, or opens it again, for a local authentication.
LocalOpening ==
  /\ door'.lock = "UNLOCKED" /\ door'.method = "LOCAL"
  /\ door.lock = "LOCKED" \/ door.method # "LOCAL" \/ door'.age < door.age

\* While the administration mode stays active nobody is authenticated: no
\* failure is counted and no card, finger or password opens the door.
NoVerdictInAdminMode ==
  [][AdminActive /\ AdminActive' =>
       auth'.fails \in {auth.fails, 0} /\ ~LocalOpening]_vars

\* A lockout refuses every local authentication, also the password entry that
\* was already running when it began: the door is not opened and the
\* administration screen is not reached.
LockoutRefuses ==
  [][LockedOut => ~LocalOpening /\ (ui'.state = "ADMIN" => ui.state = "ADMIN")]_vars

\* Nothing ends a lockout before its time except cancelling a password entry
\* that was running when it began (password_complete_callback).
LockoutCutOnlyByCancel ==
  [][LockedOut /\ auth.lockAge < LockoutTime /\ ~LockedOut' =>
       PwdActive /\ pwd.callback = "auth" /\ pwd'.state = "CANCELLED"]_vars

\* The mode becomes active only when a password entry ends, and then either
\* the manager has verified the master password and shows the screen of the
\* mode, or the entry belongs to a master-password dialogue left by a forced exit.
AdminOpensAtEntryEnd ==
  [][~AdminActive /\ AdminActive' =>
       /\ PwdActive
       /\ \/ pwd.callback = "auth" /\ ui'.state = "ADMIN"
          \/ pwd.callback = "masterPwd" /\ ui'.state # "ADMIN"]_vars

---------------------------------------------------------------------------
(* What must happen in the end, under FairSpec.                            *)

\* Every lockout ends, although an entry that times out starts it afresh.
LockoutEnds == LockedOut ~> ~LockedOut

\* A password entry does not stay open, however the keys are pressed.
EntryEnds == (PwdActive /\ pwd.callback = "auth") ~> ~(PwdActive /\ pwd.callback = "auth")

\* The door locks itself again unless it is opened again and again.
DoorRelocks ==
  []<>(door.lock = "LOCKED")
    \/ []<><<door'.lock = "UNLOCKED" /\ door'.age = 0>>_door

\* The administration mode ends unless somebody keeps using it; the enrolment,
\* whose every step counts as activity, cannot keep it open by itself.
AdminModeEnds == []<>~AdminActive \/ []<><<AtTheDoor>>_vars

\* A lockout screen whose lockout is over goes away, or a new lockout claims it.
LockoutScreenEnds ==
  (ui.state = "LOCKED" /\ ~LockedOut) ~> (ui.state # "LOCKED" \/ LockedOut)

---------------------------------------------------------------------------
(* What the documents say and the code does not do.                        *)

\* user_admin.h: the mode is entered only after the master password has been
\* verified (which the manager does when an entry of its own completes).
AdminNeedsMasterPassword ==
  [][~AdminActive /\ AdminActive' =>
       pwd.callback = "auth" /\ pwd'.state = "COMPLETE"]_vars

=============================================================================
