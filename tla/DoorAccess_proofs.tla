--------------------------- MODULE DoorAccess_proofs ---------------------------
(***************************************************************************)
(* Proofs about DoorAccess for every value of its constants.               *)
(*                                                                         *)
(* First type correctness; then one inductive invariant, the conjunction   *)
(* of the four safety invariants with TypeOK (each of the last three needs *)
(* AdminEntryOwned to be preserved); then the action properties, each from *)
(* that invariant.                                                         *)
(***************************************************************************)
EXTENDS DoorAccess, TLAPS

---------------------------------------------------------------------------
(* What the operators on records return.                                   *)

\* Counting a failure keeps the eight-bit counter in its range.
LEMMA FailCountedType ==
  ASSUME NEW a \in AuthRecord
  PROVE  FailCounted(a) \in AuthRecord
<1> DEFINE n == (a.fails + 1) % FailModulus
<1>1. n \in 0..(FailModulus - 1)
  BY AuthAssumption DEF AuthRecord
<1>2. FailCounted(a) = IF n >= MaxFail
                       THEN [state |-> "LOCKED", fails |-> n, lockAge |-> 0]
                       ELSE [state |-> IF a.state = "LOCKED" THEN "LOCKED" ELSE "IDLE",
                             fails |-> n, lockAge |-> a.lockAge]
  BY DEF FailCounted
<1> HIDE DEF n
<1> QED
  BY <1>1, <1>2, AuthAssumption DEF AuthRecord, AuthState

\* The lockout test keeps the type.
LEMMA LockoutExpiredType ==
  ASSUME NEW a \in AuthRecord
  PROVE  LockoutExpired(a) \in AuthRecord
  BY AuthAssumption DEF AuthRecord, AuthState, AuthIdle, LockoutExpired

\* The record operators of the administration mode keep its type.
LEMMA AdminRecordOps ==
  ASSUME NEW a \in AdminRecord
  PROVE  /\ Touched(a) \in AdminRecord
         /\ AdminReset(a) \in AdminRecord
         /\ ToMenu(a) \in AdminRecord
         /\ AdminEntered(a) \in AdminRecord
         /\ Touched(ToMenu(a)) \in AdminRecord
         /\ \A reason : AddUserPasswordDone(a, reason) \in AdminRecord
         /\ \A reason : MasterPwdDone(a, reason) \in AdminRecord
<1> USE AdminAssumption, PwdAssumption DEF AdminRecord, AdminState, AddStep
<1>1. ASSUME NEW b \in AdminRecord
      PROVE  Touched(b) \in AdminRecord /\ Touched(b).pwdStep = b.pwdStep
  BY DEF Touched
<1>2. AdminReset(a) \in AdminRecord
  BY DEF AdminReset
<1>3. ToMenu(a) \in AdminRecord
  BY <1>2 DEF ToMenu
<1>4. Touched(ToMenu(a)) \in AdminRecord
  BY <1>1, <1>3
<1>5. ASSUME NEW reason PROVE AddUserPasswordDone(a, reason) \in AdminRecord
  <2> DEFINE b == IF a.state = "LOCKED" THEN a ELSE [a EXCEPT !.addStep = "CONFIRM"]
  <2>1. b \in AdminRecord
    OBVIOUS
  <2>2. AddUserPasswordDone(a, reason) \in {b, Touched(b)}
    BY DEF AddUserPasswordDone
  <2> QED
    BY <1>1, <2>1, <2>2
<1>6. ASSUME NEW reason PROVE MasterPwdDone(a, reason) \in AdminRecord
  <2>1. CASE MasterPwdContinues(a, reason)
    <3> DEFINE t == Touched(a)
    <3>1. t \in AdminRecord /\ t.pwdStep + 1 \in 0..2
      BY <1>1, <2>1 DEF MasterPwdContinues
    <3>2. MasterPwdDone(a, reason) = [t EXCEPT !.pwdStep = t.pwdStep + 1]
      BY <2>1 DEF MasterPwdDone
    <3> HIDE DEF t
    <3> QED
      BY <3>1, <3>2
  <2>2. CASE ~MasterPwdContinues(a, reason)
    BY <1>3, <1>4, <2>2 DEF MasterPwdDone
  <2> QED
    BY <2>1, <2>2
<1> QED
  BY <1>1, <1>2, <1>3, <1>4, <1>5, <1>6 DEF AdminEntered

\* A new entry with at most one digit, and an ended one, have the type.
LEMMA PwdRecordOps ==
  /\ \A cb \in PwdCallback, n \in 0..1 : PwdStarted(cb, n) \in PwdRecord
  /\ \A reason \in PwdState : PwdEnded(reason) \in PwdRecord
  BY PwdAssumption DEF PwdStarted, PwdEnded, PwdRecord, PwdState, PwdCallback

\* A screen just shown, and one shown over another, have the type.
LEMMA UiRecordOps ==
  ASSUME NEW screen \in UiState
  PROVE  /\ UiScreen(screen) \in UiRecord /\ UiScreen(screen).age <= UiLimit(UiScreen(screen).state)
         /\ \A u \in UiRecord : 
              u.age <= UiLimit(u.state) =>
              UiSet(u, screen) \in UiRecord /\ UiSet(u, screen).age <= UiLimit(UiSet(u, screen).state)
  BY UiAssumption DEF UiScreen, UiSet, UiRecord, UiLimit, UiState

---------------------------------------------------------------------------
(* Type correctness.                                                       *)

\* A verdict keeps the types of all it touches.
LEMMA VerdictType ==
  ASSUME AuthTypeOK, DoorTypeOK,
         NEW u \in UiRecord, u.age <= UiLimit(u.state),
         NEW found, AuthVerdict(found, u)
  PROVE  AuthTypeOK' /\ DoorTypeOK' /\ UiTypeOK'
<1>1. CASE auth_success(u)
  <2>1. AuthTypeOK'
    BY <1>1, AuthAssumption DEF auth_success, AuthTypeOK, AuthRecord, AuthState, AuthIdle
  <2>2. DoorTypeOK'
    BY <1>1, DoorAssumption
    DEF auth_success, door_control_unlock, DoorTypeOK, DoorRecord, OpenTimes
  <2>3. UiTypeOK'
    BY <1>1, UiRecordOps DEF auth_success, UiTypeOK, UiState
  <2> QED
    BY <2>1, <2>2, <2>3
<1>2. CASE auth_failed(u)
  <2>1. AuthTypeOK'
    BY <1>2, FailCountedType DEF auth_failed, AuthTypeOK
  <2>2. DoorTypeOK'
    BY <1>2 DEF auth_failed, DoorTypeOK
  <2>3. UiTypeOK'
    BY <1>2, UiRecordOps DEF auth_failed, FailureShown, UiTypeOK, UiState
  <2> QED
    BY <2>1, <2>2, <2>3
<1> QED
  BY <1>1, <1>2 DEF AuthVerdict

\* So does a scan, whose reader screen is shown first.
LEMMA ScanType ==
  ASSUME AuthTypeOK, DoorTypeOK, UiTypeOK,
         NEW screen \in UiState, NEW found, AuthProcessScan(found, screen)
  PROVE  AuthTypeOK' /\ DoorTypeOK' /\ UiTypeOK'
<1>1. CASE UNCHANGED <<auth, door, ui>>
  BY <1>1 DEF AuthTypeOK, DoorTypeOK, UiTypeOK
<1>2. CASE AuthVerdict(found, UiSet(ui, screen))
  BY <1>2, UiRecordOps, VerdictType DEF UiTypeOK
<1> QED
  BY <1>1, <1>2 DEF AuthProcessScan

\* The end of an entry, with all its callbacks do.
LEMMA PwdEndType ==
  ASSUME TypeOK, NEW reason \in PwdState, NEW a \in AdminRecord, PwdEnd(reason, a)
  PROVE  AuthTypeOK' /\ PwdTypeOK' /\ admin' \in AdminRecord /\ DoorTypeOK' /\ UiTypeOK'
<1> USE DEF TypeOK
<1>1. CASE AuthPwdEnd(reason, a)
  <2>1. PwdTypeOK'
    BY <1>1, PwdRecordOps DEF AuthPwdEnd, PwdTypeOK
  <2>2. CASE auth_process_password(a)
    <3>1. CASE LockedOut /\ admin' = a /\ UNCHANGED <<auth, door, ui>>
      BY <2>1, <3>1 DEF AuthTypeOK, DoorTypeOK, UiTypeOK
    <3>2. CASE /\ auth' = AuthIdle(auth.fails)
               /\ admin' = AdminEntered(a)
               /\ ui' = UiScreen("ADMIN")
               /\ UNCHANGED door
      <4>1. AuthTypeOK'
        BY <3>2, AuthAssumption DEF AuthTypeOK, AuthRecord, AuthState, AuthIdle
      <4>2. UiTypeOK'
        BY <3>2, UiRecordOps DEF UiTypeOK, UiState
      <4> QED
        BY <2>1, <3>2, <4>1, <4>2, AdminRecordOps DEF DoorTypeOK
    <3>3. CASE (\E found \in Lookup : AuthVerdict(found, ui)) /\ admin' = a
      BY <2>1, <3>3, VerdictType DEF UiTypeOK
    <3> QED
      BY <2>2, <3>1, <3>2, <3>3 DEF auth_process_password
  <2>3. CASE /\ auth' = AuthIdle(auth.fails)
             /\ admin' = a
             /\ UNCHANGED <<door, ui>>
    <3>1. AuthTypeOK'
      BY <2>3, AuthAssumption DEF AuthTypeOK, AuthRecord, AuthState, AuthIdle
    <3> QED
      BY <2>1, <2>3, <3>1 DEF DoorTypeOK, UiTypeOK
  <2> QED
    BY <1>1, <2>2, <2>3 DEF AuthPwdEnd
<1>2. CASE AdminPwdEnd(reason, a) /\ UNCHANGED auth
  <2>1. PwdTypeOK'
    BY <1>2, PwdRecordOps DEF AdminPwdEnd, PwdTypeOK, PwdCallback
  <2>2. admin' \in AdminRecord
    BY <1>2, AdminRecordOps DEF AdminPwdEnd
  <2> QED
    BY <1>2, <2>1, <2>2 DEF AdminPwdEnd, AuthTypeOK, DoorTypeOK, UiTypeOK
<1> QED
  BY <1>1, <1>2 DEF PwdEnd

\* A key passed to a running entry.
LEMMA PwdKeyType ==
  ASSUME TypeOK, NEW k, NEW a \in AdminRecord, PwdKey(k, a)
  PROVE  AuthTypeOK' /\ PwdTypeOK' /\ admin' \in AdminRecord /\ DoorTypeOK' /\ UiTypeOK'
<1>1. CASE PwdEditKey(k) /\ admin' = a /\ UNCHANGED <<auth, door, ui>>
  <2>1. PwdTypeOK'
    BY <1>1, PwdAssumption DEF TypeOK, PwdEditKey, PwdTypeOK, PwdRecord
  <2> QED
    BY <1>1, <2>1 DEF TypeOK, AuthTypeOK, DoorTypeOK, UiTypeOK
<1>2. CASE \E reason \in PwdState : PwdEndKey(k, reason) /\ PwdEnd(reason, a)
  BY <1>2, PwdEndType
<1> QED
  BY <1>1, <1>2 DEF PwdKey

\* The enrolment as the dialogue starts it, resets it and drives it.
LEMMA FpRecordOps ==
  /\ FpIdle \in FpRecord
  /\ FpStarted \in FpRecord
  /\ fp \in FpRecord => FpFailed \in FpRecord
  /\ \A s \in DOMAIN FpSteps : FpSteps[s] \in FpState \ {"IDLE"}
<1> USE AdminAssumption DEF FpAt, FpRecord, FpState
<1>1. FpIdle \in FpRecord /\ FpStarted \in FpRecord
  BY DEF FpIdle, FpStarted
<1>2. fp \in FpRecord => FpFailed \in FpRecord
  BY DEF FpFailed
<1>3. \A s \in DOMAIN FpSteps : FpSteps[s] \in FpState \ {"IDLE"}
  BY DEF FpSteps
<1> QED
  BY <1>1, <1>2, <1>3

\* Leaving the mode.
LEMMA AdminExitType ==
  ASSUME NEW a \in AdminRecord, user_admin_exit(a)
  PROVE  AdminTypeOK' /\ UiTypeOK'
  BY AdminRecordOps, FpRecordOps, UiRecordOps
  DEF user_admin_exit, AdminTypeOK, UiTypeOK, UiState

\* A key in administration mode, while no entry runs.
LEMMA AdminKeyType ==
  ASSUME TypeOK, NEW k, AdminKey(k)
  PROVE  PwdTypeOK' /\ AdminTypeOK' /\ UiTypeOK'
<1> DEFINE t == Touched(admin)
<1>0. /\ t \in AdminRecord
      /\ \A s \in AdminState : [t EXCEPT !.state = s] \in AdminRecord
      /\ \A s \in AddStep : [t EXCEPT !.addStep = s] \in AdminRecord
      /\ \A s \in BOOLEAN : [t EXCEPT !.selected = s] \in AdminRecord
      /\ ToMenu(admin) \in AdminRecord /\ Touched(ToMenu(admin)) \in AdminRecord
  <2>1. t \in AdminRecord
    BY AdminRecordOps DEF TypeOK, AdminTypeOK
  <2> HIDE DEF t
  <2>2. /\ \A s \in AdminState : [t EXCEPT !.state = s] \in AdminRecord
        /\ \A s \in AddStep : [t EXCEPT !.addStep = s] \in AdminRecord
        /\ \A s \in BOOLEAN : [t EXCEPT !.selected = s] \in AdminRecord
    BY <2>1 DEF AdminRecord
  <2> QED
    BY <2>1, <2>2, AdminRecordOps DEF TypeOK, AdminTypeOK
<1>1. /\ pwd \in PwdRecord /\ fp \in FpRecord /\ admin.selected \in BOOLEAN
      /\ ui \in UiRecord /\ ui.age <= UiLimit(ui.state)
  BY DEF TypeOK, PwdTypeOK, AdminTypeOK, UiTypeOK, AdminRecord
<1>2. CASE AdminMenuKey(k)
  <2>1. CASE k \in {12, 15}
    BY <1>0, <1>1, <1>2, <2>1, AdminExitType DEF AdminMenuKey, PwdTypeOK
  <2>2. CASE k \notin {12, 15}
    BY <1>0, <1>1, <1>2, <2>2, FpRecordOps, PwdRecordOps
    DEF AdminMenuKey, PwdTypeOK, AdminTypeOK, UiTypeOK, AdminState, PwdCallback
  <2> QED
    BY <2>1, <2>2
<1>3. CASE AdminAddUserKey(k)
  <2> UiTypeOK'
    BY <1>1, <1>3 DEF AdminAddUserKey, UiTypeOK
  <2>1. CASE AddUserConfirm
    BY <1>0, <1>1, <2>1, FpRecordOps, PwdRecordOps
    DEF AddUserConfirm, PwdTypeOK, AdminTypeOK, AddStep, PwdCallback
  <2>2. CASE user_admin_cancel
    BY <1>0, <1>1, <2>2, FpRecordOps DEF user_admin_cancel, PwdTypeOK, AdminTypeOK
  <2>3. CASE k \notin {12, 15, 16}
    BY <1>0, <1>1, <1>3, <2>3, PwdRecordOps
    DEF AdminAddUserKey, PwdTypeOK, AdminTypeOK, PwdCallback
  <2> QED
    BY <1>3, <2>1, <2>2, <2>3 DEF AdminAddUserKey
<1>4. CASE AdminDeleteUserKey(k)
  <2> UiTypeOK'
    BY <1>1, <1>4 DEF AdminDeleteUserKey, UiTypeOK
  <2>1. CASE user_admin_cancel
    BY <1>0, <1>1, <2>1, FpRecordOps DEF user_admin_cancel, PwdTypeOK, AdminTypeOK
  <2>2. CASE ~user_admin_cancel
    BY <1>0, <1>1, <1>4, <2>2 DEF AdminDeleteUserKey, PwdTypeOK, AdminTypeOK
  <2> QED
    BY <2>1, <2>2
<1>5. CASE AdminListKey
  BY <1>0, <1>1, <1>5 DEF AdminListKey, PwdTypeOK, AdminTypeOK, UiTypeOK
<1> QED
  BY <1>2, <1>3, <1>4, <1>5 DEF AdminKey

\* The passage of time keeps every age within its limit.
LEMMA TickType == TypeOK /\ Tick => TypeOK'
<1> SUFFICES ASSUME TypeOK, Tick PROVE TypeOK'
  OBVIOUS
<1> USE DEF TypeOK, Tick
<1>0. \A limit \in Nat : \A age \in 0..limit : Older(age, limit) \in 0..limit
  BY DEF Older
<1>1. AuthTypeOK'
  BY <1>0, AuthAssumption DEF AuthTick, AuthTypeOK, AuthRecord
<1>2. PwdTypeOK'
  BY <1>0, PwdAssumption DEF PwdTick, PwdTypeOK, PwdRecord
<1>3. AdminTypeOK'
  BY <1>0, AdminAssumption, PwdAssumption DEF AdminTick, AdminTypeOK, AdminRecord, FpRecord
<1>4. DoorTypeOK'
  BY <1>0, DoorAssumption DEF DoorTick, DoorTypeOK, DoorRecord, OpenTimes
<1>5. UiTypeOK'
  BY <1>0, UiAssumption DEF UiTick, UiTypeOK, UiRecord, UiLimit
<1>6. (card \in 0..CardDebounce)'
  BY <1>0, CardAssumption
<1> QED
  BY <1>1, <1>2, <1>3, <1>4, <1>5, <1>6

\* Every step of the system keeps the types.
LEMMA TypeStep == TypeOK /\ [Next]_vars => TypeOK'
<1> SUFFICES ASSUME TypeOK, [Next]_vars PROVE TypeOK'
  OBVIOUS
<1>0. /\ admin \in AdminRecord /\ Touched(admin) \in AdminRecord
      /\ ui \in UiRecord /\ ui.age <= UiLimit(ui.state)
  BY AdminRecordOps DEF TypeOK, AdminTypeOK, UiTypeOK
<1>1. ASSUME NEW k \in 1..16, KeyInAdmin(k) PROVE TypeOK'
  <2>1. CASE PwdActive /\ PwdKey(k, Touched(admin)) /\ UNCHANGED fp
    BY <1>0, <1>1, <2>1, PwdKeyType DEF KeyInAdmin, TypeOK, AdminTypeOK
  <2>2. CASE ~PwdActive /\ AdminKey(k) /\ UNCHANGED <<auth, door>>
    BY <1>1, <2>2, AdminKeyType DEF KeyInAdmin, TypeOK, AuthTypeOK, DoorTypeOK
  <2> QED
    BY <1>1, <2>1, <2>2 DEF KeyInAdmin
<1>2. ASSUME NEW k \in 1..16, KeyInEntry(k) PROVE TypeOK'
  BY <1>0, <1>2, PwdKeyType, PwdEndType DEF KeyInEntry, TypeOK, AdminTypeOK, PwdState
<1>3. ASSUME NEW k \in 1..16, KeyStartsEntry(k) PROVE TypeOK'
  <2>1. AuthTypeOK'
    BY <1>3 DEF KeyStartsEntry, auth_start_password, TypeOK, AuthTypeOK, AuthRecord, AuthState
  <2>2. PwdTypeOK' /\ UiTypeOK'
    BY <1>0, <1>3, PwdRecordOps, UiRecordOps
    DEF KeyStartsEntry, auth_start_password, PwdTypeOK, UiTypeOK, PwdCallback, UiState
  <2> QED
    BY <1>3, <2>1, <2>2 DEF KeyStartsEntry, TypeOK, AdminTypeOK, DoorTypeOK
<1>4. CASE KeyFinger
  BY <1>4, ScanType DEF KeyFinger, TypeOK, PwdTypeOK, AdminTypeOK, UiState
<1>5. CASE KeyForceExit
  BY <1>0, <1>5, AdminExitType DEF KeyForceExit, TypeOK, AuthTypeOK, PwdTypeOK, DoorTypeOK
<1>6. CASE RfidTask
  <2> card' \in 0..CardDebounce
    BY <1>6, CardAssumption DEF RfidTask
  <2>1. CASE AdminActive /\ user_admin_on_rfid /\ UNCHANGED <<auth, door, ui>>
    <3>1. admin' \in AdminRecord
      BY <1>0, <2>1 DEF user_admin_on_rfid, AdminRecord, AddStep
    <3> QED
      BY <1>6, <2>1, <3>1, FpRecordOps
      DEF user_admin_on_rfid, RfidTask, TypeOK, AuthTypeOK, PwdTypeOK, AdminTypeOK, DoorTypeOK, UiTypeOK
  <2>2. CASE /\ \E found \in Lookup : AuthProcessScan(found, "READING_CARD")
             /\ UNCHANGED <<admin, fp>>
    BY <1>6, <2>2, ScanType DEF RfidTask, TypeOK, PwdTypeOK, AdminTypeOK, UiState
  <2> QED
    BY <1>6, <2>1, <2>2 DEF RfidTask
<1>7. CASE RemoteUnlock \/ RemoteLock \/ DoorUpdate
  <2> DoorTypeOK'
    BY <1>7, DoorAssumption
    DEF RemoteUnlock, RemoteLock, DoorUpdate, door_control_update, door_control_unlock,
        door_control_lock, TypeOK, DoorTypeOK, DoorRecord, OpenTimes
  <2> QED
    BY <1>7 DEF RemoteUnlock, RemoteLock, DoorUpdate, TypeOK, AuthTypeOK, PwdTypeOK,
                AdminTypeOK, UiTypeOK
<1>8. CASE AuthUpdate
  <2>1. AuthTypeOK'
    BY <1>8, FailCountedType, LockoutExpiredType DEF AuthUpdate, TypeOK, AuthTypeOK
  <2>2. UiTypeOK'
    BY <1>0, <1>8, UiRecordOps
    DEF AuthUpdate, AdminPwdEnd, FailureShown, TypeOK, UiTypeOK, UiState
  <2>3. PwdTypeOK'
    BY <1>8, PwdRecordOps DEF AuthUpdate, AdminPwdEnd, TypeOK, PwdTypeOK, PwdState, PwdCallback
  <2>4. AdminTypeOK'
    BY <1>0, <1>8, AdminRecordOps DEF AuthUpdate, AdminPwdEnd, TypeOK, AdminTypeOK
  <2> QED
    BY <1>8, <2>1, <2>2, <2>3, <2>4 DEF AuthUpdate, AdminPwdEnd, TypeOK, DoorTypeOK
<1>9. CASE UiTask
  BY <1>9, UiRecordOps
  DEF UiTask, UiUpdate, TypeOK, AuthTypeOK, PwdTypeOK, AdminTypeOK, DoorTypeOK, UiTypeOK, UiState
<1>10. CASE EnrollSensor
  <2>1. fp' \in FpRecord
    <3>1. FpAt(FpSteps[fp.state], fp.attempt, fp.retry) \in FpRecord
      BY <1>10, FpRecordOps, AdminAssumption
      DEF EnrollSensor, FpSensorAnswer, FpAt, TypeOK, AdminTypeOK, FpRecord
    <3> QED
      BY <1>10, <3>1, FpRecordOps DEF EnrollSensor, FpSensorAnswer, TypeOK, AdminTypeOK
  <2> QED
    BY <1>0, <1>10, <2>1
    DEF EnrollSensor, FpSensorAnswer, TypeOK, AuthTypeOK, PwdTypeOK, AdminTypeOK, DoorTypeOK, UiTypeOK
<1>11. CASE EnrollTimed
  <2>1. [Touched(admin) EXCEPT !.addStep = "PASSWORD"] \in AdminRecord
    <3> DEFINE t == Touched(admin)
    <3> t \in AdminRecord
      BY <1>0
    <3> HIDE DEF t
    <3> [t EXCEPT !.addStep = "PASSWORD"] \in AdminRecord
      BY DEF AdminRecord, AddStep
    <3> QED
      BY DEF t
  <2>2. fp' \in FpRecord
    <3>1. fp' \in {FpIdle, FpAt("WAIT_FINGER_1", fp.attempt, FALSE)}
      BY <1>11 DEF EnrollTimed, FpDone, FpRetry
    <3>2. FpAt("WAIT_FINGER_1", fp.attempt, FALSE) \in FpRecord
      BY AdminAssumption DEF FpAt, TypeOK, AdminTypeOK, FpRecord, FpState
    <3> QED
      BY <3>1, <3>2, FpRecordOps
  <2> QED
    BY <1>0, <1>11, <2>1, <2>2
    DEF EnrollTimed, FpDone, FpRetry, TypeOK, AuthTypeOK, PwdTypeOK, AdminTypeOK, DoorTypeOK, UiTypeOK
<1>12. CASE AdminUpdate
  BY <1>0, <1>12, AdminExitType DEF AdminUpdate, TypeOK, AuthTypeOK, PwdTypeOK, DoorTypeOK
<1>13. CASE Tick
  BY <1>13, TickType
<1>14. CASE UNCHANGED vars
  BY <1>14 DEF vars, TypeOK, AuthTypeOK, PwdTypeOK, AdminTypeOK, DoorTypeOK, UiTypeOK
<1> QED
  BY <1>1, <1>2, <1>3, <1>4, <1>5, <1>6, <1>7, <1>8, <1>9, <1>10, <1>11, <1>12, <1>13, <1>14
  DEF Next, AtTheDoor, MatrixKey

\* Every variable has its type, the counter its eight bits and every age its
\* limit, in every reachable state.
THEOREM TypeCorrect == Spec => []TypeOK
<1>1. Init => TypeOK
  BY PwdAssumption, DoorAssumption, UiAssumption, AuthAssumption, AdminAssumption, CardAssumption
  DEF Init, AuthInit, AuthIdle, PwdInit, AdminInit, DoorInit, UiInit, UiScreen, UiLimit, FpIdle, FpAt,
      TypeOK, AuthTypeOK, AuthRecord, AuthState, PwdTypeOK, PwdRecord, PwdState, PwdCallback,
      AdminTypeOK, AdminRecord, AdminState, AddStep, FpRecord, FpState, DoorTypeOK, DoorRecord,
      UiTypeOK, UiRecord, UiState
<1> QED
  BY <1>1, TypeStep, PTL DEF Spec

---------------------------------------------------------------------------
(* The inductive invariant.  Its parts lean on each other: an entry that    *)
(* runs in administration mode is the dialogue's own (AdminEntryOwned), so  *)
(* what its end does to the mode moves neither an enrolment                 *)
(* (EnrolOnlyInItsStep) nor the manager (PasswordWaitHasEntry).             *)

Safety ==
  /\ PasswordWaitHasEntry
  /\ AdminEntryOwned
  /\ EnrolOnlyInItsStep
  /\ AdminScreenIsAdmin

IInv == TypeOK /\ Safety

\* What the record operators do to the fields the invariant looks at.
LEMMA AdminFields ==
  ASSUME NEW a \in AdminRecord
  PROVE  /\ Touched(a).state = a.state /\ Touched(a).addStep = a.addStep
         /\ AdminReset(a).state = "LOCKED"
         /\ ToMenu(a).state = "UNLOCKED" /\ Touched(ToMenu(a)).state = "UNLOCKED"
         /\ \A reason : AddUserPasswordDone(a, reason).state = a.state
         /\ \A reason : MasterPwdDone(a, reason).state =
                           IF MasterPwdContinues(a, reason) THEN a.state ELSE "UNLOCKED"
<1>1. ASSUME NEW b \in AdminRecord
      PROVE  Touched(b).state = b.state /\ Touched(b).addStep = b.addStep
  BY DEF Touched, AdminRecord
<1>2. AdminReset(a).state = "LOCKED" /\ ToMenu(a).state = "UNLOCKED"
  BY DEF AdminReset, ToMenu
<1>3. Touched(ToMenu(a)).state = "UNLOCKED"
  BY <1>1, <1>2, AdminRecordOps
<1>4. ASSUME NEW reason PROVE AddUserPasswordDone(a, reason).state = a.state
  <2> DEFINE b == IF a.state = "LOCKED" THEN a ELSE [a EXCEPT !.addStep = "CONFIRM"]
  <2>1. b \in AdminRecord /\ b.state = a.state
    BY DEF AdminRecord, AddStep
  <2>2. AddUserPasswordDone(a, reason) \in {b, Touched(b)}
    BY DEF AddUserPasswordDone
  <2> QED
    BY <1>1, <2>1, <2>2
<1>5. ASSUME NEW reason
      PROVE  MasterPwdDone(a, reason).state =
               IF MasterPwdContinues(a, reason) THEN a.state ELSE "UNLOCKED"
  <2> DEFINE t == Touched(a)
  <2>1. t \in AdminRecord /\ t.state = a.state
    BY <1>1, AdminRecordOps
  <2>2. [t EXCEPT !.pwdStep = t.pwdStep + 1].state = t.state
    BY <2>1 DEF AdminRecord
  <2>3. MasterPwdDone(a, reason) = IF MasterPwdContinues(a, reason)
                                   THEN [t EXCEPT !.pwdStep = t.pwdStep + 1]
                                   ELSE MasterPwdDone(a, reason)
    BY DEF MasterPwdDone
  <2> HIDE DEF t
  <2>4. CASE MasterPwdContinues(a, reason)
    BY <2>1, <2>2, <2>3, <2>4
  <2>5. CASE ~MasterPwdContinues(a, reason)
    BY <1>2, <1>3, <2>5 DEF MasterPwdDone
  <2> QED
    BY <2>4, <2>5
<1> QED
  BY <1>1, <1>2, <1>3, <1>4, <1>5

\* After a verdict the manager no longer waits and a result is on the screen.
LEMMA VerdictFields ==
  ASSUME auth \in AuthRecord, NEW u, NEW found, AuthVerdict(found, u)
  PROVE  /\ auth'.state \in {"IDLE", "LOCKED"}
         /\ ui'.state \in {"AUTH_SUCCESS", "AUTH_FAILED", "LOCKED"}
<1>1. CASE auth_success(u)
  BY <1>1 DEF auth_success, AuthIdle, UiSet, UiScreen
<1>2. CASE auth_failed(u)
  BY <1>2 DEF auth_failed, FailCounted, FailureShown, UiSet, UiScreen
<1> QED
  BY <1>1, <1>2 DEF AuthVerdict

\* A scan leaves the manager waiting only if the lockout made it ignore the scan.
LEMMA ScanFields ==
  ASSUME auth \in AuthRecord, NEW screen, NEW found, AuthProcessScan(found, screen)
  PROVE  /\ auth'.state # "PASSWORD_INPUT"
         /\ ui'.state # "ADMIN" \/ ui' = ui
<1>1. CASE LockedOut /\ UNCHANGED <<auth, door, ui>>
  BY <1>1 DEF LockedOut
<1>2. CASE AuthVerdict(found, UiSet(ui, screen))
  BY <1>2, VerdictFields
<1> QED
  BY <1>1, <1>2 DEF AuthProcessScan

\* The end of an entry, whose callback may enter, leave or resume the mode.
LEMMA PwdEndSafety ==
  ASSUME IInv, NEW reason \in PwdState \ {"INPUTTING"}, NEW a \in {admin, Touched(admin)},
         PwdActive, PwdEnd(reason, a), UNCHANGED fp
  PROVE  Safety'
<1>0. /\ a \in AdminRecord /\ a.state = admin.state
      /\ auth \in AuthRecord /\ fp.state = "IDLE"
  <2>1. admin \in AdminRecord /\ auth \in AuthRecord
    BY DEF IInv, TypeOK, AdminTypeOK, AuthTypeOK
  <2>2. a \in AdminRecord /\ a.state = admin.state
    BY <2>1, AdminRecordOps, AdminFields
  <2>3. ~Enrolling
    BY DEF IInv, Safety, AdminEntryOwned, Enrolling, AdminActive
  <2> QED
    BY <2>1, <2>2, <2>3 DEF IInv, Safety, EnrolOnlyInItsStep
<1>1. EnrolOnlyInItsStep'
  BY <1>0 DEF EnrolOnlyInItsStep
<1>2. CASE AuthPwdEnd(reason, a)
  <2>1. ~PwdActive' /\ admin.state = "LOCKED"
    BY <1>2 DEF AuthPwdEnd, PwdEnded, PwdActive, IInv, Safety, AdminEntryOwned, AdminActive
  <2>2. ui.state # "ADMIN"
    BY <2>1 DEF IInv, Safety, AdminScreenIsAdmin, AdminActive
  <2>3. CASE auth_process_password(a)
    <3>1. CASE LockedOut /\ admin' = a /\ UNCHANGED <<auth, door, ui>>
      BY <1>0, <1>1, <2>1, <2>2, <3>1
      DEF Safety, PasswordWaitHasEntry, AdminEntryOwned, AdminScreenIsAdmin, AdminActive, LockedOut
    <3>2. CASE auth' = AuthIdle(auth.fails) /\ admin' = AdminEntered(a)
      BY <1>0, <1>1, <2>1, <3>2, AdminFields
      DEF AuthIdle, AdminEntered, Safety, PasswordWaitHasEntry, AdminEntryOwned,
          AdminScreenIsAdmin, AdminActive
    <3>3. CASE (\E found \in Lookup : AuthVerdict(found, ui)) /\ admin' = a
      <4>1. auth'.state # "PASSWORD_INPUT" /\ ui'.state # "ADMIN"
        BY <1>0, <3>3, VerdictFields
      <4> QED
        BY <1>0, <1>1, <2>1, <3>3, <4>1
        DEF Safety, PasswordWaitHasEntry, AdminEntryOwned, AdminScreenIsAdmin, AdminActive
    <3> QED
      BY <2>3, <3>1, <3>2, <3>3 DEF auth_process_password
  <2>4. CASE auth' = AuthIdle(auth.fails) /\ admin' = a /\ UNCHANGED <<door, ui>>
    BY <1>0, <1>1, <2>1, <2>2, <2>4
    DEF AuthIdle, Safety, PasswordWaitHasEntry, AdminEntryOwned, AdminScreenIsAdmin, AdminActive
  <2> QED
    BY <1>2, <2>3, <2>4 DEF AuthPwdEnd
<1>3. CASE AdminPwdEnd(reason, a) /\ UNCHANGED auth
  <2>1. auth.state # "PASSWORD_INPUT"
    BY <1>3 DEF AdminPwdEnd, IInv, Safety, PasswordWaitHasEntry
  <2>2. CASE pwd.callback = "addUser"
    <3>1. /\ ~PwdActive' /\ ui' = ui /\ admin.state # "CHANGE_MASTER_PWD"
          /\ admin'.state = admin.state
      BY <1>0, <1>3, <2>2, AdminFields
      DEF AdminPwdEnd, PwdEnded, PwdActive, IInv, Safety, AdminEntryOwned, AdminActive
    <3> QED
      BY <1>1, <1>3, <2>1, <3>1
      DEF IInv, Safety, PasswordWaitHasEntry, AdminEntryOwned, AdminScreenIsAdmin, AdminActive
  <2>3. CASE pwd.callback = "masterPwd"
    <3>1. admin.state \in {"LOCKED", "CHANGE_MASTER_PWD"} /\ ui' = ui
      BY <1>3, <2>3 DEF AdminPwdEnd, IInv, Safety, AdminEntryOwned, AdminActive
    <3>2. \/ /\ PwdActive' /\ pwd'.callback = "masterPwd"
             /\ admin'.state = admin.state
          \/ ~PwdActive' /\ admin'.state = "UNLOCKED"
      BY <1>0, <1>3, <2>3, AdminFields
      DEF AdminPwdEnd, MasterPwdContinues, PwdStarted, PwdEnded, PwdActive
    <3> QED
      BY <1>1, <1>3, <2>1, <3>1, <3>2
      DEF IInv, Safety, PasswordWaitHasEntry, AdminEntryOwned, AdminScreenIsAdmin, AdminActive
  <2> QED
    BY <1>3, <2>2, <2>3 DEF AdminPwdEnd
<1> QED
  BY <1>2, <1>3 DEF PwdEnd

\* A key given to the entry that is running.
LEMMA PwdKeySafety ==
  ASSUME IInv, NEW k, NEW a \in {admin, Touched(admin)},
         PwdActive, PwdKey(k, a), UNCHANGED fp
  PROVE  Safety'
<1>1. CASE PwdEditKey(k) /\ admin' = a /\ UNCHANGED <<auth, door, ui>>
  <2>1. a.state = admin.state /\ a.addStep = admin.addStep
    BY AdminFields DEF IInv, TypeOK, AdminTypeOK
  <2>2. PwdActive' /\ pwd'.callback = pwd.callback
    BY <1>1 DEF PwdEditKey, PwdActive, IInv, TypeOK, PwdTypeOK, PwdRecord
  <2> QED
    BY <1>1, <2>1, <2>2
    DEF IInv, Safety, PasswordWaitHasEntry, AdminEntryOwned, EnrolOnlyInItsStep, Enrolling,
        AdminScreenIsAdmin, AdminActive
<1>2. CASE \E reason \in PwdState : PwdEndKey(k, reason) /\ PwdEnd(reason, a)
  BY <1>2, PwdEndSafety DEF PwdEndKey
<1> QED
  BY <1>1, <1>2 DEF PwdKey

\* A key of a dialogue: no entry runs, so the manager does not wait and the
\* master-password dialogue is not the one on the screen.
LEMMA AdminKeySafety ==
  ASSUME IInv, NEW k, AdminActive, ~PwdActive, AdminKey(k), UNCHANGED auth
  PROVE  Safety'
<1> DEFINE t == Touched(admin)
<1>0. /\ t \in AdminRecord /\ t.state = admin.state /\ t.addStep = admin.addStep
      /\ Touched(ToMenu(admin)).state = "UNLOCKED"
      /\ auth.state # "PASSWORD_INPUT"
      /\ fp.state # "IDLE" => Enrolling
  BY AdminRecordOps, AdminFields
  DEF IInv, TypeOK, AdminTypeOK, Safety, PasswordWaitHasEntry, EnrolOnlyInItsStep
<1>1. ASSUME user_admin_exit(t), UNCHANGED pwd PROVE Safety'
  BY <1>0, <1>1, AdminFields
  DEF user_admin_exit, UiScreen, FpIdle, FpAt, Safety, PasswordWaitHasEntry, AdminEntryOwned,
      EnrolOnlyInItsStep, AdminScreenIsAdmin, AdminActive
<1>2. ASSUME NEW s \in AdminState, t.state \notin {"ADD_USER", "LOCKED"},
             admin' = [t EXCEPT !.state = s], UNCHANGED ui,
             s # "LOCKED", s # "CHANGE_MASTER_PWD", UNCHANGED pwd,
             fp' = FpIdle \/ UNCHANGED fp
      PROVE  Safety'
  BY <1>0, <1>2
  DEF AdminRecord, FpIdle, FpAt, Safety, PasswordWaitHasEntry, AdminEntryOwned,
      EnrolOnlyInItsStep, Enrolling, AdminScreenIsAdmin, AdminActive, PwdActive
<1>3. ASSUME admin'.state = "UNLOCKED", UNCHANGED <<pwd, ui>>,
             fp' = FpIdle \/ (UNCHANGED fp /\ ~Enrolling)
      PROVE  Safety'
  BY <1>0, <1>3
  DEF FpIdle, FpAt, Safety, PasswordWaitHasEntry, AdminEntryOwned,
      EnrolOnlyInItsStep, Enrolling, AdminScreenIsAdmin, AdminActive, PwdActive
<1>4. CASE AdminMenuKey(k)
  <2>1. CASE k = 4
    BY <1>0, <1>4, <2>1
    DEF AdminMenuKey, PwdStarted, PwdActive, AdminRecord, Safety, PasswordWaitHasEntry,
        AdminEntryOwned, EnrolOnlyInItsStep, Enrolling, AdminScreenIsAdmin, AdminActive
  <2>2. CASE k \in {12, 15}
    BY <1>1, <1>4, <2>2 DEF AdminMenuKey
  <2>3. CASE k \in {1, 2, 3}
    BY <1>0, <1>2, <1>4, <2>3 DEF AdminMenuKey, AdminState
  <2>4. CASE k \notin {1, 2, 3, 4, 12, 15}
    BY <1>0, <1>3, <1>4, <2>4 DEF AdminMenuKey, Enrolling
  <2> QED
    BY <2>1, <2>2, <2>3, <2>4
<1>5. CASE AdminAddUserKey(k)
  <2>1. CASE AddUserConfirm
    <3>1. /\ [t EXCEPT !.addStep = "RFID"].state = t.state
          /\ [t EXCEPT !.addStep = "RFID"].addStep = "RFID"
          /\ [t EXCEPT !.addStep = "FINGERPRINT"].state = t.state
          /\ [t EXCEPT !.addStep = "FINGERPRINT"].addStep = "FINGERPRINT"
          /\ [t EXCEPT !.addStep = "PASSWORD"].state = t.state
          /\ [t EXCEPT !.addStep = "PASSWORD"].addStep = "PASSWORD"
      <4>1. t \in AdminRecord
        BY <1>0
      <4> HIDE DEF t
      <4> QED
        BY <4>1 DEF AdminRecord
    <3>2. CASE admin.addStep = "CONFIRM"
      BY <1>0, <1>3, <1>5, <2>1, <3>2 DEF AddUserConfirm, AdminAddUserKey, Enrolling
    <3>3. CASE admin.addStep = "PASSWORD"
      BY <1>0, <1>5, <2>1, <3>3
      DEF AddUserConfirm, AdminAddUserKey, Safety, PasswordWaitHasEntry, AdminEntryOwned,
          EnrolOnlyInItsStep, Enrolling, AdminScreenIsAdmin, AdminActive, PwdActive
    <3>4. CASE admin.addStep \in {"NAME", "RFID", "FINGERPRINT"}
      <4>1. admin.state = "ADD_USER" /\ UNCHANGED ui
        BY <1>5 DEF AdminAddUserKey
      <4>2. /\ admin'.state = "ADD_USER"
            /\ \/ admin'.addStep = "RFID" /\ UNCHANGED <<fp, pwd>> /\ fp.state = "IDLE"
               \/ admin'.addStep = "FINGERPRINT" /\ UNCHANGED pwd
               \/ admin'.addStep = "PASSWORD" /\ fp' = FpIdle /\ pwd' = PwdStarted("addUser", 0)
        <5>1. /\ t.state = "ADD_USER"
              /\ fp.state # "IDLE" => admin.addStep = "FINGERPRINT"
          BY <1>0, <4>1 DEF Enrolling
        <5> HIDE DEF t
        <5>2. CASE admin.addStep = "NAME" /\ admin' = [t EXCEPT !.addStep = "RFID"]
                   /\ UNCHANGED <<fp, pwd>>
          BY <3>1, <5>1, <5>2
        <5>3. CASE admin.addStep = "RFID" /\ admin' = [t EXCEPT !.addStep = "FINGERPRINT"]
                   /\ UNCHANGED pwd
          BY <3>1, <5>1, <5>3
        <5>4. CASE /\ admin' = [t EXCEPT !.addStep = "PASSWORD"]
                   /\ fp' = FpIdle /\ pwd' = PwdStarted("addUser", 0)
          BY <3>1, <5>1, <5>4
        <5> QED
          BY <2>1, <3>4, <5>2, <5>3, <5>4 DEF AddUserConfirm, t
      <4> QED
        BY <1>0, <4>1, <4>2
        DEF FpIdle, FpAt, PwdStarted, Safety, PasswordWaitHasEntry, AdminEntryOwned,
            EnrolOnlyInItsStep, Enrolling, AdminScreenIsAdmin, AdminActive, PwdActive
    <3> QED
      BY <2>1, <3>2, <3>3, <3>4 DEF AddUserConfirm
  <2>2. CASE user_admin_cancel
    BY <1>0, <1>3, <1>5, <2>2 DEF AdminAddUserKey, user_admin_cancel
  <2>3. CASE k \notin {12, 15, 16}
    BY <1>0, <1>5, <2>3
    DEF AdminAddUserKey, PwdStarted, Safety, PasswordWaitHasEntry, AdminEntryOwned,
        EnrolOnlyInItsStep, Enrolling, AdminScreenIsAdmin, AdminActive, PwdActive
  <2> QED
    BY <1>5, <2>1, <2>2, <2>3 DEF AdminAddUserKey
<1>6. CASE AdminDeleteUserKey(k)
  <2>1. CASE user_admin_cancel
    BY <1>0, <1>3, <1>6, <2>1 DEF AdminDeleteUserKey, user_admin_cancel
  <2>2. CASE k = 16 /\ admin.selected
    BY <1>0, <1>3, <1>6, <2>2 DEF AdminDeleteUserKey, Enrolling
  <2>3. CASE /\ admin' = t \/ \E s \in BOOLEAN : admin' = [t EXCEPT !.selected = s]
             /\ UNCHANGED <<fp, pwd, ui>>
    <3>1. admin'.state = admin.state /\ admin'.addStep = admin.addStep
      BY <1>0, <2>3 DEF AdminRecord
    <3> QED
      BY <1>0, <1>6, <2>3, <3>1
      DEF AdminDeleteUserKey, Safety, PasswordWaitHasEntry, AdminEntryOwned,
          EnrolOnlyInItsStep, Enrolling, AdminScreenIsAdmin, AdminActive, PwdActive
  <2>4. admin.selected \in BOOLEAN
    BY DEF IInv, TypeOK, AdminTypeOK, AdminRecord
  <2> QED
    BY <1>6, <2>1, <2>2, <2>3, <2>4 DEF AdminDeleteUserKey
<1>7. CASE AdminListKey
  BY <1>0, <1>3, <1>7 DEF AdminListKey, Enrolling
<1> QED
  BY <1>4, <1>5, <1>6, <1>7 DEF AdminKey

\* Every step of the system preserves the invariant.
LEMMA SafetyStep == IInv /\ [Next]_vars => Safety'
<1> SUFFICES ASSUME IInv, [Next]_vars PROVE Safety'
  OBVIOUS
<1> USE DEF IInv
<1>0. /\ admin \in AdminRecord /\ auth \in AuthRecord
      /\ Touched(admin).state = admin.state /\ Touched(admin).addStep = admin.addStep
  BY AdminFields DEF TypeOK, AdminTypeOK, AuthTypeOK
<1>1. ASSUME NEW k \in 1..16, KeyInAdmin(k) PROVE Safety'
  BY <1>1, PwdKeySafety, AdminKeySafety DEF KeyInAdmin
<1>2. ASSUME NEW k \in 1..16, KeyInEntry(k) PROVE Safety'
  BY <1>2, PwdKeySafety, PwdEndSafety DEF KeyInEntry, PwdState
<1>3. ASSUME NEW k \in 1..16, KeyStartsEntry(k) PROVE Safety'
  BY <1>0, <1>3
  DEF KeyStartsEntry, auth_start_password, PwdStarted, PwdActive, UiSet, UiScreen, AuthRecord, Safety,
      PasswordWaitHasEntry, AdminEntryOwned, EnrolOnlyInItsStep, Enrolling, AdminScreenIsAdmin,
      AdminActive
<1>4. CASE KeyFinger
  <2>1. auth'.state # "PASSWORD_INPUT" /\ (ui'.state # "ADMIN" \/ ui' = ui)
    BY <1>0, <1>4, ScanFields DEF KeyFinger
  <2> QED
    BY <1>4, <2>1
    DEF KeyFinger, Safety, PasswordWaitHasEntry, AdminEntryOwned, EnrolOnlyInItsStep, Enrolling,
        AdminScreenIsAdmin, AdminActive, PwdActive
<1>5. CASE KeyForceExit \/ AdminUpdate
  <2>1. admin'.state = "LOCKED" /\ fp'.state = "IDLE" /\ ui'.state = "IDLE"
    BY <1>0, <1>5, AdminFields DEF KeyForceExit, AdminUpdate, user_admin_exit, FpIdle, FpAt, UiScreen
  <2> QED
    BY <1>5, <2>1
    DEF KeyForceExit, AdminUpdate, Safety, PasswordWaitHasEntry, AdminEntryOwned,
        EnrolOnlyInItsStep, AdminScreenIsAdmin, AdminActive, PwdActive
<1>6. CASE RfidTask
  <2>1. CASE AdminActive /\ user_admin_on_rfid /\ UNCHANGED <<auth, door, ui>>
    <3> DEFINE t == Touched(admin)
    <3>1. t \in AdminRecord
      BY <1>0, AdminRecordOps
    <3> HIDE DEF t
    <3>2. [t EXCEPT !.addStep = "FINGERPRINT"].state = t.state
          /\ [t EXCEPT !.addStep = "FINGERPRINT"].addStep = "FINGERPRINT"
      BY <3>1 DEF AdminRecord
    <3>3. \/ UNCHANGED <<admin, fp>>
          \/ /\ admin.state = "ADD_USER" /\ admin.addStep = "RFID"
             /\ admin'.state = "ADD_USER" /\ admin'.addStep = "FINGERPRINT"
      BY <1>0, <2>1, <3>2 DEF t, user_admin_on_rfid
    <3> QED
      BY <1>6, <2>1, <3>3
      DEF RfidTask, Safety, PasswordWaitHasEntry, AdminEntryOwned, EnrolOnlyInItsStep, Enrolling,
          AdminScreenIsAdmin, AdminActive, PwdActive
  <2>2. CASE /\ \E found \in Lookup : AuthProcessScan(found, "READING_CARD")
             /\ UNCHANGED <<admin, fp>>
    <3>1. auth'.state # "PASSWORD_INPUT" /\ (ui'.state # "ADMIN" \/ ui' = ui)
      BY <1>0, <2>2, ScanFields
    <3> QED
      BY <1>6, <2>2, <3>1
      DEF RfidTask, Safety, PasswordWaitHasEntry, AdminEntryOwned, EnrolOnlyInItsStep, Enrolling,
          AdminScreenIsAdmin, AdminActive, PwdActive
  <2> QED
    BY <1>6, <2>1, <2>2 DEF RfidTask
<1>7. CASE RemoteUnlock \/ RemoteLock \/ DoorUpdate
  BY <1>7
  DEF RemoteUnlock, RemoteLock, DoorUpdate, Safety, PasswordWaitHasEntry, AdminEntryOwned,
      EnrolOnlyInItsStep, Enrolling, AdminScreenIsAdmin, AdminActive, PwdActive
<1>8. CASE AuthUpdate
  <2>1. CASE /\ PwdExpired
             /\ pwd.callback = "auth"
             /\ pwd' = PwdEnded("TIMEOUT")
             /\ auth' = LockoutExpired(FailCounted(auth))
             /\ ui' = FailureShown(ui, FailCounted(auth))
             /\ UNCHANGED <<admin, door, fp>>
    <3>1. admin.state = "LOCKED"
      BY <2>1 DEF PwdExpired, Safety, AdminEntryOwned, AdminActive
    <3>2. /\ ~PwdActive' /\ ui'.state # "ADMIN"
      BY <2>1 DEF PwdEnded, PwdActive, FailureShown, UiSet, UiScreen
    <3>3. auth'.state # "PASSWORD_INPUT"
      BY <2>1 DEF FailCounted, LockoutExpired, AuthIdle
    <3> QED
      BY <2>1, <3>1, <3>2, <3>3
      DEF Safety, PasswordWaitHasEntry, AdminEntryOwned, EnrolOnlyInItsStep, Enrolling,
          AdminScreenIsAdmin, AdminActive
  <2>2. CASE PwdExpired /\ AdminPwdEnd("TIMEOUT", admin) /\ auth' = LockoutExpired(auth)
    <3> auth'.state # "PASSWORD_INPUT"
      BY <2>2
      DEF AdminPwdEnd, LockoutExpired, AuthIdle, Safety, PasswordWaitHasEntry
    <3> fp.state = "IDLE" /\ UNCHANGED fp
      BY <1>8, <2>2
      DEF AuthUpdate, PwdExpired, Safety, EnrolOnlyInItsStep, AdminEntryOwned, Enrolling, AdminActive
    <3> /\ ~PwdActive' /\ UNCHANGED ui
        /\ \/ admin'.state = "UNLOCKED"
           \/ pwd.callback = "addUser" /\ admin'.state = admin.state
      BY <1>0, <2>2, AdminFields DEF AdminPwdEnd, MasterPwdContinues, PwdEnded, PwdActive
    <3> QED
      BY <2>2
      DEF PwdExpired, Safety, PasswordWaitHasEntry, AdminEntryOwned, EnrolOnlyInItsStep,
          AdminScreenIsAdmin, AdminActive
  <2>3. CASE /\ auth' = LockoutExpired(auth)
             /\ UNCHANGED <<pwd, admin, door, ui, fp>>
    BY <2>3
    DEF LockoutExpired, AuthIdle, Safety, PasswordWaitHasEntry, AdminEntryOwned,
        EnrolOnlyInItsStep, Enrolling, AdminScreenIsAdmin, AdminActive, PwdActive
  <2> QED
    BY <1>8, <2>1, <2>2, <2>3 DEF AuthUpdate
<1>9. CASE UiTask
  BY <1>9
  DEF UiTask, UiUpdate, UiScreen, Safety, PasswordWaitHasEntry, AdminEntryOwned,
      EnrolOnlyInItsStep, Enrolling, AdminScreenIsAdmin, AdminActive, PwdActive
<1>10. CASE EnrollSensor
  BY <1>0, <1>10
  DEF EnrollSensor, FpSensorAnswer, Safety, PasswordWaitHasEntry, AdminEntryOwned,
      EnrolOnlyInItsStep, Enrolling, AdminScreenIsAdmin, AdminActive, PwdActive
<1>11. CASE EnrollTimed
  <2>1. CASE FpDone
    <3> DEFINE t == Touched(admin)
    <3>1. t \in AdminRecord
      BY <1>0, AdminRecordOps
    <3> HIDE DEF t
    <3>2. [t EXCEPT !.addStep = "PASSWORD"].state = t.state
      BY <3>1 DEF AdminRecord
    <3>3. Enrolling /\ admin'.state = "ADD_USER" /\ fp'.state = "IDLE"
      BY <1>0, <2>1, <3>2 DEF t, FpDone, Enrolling, FpIdle, FpAt
    <3> QED
      BY <1>11, <3>3
      DEF EnrollTimed, Safety, PasswordWaitHasEntry, AdminEntryOwned, EnrolOnlyInItsStep,
          Enrolling, AdminScreenIsAdmin, AdminActive, PwdActive
  <2>2. CASE FpRetry
    BY <1>0, <1>11, <2>2
    DEF EnrollTimed, FpRetry, Safety, PasswordWaitHasEntry, AdminEntryOwned, EnrolOnlyInItsStep,
        Enrolling, AdminScreenIsAdmin, AdminActive, PwdActive
  <2> QED
    BY <1>11, <2>1, <2>2 DEF EnrollTimed
<1>12. CASE Tick
  <2>1. /\ auth'.state = auth.state /\ ui'.state = ui.state
        /\ admin'.state = admin.state /\ admin'.addStep = admin.addStep
        /\ fp'.state = fp.state
        /\ pwd'.state = pwd.state /\ pwd'.callback = pwd.callback
    BY <1>0, <1>12
    DEF Tick, AuthTick, UiTick, AdminTick, PwdTick, TypeOK, UiTypeOK, UiRecord, AdminTypeOK,
        FpRecord, PwdTypeOK, PwdRecord, AuthRecord, AdminRecord
  <2> QED
    BY <2>1
    DEF Safety, PasswordWaitHasEntry, AdminEntryOwned, EnrolOnlyInItsStep, Enrolling,
        AdminScreenIsAdmin, AdminActive, PwdActive
<1>13. CASE UNCHANGED vars
  BY <1>13
  DEF vars, Safety, PasswordWaitHasEntry, AdminEntryOwned, EnrolOnlyInItsStep, Enrolling,
      AdminScreenIsAdmin, AdminActive, PwdActive
<1> QED
  BY <1>1, <1>2, <1>3, <1>4, <1>5, <1>6, <1>7, <1>8, <1>9, <1>10, <1>11, <1>12, <1>13
  DEF Next, AtTheDoor, MatrixKey

\* The inductive invariant holds in every reachable state.
LEMMA Invariant == Spec => []IInv
<1>1. Init => Safety
  BY DEF Init, AuthInit, AuthIdle, PwdInit, AdminInit, UiInit, UiScreen, FpIdle, FpAt, Safety,
         PasswordWaitHasEntry, AdminEntryOwned, EnrolOnlyInItsStep, AdminScreenIsAdmin,
         AdminActive
<1>2. TypeOK /\ Safety /\ [Next]_vars => Safety'
  BY SafetyStep DEF IInv
<1> QED
  BY <1>1, <1>2, TypeCorrect, PTL DEF Spec, IInv

\* The manager is never left waiting for digits nobody types.
THEOREM PasswordWaitCorrect == Spec => []PasswordWaitHasEntry
  BY Invariant, PTL DEF IInv, Safety

\* Digits typed in administration mode go to the dialogue on the screen.
THEOREM AdminEntryCorrect == Spec => []AdminEntryOwned
  BY Invariant, PTL DEF IInv, Safety

\* The sensor is driven only in the fingerprint step of the dialogue.
THEOREM EnrolCorrect == Spec => []EnrolOnlyInItsStep
  BY Invariant, PTL DEF IInv, Safety

\* The administration screen is shown only in administration mode.
THEOREM AdminScreenCorrect == Spec => []AdminScreenIsAdmin
  BY Invariant, PTL DEF IInv, Safety

---------------------------------------------------------------------------
(* The action properties.  Their common ground: what one step may do,      *)
(* given the invariant.                                                    *)

\* The door is opened locally only by a verdict, outside lockout and mode.
OpeningRule == LocalOpening => ~LockedOut /\ ~AdminActive

\* In the mode no failure is counted.
FailRule == AdminActive => auth'.fails \in {auth.fails, 0}

\* A lockout keeps the administration screen away.
ScreenRule == LockedOut => (ui'.state = "ADMIN" => ui.state = "ADMIN")

\* Only a cancelled entry of the manager cuts a lockout short.
CutRule ==
  LockedOut /\ auth.lockAge < LockoutTime /\ ~LockedOut' =>
    PwdActive /\ pwd.callback = "auth" /\ pwd'.state = "CANCELLED"

\* Only the end of an entry opens the mode.
OpenRule ==
  ~AdminActive /\ AdminActive' =>
    /\ PwdActive
    /\ \/ pwd.callback = "auth" /\ ui'.state = "ADMIN"
       \/ pwd.callback = "masterPwd" /\ ui'.state # "ADMIN"

StepRules == OpeningRule /\ FailRule /\ ScreenRule /\ CutRule /\ OpenRule

\* A bolt that does not move was not opened.
LEMMA QuietDoor ==
  ASSUME TypeOK, UNCHANGED door
  PROVE  ~LocalOpening
  BY DEF TypeOK, DoorTypeOK, DoorRecord, LocalOpening

\* A step of the dialogues or of the sensor breaks no rule.
LEMMA QuietRules ==
  ASSUME TypeOK, UNCHANGED <<auth, door>>, ui'.state # "ADMIN" \/ ui' = ui,
         AdminActive' => AdminActive
  PROVE  StepRules
  BY QuietDoor
  DEF StepRules, OpeningRule, FailRule, ScreenRule, CutRule, OpenRule, LockedOut

\* A card or finger judged outside the mode breaks no rule.
LEMMA ScanRules ==
  ASSUME IInv, NEW screen, NEW found, AuthProcessScan(found, screen),
         ~AdminActive, UNCHANGED admin
  PROVE  StepRules
<1>1. CASE LockedOut /\ UNCHANGED <<auth, door, ui>>
  BY <1>1, QuietRules DEF IInv, AdminActive
<1>2. CASE ~LockedOut
  BY <1>2
  DEF StepRules, OpeningRule, FailRule, ScreenRule, CutRule, OpenRule, AdminActive
<1> QED
  BY <1>1, <1>2 DEF AuthProcessScan

\* The end of an entry breaks no rule.
LEMMA PwdEndRules ==
  ASSUME IInv, NEW reason, NEW a \in {admin, Touched(admin)}, PwdActive, PwdEnd(reason, a)
  PROVE  StepRules
<1>0. a \in AdminRecord /\ a.state = admin.state /\ TypeOK
  BY AdminRecordOps, AdminFields DEF IInv, TypeOK, AdminTypeOK
<1>1. CASE AuthPwdEnd(reason, a)
  <2>1. ~AdminActive
    BY <1>1 DEF AuthPwdEnd, IInv, Safety, AdminEntryOwned
  <2>2. CASE LockedOut /\ admin' = a /\ UNCHANGED <<auth, door, ui>>
    BY <1>0, <2>1, <2>2, QuietRules DEF AdminActive
  <2>3. CASE ~LockedOut /\ ui' = UiScreen("ADMIN") /\ UNCHANGED door
    BY <1>0, <1>1, <2>1, <2>3, QuietDoor
    DEF AuthPwdEnd, UiScreen, StepRules, OpeningRule, FailRule, ScreenRule, CutRule, OpenRule
  <2>4. CASE ~LockedOut /\ admin' = a
    BY <1>0, <2>1, <2>4
    DEF StepRules, OpeningRule, FailRule, ScreenRule, CutRule, OpenRule, AdminActive
  <2>5. CASE reason = "CANCELLED" /\ admin' = a /\ UNCHANGED <<door, ui>>
    BY <1>0, <1>1, <2>1, <2>5, QuietDoor
    DEF AuthPwdEnd, PwdEnded, StepRules, OpeningRule, FailRule, ScreenRule, CutRule, OpenRule,
        AdminActive
  <2> QED
    BY <1>1, <2>2, <2>3, <2>4, <2>5 DEF AuthPwdEnd, auth_process_password
<1>2. CASE AdminPwdEnd(reason, a) /\ UNCHANGED auth
  <2>1. ~AdminActive => ui.state # "ADMIN"
    BY DEF IInv, Safety, AdminScreenIsAdmin
  <2>2. \/ pwd.callback = "addUser" /\ admin'.state = admin.state
        \/ pwd.callback = "masterPwd"
    BY <1>0, <1>2, AdminFields DEF AdminPwdEnd
  <2>3. UNCHANGED <<auth, door, ui>>
    BY <1>2 DEF AdminPwdEnd
  <2> QED
    BY <1>0, <2>1, <2>2, <2>3, QuietDoor
    DEF StepRules, OpeningRule, FailRule, ScreenRule, CutRule, OpenRule, LockedOut, AdminActive
<1> QED
  BY <1>1, <1>2 DEF PwdEnd

\* No step of the system breaks a rule.
LEMMA RulesHold == IInv /\ [Next]_vars => StepRules
<1> SUFFICES ASSUME IInv, [Next]_vars PROVE StepRules
  OBVIOUS
<1>0. /\ admin \in AdminRecord /\ auth \in AuthRecord /\ TypeOK
      /\ Touched(admin).state = admin.state /\ AdminReset(admin).state = "LOCKED"
  BY AdminFields DEF IInv, TypeOK, AdminTypeOK, AuthTypeOK
<1>1. ASSUME NEW k, NEW a \in {admin, Touched(admin)}, PwdActive, PwdKey(k, a)
      PROVE  StepRules
  <2>1. CASE PwdEditKey(k) /\ admin' = a /\ UNCHANGED <<auth, door, ui>>
    BY <1>0, <1>1, <2>1, QuietRules DEF AdminActive
  <2>2. CASE \E reason \in PwdState : PwdEndKey(k, reason) /\ PwdEnd(reason, a)
    BY <1>1, <2>2, PwdEndRules
  <2> QED
    BY <1>1, <2>1, <2>2 DEF PwdKey
<1>2. ASSUME NEW k \in 1..16, KeyInAdmin(k) PROVE StepRules
  <2>1. CASE PwdActive /\ PwdKey(k, Touched(admin))
    BY <1>1, <2>1
  <2>2. CASE AdminKey(k) /\ UNCHANGED <<auth, door>>
    <3>1. ui'.state # "ADMIN" \/ ui' = ui
      BY <2>2
      DEF AdminKey, AdminMenuKey, AdminAddUserKey, AdminDeleteUserKey, AdminListKey,
          user_admin_exit, UiScreen
    <3> QED
      BY <1>0, <1>2, <2>2, <3>1, QuietRules DEF KeyInAdmin
  <2> QED
    BY <1>2, <2>1, <2>2 DEF KeyInAdmin
<1>3. ASSUME NEW k \in 1..16, KeyInEntry(k) PROVE StepRules
  BY <1>1, <1>3, PwdEndRules DEF KeyInEntry
<1>4. ASSUME NEW k \in 1..16, KeyStartsEntry(k) PROVE StepRules
  BY <1>0, <1>4, QuietDoor
  DEF KeyStartsEntry, auth_start_password, StepRules, OpeningRule, FailRule, ScreenRule, CutRule,
      OpenRule, AdminActive
<1>5. CASE KeyFinger
  BY <1>5, ScanRules DEF KeyFinger
<1>6. CASE KeyForceExit \/ AdminUpdate
  BY <1>0, <1>6, QuietRules
  DEF KeyForceExit, AdminUpdate, user_admin_exit, UiScreen, AdminActive
<1>7. CASE RfidTask
  <2>1. CASE AdminActive /\ UNCHANGED <<auth, door, ui>>
    BY <1>0, <2>1, QuietRules
  <2>2. CASE ~AdminActive
    BY <1>7, <2>2, ScanRules DEF RfidTask
  <2> QED
    BY <1>7, <2>1, <2>2 DEF RfidTask
<1>8. CASE RemoteUnlock \/ RemoteLock \/ DoorUpdate
  <2>1. ~LocalOpening
    BY <1>0, <1>8
    DEF RemoteUnlock, RemoteLock, DoorUpdate, door_control_update, door_control_lock,
        door_control_unlock, LocalOpening
  <2> QED
    BY <1>8, <2>1
    DEF RemoteUnlock, RemoteLock, DoorUpdate, StepRules, OpeningRule, FailRule, ScreenRule,
        CutRule, OpenRule, LockedOut, AdminActive
<1>9. CASE AuthUpdate
  <2>1. CASE /\ PwdExpired
             /\ pwd.callback = "auth"
             /\ auth' = LockoutExpired(FailCounted(auth))
             /\ ui' = FailureShown(ui, FailCounted(auth))
             /\ UNCHANGED <<admin, door>>
    <3>1. ~AdminActive /\ ui'.state # "ADMIN"
      BY <2>1
      DEF PwdExpired, IInv, Safety, AdminEntryOwned, FailureShown, UiSet, UiScreen
    <3>2. LockedOut /\ auth.lockAge < LockoutTime => LockedOut'
      <4> DEFINE n == (auth.fails + 1) % FailModulus
      <4>1. FailCounted(auth) = IF n >= MaxFail
                                THEN [state |-> "LOCKED", fails |-> n, lockAge |-> 0]
                                ELSE [state |-> IF auth.state = "LOCKED" THEN "LOCKED" ELSE "IDLE",
                                      fails |-> n, lockAge |-> auth.lockAge]
        BY DEF FailCounted
      <4> HIDE DEF n
      <4> QED
        BY <1>0, <2>1, <4>1, AuthAssumption DEF LockoutExpired, LockedOut, AuthRecord
    <3> QED
      BY <1>0, <2>1, <3>1, <3>2, QuietDoor
      DEF StepRules, OpeningRule, FailRule, ScreenRule, CutRule, OpenRule, AdminActive
  <2>2. CASE PwdExpired /\ AdminPwdEnd("TIMEOUT", admin) /\ auth' = LockoutExpired(auth)
    <3>1. UNCHANGED <<door, ui>> /\ PwdActive /\ (~AdminActive => ui.state # "ADMIN")
      BY <2>2 DEF AdminPwdEnd, PwdExpired, IInv, Safety, AdminScreenIsAdmin
    <3>2. \/ pwd.callback = "addUser" /\ admin'.state = admin.state
          \/ pwd.callback = "masterPwd"
      BY <1>0, <2>2, AdminFields DEF AdminPwdEnd
    <3>3. /\ auth'.fails \in {auth.fails, 0}
          /\ LockedOut /\ auth.lockAge < LockoutTime => LockedOut'
      BY <1>0, <2>2, AuthAssumption DEF LockoutExpired, AuthIdle, LockedOut, AuthRecord
    <3> QED
      BY <1>0, <3>1, <3>2, <3>3, QuietDoor
      DEF StepRules, OpeningRule, FailRule, ScreenRule, CutRule, OpenRule, AdminActive
  <2>3. CASE auth' = LockoutExpired(auth) /\ UNCHANGED <<pwd, admin, door, ui>>
    <3>1. /\ auth'.fails \in {auth.fails, 0}
          /\ LockedOut /\ auth.lockAge < LockoutTime => LockedOut'
      BY <1>0, <2>3, AuthAssumption DEF LockoutExpired, AuthIdle, LockedOut, AuthRecord
    <3> QED
      BY <1>0, <2>3, <3>1, QuietDoor
      DEF StepRules, OpeningRule, FailRule, ScreenRule, CutRule, OpenRule, AdminActive
  <2> QED
    BY <1>9, <2>1, <2>2, <2>3 DEF AuthUpdate
<1>10. CASE UiTask
  BY <1>0, <1>10, QuietRules DEF UiTask, UiUpdate, UiScreen, AdminActive
<1>11. CASE EnrollSensor \/ EnrollTimed
  BY <1>0, <1>11, QuietRules
  DEF EnrollSensor, EnrollTimed, FpSensorAnswer, FpDone, FpRetry, Enrolling, AdminActive
<1>12. CASE Tick
  <2>1. ~LocalOpening
    BY <1>0, <1>12
    DEF Tick, DoorTick, Older, TypeOK, DoorTypeOK, DoorRecord, OpenTimes, LocalOpening
  <2>2. /\ auth'.state = auth.state /\ auth'.fails = auth.fails
        /\ ui'.state = ui.state /\ admin'.state = admin.state
    BY <1>0, <1>12
    DEF Tick, AuthTick, UiTick, AdminTick, TypeOK, UiTypeOK, UiRecord, AuthRecord, AdminRecord
  <2> QED
    BY <2>1, <2>2
    DEF StepRules, OpeningRule, FailRule, ScreenRule, CutRule, OpenRule, LockedOut, AdminActive
<1>13. CASE UNCHANGED vars
  BY <1>0, <1>13, QuietRules DEF vars, AdminActive
<1> QED
  BY <1>2, <1>3, <1>4, <1>5, <1>6, <1>7, <1>8, <1>9, <1>10, <1>11, <1>12, <1>13
  DEF Next, AtTheDoor, MatrixKey

\* While the mode stays active nobody is authenticated.
THEOREM AdminModeSuspendsVerdicts == Spec => NoVerdictInAdminMode
<1>1. IInv /\ [Next]_vars =>
        [AdminActive /\ AdminActive' =>
           auth'.fails \in {auth.fails, 0} /\ ~LocalOpening]_vars
  BY RulesHold DEF StepRules, OpeningRule, FailRule
<1> QED
  BY <1>1, Invariant, PTL DEF Spec, NoVerdictInAdminMode

\* A lockout refuses every local authentication, whenever it was begun.
THEOREM LockoutRefusesAll == Spec => LockoutRefuses
<1>1. IInv /\ [Next]_vars =>
        [LockedOut => ~LocalOpening /\ (ui'.state = "ADMIN" => ui.state = "ADMIN")]_vars
  BY RulesHold DEF StepRules, OpeningRule, ScreenRule
<1> QED
  BY <1>1, Invariant, PTL DEF Spec, LockoutRefuses

\* A lockout ends early only by cancelling an entry of the manager.
THEOREM LockoutCut == Spec => LockoutCutOnlyByCancel
<1>1. IInv /\ [Next]_vars =>
        [LockedOut /\ auth.lockAge < LockoutTime /\ ~LockedOut' =>
           PwdActive /\ pwd.callback = "auth" /\ pwd'.state = "CANCELLED"]_vars
  BY RulesHold DEF StepRules, CutRule
<1> QED
  BY <1>1, Invariant, PTL DEF Spec, LockoutCutOnlyByCancel

\* The mode is entered only where an entry of the manager or of a
\* master-password dialogue ends.
THEOREM AdminOpens == Spec => AdminOpensAtEntryEnd
<1>1. IInv /\ [Next]_vars =>
        [~AdminActive /\ AdminActive' =>
           /\ PwdActive
           /\ \/ pwd.callback = "auth" /\ ui'.state = "ADMIN"
              \/ pwd.callback = "masterPwd" /\ ui'.state # "ADMIN"]_vars
  BY RulesHold DEF StepRules, OpenRule
<1> QED
  BY <1>1, Invariant, PTL DEF Spec, AdminOpensAtEntryEnd

=============================================================================
