----------------------------- MODULE AuthManager -----------------------------
(***************************************************************************)
(* User/auth_manager.c: judges cards, fingers and passwords, counts        *)
(* failures and locks itself out.  auth is s_auth_mgr: its state, the      *)
(* eight-bit failure counter and the time since lockout_start (0 and       *)
(* meaningless while not locked).  A lookup in the user database is one of *)
(* its three outcomes.  The operators on a record describe the part of a   *)
(* handler that may be followed by another one in the same call.           *)
(***************************************************************************)
EXTENDS PasswordInput, DoorControl, StatusUi

CONSTANTS MaxFail,        \* AUTH_MAX_FAIL_COUNT
          FailModulus,    \* values of the uint8_t fail_count (256)
          LockoutTime     \* AUTH_LOCKOUT_TIME_MS

ASSUME AuthAssumption ==
  /\ MaxFail \in Nat \ {0}
  /\ FailModulus \in Nat /\ MaxFail < FailModulus
  /\ LockoutTime \in Nat \ {0}

VARIABLE auth

AuthState == {"IDLE", "PROCESSING", "PASSWORD_INPUT", "LOCKED"}

AuthRecord ==
  [state: AuthState, fails: 0..(FailModulus - 1), lockAge: 0..LockoutTime]

AuthTypeOK == auth \in AuthRecord

\* Idle, with n failures counted.
AuthIdle(n) == [state |-> "IDLE", fails |-> n, lockAge |-> 0]

AuthInit == auth = AuthIdle(0)

\* What the user database answers for a card, a template or a password.
Lookup == {"ok", "disabled", "notFound"}

LockedOut == auth.state = "LOCKED"

\* wrong variant: a counter without its width
FailCountedWide(a) ==
  IF a.fails + 1 >= MaxFail
  THEN [state |-> "LOCKED", fails |-> a.fails + 1, lockAge |-> 0]
  ELSE [a EXCEPT !.fails = a.fails + 1, !.state = "IDLE"]

\* The counting and the state change of auth_failed, on manager record a.
FailCounted(a) ==
  LET n == (a.fails + 1) % FailModulus
  IN  IF n >= MaxFail
      THEN [state |-> "LOCKED", fails |-> n, lockAge |-> 0]
      ELSE [state |-> IF a.state = "LOCKED" THEN "LOCKED" ELSE "IDLE",
            fails |-> n, lockAge |-> a.lockAge]

\* The screen door_status_ui_on_auth_result chooses after a failure that
\* left the manager at a, when screen u was shown.
FailureShown(u, a) ==
  UiSet(u, IF a.state = "LOCKED" THEN "LOCKED" ELSE "AUTH_FAILED")

\* auth_success and auth_failed, with the result callback registered in
\* main.c; u is the screen before the callback.
auth_success(u) ==
  /\ auth' = AuthIdle(0)
  /\ door_control_unlock("LOCAL", AuthOpenTime)
  /\ ui' = UiSet(u, "AUTH_SUCCESS")

auth_failed(u) ==
  /\ auth' = FailCounted(auth)
  /\ ui' = FailureShown(u, auth')
  /\ UNCHANGED door

AuthVerdict(found, u) ==
  \/ found = "ok" /\ auth_success(u)
  \/ found # "ok" /\ auth_failed(u)

\* auth_process_rfid and auth_process_fingerprint: the start callback shows
\* the screen of the reader before the verdict.
AuthProcessScan(found, readerScreen) ==
  \/ LockedOut /\ UNCHANGED <<auth, door, ui>>
  \/ ~LockedOut /\ AuthVerdict(found, UiSet(ui, readerScreen))

\* auth_start_password, with n digits passed on by the key that called it.
auth_start_password(n) ==
  /\ ~LockedOut
  /\ auth' = [auth EXCEPT !.state = "PASSWORD_INPUT"]
  /\ pwd' = PwdStarted("auth", n)
  /\ ui' = UiSet(ui, "INPUT_PASSWORD")

\* wrong variants: one period too early, and resetting only the counter
LockoutExpiredEarly(a) ==
  IF a.state = "LOCKED" /\ a.lockAge + 1 >= LockoutTime
  THEN AuthIdle(0)
  ELSE a

LockoutExpiredCounterOnly(a) ==
  IF a.state = "LOCKED" /\ a.lockAge >= LockoutTime
  THEN [a EXCEPT !.fails = 0]
  ELSE a

\* The lockout test of auth_manager_update, on manager record a.
LockoutExpired(a) ==
  IF a.state = "LOCKED" /\ a.lockAge >= LockoutTime
  THEN AuthIdle(0)
  ELSE a

\* auth_manager_get_lockout_remaining() = 0
LockoutOver == ~LockedOut \/ auth.lockAge >= LockoutTime

AuthTick ==
  auth' = IF LockedOut THEN [auth EXCEPT !.lockAge = Older(@, LockoutTime)] ELSE auth

=============================================================================
