---------------------------- MODULE PasswordInput ----------------------------
(***************************************************************************)
(* User/password_input.c: the one keypad entry every password dialogue     *)
(* shares.  pwd is s_pwd_input: its state, the number of digits typed, the *)
(* time since pwd_input_start, and which callback the entry was started    *)
(* with.  The digits themselves are chosen when an entry completes.        *)
(* Running a callback is the business of the modules that own it           *)
(* (AuthManager, UserAdmin) and of DoorAccess, which joins them.           *)
(***************************************************************************)
EXTENDS Timers

CONSTANTS PwdLength,      \* PWD_INPUT_LENGTH
          PwdTimeout      \* PWD_INPUT_TIMEOUT_MS

ASSUME PwdAssumption ==
  /\ PwdLength \in Nat /\ PwdLength > 1
  /\ PwdTimeout \in Nat \ {0}

VARIABLE pwd

PwdState == {"IDLE", "INPUTTING", "COMPLETE", "TIMEOUT", "CANCELLED"}
PwdCallback == {"NULL", "auth", "addUser", "masterPwd"}

PwdRecord ==
  [state: PwdState, count: 0..(PwdLength - 1), age: 0..PwdTimeout, callback: PwdCallback]

PwdTypeOK == pwd \in PwdRecord

PwdInit == pwd = [state |-> "IDLE", count |-> 0, age |-> 0, callback |-> "NULL"]

\* Keys 1-9 are the digits 1-9 and key 10 is the digit 0.
DigitKey == 1..10

PwdActive == pwd.state = "INPUTTING"

\* The entry just after pwd_input_start(cb), with n digits already passed on.
PwdStarted(cb, n) ==
  [state |-> "INPUTTING", count |-> n, age |-> 0, callback |-> cb]

\* The entry once it has ended for the given reason.  The count and the
\* callback it leaves behind are overwritten before anything reads them.
PwdEnded(reason) == [state |-> reason, count |-> 0, age |-> 0, callback |-> "NULL"]

\* pwd_input_on_key, when the key does not end the entry.
PwdEditKey(k) ==
  \/ /\ k \in DigitKey
     /\ pwd.count + 1 < PwdLength
     /\ pwd' = [pwd EXCEPT !.count = @ + 1]
  \/ /\ k = 11
     /\ pwd' = [pwd EXCEPT !.count = IF @ > 0 THEN @ - 1 ELSE @]
  \/ /\ k \in 13..16
     /\ UNCHANGED pwd

\* pwd_input_on_key, when the key ends the entry and how.
PwdEndKey(k, reason) ==
  \/ k \in DigitKey /\ pwd.count + 1 = PwdLength /\ reason = "COMPLETE"
  \/ k = 12 /\ reason = "CANCELLED"

\* wrong variant: an entry without a digit does not time out
PwdExpiredAfterDigit == PwdActive /\ pwd.count > 0 /\ pwd.age = PwdTimeout

\* The timeout test of pwd_input_update.
PwdExpired == PwdActive /\ pwd.age = PwdTimeout

PwdTick ==
  pwd' = IF PwdActive THEN [pwd EXCEPT !.age = Older(@, PwdTimeout)] ELSE pwd

=============================================================================
