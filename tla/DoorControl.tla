----------------------------- MODULE DoorControl -----------------------------
(***************************************************************************)
(* User/door_control.c: the bolt.  door is g_door_status: the lock state,  *)
(* who opened it last (a local authentication or the network), for how     *)
(* long, and the time since.  The servo angle follows the lock state in    *)
(* every function and is left out; DOOR_OPENING and DOOR_ALARM are never   *)
(* assigned.  The age of a locked door is kept at 0 and means nothing.     *)
(***************************************************************************)
EXTENDS Timers

CONSTANTS AuthOpenTime,     \* AUTH_DOOR_OPEN_DURATION_MS
          RemoteOpenTimes   \* the durations the unlock command is used with

ASSUME DoorAssumption ==
  /\ AuthOpenTime \in Nat \ {0}
  /\ RemoteOpenTimes \subseteq Nat \ {0}

VARIABLE door

OpenTimes == RemoteOpenTimes \cup {AuthOpenTime}

DoorRecord ==
  [lock: {"LOCKED", "UNLOCKED"}, method: {"NONE", "LOCAL", "REMOTE"},
   duration: OpenTimes \cup {0}, age: Nat]

DoorTypeOK == door \in DoorRecord /\ door.age <= door.duration

DoorInit ==
  door = [lock |-> "LOCKED", method |-> "NONE", duration |-> 0, age |-> 0]

door_control_unlock(method, duration) ==
  door' = [lock |-> "UNLOCKED", method |-> method, duration |-> duration, age |-> 0]

door_control_lock ==
  door' = [lock |-> "LOCKED", method |-> door.method, duration |-> 0, age |-> 0]

\* wrong variant: only what a local authentication opened is locked again
DoorExpiredLocalOnly ==
  /\ door.lock = "UNLOCKED"
  /\ door.method = "LOCAL"
  /\ door.age >= door.duration

DoorExpired ==
  /\ door.lock = "UNLOCKED"
  /\ door.duration > 0
  /\ door.age >= door.duration

door_control_update == DoorExpired /\ door_control_lock

DoorTick ==
  door' = [door EXCEPT !.age = Older(@, door.duration)]

=============================================================================
