------------------------------- MODULE StatusUi -------------------------------
(***************************************************************************)
(* User/door_status_ui.c: which screen is shown.  ui is the current_state  *)
(* of s_ui_state with the time that its timers measure: since the screen   *)
(* was entered for a result screen, since the last redraw for the lockout  *)
(* countdown.  Drawing is left out.                                        *)
(***************************************************************************)
EXTENDS Timers

CONSTANTS UiResultTime,    \* the 5000 ms a result stays on the screen
          UiRefreshTime    \* the 1000 ms between two redraws of the countdown

ASSUME UiAssumption == UiResultTime \in Nat \ {0} /\ UiRefreshTime \in Nat \ {0}

VARIABLE ui

UiState == {"IDLE", "READING_CARD", "SCANNING_FINGER", "INPUT_PASSWORD",
            "AUTH_SUCCESS", "AUTH_FAILED", "LOCKED", "ADMIN"}

\* How far the timer of a screen is counted.
UiLimit(screen) ==
  IF screen \in {"AUTH_SUCCESS", "AUTH_FAILED"} THEN UiResultTime
  ELSE IF screen = "LOCKED" THEN UiRefreshTime
  ELSE 0

UiRecord == [state: UiState, age: Nat]

UiTypeOK == ui \in UiRecord /\ ui.age <= UiLimit(ui.state)

UiScreen(screen) == [state |-> screen, age |-> 0]

UiInit == ui = UiScreen("IDLE")

\* door_status_ui_set_state: showing the current screen again restarts nothing.
UiSet(u, screen) == IF u.state = screen THEN u ELSE UiScreen(screen)

\* wrong variant: the countdown is redrawn and never left
UiUpdateStuck(lockoutOver) ==
  \/ /\ ui.state \in {"AUTH_SUCCESS", "AUTH_FAILED"}
     /\ ui.age >= UiResultTime
     /\ ui' = UiScreen("IDLE")
  \/ ui.state = "LOCKED" /\ ui.age >= UiRefreshTime /\ ui' = UiScreen("LOCKED")

\* door_status_ui_update; lockoutOver is auth_manager_get_lockout_remaining() = 0.
UiUpdate(lockoutOver) ==
  \/ /\ ui.state \in {"AUTH_SUCCESS", "AUTH_FAILED"}
     /\ ui.age >= UiResultTime
     /\ ui' = UiScreen("IDLE")
  \/ /\ ui.state = "LOCKED"
     /\ ui.age >= UiRefreshTime
     /\ ui' = IF lockoutOver THEN UiScreen("IDLE") ELSE UiScreen("LOCKED")

UiTick == ui' = [ui EXCEPT !.age = Older(@, UiLimit(ui.state))]

=============================================================================
