------------------------------- MODULE Timers -------------------------------
(***************************************************************************)
(* The firmware keeps a start time per activity and compares               *)
(* TIM_Get_MillisCounter() - start with a limit.  The models keep the age  *)
(* of the activity instead, and stop counting at the limit: elapsed >=     *)
(* limit in the code is age = limit here.                                  *)
(***************************************************************************)
EXTENDS Naturals

Older(age, limit) == IF age < limit THEN age + 1 ELSE age

=============================================================================
