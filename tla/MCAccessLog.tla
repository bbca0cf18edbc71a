------------------------------ MODULE MCAccessLog ------------------------------
(* AccessLog for TLC. *)
EXTENDS AccessLog
================================================================================
