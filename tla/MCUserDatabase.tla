----------------------------- MODULE MCUserDatabase -----------------------------
(* UserDatabase for TLC. *)
EXTENDS UserDatabase
CONSTANTS c1, p0, p1
MCCards == {c1}
MCPasswords == {p0, p1}
================================================================================
