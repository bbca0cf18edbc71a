--------------------------- MODULE MCFingerAccess ---------------------------
(* Two fingers, two users and the template numbers they can come to have.   *)
EXTENDS FingerAccess, TLC

FingersAlike == Permutations(Fingers)
=============================================================================
