-------------------------------- MODULE MCNetLink --------------------------------
(* NetLink for TLC; the .cfg files choose the disturbances. *)
EXTENDS NetLink
==================================================================================
