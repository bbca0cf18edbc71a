----------------------------- MODULE MCDoorAccess -----------------------------
(* DoorAccess for TLC; the .cfg files choose the limits. *)
EXTENDS DoorAccess

\* The network opens the door for longer than a local authentication does.
MCRemoteOpenTimes == {AuthOpenTime + 1}

=============================================================================
