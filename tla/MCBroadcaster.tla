--------------------------- MODULE MCBroadcaster ---------------------------
(***************************************************************************)
(* Instances of Broadcaster for TLC.                                       *)
(***************************************************************************)
EXTENDS Broadcaster

CONSTANTS l1, l2

MCListeners == {l1, l2}
=============================================================================
