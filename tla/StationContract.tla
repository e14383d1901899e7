-------------------------- MODULE StationContract --------------------------
(***************************************************************************)
(* What one station promises: it moves as StationMoves says and not        *)
(* otherwise.  Module Player implements it step by step; module            *)
(* ControlPlane relies on it.                                              *)
(***************************************************************************)
EXTENDS StationMoves

VARIABLE station

Init == station = EmptyStation

Next == station' \in PlayerMoves(station) \union HandlerMoves(station)

Spec == Init /\ [][Next]_station
=============================================================================
