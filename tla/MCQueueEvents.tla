--------------------------- MODULE MCQueueEvents ---------------------------
(***************************************************************************)
(* Instances of QueueEvents for TLC.                                       *)
(***************************************************************************)
EXTENDS QueueEvents

(* The queue has room for a refill, also from other clients.               *)
ASSUME RoomToRefill == \A t \in Thresholds : t < MaxLength
=============================================================================
