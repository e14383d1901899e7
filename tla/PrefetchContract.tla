-------------------------- MODULE PrefetchContract --------------------------
(***************************************************************************)
(* What the prefetch pool promises of a queued item, and all that Station  *)
(* and Player assume of it (their `prefetch` and `Mark`): the item is      *)
(* pending from the moment it is queued, and ready, failed or live once,   *)
(* for good (QueuedItem.ready is closed exactly once), unless the server   *)
(* restarts first.                                                         *)
(***************************************************************************)
CONSTANT Items

VARIABLE prefetch

Prefetched == {"ready", "failed", "live"}

Init == prefetch = [i \in Items |-> "none"]

(* A full job channel fails the item in the call that queues it.           *)
QueueItem(i) ==
    /\ prefetch[i] = "none"
    /\ \E state \in {"pending", "failed"} : prefetch' = [prefetch EXCEPT ![i] = state]

MarkItem(i) ==
    /\ prefetch[i] = "pending"
    /\ \E state \in Prefetched : prefetch' = [prefetch EXCEPT ![i] = state]

(* A restart takes the queue with it.                                      *)
LoseItems == prefetch' = [i \in Items |-> IF prefetch[i] = "pending" THEN "lost" ELSE prefetch[i]]

Next == LoseItems \/ \E i \in Items : QueueItem(i) \/ MarkItem(i)

Safety == Init /\ [][Next]_prefetch

(* Every job of the pool ends.                                             *)
Spec == Safety /\ \A i \in Items : WF_prefetch(MarkItem(i))
=============================================================================
