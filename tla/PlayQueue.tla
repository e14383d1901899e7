----------------------------- MODULE PlayQueue -----------------------------
(***************************************************************************)
(* The pending queue of a station (internal/playback/queue.go) as          *)
(* operators on sequences.  Every method of Queue runs under q.mu from its *)
(* first to its last line, so each is one operator applied in one step;    *)
(* Queue.Append is the Append of module Sequences.                         *)
(***************************************************************************)
EXTENDS Integers, Sequences

Contains(q, i) == \E k \in 1..Len(q) : q[k] = i

IndexIn(q, i) == CHOOSE k \in 1..Len(q) : q[k] = i

Drop(q, k) == SubSeq(q, k, Len(q))

(* A push that takes its slot from the wrong end. *)
PushFrontAtBack(q, i) == Append(q, i)

(* PLAY_NEXT and PLAY_NOW_INTERRUPT put the item before everything pending. *)
PushFront(q, i) == <<i>> \o q

(* A removal that reslices one short: the removed item stays. *)
RemoveLeavesItem(q, i) == Drop(q, IndexIn(q, i))

(* RemoveFromQueue takes one item out and closes the gap. *)
Remove(q, i) == LET k == IndexIn(q, i)
                IN  SubSeq(q, 1, k - 1) \o Drop(q, k + 1)

(* SkipTo drops whatever is ahead of i, which becomes the front. *)
SkipTo(q, i) == Drop(q, IndexIn(q, i))
=============================================================================
