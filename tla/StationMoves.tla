---------------------------- MODULE StationMoves ----------------------------
(***************************************************************************)
(* How a running station moves, as whoever looks at it sees it             *)
(* (internal/playback): an item it accepts is pending, then in the         *)
(* player's hands, on air, off air again and at last in the history, in    *)
(* this order and never in two of these places at once, though it may be   *)
(* taken out while it is pending and given up before it is on air.         *)
(*                                                                         *)
(* The station is a record, and its moves are operators on such records,   *)
(* so that a module with several stations can use them.                    *)
(***************************************************************************)
EXTENDS PlayQueue

CONSTANTS
    Tracks,    \* the ids items are given
    Remembered \* historyMaxEntries

ASSUME ContractAssumption == Tracks \subseteq Nat \ {0} /\ Remembered \in Nat \ {0}

Nothing == 0

(* queue: Queue.items; hand: the item Run has popped; stage: where that    *)
(* item is; history: Station.history; accepted: every item ever queued.    *)
EmptyStation == [queue    |-> <<>>,
                 hand     |-> Nothing,
                 stage    |-> "free",
                 history  |-> <<>>,
                 accepted |-> {}]

Stages == {"free", "held", "air", "off"}

(* Station.Current. *)
CurrentOf(s) == IF s.stage = "air" THEN s.hand ELSE Nothing

(* The moves of the player goroutine. *)
Popped(s) == [s EXCEPT !.queue = Tail(@), !.hand = Head(s.queue), !.stage = "held"]

Aired(s) == [s EXCEPT !.stage = "air"]

GivenUp(s) == [s EXCEPT !.hand = Nothing, !.stage = "free"]

OffAir(s) == [s EXCEPT !.stage = "off"]

Newest(h) == IF Len(h) > Remembered THEN Drop(h, Len(h) - Remembered + 1) ELSE h

Recorded(s) == [GivenUp(s) EXCEPT !.history = Newest(Append(@, s.hand))]

PlayerMoves(s) ==
    CASE s.stage = "free" -> IF s.queue = <<>> THEN {} ELSE {Popped(s)}
      [] s.stage = "held" -> {Aired(s), GivenUp(s)}
      [] s.stage = "air"  -> {OffAir(s)}
      [] s.stage = "off"  -> {Recorded(s)}

(* The moves of the RPC handlers. *)
Queued(s, i, mode) ==
    [s EXCEPT !.queue = IF mode = "Append" THEN Append(@, i) ELSE PushFront(@, i),
              !.accepted = @ \union {i}]

TakenOut(s, i) == IF Contains(s.queue, i) THEN [s EXCEPT !.queue = Remove(@, i)] ELSE s

Emptied(s) == [s EXCEPT !.queue = <<>>]

SkippedTo(s, i) == IF Contains(s.queue, i) THEN [s EXCEPT !.queue = SkipTo(@, i)] ELSE s

HandlerMoves(s) ==
    {Queued(s, i, mode) : i \in Tracks \ s.accepted, mode \in {"Append", "PlayNext"}}
    \union {TakenOut(s, i) : i \in s.accepted}
    \union {SkippedTo(s, i) : i \in s.accepted}
    \union {Emptied(s)}
=============================================================================
