---------------------------- MODULE Broadcaster ----------------------------
(***************************************************************************)
(* The fan-out of one station's audio (internal/playback/broadcaster.go):  *)
(* the player writes chunks, each HTTP handler (internal/httpapi/stream.go)*)
(* copies its own channel to its client, Stop closes them all.  Each       *)
(* method holds Broadcaster.mu throughout and is one step; the count       *)
(* callback it ends with runs after the unlock and is a step of its own.   *)
(*                                                                         *)
(* A chunk is the number of its Write.  A listener id is never reused, so  *)
(* a client that reconnects is another element of Listeners.               *)
(***************************************************************************)
EXTENDS Integers, Sequences, FiniteSets

CONSTANTS
    Listeners,   \* the ids Subscribe gives out, one per GET /stream/{slug}
    BufferSize,  \* listenerBufferSize
    MaxDrops,    \* maxConsecutiveDrops
    MaxChunks    \* how many chunks are ever written (a bound)

ASSUME BroadcasterAssumption ==
    /\ IsFiniteSet(Listeners)
    /\ BufferSize \in Nat \ {0} /\ MaxDrops \in Nat \ {0} /\ MaxChunks \in Nat

VARIABLES
    listeners,  \* the keys of Broadcaster.listeners
    ch,         \* ch[l]: what listener.ch holds
    closes,     \* closes[l]: how often listener.ch was closed
    dropped,    \* listener.dropped
    written,    \* Writes so far
    stopped,    \* Station.Stop has called CloseAll
    pc,         \* pc[l]: the next step of the handler of l
    hungUp,     \* the clients whose connection is gone
    owes,       \* owes[a]: the count a is about to report, or Nothing
    got,        \* history variable: the last chunk the handler took, or the last
                \* written before it subscribed
    reported,   \* history variable: the count last published
    overlapped  \* history variable: the last change came during another's callback

bufferVars == <<ch, closes, dropped, got>>
countVars  == <<owes, reported, overlapped>>
vars == <<listeners, ch, closes, dropped, written, stopped, pc, hungUp, got, countVars>>

Actors  == Listeners \union {"player", "stop"}
Nothing == -1

Init ==
    /\ listeners = {}
    /\ ch = [l \in Listeners |-> <<>>]
    /\ closes = [l \in Listeners |-> 0]
    /\ dropped = [l \in Listeners |-> 0]
    /\ written = 0 /\ stopped = FALSE
    /\ pc = [l \in Listeners |-> "away"]
    /\ hungUp = {}
    /\ owes = [a \in Actors |-> Nothing]
    /\ got = [l \in Listeners |-> 0]
    /\ reported = 0 /\ overlapped = FALSE

-----------------------------------------------------------------------------
(* The count callback: NewStation publishes LISTENER_COUNT_CHANGED.        *)

Free(a) == owes[a] = Nothing

Owe(a, current) ==
    /\ owes' = [owes EXCEPT ![a] = Cardinality(current)]
    /\ overlapped' = (\E b \in Actors : ~Free(b))

Report(a) ==
    /\ ~Free(a)
    /\ reported' = owes[a]
    /\ owes' = [owes EXCEPT ![a] = Nothing]
    /\ UNCHANGED <<listeners, bufferVars, written, stopped, pc, hungUp, overlapped>>

-----------------------------------------------------------------------------
(* One listener and its handler.                                           *)

Subscribe(l) ==
    /\ pc[l] = "away"
    /\ pc' = [pc EXCEPT ![l] = "select"]
    /\ listeners' = listeners \union {l}
    /\ Owe(l, listeners')
    /\ got' = [got EXCEPT ![l] = written]
    /\ UNCHANGED <<ch, closes, dropped, written, stopped, hungUp, reported>>

HangUp(l) ==
    /\ pc[l] \in {"select", "write"} /\ l \notin hungUp
    /\ hungUp' = hungUp \union {l}
    /\ UNCHANGED <<listeners, bufferVars, written, stopped, pc, countVars>>

(* select takes any case that is ready.                                    *)
SeesHangUp(l) ==
    /\ pc[l] = "select" /\ Free(l) /\ l \in hungUp
    /\ pc' = [pc EXCEPT ![l] = "leave"]
    /\ UNCHANGED <<listeners, bufferVars, written, stopped, hungUp, countVars>>

Receive(l) ==
    /\ pc[l] = "select" /\ Free(l) /\ ch[l] # <<>>
    /\ got' = [got EXCEPT ![l] = Head(ch[l])]
    /\ ch' = [ch EXCEPT ![l] = Tail(ch[l])]
    /\ pc' = [pc EXCEPT ![l] = "write"]
    /\ UNCHANGED <<listeners, closes, dropped, written, stopped, hungUp, countVars>>

(* A wrong variant: an empty chunk is taken from a closed channel for ever. *)
SeesNothing(l) ==
    /\ pc[l] = "select" /\ Free(l) /\ ch[l] = <<>> /\ closes[l] > 0
    /\ pc' = [pc EXCEPT ![l] = "write"]
    /\ UNCHANGED <<listeners, bufferVars, written, stopped, hungUp, countVars>>

(* A closed channel still gives what it holds first.                       *)
SeesClosed(l) ==
    /\ pc[l] = "select" /\ Free(l) /\ ch[l] = <<>> /\ closes[l] > 0
    /\ pc' = [pc EXCEPT ![l] = "leave"]
    /\ UNCHANGED <<listeners, bufferVars, written, stopped, hungUp, countVars>>

(* w.Write and Flush return once the client has taken the bytes ...        *)
ClientTakes(l) ==
    /\ pc[l] = "write" /\ l \notin hungUp
    /\ pc' = [pc EXCEPT ![l] = "select"]
    /\ UNCHANGED <<listeners, bufferVars, written, stopped, hungUp, countVars>>

(* ... or fail when the connection is gone.  The server sets no deadline.  *)
WriteFails(l) ==
    /\ pc[l] = "write" /\ l \in hungUp
    /\ pc' = [pc EXCEPT ![l] = "leave"]
    /\ UNCHANGED <<listeners, bufferVars, written, stopped, hungUp, countVars>>

(* Nothing refers to the listener any more.                                *)
Collect(l) ==
    /\ ch' = [ch EXCEPT ![l] = <<>>]
    /\ dropped' = [dropped EXCEPT ![l] = 0]
    /\ got' = [got EXCEPT ![l] = 0]
    /\ hungUp' = hungUp \ {l}

(* A wrong variant: closes a channel that Write or CloseAll has closed.    *)
UnsubscribeAnyway(l) ==
    /\ pc[l] = "leave"
    /\ pc' = [pc EXCEPT ![l] = "gone"]
    /\ closes' = [closes EXCEPT ![l] = @ + 1]
    /\ listeners' = listeners \ {l}
    /\ Owe(l, listeners')
    /\ Collect(l)
    /\ UNCHANGED <<written, stopped, reported>>

Unsubscribe(l) ==
    /\ pc[l] = "leave"
    /\ pc' = [pc EXCEPT ![l] = "gone"]
    /\ closes' = IF l \in listeners THEN [closes EXCEPT ![l] = @ + 1] ELSE closes
    /\ listeners' = listeners \ {l}
    /\ Owe(l, listeners')
    /\ Collect(l)
    /\ UNCHANGED <<written, stopped, reported>>

-----------------------------------------------------------------------------
(* The player's Write and Stop's CloseAll.                                 *)

HasRoom(buffer) == Len(buffer) < BufferSize

(* A wrong variant: one drop too late.                                     *)
OverLimit(drops) == drops > MaxDrops

TooSlow(drops) == drops >= MaxDrops

(* A wrong variant: drops add up over a listener's whole life.             *)
DropsInAll(l) == IF HasRoom(ch[l]) THEN dropped[l] ELSE dropped[l] + 1

DropsInARow(l) == IF HasRoom(ch[l]) THEN 0 ELSE dropped[l] + 1

(* A wrong variant: eviction is not a change of the count.                 *)
ReportQuietly(evicted, current) == UNCHANGED <<owes, overlapped>>

ReportEviction(evicted, current) ==
    IF evicted # {} THEN Owe("player", current) ELSE UNCHANGED <<owes, overlapped>>

(* The listeners that Write takes out of the map.                          *)
Evicted == {l \in listeners : TooSlow(DropsInARow(l)) /\ ~HasRoom(ch[l])}

Write ==
    /\ written < MaxChunks /\ Free("player")
    /\ written' = written + 1
    /\ ch' = [l \in Listeners |-> IF l \in listeners /\ HasRoom(ch[l])
                                  THEN Append(ch[l], written + 1) ELSE ch[l]]
    /\ dropped' = [l \in Listeners |-> IF l \in listeners \ Evicted THEN DropsInARow(l) ELSE 0]
    /\ closes' = [l \in Listeners |-> IF l \in Evicted THEN closes[l] + 1 ELSE closes[l]]
    /\ listeners' = listeners \ Evicted
    /\ ReportEviction(Evicted, listeners')
    /\ UNCHANGED <<stopped, pc, hungUp, got, reported>>

(* A station leaves the registry once, so Stop runs once.                  *)
CloseAll ==
    /\ ~stopped
    /\ stopped' = TRUE
    /\ closes' = [l \in Listeners |-> IF l \in listeners THEN closes[l] + 1 ELSE closes[l]]
    /\ dropped' = [l \in Listeners |-> 0]
    /\ listeners' = {}
    /\ Owe("stop", {})
    /\ UNCHANGED <<ch, written, pc, hungUp, got, reported>>

-----------------------------------------------------------------------------
(* What the handler of l does when it can, without its client's help.      *)
HandlerStep(l) == SeesHangUp(l) \/ Receive(l) \/ SeesClosed(l) \/ WriteFails(l) \/ Unsubscribe(l)

Next ==
    \/ Write \/ CloseAll
    \/ \E a \in Actors : Report(a)
    \/ \E l \in Listeners : Subscribe(l) \/ HangUp(l) \/ ClientTakes(l) \/ HandlerStep(l)

Spec == Init /\ [][Next]_vars

(* Handlers that can go on do, and a callback once begun ends.             *)
FairSpec ==
    /\ Spec
    /\ \A a \in Actors : WF_vars(Report(a))
    /\ \A l \in Listeners : WF_vars(HandlerStep(l))

(* Beside that every client that stays connected reads.                    *)
ReadingSpec == FairSpec /\ \A l \in Listeners : WF_vars(ClientTakes(l))

-----------------------------------------------------------------------------
TypeOK ==
    /\ listeners \subseteq Listeners
    /\ ch \in [Listeners -> Seq(1..MaxChunks)]
    /\ \A l \in Listeners : Len(ch[l]) <= BufferSize
    /\ closes \in [Listeners -> Nat]
    /\ dropped \in [Listeners -> Nat]
    /\ written \in 0..MaxChunks /\ stopped \in BOOLEAN
    /\ pc \in [Listeners -> {"away", "select", "write", "leave", "gone"}]
    /\ hungUp \subseteq Listeners
    /\ owes \in [Actors -> Int]
    /\ got \in [Listeners -> 0..MaxChunks]
    /\ reported \in Int /\ overlapped \in BOOLEAN

(* A channel is closed exactly when its listener leaves the map, whichever *)
(* of Write, CloseAll and unsubscribe takes it out and in whatever order   *)
(* they come: a second close, or a send after the close, panics.           *)
ChannelClosedOnce ==
    \A l \in Listeners : pc[l] # "away" => closes[l] = IF l \in listeners THEN 0 ELSE 1

(* The i-th chunk that waits for the handler; the 0th is the one it took.  *)
Nth(l, i) == IF i = 0 THEN got[l] ELSE ch[l][i]

Newest(l) == Nth(l, Len(ch[l]))

Connected(l) == pc[l] \notin {"away", "gone"}

(* A listener never misses MaxDrops chunks in a row: its stream has no     *)
(* wider gap, and neither has what a listener still in the map has ahead.  *)
GapsBounded ==
    \A l \in Listeners : Connected(l) =>
        /\ \A i \in 1..Len(ch[l]) : Nth(l, i) - Nth(l, i - 1) \in 1..MaxDrops
        /\ l \in listeners => written - Newest(l) < MaxDrops

(* With no callback in flight, and none that ran into another, the last    *)
(* count published is the count there is: every way in and out reports.    *)
CountReported ==
    (\A a \in Actors : Free(a)) /\ ~overlapped => reported = Cardinality(listeners)

(* Write evicts only a listener that has missed the last MaxDrops chunks,  *)
(* this one included: one that keeps up with some of them stays.           *)
EvictedOnlyWhenStuck ==
    [][\A l \in listeners \ listeners' :
          written' # written => written' - Newest(l) >= MaxDrops]_vars

(* A listener that was evicted, or whose station was stopped, gets its     *)
(* response ended.                                                         *)
DisconnectedHandlersEnd ==
    \A l \in Listeners : (pc[l] # "away" /\ l \notin listeners) ~> (pc[l] = "gone")
=============================================================================
