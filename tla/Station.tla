------------------------------ MODULE Station ------------------------------
(***************************************************************************)
(* One registered station as its RPC handlers see it: the queue, the item  *)
(* on air, the pause/seek/skip controls and the cancel func of the clip in *)
(* flight (internal/playback/station.go), changed by the handlers of       *)
(* internal/grpcapi/server.go.  Every critical section and every atomic    *)
(* load or store is one step, so a handler of several sections is several  *)
(* steps and everything else can run between them.  The player goroutine,  *)
(* the other side of this state, is module Player.                         *)
(*                                                                         *)
(* QUEUE_UPDATED and QUEUE_LOW (Station.QueueChanged) touch none of this   *)
(* state; the clock behind the position reported to callers is left out:   *)
(* a position is a chunk of the item's file.                               *)
(***************************************************************************)
EXTENDS PlayQueue, FiniteSets

CONSTANTS
    MaxItems,    \* how many items are ever queued (a bound)
    MaxCalls,    \* how many RPCs are ever made (a bound)
    Clients,     \* the goroutines serving RPCs
    Ops,         \* the RPCs they serve
    FileChunks,  \* how many chunks every cached file has
    SeekArgs,    \* the positions a client may ask for
    HistoryMax   \* historyMaxEntries

Modes == {"Append", "PlayNext", "PlayNow"}

AllOps == Modes \union {"Remove", "Clear", "ClearStop", "Skip", "SkipTo",
                         "Pause", "Resume", "Seek", "Stop"}

ASSUME StationAssumption ==
    /\ MaxItems \in Nat /\ MaxCalls \in Nat
    /\ FileChunks \in Nat \ {0} /\ HistoryMax \in Nat \ {0}
    /\ SeekArgs \subseteq Int /\ Ops \subseteq AllOps

Items  == 1..MaxItems
None   == 0
NoSeek == -1

VARIABLES
    queue,        \* Queue.items
    next,         \* the id QueueTrack gives out next
    ahead,        \* ahead[i]: i was pushed in front (PLAY_NEXT, PLAY_NOW)
    prefetch,     \* QueuedItem.ready, err and isLive together
    current,      \* Station.current
    ctrl,         \* paused, pendingSeek and skipRequested, under playCtrlMu
    streamCancel, \* "nil", or the state of the context it cancels
    aimed,        \* the handlers holding the cancel func of the clip in flight
    ctxDone,      \* Run's context is cancelled
    history,      \* Station.history
    rpc,          \* the step each handler is at
    seekTo,       \* the position each Seek handler is about to set
    calls,        \* RPCs made so far
    outcome,      \* history variable: how each item left the station
    touched,      \* history variable: an RPC or a file error acted on the item on air
    skipFor       \* history variable: the item on air when Interrupt last ran

queueVars   == <<queue, next, ahead>>
streamVars  == <<streamCancel, aimed>>
stationVars == <<queue, next, ahead, prefetch, current, ctrl, streamCancel, aimed,
                 ctxDone, history, rpc, seekTo, calls, outcome, touched, skipFor>>

RpcSteps == {"idle", "clearCurrent", "interrupt", "load", "cancel", "pause", "seek"}

StationInit ==
    /\ queue = <<>> /\ next = 1
    /\ ahead = [i \in Items |-> FALSE]
    /\ prefetch = [i \in Items |-> "none"]
    /\ current = None
    /\ ctrl = [paused |-> FALSE, pendingSeek |-> NoSeek, skipRequested |-> FALSE]
    /\ streamCancel = "nil" /\ aimed = {} /\ ctxDone = FALSE
    /\ history = <<>>
    /\ rpc = [c \in Clients |-> "idle"]
    /\ seekTo = [c \in Clients |-> 0]
    /\ calls = 0
    /\ outcome = [i \in Items |-> "none"]
    /\ touched = FALSE /\ skipFor = None

-----------------------------------------------------------------------------
(* What an RPC starts from, and what becomes of the items it drops.        *)

Call(c, op, step) ==
    /\ op \in Ops /\ rpc[c] = "idle" /\ calls < MaxCalls
    /\ calls' = calls + 1
    /\ rpc' = [rpc EXCEPT ![c] = step]

Discard(dropped) ==
    outcome' = [i \in Items |-> IF i \in dropped THEN "removed" ELSE outcome[i]]

Pending(q) == {i \in Items : Contains(q, i)}

Touch == IF current # None THEN touched' = TRUE ELSE UNCHANGED touched

-----------------------------------------------------------------------------
(* Queue operations.                                                       *)

(* The item is built and handed to the prefetch pool before it is pushed;  *)
(* nobody but the pool can see it until then.                              *)
QueueTrack(c, mode) ==
    /\ next \in Items
    /\ Call(c, mode, IF mode = "PlayNow" THEN "interrupt" ELSE "idle")
    /\ next' = next + 1
    /\ prefetch' = [prefetch EXCEPT ![next] = "pending"]
    /\ ahead' = [ahead EXCEPT ![next] = mode # "Append"]
    /\ queue' = IF mode = "Append" THEN Append(queue, next) ELSE PushFront(queue, next)
    /\ UNCHANGED <<current, ctrl, streamVars, ctxDone, history, seekTo,
                   outcome, touched, skipFor>>

RemoveFromQueue(c, i) ==
    /\ Call(c, "Remove", "idle")
    /\ Contains(queue, i)
    /\ queue' = Remove(queue, i)
    /\ Discard({i})
    /\ UNCHANGED <<next, ahead, prefetch, current, ctrl, streamVars, ctxDone, history,
                   seekTo, touched, skipFor>>

(* With stop_current the handler goes on to read Current().                *)
ClearQueue(c, op) ==
    /\ Call(c, op, IF op = "ClearStop" THEN "clearCurrent" ELSE "idle")
    /\ queue' = <<>>
    /\ Discard(Pending(queue))
    /\ UNCHANGED <<next, ahead, prefetch, current, ctrl, streamVars, ctxDone, history,
                   seekTo, touched, skipFor>>

ClearCurrent(c) ==
    /\ rpc[c] = "clearCurrent"
    /\ rpc' = [rpc EXCEPT ![c] = IF current # None THEN "interrupt" ELSE "idle"]
    /\ UNCHANGED <<queueVars, prefetch, current, ctrl, streamVars, ctxDone, history,
                   seekTo, calls, outcome, touched, skipFor>>

(* SkipTo interrupts whether or not something is on air.                   *)
SkipToItem(c, i) ==
    /\ Call(c, "SkipTo", "interrupt")
    /\ Contains(queue, i)
    /\ queue' = SkipTo(queue, i)
    /\ Discard(Pending(queue) \ Pending(SkipTo(queue, i)))
    /\ UNCHANGED <<next, ahead, prefetch, current, ctrl, streamVars, ctxDone, history,
                   seekTo, touched, skipFor>>
-----------------------------------------------------------------------------
(* Skip, Pause, Resume, Seek.                                              *)

Skip(c) ==
    /\ Call(c, "Skip", IF current # None THEN "interrupt" ELSE "idle")
    /\ UNCHANGED <<queueVars, prefetch, current, ctrl, streamVars, ctxDone, history,
                   seekTo, outcome, touched, skipFor>>

(* Interrupt's section under playCtrlMu; cancelCurrentStream follows.      *)
Interrupt(c) ==
    /\ rpc[c] = "interrupt"
    /\ ctrl' = [paused |-> FALSE, pendingSeek |-> NoSeek, skipRequested |-> TRUE]
    /\ rpc' = [rpc EXCEPT ![c] = "load"]
    /\ Touch
    /\ skipFor' = current
    /\ UNCHANGED <<queueVars, prefetch, current, streamVars, ctxDone, history, seekTo,
                   calls, outcome>>

(* cancelCurrentStream reads streamCancel under its lock, and calls what   *)
(* it read after unlocking: by then that clip may have returned.           *)
LoadCancel(c) ==
    /\ rpc[c] = "load"
    /\ rpc' = [rpc EXCEPT ![c] = IF streamCancel = "nil" THEN "idle" ELSE "cancel"]
    /\ IF streamCancel = "nil" THEN UNCHANGED <<aimed, touched>>
       ELSE aimed' = aimed \union {c} /\ Touch
    /\ UNCHANGED <<queueVars, prefetch, current, ctrl, streamCancel, ctxDone, history,
                   seekTo, calls, outcome, skipFor>>

CallCancel(c) ==
    /\ rpc[c] = "cancel"
    /\ streamCancel' = IF c \in aimed THEN "cancelled" ELSE streamCancel
    /\ aimed' = aimed \ {c}
    /\ rpc' = [rpc EXCEPT ![c] = "idle"]
    /\ UNCHANGED <<queueVars, prefetch, current, ctrl, ctxDone, history, seekTo, calls,
                   outcome, touched, skipFor>>

(* Nothing on air, or a live relay: there is nothing to hold or to seek.   *)
Holdable == current # None /\ prefetch[current] # "live"

Pause(c) ==
    /\ Call(c, "Pause", IF Holdable THEN "pause" ELSE "idle")
    /\ UNCHANGED <<queueVars, prefetch, current, ctrl, streamVars, ctxDone, history,
                   seekTo, outcome, touched, skipFor>>

SetPaused(c) ==
    /\ rpc[c] = "pause"
    /\ ctrl' = [ctrl EXCEPT !.paused = TRUE]
    /\ rpc' = [rpc EXCEPT ![c] = IF ctrl.paused THEN "idle" ELSE "load"]
    /\ Touch
    /\ UNCHANGED <<queueVars, prefetch, current, streamVars, ctxDone, history, seekTo,
                   calls, outcome, skipFor>>

Resume(c) ==
    /\ Call(c, "Resume", "idle")
    /\ ctrl' = [ctrl EXCEPT !.paused = FALSE]
    /\ UNCHANGED <<queueVars, prefetch, current, streamVars, ctxDone, history, seekTo,
                   outcome, touched, skipFor>>

(* Clamped to [0, duration]; the duration is 0 until prefetch has ended,   *)
(* and then there is no upper end.                                         *)
Clamp(i, pos) ==
    IF pos < 0 THEN 0
    ELSE IF prefetch[i] = "ready" /\ pos > FileChunks THEN FileChunks ELSE pos

(* SeekBy is SeekPosition of a position computed from the clock.           *)
Seek(c, pos) ==
    /\ Call(c, "Seek", IF Holdable THEN "seek" ELSE "idle")
    /\ seekTo' = [seekTo EXCEPT ![c] = IF Holdable THEN Clamp(current, pos) ELSE 0]
    /\ UNCHANGED <<queueVars, prefetch, current, ctrl, streamVars, ctxDone, history,
                   outcome, touched, skipFor>>

SetPendingSeek(c) ==
    /\ rpc[c] = "seek"
    /\ ctrl' = [ctrl EXCEPT !.pendingSeek = seekTo[c]]
    /\ rpc' = [rpc EXCEPT ![c] = IF ctrl.paused THEN "idle" ELSE "load"]
    /\ seekTo' = [seekTo EXCEPT ![c] = 0]
    /\ Touch
    /\ UNCHANGED <<queueVars, prefetch, current, streamVars, ctxDone, history, calls,
                   outcome, skipFor>>

(* UnregisterStation's Stop cancels the context of Run, and so of the clip *)
(* in flight.                                                              *)
Stop(c) ==
    /\ Call(c, "Stop", "idle")
    /\ ctxDone' = TRUE
    /\ UNCHANGED <<queueVars, prefetch, current, ctrl, streamVars, history, seekTo,
                   outcome, touched, skipFor>>

-----------------------------------------------------------------------------
(* The prefetch pool closes Ready exactly once (internal/transcode).       *)

Mark(i, result) ==
    /\ prefetch[i] = "pending"
    /\ prefetch' = [prefetch EXCEPT ![i] = result]
    /\ UNCHANGED <<queueVars, current, ctrl, streamVars, ctxDone, history, rpc, seekTo,
                   calls, outcome, touched, skipFor>>

Prefetched(i) == \E result \in {"ready", "live", "failed"} : Mark(i, result)

CallStarts(c) ==
    \/ \E mode \in Modes : QueueTrack(c, mode)
    \/ \E i \in Items : RemoveFromQueue(c, i) \/ SkipToItem(c, i)
    \/ \E op \in {"Clear", "ClearStop"} : ClearQueue(c, op)
    \/ Skip(c) \/ Pause(c) \/ Resume(c) \/ Stop(c)
    \/ \E pos \in SeekArgs : Seek(c, pos)

CallContinues(c) ==
    \/ ClearCurrent(c) \/ Interrupt(c) \/ LoadCancel(c) \/ CallCancel(c)
    \/ SetPaused(c) \/ SetPendingSeek(c)

StationNext ==
    \/ \E c \in Clients : CallStarts(c) \/ CallContinues(c)
    \/ \E i \in Items : Prefetched(i)
=============================================================================
