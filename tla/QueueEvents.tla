---------------------------- MODULE QueueEvents ----------------------------
(***************************************************************************)
(* How a station's script hears that its queue runs low: the player and    *)
(* the RPC handlers change the queue and then run Station.QueueChanged     *)
(* (internal/playback/station.go), which takes no lock from its first line *)
(* to its last; EventBus.Publish (events.go) puts an event into the        *)
(* subscriber's buffer or drops it; the SubscribeEvents handler, the       *)
(* connection and subscribeEventsLoop carry it to Run's select             *)
(* (internal/luastation/engine.go), where the script's on_queue_low        *)
(* refills the queue.  The connection may break: the loop registers again, *)
(* signals on_register, which refills too, and only then subscribes.       *)
(*                                                                         *)
(* Of the queue only the length matters, and of the events only which of   *)
(* them are QUEUE_LOW.                                                     *)
(***************************************************************************)
EXTENDS Naturals, Sequences

CONSTANTS
    Player,      \* the goroutine of Station.Run
    Handlers,    \* the goroutines that serve calls, the script's and others'
    MaxLength,   \* how long the queue ever is (a bound)
    Thresholds,  \* the low_queue_threshold values a controller registers with
    MaxTaken,    \* how many items leave the queue during one callback (a bound:
                 \* a track takes longer than a call)
    MaxTurns,    \* how often the connection breaks or the threshold changes (a bound)
    BusCap,      \* eventBufferSize
    OutCap       \* the buffers of the connection and of eventsCh

ASSUME QueueEventsAssumption ==
    /\ Player \notin Handlers
    /\ MaxLength \in Nat /\ MaxTaken \in Nat /\ MaxTurns \in Nat
    /\ Thresholds \subseteq Nat
    /\ BusCap \in Nat \ {0} /\ OutCap \in Nat \ {0}

Publishers == {Player} \union Handlers

VARIABLES
    length,     \* Queue.Len()
    threshold,  \* lowQueueThreshold
    wasLow,     \* wasQueueLow
    step,       \* step[p]: the next step of p's QueueChanged, "idle" outside of it
    seen,       \* seen[p]: the length it read
    limit,      \* limit[p]: the threshold it loaded
    link,       \* subscribeEventsLoop: "open", "broken", or "registered" again
    bus,        \* the subscriber's channel in EventBus.subs
    out,        \* what is on its way from there to the script, eventsCh included
    signal,     \* whether reregisteredCh holds a signal
    main,       \* the goroutine that owns the Lua state
    serving,    \* the handlers at work on a call of the script
    taken,      \* how many items left the queue since its callback began
    turns,      \* how often that happened
    overlap,    \* history variable: overlap[p]: another queue change or a new
                \* threshold came between p's queue change and its swap
    clean,      \* history variable: the last swap had no overlap, and the
                \* threshold is still the same
    unheard     \* history variable: since a swap without overlap last found the
                \* queue long enough, one had overlap, the threshold changed, or
                \* a QUEUE_LOW was dropped or published to nobody with no
                \* on_register to follow

queueVars == <<length, taken>>
lowVars   == <<step, seen, limit, wasLow, overlap, clean, unheard>>
pathVars  == <<link, bus, out, signal>>
mainVars  == <<main, serving>>
vars == <<queueVars, threshold, lowVars, pathVars, mainVars, turns>>

Init ==
    /\ length = 0 /\ taken = 0
    /\ threshold \in Thresholds /\ wasLow = FALSE
    /\ step = [p \in Publishers |-> "idle"]
    /\ seen = [p \in Publishers |-> 0]
    /\ limit = [p \in Publishers |-> 0]
    /\ link = "registered" /\ bus = <<>> /\ out = <<>>
    /\ signal = FALSE /\ main = "idle" /\ serving = {}
    /\ turns = 0
    /\ overlap = [p \in Publishers |-> FALSE]
    /\ clean = FALSE /\ unheard = TRUE

-----------------------------------------------------------------------------
(* The queue operations that QueueChanged follows.                         *)

(* p has changed the queue and not yet swapped wasQueueLow.                *)
Owing(p) == step[p] \in {"len", "updated", "threshold", "swap"}

Change(p, n) ==
    /\ step[p] = "idle"
    /\ length' = n
    /\ step' = [step EXCEPT ![p] = "len"]
    /\ overlap' = [q \in Publishers |->
                     IF q = p THEN \E r \in Publishers \ {p} : Owing(r)
                     ELSE overlap[q] \/ Owing(q)]
    /\ UNCHANGED <<threshold, seen, limit, wasLow, clean, unheard, pathVars, turns>>

(* Counted only while a callback runs.                                     *)
Leaves ==
    /\ main = "idle" \/ main = "stuck" \/ taken < MaxTaken
    /\ taken' = IF main \in {"idle", "stuck"} THEN taken ELSE taken + 1

PopFront ==
    /\ length > 0
    /\ Change(Player, length - 1) /\ Leaves
    /\ UNCHANGED mainVars

Append1 == length + 1

QueueTrack(h) ==
    /\ length < MaxLength
    /\ Change(h, Append1)
    /\ UNCHANGED <<taken, mainVars>>

(* RemoveFromQueue, ClearQueue and SkipTo, when they took something out.   *)
TakeOut(h) ==
    /\ \E n \in 0..(length - 1) : Change(h, n)
    /\ Leaves
    /\ UNCHANGED mainVars

(* RegisterStation of a station that is there: Station.SetMetadata.        *)
SetMetadata(t) ==
    /\ turns < MaxTurns /\ t # threshold
    /\ threshold' = t /\ turns' = turns + 1
    /\ overlap' = [q \in Publishers |-> overlap[q] \/ Owing(q)]
    /\ clean' = FALSE /\ unheard' = TRUE
    /\ UNCHANGED <<queueVars, step, seen, limit, wasLow, pathVars, mainVars>>

-----------------------------------------------------------------------------
(* QueueChanged and Publish.                                               *)

(* A wrong variant: a publisher that waits for room.                       *)
PublishWaits(e) ==
    /\ link = "open" => Len(bus) < BusCap
    /\ bus' = IF link = "open" THEN Append(bus, e) ELSE bus

Publish(e) ==
    bus' = IF link = "open" /\ Len(bus) < BusCap THEN Append(bus, e) ELSE bus

ReadLength(p) ==
    /\ step[p] = "len"
    /\ seen' = [seen EXCEPT ![p] = length]
    /\ step' = [step EXCEPT ![p] = "updated"]
    /\ UNCHANGED <<queueVars, threshold, limit, wasLow, overlap, clean, unheard, pathVars, mainVars,
                   turns>>

PublishUpdated(p) ==
    /\ step[p] = "updated"
    /\ Publish("QUEUE_UPDATED")
    /\ step' = [step EXCEPT ![p] = "threshold"]
    /\ UNCHANGED <<queueVars, threshold, seen, limit, wasLow, overlap, clean, unheard, link, out,
                   signal, mainVars, turns>>

(* Without a threshold there is no more to do.                             *)
LoadThreshold(p) ==
    /\ step[p] = "threshold"
    /\ IF threshold = 0
         THEN /\ step' = [step EXCEPT ![p] = "idle"]
              /\ seen' = [seen EXCEPT ![p] = 0]
              /\ overlap' = [overlap EXCEPT ![p] = FALSE]
              /\ UNCHANGED limit
         ELSE /\ step' = [step EXCEPT ![p] = "swap"]
              /\ limit' = [limit EXCEPT ![p] = threshold]
              /\ UNCHANGED <<seen, overlap>>
    /\ UNCHANGED <<queueVars, threshold, wasLow, clean, unheard, pathVars, mainVars, turns>>

(* A wrong variant: below the threshold, not at it.                        *)
BelowOnly(n, t) == n < t

IsLow(n, t) == n <= t

(* A wrong variant: set when the queue gets low and never reset.           *)
SwapSetsOnly(p) ==
    /\ step[p] = "swap"
    /\ LET isLow == IsLow(seen[p], limit[p])
       IN  /\ wasLow' = (wasLow \/ isLow)
           /\ step' = [step EXCEPT ![p] = IF isLow /\ ~wasLow THEN "low" ELSE "idle"]
    /\ seen' = [seen EXCEPT ![p] = 0] /\ limit' = [limit EXCEPT ![p] = 0]
    /\ clean' = ~overlap[p]
    /\ unheard' = (overlap[p] \/ (unheard /\ wasLow'))
    /\ overlap' = [overlap EXCEPT ![p] = FALSE]
    /\ UNCHANGED <<queueVars, threshold, pathVars, mainVars, turns>>

Swap(p) ==
    /\ step[p] = "swap"
    /\ LET isLow == IsLow(seen[p], limit[p])
       IN  /\ wasLow' = isLow
           /\ step' = [step EXCEPT ![p] = IF isLow /\ ~wasLow THEN "low" ELSE "idle"]
    /\ seen' = [seen EXCEPT ![p] = 0] /\ limit' = [limit EXCEPT ![p] = 0]
    /\ clean' = ~overlap[p]
    /\ unheard' = (overlap[p] \/ (unheard /\ wasLow'))
    /\ overlap' = [overlap EXCEPT ![p] = FALSE]
    /\ UNCHANGED <<queueVars, threshold, pathVars, mainVars, turns>>

(* A loop that is broken still has on_register before it.                  *)
PublishLow(p) ==
    /\ step[p] = "low"
    /\ Publish("QUEUE_LOW")
    /\ unheard' = (unheard \/ (bus' = bus /\ link # "broken"))
    /\ step' = [step EXCEPT ![p] = "idle"]
    /\ UNCHANGED <<queueVars, threshold, seen, limit, wasLow, overlap, clean, link, out,
                   signal, mainVars, turns>>

QueueChanged(p) ==
    ReadLength(p) \/ PublishUpdated(p) \/ LoadThreshold(p) \/ Swap(p) \/ PublishLow(p)

-----------------------------------------------------------------------------
(* From the bus to the script.                                             *)

(* The SubscribeEvents handler sends, and subscribeEventsLoop puts what it *)
(* receives into eventsCh; each waits until there is room.                 *)
Forward ==
    /\ link = "open" /\ bus # <<>> /\ Len(out) < OutCap
    /\ out' = Append(out, Head(bus)) /\ bus' = Tail(bus)
    /\ UNCHANGED <<queueVars, threshold, lowVars, link, signal, mainVars, turns>>

(* What was sent and not received is lost like what is in the bus.         *)
ConnectionBreaks ==
    /\ link = "open" /\ turns < MaxTurns
    /\ link' = "broken" /\ bus' = <<>> /\ turns' = turns + 1
    /\ UNCHANGED <<queueVars, threshold, lowVars, out, signal, mainVars>>

(* A wrong variant: the script is not told that it was registered again.   *)
ReregisterQuietly ==
    /\ link = "broken"
    /\ link' = "registered"
    /\ UNCHANGED <<queueVars, threshold, lowVars, bus, out, signal, mainVars,
                   turns>>

(* RegisterStation leaves a station that is there as it is.                *)
Reregister ==
    /\ link = "broken"
    /\ link' = "registered" /\ signal' = TRUE
    /\ UNCHANGED <<queueVars, threshold, lowVars, bus, out, mainVars, turns>>

Subscribe ==
    /\ link = "registered"
    /\ link' = "open"
    /\ UNCHANGED <<queueVars, threshold, lowVars, bus, out, signal, mainVars,
                   turns>>

(* dispatchEvent: only on_queue_low does something here.                   *)
Dispatch ==
    /\ main = "idle" /\ out # <<>>
    /\ out' = Tail(out)
    /\ main' = IF Head(out) = "QUEUE_LOW" THEN "status" ELSE "idle"
    /\ taken' = 0
    /\ UNCHANGED <<length, threshold, lowVars, link, bus, signal, serving, turns>>

OnRegister ==
    /\ main = "idle" /\ signal
    /\ signal' = FALSE /\ main' = "status" /\ taken' = 0
    /\ UNCHANGED <<length, threshold, lowVars, link, bus, out, serving, turns>>

(* The callback: while radio.status says the queue is low, radio.queue.    *)
ReadStatus ==
    /\ main = "status"
    /\ main' = IF length <= threshold /\ length < MaxLength THEN "queue" ELSE "idle"
    /\ taken' = IF main' = "idle" THEN 0 ELSE taken
    /\ UNCHANGED <<length, threshold, lowVars, pathVars, serving, turns>>

Refill(h) ==
    /\ main = "queue" /\ length < MaxLength
    /\ Change(h, Append1)
    /\ main' = "answer" /\ serving' = {h}
    /\ UNCHANGED taken

Answered ==
    /\ main = "answer" /\ \A h \in serving : step[h] = "idle"
    /\ main' = "status" /\ serving' = {}
    /\ UNCHANGED <<queueVars, threshold, lowVars, pathVars, turns>>

(* A callback that never returns.                                          *)
Hang ==
    /\ main = "status"
    /\ main' = "stuck"
    /\ UNCHANGED <<queueVars, threshold, lowVars, pathVars, serving, turns>>

-----------------------------------------------------------------------------
OthersCall == \E h \in Handlers \ serving : QueueTrack(h) \/ TakeOut(h)

Registers == \E t \in Thresholds : SetMetadata(t)

LinkStep == Forward \/ Reregister \/ Subscribe

MainStep ==
    \/ Dispatch \/ OnRegister \/ ReadStatus \/ Answered
    \/ \E h \in Handlers : Refill(h)

Next ==
    \/ PopFront \/ OthersCall \/ Registers
    \/ \E p \in Publishers : QueueChanged(p)
    \/ LinkStep \/ ConnectionBreaks
    \/ MainStep \/ Hang

Spec == Init /\ [][Next]_vars

(* Every goroutine goes on; Go's select picks among ready cases at random, *)
(* so neither events nor signals are left forever.  Nothing need ever be   *)
(* played or queued by others.                                             *)
FairSpec ==
    /\ Spec
    /\ \A p \in Publishers : WF_vars(QueueChanged(p))
    /\ WF_vars(Forward) /\ WF_vars(Reregister \/ Subscribe)
    /\ WF_vars(Dispatch) /\ SF_vars(OnRegister)
    /\ SF_vars(\E h \in Handlers : Refill(h))
    /\ WF_vars(ReadStatus) /\ WF_vars(Answered)

-----------------------------------------------------------------------------
Events == {"QUEUE_UPDATED", "QUEUE_LOW"}

TypeOK ==
    /\ length \in 0..MaxLength /\ taken \in 0..MaxTaken
    /\ threshold \in Thresholds /\ wasLow \in BOOLEAN
    /\ step \in [Publishers -> {"idle", "len", "updated", "threshold", "swap", "low"}]
    /\ seen \in [Publishers -> 0..MaxLength]
    /\ limit \in [Publishers -> Thresholds \union {0}]
    /\ link \in {"open", "broken", "registered"}
    /\ bus \in Seq(Events) /\ Len(bus) <= BusCap
    /\ out \in Seq(Events) /\ Len(out) <= OutCap
    /\ signal \in BOOLEAN
    /\ main \in {"idle", "status", "queue", "answer", "stuck"} /\ serving \subseteq Handlers
    /\ turns \in 0..MaxTurns
    /\ overlap \in [Publishers -> BOOLEAN]
    /\ clean \in BOOLEAN /\ unheard \in BOOLEAN

(* The edge trigger is armed exactly when it should be: once every queue   *)
(* change has been followed by its swap, wasQueueLow says whether the      *)
(* queue is low - provided the last swap raced with no other change.       *)
LowTracked ==
    clean /\ (\A p \in Publishers : ~Owing(p)) => wasLow = (length <= threshold)

Low == threshold > 0 /\ length <= threshold

(* A script that refills the queue in on_queue_low, and in on_register     *)
(* after a break, gets it above the threshold whenever it runs low, unless *)
(* queue changes raced, a QUEUE_LOW found its buffer full or came while    *)
(* the script was registered and not subscribed, or a callback hangs.      *)
(* The warning of the docs is the case of a station never seen otherwise   *)
(* than low: unheard is then TRUE.                                         *)
RefillKeepsUp == (Low /\ ~unheard) ~> (~Low \/ unheard \/ main = "stuck")

(* Whatever becomes of the script, the player gets through QueueChanged.   *)
PlayerGoesOn == (step[Player] # "idle") ~> (step[Player] = "idle")
=============================================================================
