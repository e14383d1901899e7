------------------------------- MODULE Player -------------------------------
(***************************************************************************)
(* The player goroutine of a station (internal/playback/player.go) beside  *)
(* the RPC handlers of module Station.                                     *)
(*                                                                         *)
(* pc is where the goroutine stands; clip says which streamFile or         *)
(* streamLiveRelay call it is in or last returned from: "idle" is the      *)
(* silence of an empty queue, "wait" the silence while an item's prefetch  *)
(* runs, "track" the item's own file, "hold" the silence of a paused       *)
(* track, "live" a relay.  A chunk of a file is one unit of position.      *)
(* Steps that touch nothing another goroutine reads are merged with the    *)
(* next step that does.                                                    *)
(***************************************************************************)
EXTENDS Station

CONSTANT FileErrors \* whether opening or reading a clip may fail

ASSUME PlayerAssumption == FileErrors \in BOOLEAN

VARIABLES
    pc,
    clip,
    item,       \* the item Run has popped
    offset,     \* playLocalItem's offsetBytes
    sent,       \* streamFile's bytesSent
    why,        \* how the item's playback ended: the reason and its cause
    wasSilent,
    air,        \* history variable: what the events published so far say is on air
    heard       \* history variable: the chunk of the item listeners should hear next

vars == <<stationVars, pc, clip, item, offset, sent, why, wasSilent, air, heard>>

playerVars == <<pc, clip, item, offset, sent, why, wasSilent, air, heard>>

Clips    == {"idle", "wait", "track", "hold", "live"}
PcValues == {"top", "open", "stream", "poll", "skip?", "seek?", "paused?", "hold?",
             "check", "reset", "ending", "cleanup", "done"}
(* "completed" is that reason; every other cause has the reason "interrupted". *)
Causes == {"completed", "stopped", "skipped", "nothing", "cut"}

PlayerInit ==
    /\ pc = "top" /\ clip = "idle" /\ item = None
    /\ offset = 0 /\ sent = 0 /\ why = "completed"
    /\ wasSilent = FALSE /\ air = "none" /\ heard = 0

(* What the player changes of the station is listed action by action; the  *)
(* rest of it, and the RPCs in progress, stay.                             *)
Rpcs == <<next, ahead, prefetch, ctxDone, rpc, seekTo, calls, skipFor>>

RecordHistory(h, e) ==
    LET longer == Append(h, e)
    IN  IF Len(longer) > HistoryMax THEN Drop(longer, Len(longer) - HistoryMax + 1)
        ELSE longer

-----------------------------------------------------------------------------
(* Run: the queue.                                                         *)

RunEnds ==
    /\ pc = "top" /\ ctxDone
    /\ pc' = "done"
    /\ UNCHANGED <<stationVars, clip, item, offset, sent, why, wasSilent, air, heard>>

AnnounceSilence ==
    /\ wasSilent' = TRUE
    /\ air' = IF wasSilent THEN air ELSE "silence"

QueueEmpty ==
    /\ pc = "top" /\ ~ctxDone /\ queue = <<>>
    /\ AnnounceSilence
    /\ clip' = "idle" /\ pc' = "open"
    /\ UNCHANGED <<stationVars, item, offset, sent, why, heard>>

(* A wait whose silence is not announced. *)
PopFrontQuietly ==
    /\ pc = "top" /\ ~ctxDone /\ queue # <<>>
    /\ item' = Head(queue)
    /\ queue' = Tail(queue)
    /\ clip' = "wait"
    /\ pc' = IF prefetch[Head(queue)] = "pending" THEN "open" ELSE "check"
    /\ UNCHANGED <<Rpcs, current, ctrl, streamVars, history, outcome, touched,
                   offset, sent, why, wasSilent, air, heard>>

(* PopFront, then the select on Ready: silence until the item is ready.    *)
PopFront ==
    /\ pc = "top" /\ ~ctxDone /\ queue # <<>>
    /\ item' = Head(queue)
    /\ queue' = Tail(queue)
    /\ clip' = "wait"
    /\ IF prefetch[Head(queue)] = "pending"
       THEN pc' = "open" /\ AnnounceSilence
       ELSE pc' = "check" /\ UNCHANGED <<wasSilent, air>>
    /\ UNCHANGED <<Rpcs, current, ctrl, streamVars, history, outcome, touched,
                   offset, sent, why, heard>>

(* A wrong variant: the history has the item as if it had been on air.     *)
DropFailedRecorded ==
    /\ pc = "check" /\ prefetch[item] = "failed"
    /\ history' = RecordHistory(history, [item |-> item, reason |-> "interrupted"])
    /\ outcome' = [outcome EXCEPT ![item] = "failed"]
    /\ pc' = "top" /\ clip' = "idle" /\ item' = None
    /\ UNCHANGED <<Rpcs, queue, current, ctrl, streamVars, touched,
                   offset, sent, why, wasSilent, air, heard>>

(* An item whose prefetch failed is reported and dropped.  Err() is nil    *)
(* for an item that is not ready yet.                                      *)
DropFailed ==
    /\ pc = "check" /\ prefetch[item] = "failed"
    /\ outcome' = [outcome EXCEPT ![item] = "failed"]
    /\ pc' = "top" /\ clip' = "idle" /\ item' = None
    /\ UNCHANGED <<Rpcs, queue, current, ctrl, streamVars, history, touched,
                   offset, sent, why, wasSilent, air, heard>>

(* SILENCE_ENDED, then SetCurrent(item) up to the store of current.  An    *)
(* item taken before it is ready was cut loose from its wait by an RPC.    *)
SetCurrent ==
    /\ pc = "check" /\ prefetch[item] # "failed"
    /\ current' = item
    /\ touched' = (prefetch[item] = "pending")
    /\ wasSilent' = FALSE
    /\ air' = IF wasSilent THEN "none" ELSE air
    /\ pc' = "reset"
    /\ UNCHANGED <<Rpcs, queue, ctrl, streamVars, history, outcome,
                   clip, item, offset, sent, why, heard>>

ResetCtrl == [ctrl EXCEPT !.paused = FALSE, !.pendingSeek = NoSeek]

(* The rest of SetCurrent(item), TRACK_STARTED, and the branch on IsLive.  *)
StartTrack ==
    /\ pc = "reset"
    /\ ctrl' = ResetCtrl
    /\ air' = "track"
    /\ clip' = IF prefetch[item] = "live" THEN "live" ELSE "track"
    /\ offset' = 0 /\ heard' = 0
    /\ pc' = "open"
    /\ UNCHANGED <<Rpcs, queue, current, streamVars, history, outcome, touched,
                   item, sent, why, wasSilent>>
-----------------------------------------------------------------------------
(* streamFile and streamLiveRelay.                                         *)

Playing == clip \in {"track", "hold", "live"}

Interrupted == streamCancel = "cancelled" \/ ctxDone

Readable == clip = "track" => prefetch[item] = "ready"

OpenStream ==
    /\ pc = "open" /\ Readable
    /\ streamCancel' = "armed"
    /\ sent' = 0
    /\ pc' = "stream"
    /\ UNCHANGED <<Rpcs, queue, current, ctrl, aimed, history, outcome, touched,
                   clip, item, offset, why, wasSilent, air, heard>>

EndTrack(cause) == pc' = "ending" /\ why' = cause

(* A return that leaves the clip's cancel func with whoever read it: the   *)
(* next clip would run under the same context.                             *)
UnregisterSharedContext == streamCancel' = "nil" /\ UNCHANGED aimed

(* The deferred setStreamCancel(nil): nobody can reach the clip any more.  *)
Unregister == streamCancel' = "nil" /\ aimed' = {}

(* An accumulated offset that counts only the last call's bytes. *)
OffsetOfLastCall == sent

(* offsetBytes += sent. *)
OffsetReached == offset + sent

(* What the caller of the stream does with its result, up to the first     *)
(* thing another goroutine can observe.                                    *)
Returns(reason, byFile) ==
    /\ Unregister
    /\ touched' = (touched \/ (byFile /\ current # None))
    /\ sent' = 0
    /\ offset' = IF clip = "track" THEN OffsetReached ELSE offset
    /\ CASE clip = "idle" -> pc' = "top" /\ UNCHANGED <<item, outcome, why>>
         [] clip = "wait" /\ ctxDone ->
              /\ pc' = "done" /\ item' = None
              /\ outcome' = [outcome EXCEPT ![item] = "dropped"]
              /\ UNCHANGED why
         [] clip = "wait" /\ ~ctxDone -> pc' = "check" /\ UNCHANGED <<item, outcome, why>>
         [] clip = "hold" -> pc' = "skip?" /\ UNCHANGED <<item, outcome, why>>
         [] clip = "live" ->
              /\ EndTrack(IF reason = "completed" THEN reason ELSE "cut")
              /\ UNCHANGED <<item, outcome>>
         [] clip = "track" ->
              /\ IF reason = "completed" THEN EndTrack("completed")
                 ELSE IF ctxDone THEN EndTrack("stopped")
                 ELSE pc' = "skip?" /\ UNCHANGED why
              /\ UNCHANGED <<item, outcome>>
    /\ UNCHANGED <<Rpcs, queue, current, ctrl, history, clip, wasSilent, air, heard>>

(* The item has no file: it is not ready, or not what it was taken for.    *)
NothingToOpen == pc = "open" /\ ~Readable /\ Returns("interrupted", FALSE)

OpenFails == pc = "open" /\ FileErrors /\ Readable /\ Returns("interrupted", TRUE)

(* The first chunk is written before streamCtx is looked at; each later    *)
(* one after a look that finds it alive.                                   *)
WriteChunk ==
    /\ clip = "track" /\ offset + sent < FileChunks
    /\ pc = "stream" \/ (pc = "poll" /\ ~Interrupted)
    /\ sent' = sent + 1
    /\ heard' = heard + 1
    /\ pc' = "poll"
    /\ UNCHANGED <<stationVars, clip, item, offset, why, wasSilent, air>>

BreakOff == pc = "poll" /\ Interrupted /\ Returns("interrupted", FALSE)

ReachEnd ==
    /\ pc \in {"stream", "poll"} /\ clip = "track" /\ offset + sent >= FileChunks
    /\ Returns(IF Interrupted THEN "interrupted" ELSE "completed", FALSE)

ReadFails ==
    /\ FileErrors
    /\ pc \in {"stream", "poll"} /\ clip = "track"
    /\ Returns("interrupted", TRUE)

(* A hold left only by a cancelled clip, not when the pause ends. *)
CheckStopWithoutResume ==
    CASE clip = "idle" -> queue # <<>>
      [] clip = "wait" -> prefetch[item] # "pending"
      [] clip = "hold" -> ctrl.pendingSeek # NoSeek
      [] OTHER -> FALSE

(* An idle station that never looks at its queue again. *)
CheckStopWithoutQueue ==
    CASE clip = "wait" -> prefetch[item] # "pending"
      [] clip = "hold" -> ~ctrl.paused \/ ctrl.pendingSeek # NoSeek
      [] OTHER -> FALSE

(* The checkStop each silence is streamed with. *)
CheckStop ==
    CASE clip = "idle" -> queue # <<>>
      [] clip = "wait" -> prefetch[item] # "pending"
      [] clip = "hold" -> ~ctrl.paused \/ ctrl.pendingSeek # NoSeek
      [] OTHER -> FALSE

SilenceStops ==
    /\ pc = "stream" /\ clip \in {"idle", "wait", "hold"}
    /\ Interrupted \/ CheckStop
    /\ Returns("interrupted", FALSE)

(* The silence clip loops; listeners hear it and nothing else changes.     *)
SilenceLoops ==
    /\ pc = "stream" /\ clip \in {"idle", "wait", "hold"}
    /\ ~Interrupted /\ ~CheckStop
    /\ UNCHANGED vars

RelayBreaksOff ==
    /\ pc = "stream" /\ clip = "live" /\ Interrupted
    /\ Returns("interrupted", FALSE)

(* The upstream of a relay goes on for as long as it likes, or ends.       *)
UpstreamEnds ==
    /\ pc = "stream" /\ clip = "live" /\ ~Interrupted
    /\ Returns("completed", FALSE)

UpstreamGoesOn ==
    /\ pc = "stream" /\ clip = "live" /\ ~Interrupted
    /\ UNCHANGED vars
-----------------------------------------------------------------------------
(* playLocalItem after its stream was interrupted: why was it?             *)

(* A pause that takes precedence over a skip. *)
PauseBeforeSkip ==
    /\ pc = "skip?"
    /\ IF ctrl.skipRequested /\ ~ctrl.paused
       THEN ctrl' = [ctrl EXCEPT !.skipRequested = FALSE] /\ EndTrack("skipped")
       ELSE UNCHANGED <<ctrl, why>> /\ pc' = "seek?"
    /\ UNCHANGED <<Rpcs, queue, current, streamVars, history, outcome, touched,
                   clip, item, offset, sent, wasSilent, air, heard>>

(* consumeSkipRequested. *)
ConsumeSkip ==
    /\ pc = "skip?"
    /\ ctrl' = [ctrl EXCEPT !.skipRequested = FALSE]
    /\ IF ctrl.skipRequested THEN EndTrack("skipped") ELSE pc' = "seek?" /\ UNCHANGED why
    /\ UNCHANGED <<Rpcs, queue, current, streamVars, history, outcome, touched,
                   clip, item, offset, sent, wasSilent, air, heard>>

(* consumeSeekOffsetBytes: a sought track is reopened at once, a held one  *)
(* stays held.                                                             *)
ConsumeSeek ==
    /\ pc = "seek?"
    /\ IF ctrl.pendingSeek = NoSeek
       THEN /\ pc' = IF clip = "track" THEN "paused?" ELSE "hold?"
            /\ UNCHANGED <<ctrl, offset, heard>>
       ELSE /\ offset' = ctrl.pendingSeek
            /\ heard' = ctrl.pendingSeek
            /\ ctrl' = [ctrl EXCEPT !.pendingSeek = NoSeek]
            /\ pc' = IF clip = "track" THEN "open" ELSE "hold?"
    /\ UNCHANGED <<Rpcs, queue, current, streamVars, history, outcome, touched,
                   clip, item, sent, why, wasSilent, air>>

CheckPaused ==
    /\ pc = "paused?"
    /\ IF ctrl.paused THEN pc' = "hold?" /\ UNCHANGED why ELSE EndTrack("nothing")
    /\ UNCHANGED <<stationVars, clip, item, offset, sent, wasSilent, air, heard>>

(* A pause loop that does not look at the context of Run. *)
HoldTestIgnoresStop ==
    /\ pc = "hold?"
    /\ clip' = IF ctrl.paused THEN "hold" ELSE "track"
    /\ pc' = "open"
    /\ UNCHANGED <<stationVars, item, offset, sent, why, wasSilent, air, heard>>

(* The condition of the pause loop, and what follows the loop.             *)
HoldTest ==
    /\ pc = "hold?"
    /\ IF ctxDone THEN EndTrack("stopped") /\ UNCHANGED clip
       ELSE /\ clip' = IF ctrl.paused THEN "hold" ELSE "track"
            /\ pc' = "open"
            /\ UNCHANGED why
    /\ UNCHANGED <<stationVars, item, offset, sent, wasSilent, air, heard>>
-----------------------------------------------------------------------------
(* Run: the end of a track.                                                *)

(* SetCurrent(nil) up to the store. *)
ClearAir ==
    /\ pc = "ending"
    /\ current' = None
    /\ pc' = "cleanup"
    /\ UNCHANGED <<Rpcs, queue, ctrl, streamVars, history, outcome, touched,
                   clip, item, offset, sent, why, wasSilent, air, heard>>

Reason == IF why = "completed" THEN "completed" ELSE "interrupted"

(* The rest of SetCurrent(nil), TRACK_ENDED, RecordHistory; playLocalItem's *)
(* locals are gone.                                                        *)
Cleanup ==
    /\ pc = "cleanup"
    /\ ctrl' = ResetCtrl
    /\ air' = "none"
    /\ history' = RecordHistory(history, [item |-> item, reason |-> Reason])
    /\ outcome' = [outcome EXCEPT ![item] = Reason]
    /\ pc' = "top" /\ clip' = "idle" /\ item' = None
    /\ offset' = 0 /\ heard' = 0 /\ why' = "completed" /\ touched' = FALSE
    /\ UNCHANGED <<Rpcs, queue, current, streamVars, sent, wasSilent>>

Finished == pc = "done" /\ UNCHANGED vars

-----------------------------------------------------------------------------

(* The steps the goroutine takes of its own accord ...                     *)
PlayerStep ==
    \/ RunEnds \/ QueueEmpty \/ PopFront \/ DropFailed \/ SetCurrent \/ StartTrack
    \/ OpenStream \/ NothingToOpen
    \/ WriteChunk \/ BreakOff \/ ReachEnd \/ SilenceStops \/ RelayBreaksOff
    \/ ConsumeSkip \/ ConsumeSeek \/ CheckPaused \/ HoldTest \/ ClearAir \/ Cleanup

(* ... and those its files, its upstream and the clock decide.             *)
Environment ==
    \/ OpenFails \/ ReadFails
    \/ SilenceLoops \/ UpstreamEnds \/ UpstreamGoesOn \/ Finished

Init == StationInit /\ PlayerInit

Next == (StationNext /\ UNCHANGED playerVars) \/ PlayerStep \/ Environment

Spec == Init /\ [][Next]_vars

(* The scheduler runs the player and the RPCs already begun; the prefetch  *)
(* pool goes on finishing jobs (internal/transcode bounds each by a        *)
(* timeout).  Nobody need call an RPC, and a relay's upstream need never   *)
(* end.                                                                    *)
Fairness ==
    /\ WF_vars(PlayerStep)
    /\ WF_vars((\E c \in Clients : CallContinues(c)) /\ UNCHANGED playerVars)
    /\ WF_vars((\E i \in Items : Prefetched(i)) /\ UNCHANGED playerVars)

FairSpec == Spec /\ Fairness

-----------------------------------------------------------------------------
(* The state each variable ranges over. *)
TypeOK ==
    /\ queue \in Seq(Items) /\ next \in 1..(MaxItems + 1)
    /\ ahead \in [Items -> BOOLEAN]
    /\ prefetch \in [Items -> {"none", "pending", "ready", "live", "failed"}]
    /\ current \in Items \union {None}
    /\ ctrl \in [paused : BOOLEAN, pendingSeek : Nat \union {NoSeek}, skipRequested : BOOLEAN]
    /\ streamCancel \in {"nil", "armed", "cancelled"}
    /\ aimed \in SUBSET Clients /\ ctxDone \in BOOLEAN
    /\ history \in Seq([item : Items, reason : {"completed", "interrupted"}])
    /\ rpc \in [Clients -> RpcSteps] /\ seekTo \in [Clients -> Nat] /\ calls \in Nat
    /\ outcome \in [Items -> {"none", "removed", "failed", "dropped", "completed", "interrupted"}]
    /\ touched \in BOOLEAN /\ skipFor \in Items \union {None}
    /\ pc \in PcValues /\ clip \in Clips /\ item \in Items \union {None}
    /\ offset \in Nat /\ sent \in Nat /\ why \in Causes
    /\ wasSilent \in BOOLEAN /\ air \in {"none", "silence", "track"} /\ heard \in Nat

(* What plays next is what was asked for: PLAY_NEXT and PLAY_NOW items come *)
(* before all appended ones, the latest first; appended items keep the     *)
(* order of their calls; nothing is pending twice -- whatever is removed,  *)
(* cleared, skipped to or popped in between (queue.go).                    *)
Before(i, j) == IF ahead[i] THEN ahead[j] => j < i ELSE ~ahead[j] /\ i < j

QueueOrder == \A j, k \in 1..Len(queue) : j < k => Before(queue[j], queue[k])

(* Every accepted item is in exactly one place: pending, in the player's   *)
(* hands, or gone for one recorded reason.  The queue's mutex is all that  *)
(* stands between PopFront and Remove, SkipTo or Clear.                    *)
ItemConservation ==
    \A i \in Items :
        LET pending == Contains(queue, i)
            held    == item = i
            gone    == outcome[i] # "none"
        IN  /\ ~(pending /\ held) /\ ~(pending /\ gone) /\ ~(held /\ gone)
            /\ (i < next) <=> (pending \/ held \/ gone)

(* The context of a clip dies with it: whoever read its cancel func before *)
(* and calls it later harms no later clip (the comment at streamCancel).   *)
(* So a track that no RPC touched while it was on air, on a running        *)
(* station and with a readable file, plays to its end.                     *)
UntouchedTrackCompletes ==
    pc = "ending" /\ ~touched /\ ~ctxDone => why = "completed"

(* Through every pause, resume and seek the listeners hear the item's      *)
(* chunks in order, none lost and none twice, from wherever it was last    *)
(* sought to (playLocalItem's offsetBytes).                                *)
HeardInOrder ==
    /\ pc \in {"stream", "poll"} /\ clip = "track" => offset + sent = heard
    /\ pc = "open" /\ clip \in {"track", "hold"} => offset = heard

(* The events say what the station does: SILENCE_STARTED and SILENCE_ENDED *)
(* bracket the silence of an idle station, TRACK_STARTED and TRACK_ENDED   *)
(* a track, held or not, and neither bracket opens inside the other.       *)
EventsMatchAir ==
    pc \in {"stream", "poll"} =>
        air = IF Playing THEN "track" ELSE "silence"

-----------------------------------------------------------------------------
(* What the station is for those who look at it.                           *)
View == [queue    |-> queue,
         hand     |-> item,
         stage    |-> IF item = None THEN "free"
                      ELSE IF current = item THEN "air"
                      ELSE IF pc = "cleanup" THEN "off" ELSE "held",
         history  |-> [k \in DOMAIN history |-> history[k].item],
         accepted |-> 1..(next - 1)]

Contract == INSTANCE StationContract
    WITH Tracks <- Items, Remembered <- HistoryMax, station <- View

(* The player goroutine and the RPC handlers together keep the contract:   *)
(* whatever the interleaving, the queue, Current() and the history of a    *)
(* station show each item in one place, and it moves on in one direction   *)
(* only (player.go, station.go, queue.go).                                 *)
KeepsStationContract == Contract!Spec

-----------------------------------------------------------------------------
(* What the comments promise and the interleavings do not keep.            *)

(* A skip that ends an item listeners were hearing was called while that   *)
(* item was on air, never before (station.go, at streamCancel).            *)
SkipEndsOnlyItsItem == pc = "ending" /\ why = "skipped" /\ heard > 0 => skipFor = item

(* Err, IsLive and LocalPath of an item are read only once it is ready     *)
(* (queue.go).                                                             *)
PlaysOnlyReady == pc \in {"reset", "open"} /\ current # None => prefetch[item] # "pending"

-----------------------------------------------------------------------------
(* Liveness, under FairSpec. *)

OnAir(i) == current = i /\ pc \in {"stream", "poll"}

(* A skip that has reached the clip on air ends the item, paused or not,   *)
(* live or not, whatever other RPCs do meanwhile.                          *)
SkipEndsItem ==
    \A i \in Items :
        (OnAir(i) /\ ctrl.skipRequested /\ streamCancel = "cancelled") ~> (outcome[i] # "none")

(* A hold notices by itself that it has been resumed: Resume cancels       *)
(* nothing.                                                                *)
ResumeLeavesHold ==
    (clip = "hold" /\ pc = "stream" /\ ~ctrl.paused) ~> (pc # "stream")

(* Whatever is pending is taken or removed, unless the item on air is held *)
(* or relayed meanwhile, or the station is stopped: no wakeup is missed.   *)
HeldUp == clip \in {"hold", "live"}

NoStarvation ==
    \A i \in Items : Contains(queue, i) ~> (~Contains(queue, i) \/ HeldUp \/ ctxDone)

(* Stop ends the goroutine whatever it was doing: playing, waiting,        *)
(* holding, relaying.                                                      *)
StopEndsRun == ctxDone ~> (pc = "done")
=============================================================================
