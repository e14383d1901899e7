---------------------------- MODULE PlayerProofs ----------------------------
(***************************************************************************)
(* What holds of Player for every number of items, RPCs, handlers and      *)
(* chunks.                                                                 *)
(***************************************************************************)
EXTENDS Player, PlayQueueProofs

(* The player has an item in hand from the pop to the end of the track.    *)
HasItem == \/ pc \in {"check", "reset", "skip?", "seek?", "paused?", "hold?",
                      "ending", "cleanup"}
           \/ pc \in {"open", "stream", "poll"} /\ clip # "idle"

(* The program counter, the clip and the item in hand agree.               *)
Holding == /\ item # None <=> HasItem
           /\ pc = "poll" => clip = "track"
           /\ pc \in {"skip?", "seek?", "paused?", "hold?"} => clip \in {"track", "hold"}

Typed == TypeOK /\ Holding

LEMMA TypedInit == Init => Typed
<1> SUFFICES ASSUME Init PROVE Typed
  OBVIOUS
<1> USE StationAssumption DEF Init, StationInit, PlayerInit
<1>1. queue \in Seq(Items) /\ history \in Seq([item : Items, reason : {"completed", "interrupted"}])
  OBVIOUS
<1>2. next \in 1..(MaxItems + 1) /\ current = None /\ item = None /\ skipFor = None
  OBVIOUS
<1>3. /\ ahead \in [Items -> BOOLEAN]
      /\ prefetch \in [Items -> {"none", "pending", "ready", "live", "failed"}]
      /\ outcome \in [Items -> {"none", "removed", "failed", "dropped", "completed", "interrupted"}]
      /\ rpc \in [Clients -> RpcSteps] /\ seekTo \in [Clients -> Nat] /\ calls \in Nat
  BY DEF RpcSteps
<1>4. ctrl \in [paused : BOOLEAN, pendingSeek : Nat \union {NoSeek}, skipRequested : BOOLEAN]
  OBVIOUS
<1>5. /\ streamCancel = "nil" /\ aimed = {} /\ ctxDone = FALSE /\ touched = FALSE
      /\ pc = "top" /\ clip = "idle" /\ offset = 0 /\ sent = 0 /\ why = "completed"
      /\ wasSilent = FALSE /\ air = "none" /\ heard = 0
  OBVIOUS
<1> QED
  BY <1>1, <1>2, <1>3, <1>4, <1>5
     DEF Typed, TypeOK, Holding, HasItem, PcValues, Clips, Causes

(* A handler changes none of the player's variables.                       *)
LEMMA TypedStation ==
    ASSUME Typed, StationNext, UNCHANGED playerVars
    PROVE  Typed'
<1> USE StationAssumption
<1>0. Holding'
  BY DEF Typed, Holding, HasItem, playerVars
<1>1. UNCHANGED <<pc, clip, item, offset, sent, why, wasSilent, air, heard>>
  BY DEF playerVars
<1>2. ASSUME NEW c \in Clients, NEW mode \in Modes, QueueTrack(c, mode)
      PROVE  TypeOK'
  <2>1. queue' \in Seq(Items)
    BY <1>2, PushFrontMovesBack DEF Typed, TypeOK, QueueTrack
  <2> QED
    BY <1>1, <1>2, <2>1
       DEF Typed, TypeOK, QueueTrack, Call, Items, None, RpcSteps, streamVars, queueVars
<1>3. ASSUME NEW c \in Clients, NEW i \in Items, RemoveFromQueue(c, i)
      PROVE  TypeOK'
  <2>1. queue' \in Seq(Items)
    BY <1>3, RemoveClosesGap DEF Typed, TypeOK, RemoveFromQueue
  <2> QED
    BY <1>1, <1>3, <2>1
       DEF Typed, TypeOK, RemoveFromQueue, Call, Discard, Items, None, RpcSteps, streamVars
<1>4. ASSUME NEW c \in Clients, NEW i \in Items, SkipToItem(c, i)
      PROVE  TypeOK'
  <2>1. queue' \in Seq(Items)
    BY <1>4, IndexInQueue, DropKeepsRest DEF Typed, TypeOK, SkipToItem, SkipTo
  <2> QED
    BY <1>1, <1>4, <2>1
       DEF Typed, TypeOK, SkipToItem, Call, Discard, Items, None, RpcSteps, streamVars
<1>5. ASSUME NEW c \in Clients, NEW op \in {"Clear", "ClearStop"}, ClearQueue(c, op)
      PROVE  TypeOK'
  BY <1>1, <1>5
     DEF Typed, TypeOK, ClearQueue, Call, Discard, Items, None, RpcSteps, streamVars
<1>6. ASSUME NEW c \in Clients, Skip(c) \/ Pause(c) \/ Resume(c) \/ Stop(c)
      PROVE  TypeOK'
  <2>1. CASE Skip(c) \/ Pause(c)
    <3>1. PICK s \in RpcSteps : rpc' = [rpc EXCEPT ![c] = s]
      BY <2>1 DEF Skip, Pause, Call, RpcSteps
    <3>2. calls' \in Nat
      BY <2>1 DEF Typed, TypeOK, Skip, Pause, Call
    <3>3. rpc' \in [Clients -> RpcSteps]
      BY <3>1 DEF Typed, TypeOK
    <3> QED
      BY <1>1, <2>1, <3>2, <3>3 DEF Typed, TypeOK, Skip, Pause, streamVars, queueVars
  <2>2. CASE Resume(c)
    <3>1. rpc' \in [Clients -> RpcSteps] /\ calls' \in Nat
      BY <2>2 DEF Typed, TypeOK, Resume, Call, RpcSteps
    <3>2. ctrl' \in [paused : BOOLEAN, pendingSeek : Nat \union {NoSeek}, skipRequested : BOOLEAN]
      BY <2>2 DEF Typed, TypeOK, Resume
    <3> QED
      BY <1>1, <2>2, <3>1, <3>2 DEF Typed, TypeOK, Resume, streamVars, queueVars
  <2>3. CASE Stop(c)
    BY <1>1, <2>3 DEF Typed, TypeOK, Stop, Call, RpcSteps, streamVars, queueVars
  <2> QED
    BY <1>6, <2>1, <2>2, <2>3
<1>7. ASSUME NEW c \in Clients, NEW pos \in SeekArgs, Seek(c, pos)
      PROVE  TypeOK'
  <2>1. Clamp(current, pos) \in Nat
    BY DEF Clamp
  <2> QED
    BY <1>1, <1>7, <2>1
       DEF Typed, TypeOK, Seek, Call, Items, None, RpcSteps, streamVars, queueVars, NoSeek
<1>8. ASSUME NEW c \in Clients, CallContinues(c)
      PROVE  TypeOK'
  <2>1. CASE ClearCurrent(c)
    BY <1>1, <2>1 DEF Typed, TypeOK, ClearCurrent, RpcSteps, streamVars, queueVars
  <2>2. CASE Interrupt(c)
    BY <1>1, <2>2
       DEF Typed, TypeOK, Interrupt, RpcSteps, streamVars, queueVars, Touch, NoSeek
  <2>3. CASE LoadCancel(c)
    <3>1. rpc' \in [Clients -> RpcSteps]
      BY <2>3 DEF Typed, TypeOK, LoadCancel, RpcSteps
    <3>2. aimed' \in SUBSET Clients /\ touched' \in BOOLEAN
      BY <2>3 DEF Typed, TypeOK, LoadCancel, Touch
    <3> QED
      BY <1>1, <2>3, <3>1, <3>2 DEF Typed, TypeOK, LoadCancel, queueVars
  <2>4. CASE CallCancel(c)
    BY <1>1, <2>4 DEF Typed, TypeOK, CallCancel, RpcSteps, queueVars
  <2>5. CASE SetPaused(c)
    BY <1>1, <2>5 DEF Typed, TypeOK, SetPaused, RpcSteps, streamVars, queueVars, Touch
  <2>6. CASE SetPendingSeek(c)
    BY <1>1, <2>6
       DEF Typed, TypeOK, SetPendingSeek, RpcSteps, streamVars, queueVars, Touch
  <2> QED
    BY <1>8, <2>1, <2>2, <2>3, <2>4, <2>5, <2>6 DEF CallContinues
<1>9. ASSUME NEW i \in Items, Prefetched(i)
      PROVE  TypeOK'
  BY <1>1, <1>9 DEF Typed, TypeOK, Prefetched, Mark, streamVars, queueVars
<1> QED
  BY <1>0, <1>2, <1>3, <1>4, <1>5, <1>6, <1>7, <1>8, <1>9
     DEF Typed, StationNext, CallStarts

(* What a returning stream leaves the player with is well typed.           *)
LEMMA TypedReturns ==
    ASSUME Typed, NEW reason \in {"completed", "interrupted"}, NEW byFile \in BOOLEAN,
           Returns(reason, byFile), pc \in {"open", "stream", "poll"}
    PROVE  Typed'
<1>1. UNCHANGED <<queue, next, ahead, prefetch, current, ctrl, ctxDone, history, rpc,
                  seekTo, calls, skipFor, clip, wasSilent, air, heard>>
  BY DEF Returns, Rpcs
<1>2. streamCancel' = "nil" /\ aimed' = {} /\ sent' = 0
  BY DEF Returns, Unregister
<1>3. touched' \in BOOLEAN
  BY DEF Returns, Typed, TypeOK
<1>4. offset' \in Nat
  BY DEF Returns, OffsetReached, Typed, TypeOK
<1>5. /\ pc' \in PcValues /\ why' \in Causes /\ item' \in Items \union {None}
      /\ outcome' \in [Items -> {"none", "removed", "failed", "dropped", "completed", "interrupted"}]
      /\ Holding'
  <2>1. CASE clip = "idle"
    BY <2>1, <1>1 DEF Returns, Typed, TypeOK, Holding, HasItem, PcValues
  <2>2. CASE clip = "wait" /\ ctxDone
    BY <2>2, <1>1 DEF Returns, Typed, TypeOK, Holding, HasItem, PcValues
  <2>3. CASE clip = "wait" /\ ~ctxDone
    BY <2>3, <1>1 DEF Returns, Typed, TypeOK, Holding, HasItem, PcValues
  <2>4. CASE clip = "hold"
    BY <2>4, <1>1 DEF Returns, Typed, TypeOK, Holding, HasItem, PcValues
  <2>5. CASE clip = "live"
    BY <2>5, <1>1
       DEF Returns, EndTrack, Typed, TypeOK, Holding, HasItem, PcValues, Causes
  <2>6. CASE clip = "track"
    BY <2>6, <1>1
       DEF Returns, EndTrack, Typed, TypeOK, Holding, HasItem, PcValues, Causes
  <2> QED
    BY <2>1, <2>2, <2>3, <2>4, <2>5, <2>6 DEF Typed, TypeOK, Clips
<1> QED
  BY <1>1, <1>2, <1>3, <1>4, <1>5 DEF Typed, TypeOK

(* The steps of the player in which a stream returns.                      *)
StreamReturns == \/ NothingToOpen \/ OpenFails \/ BreakOff \/ ReachEnd \/ ReadFails
                 \/ SilenceStops \/ RelayBreaksOff \/ UpstreamEnds

LEMMA StreamReturnsAs ==
    ASSUME StreamReturns
    PROVE  /\ \E reason \in {"completed", "interrupted"}, byFile \in BOOLEAN :
                 Returns(reason, byFile)
           /\ pc \in {"open", "stream", "poll"}
BY DEF StreamReturns, NothingToOpen, OpenFails, BreakOff, ReachEnd, ReadFails,
       SilenceStops, RelayBreaksOff, UpstreamEnds

LEMMA RecordHistoryTyped ==
    ASSUME NEW S, NEW h \in Seq(S), NEW e \in S
    PROVE  RecordHistory(h, e) \in Seq(S)
<1> DEFINE longer == Append(h, e)
<1>1. longer \in Seq(S) /\ Len(longer) \in Nat
  OBVIOUS
<1>2. CASE Len(longer) > HistoryMax
  <2>1. Len(longer) - HistoryMax + 1 \in 1..(Len(longer) + 1)
    BY <1>1, <1>2, StationAssumption
  <2>2. Drop(longer, Len(longer) - HistoryMax + 1) \in Seq(S)
    BY <1>1, <2>1, DropKeepsRest
  <2> QED
    BY <1>2, <2>2 DEF RecordHistory
<1>3. CASE ~(Len(longer) > HistoryMax)
  BY <1>1, <1>3 DEF RecordHistory
<1> QED
  BY <1>2, <1>3

LEMMA TypedPlayer ==
    ASSUME Typed, PlayerStep \/ Environment
    PROVE  Typed'
<1> USE DEF Typed
<1>1. CASE RunEnds
  BY <1>1 DEF RunEnds, stationVars, TypeOK, Holding, HasItem, PcValues
<1>2. CASE QueueEmpty
  BY <1>2 DEF QueueEmpty, AnnounceSilence, stationVars, TypeOK, Holding, HasItem,
              PcValues, Clips
<1>3. CASE PopFront
  <2>1. queue' \in Seq(Items) /\ item' \in Items
    BY <1>3 DEF PopFront, TypeOK
  <2>2. item' # None
    BY <2>1, StationAssumption DEF Items, None
  <2>3. clip' = "wait" /\ pc' \in {"open", "check"}
    BY <1>3 DEF PopFront
  <2>4. wasSilent' \in BOOLEAN /\ air' \in {"none", "silence", "track"}
    BY <1>3 DEF PopFront, AnnounceSilence, TypeOK
  <2>5. UNCHANGED <<next, ahead, prefetch, ctxDone, rpc, seekTo, calls, skipFor, current,
                    ctrl, streamCancel, aimed, history, outcome, touched, offset, sent,
                    why, heard>>
    BY <1>3 DEF PopFront, Rpcs, streamVars
  <2> QED
    BY <2>1, <2>2, <2>3, <2>4, <2>5 DEF TypeOK, Holding, HasItem, PcValues, Clips
<1>4. CASE DropFailed
  BY <1>4 DEF DropFailed, Rpcs, streamVars, TypeOK, Holding, HasItem, PcValues, Clips
<1>5. CASE SetCurrent
  <2>1. touched' \in BOOLEAN
    BY <1>5 DEF SetCurrent
  <2> QED
    BY <1>5, <2>1 DEF SetCurrent, Rpcs, streamVars, TypeOK, Holding, HasItem, PcValues
<1>6. CASE StartTrack
  <2>1. ctrl' \in [paused : BOOLEAN, pendingSeek : Nat \union {NoSeek}, skipRequested : BOOLEAN]
    BY <1>6 DEF StartTrack, ResetCtrl, TypeOK
  <2> QED
    BY <1>6, <2>1
       DEF StartTrack, Rpcs, streamVars, TypeOK, Holding, HasItem, PcValues, Clips
<1>7. CASE OpenStream
  BY <1>7 DEF OpenStream, Rpcs, TypeOK, Holding, HasItem, PcValues
<1>8. CASE WriteChunk
  BY <1>8 DEF WriteChunk, stationVars, TypeOK, Holding, HasItem, PcValues
<1>9. CASE StreamReturns
  BY <1>9, StreamReturnsAs, TypedReturns
<1>10. CASE ConsumeSkip
  <2>1. ctrl' \in [paused : BOOLEAN, pendingSeek : Nat \union {NoSeek}, skipRequested : BOOLEAN]
    BY <1>10 DEF ConsumeSkip, TypeOK
  <2> QED
    BY <1>10, <2>1
       DEF ConsumeSkip, EndTrack, Rpcs, streamVars, TypeOK, Holding, HasItem, PcValues, Causes
<1>11. CASE ConsumeSeek
  <2>1. ctrl' \in [paused : BOOLEAN, pendingSeek : Nat \union {NoSeek}, skipRequested : BOOLEAN]
    BY <1>11 DEF ConsumeSeek, TypeOK
  <2> QED
    BY <1>11, <2>1
       DEF ConsumeSeek, Rpcs, streamVars, TypeOK, Holding, HasItem, PcValues, Clips
<1>12. CASE CheckPaused
  BY <1>12
     DEF CheckPaused, EndTrack, stationVars, TypeOK, Holding, HasItem, PcValues, Causes
<1>13. CASE HoldTest
  BY <1>13
     DEF HoldTest, EndTrack, stationVars, TypeOK, Holding, HasItem, PcValues, Causes, Clips
<1>14. CASE ClearAir
  BY <1>14 DEF ClearAir, Rpcs, streamVars, TypeOK, Holding, HasItem, PcValues
<1>15. CASE Cleanup
  <2>1. ctrl' \in [paused : BOOLEAN, pendingSeek : Nat \union {NoSeek}, skipRequested : BOOLEAN]
    BY <1>15 DEF Cleanup, ResetCtrl, TypeOK
  <2>2. item \in Items
    BY <1>15 DEF Cleanup, TypeOK, Holding, HasItem
  <2>3. history' \in Seq([item : Items, reason : {"completed", "interrupted"}])
    <3>1. [item |-> item, reason |-> Reason] \in [item : Items, reason : {"completed", "interrupted"}]
      BY <2>2 DEF Reason
    <3> QED
      BY <1>15, <3>1, RecordHistoryTyped DEF Cleanup, TypeOK
  <2>4. outcome' \in [Items -> {"none", "removed", "failed", "dropped", "completed", "interrupted"}]
    BY <1>15 DEF Cleanup, Reason, TypeOK
  <2> QED
    BY <1>15, <2>1, <2>3, <2>4
       DEF Cleanup, Rpcs, streamVars, TypeOK, Holding, HasItem, PcValues, Clips, Causes
<1>16. CASE UNCHANGED vars
  BY <1>16 DEF vars, stationVars, TypeOK, Holding, HasItem
<1> QED
  BY <1>1, <1>2, <1>3, <1>4, <1>5, <1>6, <1>7, <1>8, <1>9, <1>10, <1>11, <1>12, <1>13,
     <1>14, <1>15, <1>16
     DEF PlayerStep, Environment, StreamReturns, SilenceLoops, UpstreamGoesOn, Finished

LEMMA TypedStutter == Typed /\ UNCHANGED vars => Typed'
BY DEF vars, stationVars, Typed, TypeOK, Holding, HasItem

LEMMA TypedAlways == Spec => []Typed
<1>1. Typed /\ [Next]_vars => Typed'
  BY TypedStation, TypedPlayer, TypedStutter DEF Next
<1> QED
  BY <1>1, TypedInit, PTL DEF Spec

(* Every variable stays in its range, whatever the interleaving.           *)
THEOREM TypeCorrect == Spec => []TypeOK
BY TypedAlways, PTL DEF Typed

-----------------------------------------------------------------------------
(* Where a stream or its return has the player.                            *)
Streaming  == pc \in {"stream", "poll"}
Deciding   == pc \in {"skip?", "seek?", "paused?", "hold?"}
InClip     == pc \in {"open", "stream", "poll"}

(* EventsMatchAir is inductive once wasSilent is tied to what the events   *)
(* say, at every step of Run and playLocalItem.                            *)
AirFollows ==
    /\ pc \in {"top", "check"} => air = IF wasSilent THEN "silence" ELSE "none"
    /\ InClip /\ ~Playing => wasSilent /\ air = "silence"
    /\ InClip /\ Playing => ~wasSilent /\ air = "track"
    /\ pc \in {"reset", "cleanup"} => ~wasSilent
    /\ Deciding \/ pc = "ending" => ~wasSilent /\ air = "track"

(* HeardInOrder is inductive once a hold and the looks after a stream keep *)
(* the offset, and bytesSent counts from nothing in each stream.           *)
InPlace ==
    /\ ~Streaming => sent = 0
    /\ Streaming /\ clip = "track" => heard = offset + sent
    /\ Streaming /\ clip = "hold" => heard = offset
    /\ pc = "open" /\ clip \in {"track", "hold"} => heard = offset
    /\ Deciding => heard = offset

AirAndPlace == AirFollows /\ InPlace

(* A stream that returns leaves listeners where they are.                  *)
LEMMA ReturnsKeepsPlace ==
    ASSUME Typed, AirAndPlace, NEW reason \in {"completed", "interrupted"},
           NEW byFile \in BOOLEAN, Returns(reason, byFile), InClip
    PROVE  AirAndPlace'
<1> USE DEF InClip, Playing, AirAndPlace, AirFollows, InPlace, Deciding, Streaming
<1>1. UNCHANGED <<clip, wasSilent, air, heard>> /\ sent' = 0
      /\ offset' = IF clip = "track" THEN offset + sent ELSE offset
      BY DEF Returns, OffsetReached
<1>2. offset \in Nat /\ sent \in Nat /\ heard \in Nat /\ clip \in Clips
      BY DEF Typed, TypeOK
<1>3. CASE clip = "idle"
      BY <1>1, <1>2, <1>3 DEF Returns
<1>4. CASE clip = "wait"
      <2>1. pc' \in {"done", "check"} /\ wasSilent /\ air = "silence"
            BY <1>4 DEF Returns
      <2> QED BY <1>1, <1>4, <2>1
<1>5. CASE clip = "hold"
      BY <1>1, <1>2, <1>5 DEF Returns
<1>6. CASE clip = "live"
      BY <1>1, <1>2, <1>6 DEF Returns, EndTrack
<1>7. CASE clip = "track"
      <2>1. heard = offset + sent
            BY <1>2, <1>7
      <2>2. pc' \in {"ending", "skip?"}
            BY <1>7 DEF Returns, EndTrack
      <2> QED BY <1>1, <1>2, <1>7, <2>1, <2>2
<1> QED BY <1>2, <1>3, <1>4, <1>5, <1>6, <1>7 DEF Clips

(* So does every other step of the player.                                 *)
LEMMA PlayerKeepsPlace ==
    ASSUME Typed, AirAndPlace, PlayerStep \/ Environment
    PROVE  AirAndPlace'
<1> USE DEF InClip, Playing, AirAndPlace, AirFollows, InPlace, Deciding, Streaming
<1>0. offset \in Nat /\ sent \in Nat /\ heard \in Nat
      BY DEF Typed, TypeOK
<1>1. CASE RunEnds
      BY <1>1 DEF RunEnds
<1>2. CASE QueueEmpty
      BY <1>2 DEF QueueEmpty, AnnounceSilence
<1>3. CASE PopFront
      BY <1>3 DEF PopFront, AnnounceSilence
<1>4. CASE DropFailed
      BY <1>4 DEF DropFailed
<1>5. CASE SetCurrent
      BY <1>5 DEF SetCurrent
<1>6. CASE StartTrack
      BY <1>6 DEF StartTrack
<1>7. CASE OpenStream
      BY <1>7, <1>0 DEF OpenStream
<1>8. CASE WriteChunk
      BY <1>8, <1>0 DEF WriteChunk
<1>9. CASE StreamReturns
      BY <1>9, StreamReturnsAs, ReturnsKeepsPlace
<1>10. CASE ConsumeSkip
       BY <1>10 DEF ConsumeSkip, EndTrack
<1>11. CASE ConsumeSeek
       BY <1>11 DEF ConsumeSeek, Typed, Holding
<1>12. CASE CheckPaused
       BY <1>12 DEF CheckPaused, EndTrack
<1>13. CASE HoldTest
       BY <1>13 DEF HoldTest, EndTrack
<1>14. CASE ClearAir
       BY <1>14 DEF ClearAir
<1>15. CASE Cleanup
       BY <1>15 DEF Cleanup
<1>16. CASE UNCHANGED vars
       BY <1>16 DEF vars
<1> QED
  BY <1>1, <1>2, <1>3, <1>4, <1>5, <1>6, <1>7, <1>8, <1>9, <1>10, <1>11, <1>12, <1>13,
     <1>14, <1>15, <1>16
     DEF PlayerStep, Environment, StreamReturns, SilenceLoops, UpstreamGoesOn, Finished

LEMMA AirAndPlaceAlways == Spec => []AirAndPlace
<1>1. Init => AirAndPlace
      BY DEF Init, PlayerInit, AirAndPlace, AirFollows, InPlace, InClip, Deciding, Streaming
<1>2. Typed /\ AirAndPlace /\ [Next]_vars => AirAndPlace'
      <2>1. ASSUME AirAndPlace, UNCHANGED playerVars PROVE AirAndPlace'
            BY <2>1 DEF playerVars, AirAndPlace, AirFollows, InPlace, InClip, Deciding,
               Streaming, Playing
      <2>2. UNCHANGED vars => UNCHANGED playerVars
            BY DEF vars, playerVars
      <2> QED BY <2>1, <2>2, PlayerKeepsPlace DEF Next
<1> QED BY <1>1, <1>2, TypedAlways, PTL DEF Spec

(* The events published so far say what listeners hear, for any number of  *)
(* items, handlers and calls (player.go:44-113).                           *)
THEOREM EventsSayWhatIsOnAir == Spec => []EventsMatchAir
<1>1. AirAndPlace => EventsMatchAir
      BY DEF AirAndPlace, AirFollows, EventsMatchAir, InClip
<1> QED BY <1>1, AirAndPlaceAlways, PTL

(* No chunk is lost or heard twice over any number of pauses, resumes and  *)
(* seeks, in any order (player.go:134-177).                                *)
THEOREM NothingIsLostInAHold == Spec => []HeardInOrder
<1>1. Typed /\ AirAndPlace => HeardInOrder
      BY DEF AirAndPlace, InPlace, HeardInOrder, Streaming
<1> QED BY <1>1, AirAndPlaceAlways, TypedAlways, PTL

-----------------------------------------------------------------------------
(* Where the items of a station are, in which order they wait and why they *)
(* leave.  QueueOrder and ItemConservation are inductive together, beside  *)
(* Typed: the order rules out that an item is pending twice, and           *)
(* conservation that the next id is already pending.                       *)
Placed == QueueOrder /\ ItemConservation

(* Before, of the ahead flags of any state.                                *)
Precedes(a, i, j) == IF a[i] THEN a[j] => j < i ELSE ~a[j] /\ i < j

(* A step that moves no item keeps every item where it is.                 *)
LEMMA Unmoved ==
    ASSUME Placed, UNCHANGED <<queue, next, ahead, item, outcome>>
    PROVE  Placed'
BY DEF Placed, QueueOrder, Before, ItemConservation, Contains

(* The order rules out a second copy.                                      *)
LEMMA PendingOnce ==
    ASSUME Typed, QueueOrder
    PROVE  \A j, k \in 1..Len(queue) : j < k => queue[j] # queue[k]
<1> SUFFICES ASSUME NEW j \in 1..Len(queue), NEW k \in 1..Len(queue), j < k,
                    queue[j] = queue[k]
             PROVE  FALSE
  OBVIOUS
<1>1. queue[j] \in Items
  BY DEF Typed, TypeOK
<1>2. Before(queue[j], queue[k])
  BY DEF QueueOrder
<1> QED
  BY <1>1, <1>2, StationAssumption DEF Before, Items

(* Items that leave the queue leave the others in order.                   *)
LEMMA OrderThins ==
    ASSUME Typed, QueueOrder, queue' \in Seq(Items), Thinned(queue', queue), UNCHANGED ahead
    PROVE  QueueOrder'
<1> SUFFICES ASSUME NEW j \in 1..Len(queue'), NEW k \in 1..Len(queue'), j < k
             PROVE  Precedes(ahead', queue'[j], queue'[k])
  BY DEF QueueOrder, Before, Precedes
<1>1. PICK f \in [1..Len(queue') -> 1..Len(queue)] :
        /\ \A m \in 1..Len(queue') : queue'[m] = queue[f[m]]
        /\ \A m, n \in 1..Len(queue') : m < n => f[m] < f[n]
  BY DEF Thinned
<1>2. Precedes(ahead, queue[f[j]], queue[f[k]])
  BY <1>1 DEF QueueOrder, Before, Precedes
<1>3. queue'[j] = queue[f[j]] /\ queue'[k] = queue[f[k]]
  BY <1>1
<1> QED
  BY <1>2, <1>3

(* Thinning the queue for good: what it loses gets an outcome.             *)
LEMMA ThinnedPlaced ==
    ASSUME Typed, Placed, queue' \in Seq(Items), Thinned(queue', queue),
           UNCHANGED <<next, ahead, item>>,
           \A i \in Items :
               /\ Contains(queue, i) /\ ~Contains(queue', i) => outcome'[i] # "none"
               /\ ~Contains(queue, i) \/ Contains(queue', i) => outcome'[i] = outcome[i]
    PROVE  Placed'
<1>1. QueueOrder'
  BY OrderThins DEF Placed
<1>2. ASSUME NEW i \in Items
      PROVE  /\ ~(Contains(queue', i) /\ item' = i)
             /\ ~(Contains(queue', i) /\ outcome'[i] # "none")
             /\ ~(item' = i /\ outcome'[i] # "none")
             /\ (i < next') <=> (Contains(queue', i) \/ item' = i \/ outcome'[i] # "none")
  <2>1. Contains(queue', i) => Contains(queue, i)
    BY ThinnedContains
  <2> QED
    BY <2>1 DEF Placed, ItemConservation
<1> QED
  BY <1>1, <1>2 DEF Placed, ItemConservation

-----------------------------------------------------------------------------

LEMMA PlacedInit == Init => Placed
<1> SUFFICES ASSUME Init PROVE Placed
  OBVIOUS
<1>1. queue = <<>> /\ next = 1 /\ item = None /\ outcome = [i \in Items |-> "none"]
  BY DEF Init, StationInit, PlayerInit
<1>2. \A i \in Items : ~Contains(queue, i) /\ item # i /\ outcome[i] = "none" /\ ~(i < next)
  BY <1>1, StationAssumption DEF Contains, Items, None
<1> QED
  BY <1>1, <1>2 DEF Placed, QueueOrder, ItemConservation

LEMMA PlacedQueueTrack ==
    ASSUME Typed, Placed, NEW c \in Clients, NEW mode \in Modes, QueueTrack(c, mode),
           UNCHANGED playerVars
    PROVE  Placed'
<1>1. /\ next \in Items /\ next' = next + 1 /\ UNCHANGED <<item, outcome>>
      /\ ahead' = [ahead EXCEPT ![next] = mode # "Append"]
      /\ queue' = IF mode = "Append" THEN Append(queue, next) ELSE PushFront(queue, next)
      /\ queue \in Seq(Items) /\ ahead \in [Items -> BOOLEAN]
  BY DEF QueueTrack, playerVars, Typed, TypeOK
<1>2. \A x : Contains(queue', x) <=> Contains(queue, x) \/ x = next
  BY <1>1, PushContains
<1>3. ASSUME NEW k \in 1..Len(queue)
      PROVE  queue[k] \in Items /\ queue[k] < next /\ ahead'[queue[k]] = ahead[queue[k]]
  <2>1. queue[k] \in Items /\ Contains(queue, queue[k])
    BY <1>1 DEF Contains
  <2>2. queue[k] < next
    BY <2>1 DEF Placed, ItemConservation
  <2> QED
    BY <1>1, <2>1, <2>2, StationAssumption DEF Items
<1>4. ASSUME NEW i \in Items, NEW j \in Items, ahead'[i] = ahead[i], ahead'[j] = ahead[j],
             Precedes(ahead, i, j)
      PROVE  Precedes(ahead', i, j)
  BY <1>4 DEF Precedes
<1>5. QueueOrder'
  <2> SUFFICES ASSUME NEW j \in 1..Len(queue'), NEW k \in 1..Len(queue'), j < k
               PROVE  Precedes(ahead', queue'[j], queue'[k])
    BY DEF QueueOrder, Before, Precedes
  <2>1. CASE mode = "Append"
    <3>1. /\ Len(queue') = Len(queue) + 1 /\ queue'[Len(queue) + 1] = next
          /\ \A m \in 1..Len(queue) : queue'[m] = queue[m]
      BY <1>1, <2>1
    <3>2. j \in 1..Len(queue) /\ queue'[j] = queue[j]
      BY <1>1, <3>1
    <3>3. CASE k \in 1..Len(queue)
      <4>1. Precedes(ahead, queue[j], queue[k])
        BY <3>2, <3>3 DEF Placed, QueueOrder, Before, Precedes
      <4>2. queue'[k] = queue[k]
        BY <3>1, <3>3
      <4> QED
        BY <4>1, <4>2, <1>3, <1>4, <3>2, <3>3
    <3>4. CASE k = Len(queue) + 1
      <4>1. queue'[k] = next /\ ~ahead'[next]
        BY <1>1, <2>1, <3>1, <3>4
      <4>2. queue[j] < next
        BY <1>3, <3>2
      <4> QED
        BY <4>1, <4>2, <3>2, <1>3 DEF Precedes
    <3> QED
      BY <3>1, <3>3, <3>4, <1>1
  <2>2. CASE mode # "Append"
    <3>1. /\ Len(queue') = Len(queue) + 1 /\ queue'[1] = next
          /\ \A m \in 2..(Len(queue) + 1) : queue'[m] = queue[m - 1]
      <4>1. queue' = PushFront(queue, next)
        BY <1>1, <2>2
      <4>2. /\ Len(PushFront(queue, next)) = Len(queue) + 1
            /\ PushFront(queue, next)[1] = next
            /\ \A m \in 2..(Len(queue) + 1) : PushFront(queue, next)[m] = queue[m - 1]
        BY <1>1, PushFrontMovesBack
      <4> QED
        BY <4>1, <4>2
    <3>2. k - 1 \in 1..Len(queue) /\ queue'[k] = queue[k - 1]
      BY <1>1, <3>1
    <3>3. CASE j = 1
      <4>1. queue'[j] = next /\ ahead'[next]
        BY <1>1, <2>2, <3>1, <3>3
      <4>2. queue[k - 1] < next
        BY <1>3, <3>2
      <4> QED
        BY <4>1, <4>2, <3>2, <1>3 DEF Precedes
    <3>4. CASE j # 1
      <4>1. j - 1 \in 1..Len(queue) /\ queue'[j] = queue[j - 1] /\ j - 1 < k - 1
        BY <1>1, <3>1, <3>4
      <4>2. Precedes(ahead, queue[j - 1], queue[k - 1])
        BY <4>1, <3>2 DEF Placed, QueueOrder, Before, Precedes
      <4> QED
        BY <4>1, <4>2, <1>3, <1>4, <3>2
    <3> QED
      BY <3>3, <3>4
  <2> QED
    BY <2>1, <2>2
<1>6. ItemConservation'
  <2> SUFFICES ASSUME NEW i \in Items
               PROVE  /\ ~(Contains(queue', i) /\ item' = i)
                      /\ ~(Contains(queue', i) /\ outcome'[i] # "none")
                      /\ ~(item' = i /\ outcome'[i] # "none")
                      /\ (i < next') <=> (Contains(queue', i) \/ item' = i \/ outcome'[i] # "none")
    BY DEF ItemConservation
  <2>1. /\ ~(Contains(queue, i) /\ item = i)
        /\ ~(Contains(queue, i) /\ outcome[i] # "none")
        /\ ~(item = i /\ outcome[i] # "none")
        /\ (i < next) <=> (Contains(queue, i) \/ item = i \/ outcome[i] # "none")
    BY DEF Placed, ItemConservation
  <2>2. i \in Int /\ next \in Int /\ (i < next' <=> i < next \/ i = next)
    BY <1>1, StationAssumption DEF Items
  <2> QED
    BY <2>1, <2>2, <1>1, <1>2
<1> QED
  BY <1>5, <1>6 DEF Placed

LEMMA PlacedStation ==
    ASSUME Typed, Placed, StationNext, UNCHANGED playerVars
    PROVE  Placed'
<1>1. UNCHANGED item
  BY DEF playerVars
<1>2. ASSUME NEW c \in Clients, NEW i \in Items, RemoveFromQueue(c, i)
      PROVE  Placed'
  <2>1. /\ Contains(queue, i) /\ queue' = Remove(queue, i) /\ queue \in Seq(Items)
        /\ outcome' = [j \in Items |-> IF j \in {i} THEN "removed" ELSE outcome[j]]
        /\ UNCHANGED <<next, ahead>>
    BY <1>2 DEF RemoveFromQueue, Discard, Typed, TypeOK
  <2>2. queue' \in Seq(Items)
    BY <2>1, RemoveClosesGap
  <2>3. /\ Thinned(queue', queue) /\ ~Contains(queue', i)
        /\ \A x : Contains(queue, x) /\ x # i => Contains(queue', x)
    BY <2>1, RemoveThins, PendingOnce DEF Placed
  <2> QED
    BY <1>1, <2>1, <2>2, <2>3, ThinnedPlaced
<1>3. ASSUME NEW c \in Clients, NEW i \in Items, SkipToItem(c, i)
      PROVE  Placed'
  <2>1. /\ Contains(queue, i) /\ queue' = SkipTo(queue, i) /\ queue \in Seq(Items)
        /\ outcome' = [j \in Items |-> IF j \in Pending(queue) \ Pending(queue')
                                       THEN "removed" ELSE outcome[j]]
        /\ UNCHANGED <<next, ahead>>
    BY <1>3 DEF SkipToItem, Discard, Typed, TypeOK
  <2>2. IndexIn(queue, i) \in 1..(Len(queue) + 1)
    BY <2>1, IndexInQueue
  <2>3. queue' \in Seq(Items) /\ Thinned(queue', queue)
    BY <2>1, <2>2, DropKeepsRest, DropThins DEF SkipTo
  <2>4. \A j \in Items : j \in Pending(queue) \ Pending(queue')
                            <=> Contains(queue, j) /\ ~Contains(queue', j)
    BY DEF Pending
  <2> QED
    BY <1>1, <2>1, <2>3, <2>4, ThinnedPlaced
<1>4. ASSUME NEW c \in Clients, NEW op \in {"Clear", "ClearStop"}, ClearQueue(c, op)
      PROVE  Placed'
  <2>1. /\ queue' = <<>> /\ queue \in Seq(Items)
        /\ outcome' = [j \in Items |-> IF j \in Pending(queue) THEN "removed" ELSE outcome[j]]
        /\ UNCHANGED <<next, ahead>>
    BY <1>4 DEF ClearQueue, Discard, Typed, TypeOK
  <2>2. /\ queue' \in Seq(Items) /\ \A j : ~Contains(queue', j)
        /\ \A j \in Items : j \in Pending(queue) <=> Contains(queue, j)
    BY <2>1 DEF Contains, Pending
  <2>3. Thinned(queue', queue)
    <3>1. queue' = Drop(queue, Len(queue) + 1)
      BY <2>1 DEF Drop
    <3> QED
      BY <2>1, <3>1, DropThins, Len(queue) + 1 \in 1..(Len(queue) + 1)
  <2> QED
    BY <1>1, <2>1, <2>2, <2>3, ThinnedPlaced
<1>5. ASSUME NEW c \in Clients, Skip(c) \/ Pause(c) \/ Resume(c) \/ Stop(c)
                                \/ \E pos \in SeekArgs : Seek(c, pos)
      PROVE  Placed'
  BY <1>1, <1>5, Unmoved DEF Skip, Pause, Resume, Stop, Seek, queueVars
<1>6. ASSUME NEW c \in Clients, CallContinues(c)
      PROVE  Placed'
  BY <1>1, <1>6, Unmoved
     DEF CallContinues, ClearCurrent, Interrupt, LoadCancel, CallCancel, SetPaused,
         SetPendingSeek, queueVars
<1>7. ASSUME NEW i \in Items, Prefetched(i)
      PROVE  Placed'
  BY <1>1, <1>7, Unmoved DEF Prefetched, Mark, queueVars
<1> QED
  BY <1>2, <1>3, <1>4, <1>5, <1>6, <1>7, PlacedQueueTrack DEF StationNext, CallStarts

-----------------------------------------------------------------------------

(* The item in hand is given its outcome and let go.                       *)
LEMMA LetGo ==
    ASSUME Typed, Placed, item \in Items, item' = None,
           NEW o \in {"failed", "dropped", "completed", "interrupted"},
           outcome' = [outcome EXCEPT ![item] = o],
           UNCHANGED <<queue, next, ahead>>
    PROVE  Placed'
<1>1. QueueOrder'
  BY DEF Placed, QueueOrder, Before
<1>2. ASSUME NEW i \in Items
      PROVE  /\ ~(Contains(queue', i) /\ item' = i)
             /\ ~(Contains(queue', i) /\ outcome'[i] # "none")
             /\ ~(item' = i /\ outcome'[i] # "none")
             /\ (i < next') <=> (Contains(queue', i) \/ item' = i \/ outcome'[i] # "none")
  <2>1. outcome'[i] = IF i = item THEN o ELSE outcome[i]
    BY DEF Typed, TypeOK
  <2>2. i # None
    BY StationAssumption DEF Items, None
  <2> QED
    BY <2>1, <2>2 DEF Placed, ItemConservation
<1> QED
  BY <1>1, <1>2 DEF Placed, ItemConservation

(* PopFront takes the item out of the queue and into the player's hands.   *)
LEMMA PlacedPopFront ==
    ASSUME Typed, Placed, PopFront
    PROVE  Placed'
<1>1. /\ queue \in Seq(Items) /\ queue # <<>> /\ item = None
      /\ queue' = Tail(queue) /\ item' = Head(queue) /\ UNCHANGED <<next, ahead, outcome>>
  BY DEF PopFront, Rpcs, Typed, TypeOK, Holding, HasItem
<1>2. /\ Len(queue) \in Nat \ {0} /\ queue' \in Seq(Items) /\ Len(queue') = Len(queue) - 1
      /\ \A j \in 1..Len(queue') : queue'[j] = queue[j + 1]
      /\ item' = queue[1] /\ item' \in Items
  BY <1>1, HeadTailProperties
<1>3. QueueOrder'
  BY <1>1, <1>2, TailThins, OrderThins DEF Placed
<1>4. ASSUME NEW i \in Items
      PROVE  Contains(queue, i) <=> Contains(queue', i) \/ item' = i
  <2>1. ASSUME NEW k \in 1..Len(queue), queue[k] = i PROVE Contains(queue', i) \/ item' = i
    <3>1. CASE k = 1
      BY <1>2, <2>1, <3>1
    <3>2. CASE k # 1
      <4>1. k - 1 \in 1..Len(queue') /\ (k - 1) + 1 = k
        BY <1>2, <2>1, <3>2
      <4>2. queue'[k - 1] = i
        BY <1>2, <2>1, <4>1
      <4> QED
        BY <4>1, <4>2 DEF Contains
    <3> QED
      BY <3>1, <3>2
  <2>2. Contains(queue', i) => Contains(queue, i)
    BY <1>1, TailThins, ThinnedContains
  <2>3. item' = i => Contains(queue, i)
    <3>1. 1 \in 1..Len(queue)
      BY <1>2
    <3> QED
      BY <1>2, <3>1 DEF Contains
  <2> QED
    BY <2>1, <2>2, <2>3 DEF Contains
<1>5. ~Contains(queue', item')
  <2> SUFFICES ASSUME NEW j \in 1..Len(queue'), queue'[j] = item'
               PROVE  FALSE
    BY DEF Contains
  <2>1. j + 1 \in 1..Len(queue) /\ 1 \in 1..Len(queue) /\ queue[j + 1] = queue[1]
    BY <1>2
  <2> QED
    BY <1>2, <2>1, PendingOnce DEF Placed
<1>6. ItemConservation'
  BY <1>1, <1>2, <1>4, <1>5, StationAssumption DEF Placed, ItemConservation, Items, None
<1> QED
  BY <1>3, <1>6 DEF Placed

LEMMA PlacedReturns ==
    ASSUME Typed, Placed, NEW reason \in {"completed", "interrupted"},
           NEW byFile \in BOOLEAN, Returns(reason, byFile), pc \in {"open", "stream", "poll"}
    PROVE  Placed'
<1>1. UNCHANGED <<queue, next, ahead>>
  BY DEF Returns, Rpcs
<1>2. CASE clip = "wait" /\ ctxDone
  <2>1. item \in Items
    BY <1>2 DEF Typed, TypeOK, Holding, HasItem
  <2>2. item' = None /\ outcome' = [outcome EXCEPT ![item] = "dropped"]
    BY <1>2 DEF Returns
  <2> QED
    BY <1>1, <2>1, <2>2, LetGo
<1>3. CASE ~(clip = "wait" /\ ctxDone)
  <2>1. UNCHANGED <<item, outcome>>
    BY <1>3 DEF Returns, Typed, TypeOK, Clips
  <2> QED
    BY <1>1, <2>1, Unmoved
<1> QED
  BY <1>2, <1>3

LEMMA PlacedPlayer ==
    ASSUME Typed, Placed, PlayerStep \/ Environment
    PROVE  Placed'
<1>1. CASE PopFront
  BY <1>1, PlacedPopFront
<1>2. CASE DropFailed
  <2>1. item \in Items
    BY <1>2 DEF DropFailed, Typed, TypeOK, Holding, HasItem
  <2> QED
    BY <1>2, <2>1, LetGo DEF DropFailed, Rpcs
<1>3. CASE Cleanup
  <2>1. item \in Items /\ Reason \in {"completed", "interrupted"}
    BY <1>3 DEF Cleanup, Typed, TypeOK, Holding, HasItem, Reason
  <2>2. item' = None /\ outcome' = [outcome EXCEPT ![item] = Reason]
        /\ UNCHANGED <<queue, next, ahead>>
    BY <1>3 DEF Cleanup, Rpcs
  <2> QED
    BY <2>1, <2>2, LetGo
<1>4. CASE StreamReturns
  BY <1>4, StreamReturnsAs, PlacedReturns
<1>5. CASE RunEnds \/ QueueEmpty \/ SetCurrent \/ StartTrack \/ OpenStream \/ WriteChunk
  BY <1>5, Unmoved
     DEF RunEnds, QueueEmpty, SetCurrent, StartTrack, OpenStream, WriteChunk, stationVars, Rpcs
<1>6. CASE ConsumeSkip \/ ConsumeSeek \/ CheckPaused \/ HoldTest \/ ClearAir
  BY <1>6, Unmoved
     DEF ConsumeSkip, ConsumeSeek, CheckPaused, HoldTest, ClearAir, stationVars, Rpcs
<1>7. CASE UNCHANGED vars
  BY <1>7, Unmoved DEF vars, stationVars
<1> QED
  BY <1>1, <1>2, <1>3, <1>4, <1>5, <1>6, <1>7
     DEF PlayerStep, Environment, StreamReturns, SilenceLoops, UpstreamGoesOn, Finished

LEMMA PlacedAlways == Spec => []Placed
<1>1. Typed /\ Placed /\ [Next]_vars => Placed'
  BY PlacedStation, PlacedPlayer, Unmoved DEF Next, vars, stationVars
<1> QED
  BY <1>1, PlacedInit, TypedAlways, PTL DEF Spec

(* Whatever plays next is what was asked for, however RPCs and the player  *)
(* interleave.                                                             *)
THEOREM QueueKeepsOrder == Spec => []QueueOrder
BY PlacedAlways, PTL DEF Placed

(* No accepted item is lost, played from two places or played after it was *)
(* removed.                                                                *)
THEOREM ItemsConserved == Spec => []ItemConservation
BY PlacedAlways, PTL DEF Placed

-----------------------------------------------------------------------------
(* UntouchedTrackCompletes is inductive once every way to cut a track is   *)
(* traced to an RPC that touched it or to the stop of the station.  From   *)
(* SetCurrent(item) to SetCurrent(nil) the item is current:                *)
OnTheAir == pc = "reset" \/ Deciding \/ pc = "ending" \/ (InClip /\ Playing)

(* Between two streams nobody has a cancel func to call; one that was read *)
(* or called while a track is current has touched it.                      *)
CancelsTouch ==
    /\ ~Streaming => aimed = {} /\ streamCancel = "nil"
    /\ current # None /\ (aimed # {} \/ streamCancel = "cancelled") => touched

(* A track nobody touched has its file, or is a relay.                     *)
HasFile ==
    /\ pc = "reset" /\ ~touched => prefetch[item] \in {"ready", "live"}
    /\ (Deciding \/ (InClip /\ clip \in {"track", "hold"})) /\ ~touched
          => prefetch[item] = "ready"
    /\ \A i \in Items : i < next => prefetch[i] # "none"

(* Nobody looks for the reason of an interruption that had none.           *)
HasReason == Deciding \/ (InClip /\ clip = "hold") => touched \/ ctxDone

Traced ==
    /\ current # None <=> OnTheAir
    /\ CancelsTouch /\ HasFile /\ HasReason /\ UntouchedTrackCompletes

(* What every step of a handler or of the pool leaves as it is.            *)
LEMMA StationTouches ==
    ASSUME Typed, CancelsTouch, StationNext
    PROVE  /\ current' = current
           /\ touched => touched'
           /\ ctxDone => ctxDone'
           /\ streamCancel = "nil" /\ aimed = {} => streamCancel' = "nil" /\ aimed' = {}
           /\ current # None /\ (aimed' # {} \/ streamCancel' = "cancelled") => touched'
<1> USE DEF Typed, TypeOK, CancelsTouch, streamVars
<1>1. ASSUME NEW c \in Clients, CallStarts(c) \/ ClearCurrent(c)
      PROVE  UNCHANGED <<current, touched, streamCancel, aimed>> /\ (ctxDone => ctxDone')
      BY <1>1 DEF CallStarts, ClearCurrent, QueueTrack, RemoveFromQueue, SkipToItem, ClearQueue,
         Skip, Pause, Resume, Stop, Seek
<1>2. ASSUME NEW c \in Clients, Interrupt(c) \/ SetPaused(c) \/ SetPendingSeek(c)
      PROVE  UNCHANGED <<current, streamCancel, aimed, ctxDone>> /\ (touched => touched')
      BY <1>2 DEF Interrupt, SetPaused, SetPendingSeek, Touch
<1>3. ASSUME NEW c \in Clients, LoadCancel(c)
      PROVE  /\ UNCHANGED <<current, streamCancel, ctxDone>> /\ (touched => touched')
             /\ streamCancel = "nil" => UNCHANGED <<aimed, touched>>
             /\ streamCancel # "nil" /\ current # None => touched'
      BY <1>3 DEF LoadCancel, Touch
<1>4. ASSUME NEW c \in Clients, CallCancel(c)
      PROVE  /\ UNCHANGED <<current, touched, ctxDone>> /\ aimed' \subseteq aimed
             /\ aimed = {} => UNCHANGED streamCancel
      BY <1>4 DEF CallCancel
<1>5. ASSUME NEW i \in Items, Prefetched(i)
      PROVE  UNCHANGED <<current, touched, streamCancel, aimed, ctxDone>>
      BY <1>5 DEF Prefetched, Mark
<1> QED BY <1>1, <1>2, <1>3, <1>4, <1>5 DEF StationNext, CallContinues

(* The pool marks an item once, and a new item is not one of the old.      *)
LEMMA StationKeepsFiles ==
    ASSUME Typed, StationNext, \A i \in Items : i < next => prefetch[i] # "none"
    PROVE  /\ \A i \in Items : i < next /\ prefetch[i] # "pending" => prefetch'[i] = prefetch[i]
           /\ \A i \in Items : i < next' => prefetch'[i] # "none"
<1> USE DEF Typed, TypeOK, Items
<1>1. ASSUME NEW c \in Clients, NEW mode \in Modes, QueueTrack(c, mode)
      PROVE  prefetch' = [prefetch EXCEPT ![next] = "pending"] /\ next' = next + 1 /\ next \in Items
      BY <1>1 DEF QueueTrack
<1>2. ASSUME NEW i \in Items, Prefetched(i)
      PROVE  /\ next' = next /\ prefetch[i] = "pending"
             /\ \E r \in {"ready", "live", "failed"} : prefetch' = [prefetch EXCEPT ![i] = r]
      BY <1>2 DEF Prefetched, Mark, queueVars
<1>3. ASSUME NEW c \in Clients,
             \/ \E i \in Items : RemoveFromQueue(c, i) \/ SkipToItem(c, i)
             \/ \E op \in {"Clear", "ClearStop"} : ClearQueue(c, op)
             \/ Skip(c) \/ Pause(c) \/ Resume(c) \/ Stop(c)
             \/ (\E pos \in SeekArgs : Seek(c, pos)) \/ CallContinues(c)
      PROVE  UNCHANGED <<next, prefetch>>
      BY <1>3 DEF RemoveFromQueue, SkipToItem, ClearQueue, Skip, Pause, Resume, Stop, Seek,
         CallContinues, ClearCurrent, Interrupt, LoadCancel, CallCancel, SetPaused,
         SetPendingSeek, queueVars
<1> DEFINE Kept ==
      /\ \A i \in Items : i < next /\ prefetch[i] # "pending" => prefetch'[i] = prefetch[i]
      /\ \A i \in Items : i < next' => prefetch'[i] # "none"
<1>4. ASSUME NEW c \in Clients, NEW mode \in Modes, QueueTrack(c, mode)
      PROVE  Kept
  <2>1. prefetch' = [prefetch EXCEPT ![next] = "pending"] /\ next' = next + 1 /\ next \in Items
        BY <1>1, <1>4
  <2>2. \A i \in Items : i # next => prefetch'[i] = prefetch[i]
        BY <2>1
  <2>3. prefetch'[next] = "pending"
        BY <2>1
  <2> QED BY <2>1, <2>2, <2>3
<1>5. ASSUME NEW j \in Items, Prefetched(j)
      PROVE  Kept
  <2>1. PICK r \in {"ready", "live", "failed"} : prefetch' = [prefetch EXCEPT ![j] = r]
        BY <1>2, <1>5
  <2>2. next' = next /\ prefetch[j] = "pending"
        BY <1>2, <1>5
  <2>3. prefetch'[j] # "none" /\ \A i \in Items : i # j => prefetch'[i] = prefetch[i]
        BY <2>1
  <2> QED BY <2>2, <2>3
<1>6. UNCHANGED <<next, prefetch>> => Kept
      OBVIOUS
<1>7. CASE \E c \in Clients, mode \in Modes : QueueTrack(c, mode)
      BY <1>4, <1>7
<1>8. CASE \E i \in Items : Prefetched(i)
      BY <1>5, <1>8
<1>9. CASE ~(\E c \in Clients, mode \in Modes : QueueTrack(c, mode)) /\ ~(\E i \in Items : Prefetched(i))
      BY <1>3, <1>6, <1>9 DEF StationNext, CallStarts
<1> QED BY <1>7, <1>8, <1>9

(* So the handlers and the pool keep what was traced.                      *)
LEMMA TracedStation ==
    ASSUME Typed, ItemConservation, Traced, StationNext, UNCHANGED playerVars
    PROVE  Traced'
<1>1. UNCHANGED <<pc, clip, item, why>>
      BY DEF playerVars
<1>2. /\ OnTheAir' = OnTheAir /\ Streaming' = Streaming /\ Deciding' = Deciding
      /\ InClip' = InClip
      BY <1>1 DEF OnTheAir, Streaming, Deciding, InClip, Playing
<1>3. /\ current' = current
      /\ touched => touched'
      /\ ctxDone => ctxDone'
      /\ streamCancel = "nil" /\ aimed = {} => streamCancel' = "nil" /\ aimed' = {}
      /\ current # None /\ (aimed' # {} \/ streamCancel' = "cancelled") => touched'
      BY StationTouches DEF Traced
<1>4. (current # None <=> OnTheAir)' /\ CancelsTouch'
      BY <1>2, <1>3 DEF Traced, CancelsTouch
<1>5. HasReason' /\ UntouchedTrackCompletes'
      BY <1>1, <1>2, <1>3 DEF Traced, HasReason, UntouchedTrackCompletes
<1>6. HasFile'
      <2>1. /\ \A i \in Items : i < next /\ prefetch[i] # "pending" => prefetch'[i] = prefetch[i]
            /\ \A i \in Items : i < next' => prefetch'[i] # "none"
            BY StationKeepsFiles DEF Traced, HasFile
      <2>2. item # None => item \in Items /\ item < next
            BY DEF Typed, TypeOK, ItemConservation
      <2>3. pc = "reset" \/ Deciding \/ (InClip /\ clip \in {"track", "hold"}) => item # None
            BY DEF Typed, Holding, HasItem, Deciding, InClip
      <2> QED BY <1>1, <1>2, <1>3, <2>1, <2>2, <2>3 DEF Traced, HasFile
<1> QED BY <1>4, <1>5, <1>6 DEF Traced

(* A stream that returns was cut by somebody, failed, or is through.       *)
LEMMA TracedReturns ==
    ASSUME Typed, Traced, StreamReturns
    PROVE  Traced'
<1> USE DEF Streaming, Deciding, InClip, Playing, OnTheAir
<1>1. PICK reason \in {"completed", "interrupted"}, byFile \in BOOLEAN :
         /\ Returns(reason, byFile) /\ InClip
         /\ \/ reason = "completed" \/ byFile
            \/ clip \notin {"track", "live"}
            \/ Streaming /\ Interrupted
            \/ ~Readable
      BY DEF StreamReturns, NothingToOpen, OpenFails, BreakOff, ReachEnd, ReadFails,
         SilenceStops, RelayBreaksOff, UpstreamEnds
<1>2. /\ UNCHANGED <<clip, current, ctxDone, prefetch, next>>
      /\ streamCancel' = "nil" /\ aimed' = {}
      /\ touched' = (touched \/ (byFile /\ current # None))
      BY <1>1 DEF Returns, Unregister, Rpcs
<1>3. clip \in Clips
      BY DEF Typed, TypeOK
<1>4. CASE clip \in {"idle", "wait"}
      <2>1. pc' \in {"top", "done", "check"}
            BY <1>1, <1>4 DEF Returns
      <2> QED BY <1>1, <1>2, <1>4, <2>1
              DEF Traced, CancelsTouch, HasFile, HasReason, UntouchedTrackCompletes
<1>5. CASE clip = "hold"
      <2>1. pc' = "skip?" /\ item' = item
            BY <1>1, <1>5 DEF Returns
      <2> QED BY <1>1, <1>2, <1>5, <2>1
              DEF Traced, CancelsTouch, HasFile, HasReason, UntouchedTrackCompletes
<1>6. CASE clip \in {"track", "live"}
      <2>1. current # None
            BY <1>1, <1>6 DEF Traced
      <2>2. reason = "completed" \/ touched' \/ ctxDone
            BY <1>1, <1>2, <1>6, <2>1
               DEF Traced, CancelsTouch, HasFile, Interrupted, Readable
      <2>3. item' = item
            BY <1>1, <1>6 DEF Returns
      <2>4. CASE pc' = "ending"
            <3>1. why' = "completed" \/ touched' \/ ctxDone
                  BY <1>1, <1>6, <2>2 DEF Returns, EndTrack
            <3> QED BY <1>2, <2>1, <2>4, <3>1
                    DEF Traced, CancelsTouch, HasFile, HasReason, UntouchedTrackCompletes
      <2>5. CASE pc' = "skip?"
            <3>1. clip = "track" /\ reason # "completed"
                  BY <1>1, <1>6, <2>5 DEF Returns, EndTrack
            <3> QED BY <1>1, <1>2, <2>1, <2>2, <2>3, <2>5, <3>1
                    DEF Traced, CancelsTouch, HasFile, HasReason, UntouchedTrackCompletes
      <2> QED BY <1>1, <1>6, <2>4, <2>5 DEF Returns, EndTrack
<1> QED BY <1>3, <1>4, <1>5, <1>6 DEF Clips

(* So does every other step of the player keep it.                         *)
LEMMA TracedPlayer ==
    ASSUME Typed, ItemConservation, Traced, PlayerStep \/ Environment
    PROVE  Traced'
<1> USE DEF Streaming, Deciding, InClip, Playing, OnTheAir, Traced, CancelsTouch, HasFile,
        HasReason, UntouchedTrackCompletes
<1>1. CASE RunEnds \/ QueueEmpty
      BY <1>1 DEF RunEnds, QueueEmpty, stationVars
<1>2. CASE PopFront
      BY <1>2 DEF PopFront, Rpcs, streamVars
<1>3. CASE DropFailed
      BY <1>3 DEF DropFailed, Rpcs, streamVars
<1>4. CASE SetCurrent
      <2>1. item \in Items /\ item < next /\ item # None
            BY <1>4 DEF SetCurrent, Typed, TypeOK, Holding, HasItem, ItemConservation
      <2>2. prefetch[item] \in {"pending", "ready", "live"}
            BY <1>4, <2>1 DEF SetCurrent, Typed, TypeOK
      <2>3. /\ pc' = "reset" /\ current' = item /\ touched' = (prefetch[item] = "pending")
            /\ UNCHANGED <<prefetch, next, item, aimed, streamCancel, ctxDone>>
            BY <1>4 DEF SetCurrent, Rpcs, streamVars
      <2> QED BY <1>4, <2>1, <2>2, <2>3 DEF SetCurrent
<1>5. CASE StartTrack
      BY <1>5 DEF StartTrack, Rpcs, streamVars
<1>6. CASE OpenStream
      BY <1>6 DEF OpenStream, Rpcs
<1>7. CASE WriteChunk
      BY <1>7 DEF WriteChunk, stationVars
<1>8. CASE StreamReturns
      BY <1>8, TracedReturns
<1>9. CASE ConsumeSkip
      BY <1>9 DEF ConsumeSkip, EndTrack, Rpcs, streamVars
<1>10. CASE ConsumeSeek
       BY <1>10 DEF ConsumeSeek, Rpcs, streamVars, Typed, Holding
<1>11. CASE CheckPaused
       BY <1>11 DEF CheckPaused, EndTrack, stationVars
<1>12. CASE HoldTest
       BY <1>12 DEF HoldTest, EndTrack, stationVars, Typed, Holding
<1>13. CASE ClearAir
       BY <1>13 DEF ClearAir, Rpcs, streamVars
<1>14. CASE Cleanup
       BY <1>14 DEF Cleanup, Rpcs, streamVars
<1>15. CASE UNCHANGED vars
       BY <1>15 DEF vars, stationVars
<1> QED
  BY <1>1, <1>2, <1>3, <1>4, <1>5, <1>6, <1>7, <1>8, <1>9, <1>10, <1>11, <1>12, <1>13,
     <1>14, <1>15
     DEF PlayerStep, Environment, StreamReturns, SilenceLoops, UpstreamGoesOn, Finished

LEMMA TracedAlways == Spec => []Traced
<1>1. Init => Traced
      BY StationAssumption
      DEF Init, StationInit, PlayerInit, Traced, OnTheAir, CancelsTouch, HasFile, HasReason,
          UntouchedTrackCompletes, Streaming, Deciding, InClip, Items, None
<1>2. Typed /\ Placed /\ Traced /\ [Next]_vars => Traced'
      <2>1. ASSUME Typed, Placed, Traced, UNCHANGED vars PROVE Traced'
            BY <2>1 DEF vars, stationVars, Traced, OnTheAir, CancelsTouch, HasFile, HasReason,
               UntouchedTrackCompletes, Streaming, Deciding, InClip, Playing
      <2> QED BY <2>1, TracedStation, TracedPlayer DEF Next, Placed
<1> QED BY <1>1, <1>2, TypedAlways, PlacedAlways, PTL DEF Spec

(* A track that no RPC touched plays to its end: no cancel func that was   *)
(* read for an earlier clip ever reaches it, for any number of handlers    *)
(* between a read and a call (station.go:205-216, player.go:196-202).      *)
THEOREM UntouchedPlaysToItsEnd == Spec => []UntouchedTrackCompletes
BY TracedAlways, PTL DEF Traced

-----------------------------------------------------------------------------
(* Player implements StationContract.  The view of the station is a record *)
(* of five parts; each step of Player changes them as one move does, or    *)
(* leaves them.                                                            *)
ViewOf(q, i, s, h, a) ==
    [queue |-> q, hand |-> i, stage |-> s, history |-> h, accepted |-> a]

StageOf == IF item = None THEN "free"
           ELSE IF current = item THEN "air"
           ELSE IF pc = "cleanup" THEN "off" ELSE "held"

Played(h) == [k \in DOMAIN h |-> h[k].item]

LEMMA ViewIs == View = ViewOf(queue, item, StageOf, Played(history), 1..(next - 1))
BY DEF View, ViewOf, StageOf, Played

(* Reading and setting one part.                                           *)
LEMMA ViewParts ==
    ASSUME NEW q, NEW i, NEW s, NEW h, NEW a, NEW x
    PROVE  /\ ViewOf(q, i, s, h, a).queue = q /\ ViewOf(q, i, s, h, a).hand = i
           /\ ViewOf(q, i, s, h, a).stage = s /\ ViewOf(q, i, s, h, a).history = h
           /\ ViewOf(q, i, s, h, a).accepted = a
           /\ [ViewOf(q, i, s, h, a) EXCEPT !.queue = x] = ViewOf(x, i, s, h, a)
           /\ [ViewOf(q, i, s, h, a) EXCEPT !.hand = x] = ViewOf(q, x, s, h, a)
           /\ [ViewOf(q, i, s, h, a) EXCEPT !.stage = x] = ViewOf(q, i, x, h, a)
           /\ [ViewOf(q, i, s, h, a) EXCEPT !.history = x] = ViewOf(q, i, s, x, a)
           /\ [ViewOf(q, i, s, h, a) EXCEPT !.accepted = x] = ViewOf(q, i, s, h, x)
BY DEF ViewOf

(* The moves of the contract, part by part.                                *)
LEMMA PlayerMovesAre ==
    ASSUME NEW q, NEW i, NEW h, NEW a
    PROVE  /\ q # <<>> => ViewOf(Tail(q), Head(q), "held", h, a)
                              \in Contract!PlayerMoves(ViewOf(q, i, "free", h, a))
           /\ ViewOf(q, i, "air", h, a) \in Contract!PlayerMoves(ViewOf(q, i, "held", h, a))
           /\ ViewOf(q, None, "free", h, a) \in Contract!PlayerMoves(ViewOf(q, i, "held", h, a))
           /\ ViewOf(q, i, "off", h, a) \in Contract!PlayerMoves(ViewOf(q, i, "air", h, a))
           /\ ViewOf(q, None, "free", Contract!Newest(Append(h, i)), a)
                 \in Contract!PlayerMoves(ViewOf(q, i, "off", h, a))
<1>0. Contract!Nothing = None
  BY DEF Contract!Nothing, None
<1>1. Contract!Popped(ViewOf(q, i, "free", h, a)) = ViewOf(Tail(q), Head(q), "held", h, a)
  <2>1. Contract!Popped(ViewOf(q, i, "free", h, a))
          = [[[ViewOf(q, i, "free", h, a) EXCEPT !.queue = Tail(q)]
                 EXCEPT !.hand = Head(q)] EXCEPT !.stage = "held"]
    BY DEF Contract!Popped, ViewOf
  <2>2. [ViewOf(q, i, "free", h, a) EXCEPT !.queue = Tail(q)] = ViewOf(Tail(q), i, "free", h, a)
    <3>1. ASSUME NEW x
          PROVE  [ViewOf(q, i, "free", h, a) EXCEPT !.queue = x] = ViewOf(x, i, "free", h, a)
      BY DEF ViewOf
    <3> QED
      BY <3>1, Zenon
  <2>3. [ViewOf(Tail(q), i, "free", h, a) EXCEPT !.hand = Head(q)]
          = ViewOf(Tail(q), Head(q), "free", h, a)
    BY ViewParts
  <2>4. [ViewOf(Tail(q), Head(q), "free", h, a) EXCEPT !.stage = "held"]
          = ViewOf(Tail(q), Head(q), "held", h, a)
    BY ViewParts
  <2> QED
    BY <2>1, <2>2, <2>3, <2>4, Zenon
<1>2. Contract!Aired(ViewOf(q, i, "held", h, a)) = ViewOf(q, i, "air", h, a)
  BY ViewParts DEF Contract!Aired
<1>3. ASSUME NEW s
      PROVE  Contract!GivenUp(ViewOf(q, i, s, h, a)) = ViewOf(q, None, "free", h, a)
  <2>1. Contract!GivenUp(ViewOf(q, i, s, h, a))
          = [[ViewOf(q, i, s, h, a) EXCEPT !.hand = None] EXCEPT !.stage = "free"]
    BY <1>0 DEF Contract!GivenUp, ViewOf
  <2>2. [ViewOf(q, i, s, h, a) EXCEPT !.hand = None] = ViewOf(q, None, s, h, a)
    BY ViewParts
  <2>3. [ViewOf(q, None, s, h, a) EXCEPT !.stage = "free"] = ViewOf(q, None, "free", h, a)
    BY ViewParts
  <2> QED
    BY <2>1, <2>2, <2>3, Zenon
<1>4. Contract!OffAir(ViewOf(q, i, "air", h, a)) = ViewOf(q, i, "off", h, a)
  BY ViewParts DEF Contract!OffAir
<1>5. Contract!Recorded(ViewOf(q, i, "off", h, a))
        = ViewOf(q, None, "free", Contract!Newest(Append(h, i)), a)
  BY <1>3, ViewParts DEF Contract!Recorded
<1>6. \A s : ViewOf(q, i, s, h, a).stage = s /\ ViewOf(q, i, s, h, a).queue = q
  BY ViewParts
<1>7. q # <<>> => Contract!PlayerMoves(ViewOf(q, i, "free", h, a))
                    = {ViewOf(Tail(q), Head(q), "held", h, a)}
  BY <1>1, <1>6 DEF Contract!PlayerMoves
<1>8. Contract!PlayerMoves(ViewOf(q, i, "held", h, a))
        = {ViewOf(q, i, "air", h, a), ViewOf(q, None, "free", h, a)}
  BY <1>2, <1>3, <1>6 DEF Contract!PlayerMoves
<1>9. Contract!PlayerMoves(ViewOf(q, i, "air", h, a)) = {ViewOf(q, i, "off", h, a)}
  BY <1>4, <1>6 DEF Contract!PlayerMoves
<1>10. Contract!PlayerMoves(ViewOf(q, i, "off", h, a))
         = {ViewOf(q, None, "free", Contract!Newest(Append(h, i)), a)}
  BY <1>5, <1>6 DEF Contract!PlayerMoves
<1> QED
  BY <1>7, <1>8, <1>9, <1>10

LEMMA HandlerMovesAre ==
    ASSUME NEW q, NEW i, NEW s, NEW h, NEW a
    PROVE  /\ \A t \in Items \ a : 
                 /\ ViewOf(Append(q, t), i, s, h, a \union {t})
                       \in Contract!HandlerMoves(ViewOf(q, i, s, h, a))
                 /\ ViewOf(PushFront(q, t), i, s, h, a \union {t})
                       \in Contract!HandlerMoves(ViewOf(q, i, s, h, a))
           /\ \A t \in a : Contains(q, t) =>
                 /\ ViewOf(Remove(q, t), i, s, h, a)
                       \in Contract!HandlerMoves(ViewOf(q, i, s, h, a))
                 /\ ViewOf(SkipTo(q, t), i, s, h, a)
                       \in Contract!HandlerMoves(ViewOf(q, i, s, h, a))
           /\ ViewOf(<<>>, i, s, h, a) \in Contract!HandlerMoves(ViewOf(q, i, s, h, a))
<1> DEFINE v == ViewOf(q, i, s, h, a)
<1>1. ASSUME NEW t \in Items \ a
      PROVE  /\ ViewOf(Append(q, t), i, s, h, a \union {t}) \in Contract!HandlerMoves(v)
             /\ ViewOf(PushFront(q, t), i, s, h, a \union {t}) \in Contract!HandlerMoves(v)
  <2>1. v.accepted = a
    BY DEF ViewOf
  <2>2. /\ ViewOf(Append(q, t), i, s, h, a \union {t}) = Contract!Queued(v, t, "Append")
        /\ ViewOf(PushFront(q, t), i, s, h, a \union {t}) = Contract!Queued(v, t, "PlayNext")
    <3>1. Contract!PushFront(q, t) = PushFront(q, t)
      BY DEF Contract!PushFront, PushFront
    <3>2. /\ Contract!Queued(v, t, "Append")
               = [[v EXCEPT !.queue = Append(q, t)] EXCEPT !.accepted = a \union {t}]
          /\ Contract!Queued(v, t, "PlayNext")
               = [[v EXCEPT !.queue = PushFront(q, t)] EXCEPT !.accepted = a \union {t}]
      BY <3>1 DEF Contract!Queued, ViewOf
    <3>3. /\ [v EXCEPT !.queue = Append(q, t)] = ViewOf(Append(q, t), i, s, h, a)
          /\ [v EXCEPT !.queue = PushFront(q, t)] = ViewOf(PushFront(q, t), i, s, h, a)
      BY DEF ViewOf
    <3>4. ASSUME NEW x
          PROVE  [ViewOf(x, i, s, h, a) EXCEPT !.accepted = a \union {t}]
                   = ViewOf(x, i, s, h, a \union {t})
      BY DEF ViewOf
    <3> QED
      BY <3>2, <3>3, <3>4, Zenon
  <2>3. t \in Items \ v.accepted
    BY <1>1, <2>1
  <2> HIDE DEF v
  <2>4. \A mode \in {"Append", "PlayNext"} :
           Contract!Queued(v, t, mode)
              \in {Contract!Queued(v, x, m) : x \in Items \ v.accepted, m \in {"Append", "PlayNext"}}
    BY <2>3
  <2>5. \A mode \in {"Append", "PlayNext"} : Contract!Queued(v, t, mode) \in Contract!HandlerMoves(v)
    BY <2>4 DEF Contract!HandlerMoves
  <2> QED
    BY <2>2, <2>5, Zenon
<1>2. ASSUME NEW t \in a, Contains(q, t)
      PROVE  /\ ViewOf(Remove(q, t), i, s, h, a) \in Contract!HandlerMoves(v)
             /\ ViewOf(SkipTo(q, t), i, s, h, a) \in Contract!HandlerMoves(v)
  <2>1. v.accepted = a /\ v.queue = q
    BY DEF ViewOf
  <2>2. /\ Contract!Remove(q, t) = Remove(q, t) /\ Contract!SkipTo(q, t) = SkipTo(q, t)
        /\ Contract!Contains(q, t)
    BY <1>2 DEF Contract!Remove, Contract!SkipTo, Contract!Drop, Contract!IndexIn,
       Contract!Contains, Remove, SkipTo, Drop, IndexIn, Contains
  <2>3. /\ ViewOf(Remove(q, t), i, s, h, a) = Contract!TakenOut(v, t)
        /\ ViewOf(SkipTo(q, t), i, s, h, a) = Contract!SkippedTo(v, t)
    BY <2>1, <2>2 DEF ViewOf, Contract!TakenOut, Contract!SkippedTo
  <2> QED
    BY <2>1, <2>3 DEF Contract!HandlerMoves
<1>3. ViewOf(<<>>, i, s, h, a) \in Contract!HandlerMoves(v)
  <2>1. ViewOf(<<>>, i, s, h, a) = Contract!Emptied(v)
    BY DEF ViewOf, Contract!Emptied
  <2> QED
    BY <2>1 DEF Contract!HandlerMoves
<1> QED
  BY <1>1, <1>2, <1>3

(* What listeners are told is in the history is what was recorded.         *)
LEMMA PlayedRecords ==
    ASSUME NEW h \in Seq([item : Items, reason : {"completed", "interrupted"}]),
           NEW e \in [item : Items, reason : {"completed", "interrupted"}]
    PROVE  Played(RecordHistory(h, e)) = Contract!Newest(Append(Played(h), e.item))
<1> DEFINE E == [item : Items, reason : {"completed", "interrupted"}]
           longer == Append(h, e)
           names  == Append(Played(h), e.item)
<1>0. h \in Seq(E) /\ e \in E /\ \A x \in E : x.item \in Items
  OBVIOUS
<1> HIDE DEF E
<1>1. ASSUME NEW s \in Seq(E)
      PROVE  /\ Played(s) \in Seq(Items) /\ Len(Played(s)) = Len(s)
             /\ \A k \in 1..Len(s) : Played(s)[k] = s[k].item
  <2>1. DOMAIN s = 1..Len(s) /\ Len(s) \in Nat /\ \A k \in 1..Len(s) : s[k] \in E
    BY LenProperties, ElementOfSeq
  <2>2. \A k \in 1..Len(s) : s[k].item \in Items
    BY <1>0, <2>1
  <2>3. Played(s) = [k \in 1..Len(s) |-> s[k].item]
    BY <2>1 DEF Played
  <2>4. Played(s) \in [1..Len(s) -> Items]
    BY <2>2, <2>3
  <2>5. Played(s) \in Seq(Items)
    BY <2>1, <2>4, SeqDef
  <2>6. DOMAIN Played(s) = 1..Len(s) /\ DOMAIN Played(s) = 1..Len(Played(s)) /\ Len(Played(s)) \in Nat
    BY <2>3, <2>5, LenProperties
  <2>7. Len(Played(s)) = Len(s)
    BY <2>1, <2>6
  <2> QED
    BY <2>3, <2>5, <2>7
<1>2. /\ longer \in Seq(E) /\ Len(longer) = Len(h) + 1 /\ longer[Len(h) + 1] = e
      /\ \A k \in 1..Len(h) : longer[k] = h[k]
  BY <1>0
<1>3. /\ names \in Seq(Items) /\ Len(names) = Len(h) + 1 /\ names[Len(h) + 1] = e.item
      /\ \A k \in 1..Len(h) : names[k] = h[k].item
  <2>1. Played(h) \in Seq(Items) /\ Len(Played(h)) = Len(h) /\ e.item \in Items
        /\ \A k \in 1..Len(h) : Played(h)[k] = h[k].item
    BY <1>0, <1>1
  <2> QED
    BY <2>1
<1>4. Len(longer) = Len(names) /\ Len(h) \in Nat
      /\ \A k \in 1..Len(names) : names[k] = longer[k].item
  BY <1>2, <1>3
<1> HIDE DEF longer, names
<1>5. CASE Len(longer) > HistoryMax
  <2> DEFINE n == Len(longer) - HistoryMax + 1
  <2>1. n \in 1..(Len(longer) + 1) /\ n \in 1..(Len(names) + 1)
    BY <1>2, <1>4, <1>5, StationAssumption
  <2>0. n = Len(longer) - HistoryMax + 1
    OBVIOUS
  <2> HIDE DEF n
  <2>2. /\ Drop(longer, n) \in Seq(E) /\ Len(Drop(longer, n)) = Len(longer) - n + 1
        /\ \A j \in 1..(Len(longer) - n + 1) : Drop(longer, n)[j] = longer[j + n - 1]
    <3>1. longer \in Seq(E) /\ n \in 1..(Len(longer) + 1)
      BY <1>2, <2>1
    <3> QED
      BY <3>1, DropKeepsRest
  <2>3. /\ Drop(names, n) \in Seq(Items) /\ Len(Drop(names, n)) = Len(names) - n + 1
        /\ \A j \in 1..(Len(names) - n + 1) : Drop(names, n)[j] = names[j + n - 1]
    BY <1>3, <2>1, DropKeepsRest
  <2>4. /\ Played(Drop(longer, n)) \in Seq(Items)
        /\ Len(Played(Drop(longer, n))) = Len(names) - n + 1
        /\ \A j \in 1..(Len(names) - n + 1) : Played(Drop(longer, n))[j] = longer[j + n - 1].item
    BY <1>1, <1>4, <2>2
  <2>5. \A j \in 1..(Len(names) - n + 1) : j + n - 1 \in 1..Len(names)
    BY <1>2, <1>4, <2>1
  <2>6. Played(Drop(longer, n)) = Drop(names, n)
    <3>1. \A j \in 1..Len(Drop(names, n)) : Played(Drop(longer, n))[j] = Drop(names, n)[j]
      BY <1>4, <2>3, <2>4, <2>5
    <3> QED
      BY <2>3, <2>4, <3>1, SeqEqual
  <2>7. RecordHistory(h, e) = Drop(longer, n)
    BY <1>5, <2>0 DEF RecordHistory, longer
  <2>8. Contract!Newest(names) = Drop(names, n)
    BY <1>4, <1>5, <2>0 DEF Contract!Newest, Contract!Drop, Drop
  <2> QED
    BY <2>6, <2>7, <2>8 DEF names
<1>6. CASE ~(Len(longer) > HistoryMax)
  <2>1. RecordHistory(h, e) = longer /\ Contract!Newest(names) = names
    BY <1>4, <1>6 DEF RecordHistory, longer, Contract!Newest
  <2>2. Played(longer) \in Seq(Items) /\ Len(Played(longer)) = Len(names)
        /\ \A k \in 1..Len(names) : Played(longer)[k] = names[k]
    BY <1>1, <1>2, <1>4
  <2>3. Played(longer) = names
    BY <1>3, <2>2, SeqEqual
  <2> QED
    BY <2>1, <2>3 DEF names
<1> QED
  BY <1>5, <1>6

(* What Current() returns is the item in hand.                             *)
InHand == current \in {None, item}

Viewed == Typed /\ Placed /\ Traced /\ InHand

(* A handler leaves what is in hand, on air and played.                    *)
LEMMA HandlersView ==
    ASSUME Viewed, StationNext, UNCHANGED playerVars
    PROVE  /\ InHand'
           /\ View' = ViewOf(queue', item, StageOf, Played(history), 1..(next' - 1))
<1>1. UNCHANGED <<item, pc>>
  BY DEF playerVars
<1>2. UNCHANGED current
  BY StationTouches DEF Viewed, Traced
<1>3. UNCHANGED history
  <2>1. ASSUME NEW c \in Clients, CallStarts(c) PROVE UNCHANGED history
    BY <2>1 DEF CallStarts, QueueTrack, RemoveFromQueue, SkipToItem, ClearQueue, Skip, Pause,
       Resume, Stop, Seek
  <2>2. ASSUME NEW c \in Clients, CallContinues(c) PROVE UNCHANGED history
    BY <2>2 DEF CallContinues, ClearCurrent, Interrupt, LoadCancel, CallCancel, SetPaused,
       SetPendingSeek
  <2>3. ASSUME NEW i \in Items, Prefetched(i) PROVE UNCHANGED history
    BY <2>3 DEF Prefetched, Mark
  <2> QED
    BY <2>1, <2>2, <2>3 DEF StationNext
<1>4. StageOf' = StageOf
  BY <1>1, <1>2 DEF StageOf
<1>5. Played(history') = Played(history)
  BY <1>3
<1>6. View' = ViewOf(queue', item', StageOf', Played(history'), 1..(next' - 1))
  BY DEF View, ViewOf, StageOf, Played
<1> QED
  BY <1>1, <1>2, <1>4, <1>5, <1>6 DEF Viewed, InHand

(* Every step of a handler or of the pool is a move of the contract, or    *)
(* none that anybody sees.                                                 *)
LEMMA HandlersMove ==
    ASSUME Viewed, StationNext, UNCHANGED playerVars
    PROVE  View' \in Contract!HandlerMoves(View) \/ View' = View
<1> DEFINE To(q, n) == ViewOf(q, item, StageOf, Played(history), 1..(n - 1))
<1>1. View' = To(queue', next') /\ View = To(queue, next)
  BY HandlersView, ViewIs
<1>2. next \in Nat \ {0} /\ \A i \in Items : Contains(queue, i) => i \in 1..(next - 1)
  <2>1. next \in Nat \ {0} /\ \A i \in Items : i \in Nat \ {0}
    BY StationAssumption DEF Viewed, Typed, TypeOK, Items
  <2> QED
    BY <2>1 DEF Viewed, Placed, ItemConservation
<1>3. ASSUME NEW c \in Clients, NEW mode \in Modes, QueueTrack(c, mode)
      PROVE  To(queue', next') \in Contract!HandlerMoves(To(queue, next))
  <2>1. /\ next' = next + 1 /\ next \in Items
        /\ queue' = IF mode = "Append" THEN Append(queue, next) ELSE PushFront(queue, next)
    BY <1>3 DEF QueueTrack
  <2>2. next \in Items \ 1..(next - 1) /\ 1..(next' - 1) = 1..(next - 1) \union {next}
    BY <1>2, <2>1
  <2>3. \A t \in Items \ 1..(next - 1) :
          /\ ViewOf(Append(queue, t), item, StageOf, Played(history), 1..(next - 1) \union {t})
                \in Contract!HandlerMoves(To(queue, next))
          /\ ViewOf(PushFront(queue, t), item, StageOf, Played(history), 1..(next - 1) \union {t})
                \in Contract!HandlerMoves(To(queue, next))
    BY HandlerMovesAre
  <2>4. CASE mode = "Append"
    BY <2>1, <2>2, <2>3, <2>4, Zenon
  <2>5. CASE mode # "Append"
    BY <2>1, <2>2, <2>3, <2>5, Zenon
  <2> QED
    BY <2>4, <2>5
<1>4. ASSUME NEW c \in Clients, NEW i \in Items, RemoveFromQueue(c, i) \/ SkipToItem(c, i)
      PROVE  To(queue', next') \in Contract!HandlerMoves(To(queue, next))
  <2>1. /\ Contains(queue, i) /\ next' = next
        /\ queue' \in {Remove(queue, i), SkipTo(queue, i)}
    BY <1>4 DEF RemoveFromQueue, SkipToItem
  <2>2. i \in 1..(next - 1)
    BY <1>2, <2>1
  <2>3. \A t \in 1..(next - 1) : Contains(queue, t) =>
          /\ To(Remove(queue, t), next) \in Contract!HandlerMoves(To(queue, next))
          /\ To(SkipTo(queue, t), next) \in Contract!HandlerMoves(To(queue, next))
    BY HandlerMovesAre
  <2> HIDE DEF To
  <2> QED
    BY <2>1, <2>2, <2>3
<1>5. ASSUME NEW c \in Clients, NEW op \in {"Clear", "ClearStop"}, ClearQueue(c, op)
      PROVE  To(queue', next') \in Contract!HandlerMoves(To(queue, next))
  <2>1. queue' = <<>> /\ next' = next
    BY <1>5 DEF ClearQueue
  <2>2. To(<<>>, next) \in Contract!HandlerMoves(To(queue, next))
    BY HandlerMovesAre
  <2> HIDE DEF To
  <2> QED
    BY <2>1, <2>2
<1>6. ASSUME NEW c \in Clients, \/ Skip(c) \/ Pause(c) \/ Resume(c) \/ Stop(c)
                                \/ \E pos \in SeekArgs : Seek(c, pos)
                                \/ CallContinues(c)
      PROVE  UNCHANGED <<queue, next>>
  BY <1>6 DEF Skip, Pause, Resume, Stop, Seek, CallContinues, ClearCurrent, Interrupt,
     LoadCancel, CallCancel, SetPaused, SetPendingSeek, queueVars
<1>7. ASSUME NEW i \in Items, Prefetched(i)
      PROVE  UNCHANGED <<queue, next>>
  BY <1>7 DEF Prefetched, Mark, queueVars
<1>8. UNCHANGED <<queue, next>> => To(queue', next') = To(queue, next)
  OBVIOUS
<1> HIDE DEF To
<1>9. \/ UNCHANGED <<queue, next>>
      \/ To(queue', next') \in Contract!HandlerMoves(To(queue, next))
  BY <1>3, <1>4, <1>5, <1>6, <1>7 DEF StationNext, CallStarts
<1> QED
  BY <1>1, <1>8, <1>9

(* Off the stage of Cleanup, what a step leaves alone looks the same.      *)
LEMMA SameView ==
    ASSUME InHand, UNCHANGED <<queue, item, current, history, next>>,
           pc' = "cleanup" <=> pc = "cleanup"
    PROVE  View' = View /\ InHand'
<1>1. StageOf' = StageOf
  BY DEF StageOf
<1>2. Played(history') = Played(history)
  OBVIOUS
<1>3. View' = ViewOf(queue', item', StageOf', Played(history'), 1..(next' - 1))
  BY DEF View, ViewOf, StageOf, Played
<1> QED
  BY <1>1, <1>2, <1>3, ViewIs DEF InHand

(* Every step of the player is a move of the contract, or none that        *)
(* anybody sees.                                                           *)
LEMMA PlayerMoves ==
    ASSUME Viewed, PlayerStep \/ Environment
    PROVE  /\ View' \in Contract!PlayerMoves(View) \/ View' = View
           /\ InHand'
<1> DEFINE a == 1..(next - 1)
           h == Played(history)
           Moved == /\ View' \in Contract!PlayerMoves(View) \/ View' = View
                    /\ InHand'
<1>1. /\ View = ViewOf(queue, item, StageOf, h, a)
      /\ View' = ViewOf(queue', item', StageOf', Played(history'), 1..(next' - 1))
  BY ViewIs DEF View, ViewOf, StageOf, Played
<1>2. current \in {None, item} /\ (current # None <=> OnTheAir) /\ (item # None <=> HasItem)
  BY DEF Viewed, InHand, Traced, Typed, Holding
<1>3. CASE PopFront
  <2>1. /\ queue # <<>> /\ queue' = Tail(queue) /\ item' = Head(queue) /\ item = None
        /\ current = None /\ current' = None /\ pc' # "cleanup"
        /\ UNCHANGED <<history, next>>
    BY <1>2, <1>3 DEF PopFront, Rpcs, HasItem, OnTheAir, Deciding, InClip
  <2>2. Head(queue) # None
    <3>1. Head(queue) \in Items
      BY <2>1 DEF Viewed, Typed, TypeOK
    <3> QED
      BY <3>1, StationAssumption DEF Items, None
  <2>3. StageOf = "free" /\ StageOf' = "held"
    BY <2>1, <2>2 DEF StageOf
  <2>4. ViewOf(Tail(queue), Head(queue), "held", h, a)
          \in Contract!PlayerMoves(ViewOf(queue, item, "free", h, a))
    BY <2>1, PlayerMovesAre
  <2>5. View' = ViewOf(Tail(queue), Head(queue), "held", h, a)
    BY <1>1, <2>1, <2>3
  <2> QED
    BY <1>1, <2>1, <2>3, <2>4, <2>5 DEF InHand
<1>4. CASE DropFailed
  <2>1. /\ item' = None /\ item # None /\ current = None
        /\ pc # "cleanup" /\ UNCHANGED <<current, queue, history, next>>
    BY <1>2, <1>4 DEF DropFailed, Rpcs, HasItem, OnTheAir, Deciding, InClip
  <2>2. StageOf = "held" /\ StageOf' = "free"
    BY <2>1 DEF StageOf
  <2>3. ViewOf(queue, None, "free", h, a)
          \in Contract!PlayerMoves(ViewOf(queue, item, "held", h, a))
    BY PlayerMovesAre
  <2>4. View' = ViewOf(queue, None, "free", h, a)
    BY <1>1, <2>1, <2>2
  <2> QED
    BY <1>1, <2>1, <2>2, <2>3, <2>4 DEF InHand
<1>5. CASE SetCurrent
  <2>1. /\ item # None /\ current = None /\ current' = item
        /\ pc # "cleanup" /\ UNCHANGED <<item, queue, history, next>>
    BY <1>2, <1>5 DEF SetCurrent, Rpcs, HasItem, OnTheAir, Deciding, InClip
  <2>2. StageOf = "held" /\ StageOf' = "air"
    BY <2>1 DEF StageOf
  <2>3. ViewOf(queue, item, "air", h, a)
          \in Contract!PlayerMoves(ViewOf(queue, item, "held", h, a))
    BY PlayerMovesAre
  <2>4. View' = ViewOf(queue, item, "air", h, a)
    BY <1>1, <2>1, <2>2
  <2> QED
    BY <1>1, <2>1, <2>2, <2>3, <2>4 DEF InHand
<1>6. CASE ClearAir
  <2>1. /\ item # None /\ current = item /\ current' = None
        /\ pc' = "cleanup" /\ UNCHANGED <<item, queue, history, next>>
    BY <1>2, <1>6 DEF ClearAir, Rpcs, HasItem, OnTheAir
  <2>2. StageOf = "air" /\ StageOf' = "off"
    BY <2>1 DEF StageOf
  <2>3. ViewOf(queue, item, "off", h, a)
          \in Contract!PlayerMoves(ViewOf(queue, item, "air", h, a))
    BY PlayerMovesAre
  <2>4. View' = ViewOf(queue, item, "off", h, a)
    BY <1>1, <2>1, <2>2
  <2> QED
    BY <1>1, <2>1, <2>2, <2>3, <2>4 DEF InHand
<1>7. CASE Cleanup
  <2>1. /\ item # None /\ current = None /\ item' = None /\ pc = "cleanup"
        /\ history' = RecordHistory(history, [item |-> item, reason |-> Reason])
        /\ UNCHANGED <<current, queue, next>>
    BY <1>2, <1>7 DEF Cleanup, Rpcs, HasItem, OnTheAir, Deciding, InClip
  <2>2. StageOf = "off" /\ StageOf' = "free"
    BY <2>1 DEF StageOf
  <2>3. Played(history') = Contract!Newest(Append(h, item))
    <3>1. /\ [item |-> item, reason |-> Reason]
               \in [item : Items, reason : {"completed", "interrupted"}]
          /\ history \in Seq([item : Items, reason : {"completed", "interrupted"}])
      BY <2>1 DEF Viewed, Typed, TypeOK, Reason
    <3> QED
      BY <2>1, <3>1, PlayedRecords
  <2>4. ViewOf(queue, None, "free", Contract!Newest(Append(h, item)), a)
          \in Contract!PlayerMoves(ViewOf(queue, item, "off", h, a))
    BY PlayerMovesAre
  <2>5. View' = ViewOf(queue, None, "free", Contract!Newest(Append(h, item)), a)
    BY <1>1, <2>1, <2>2, <2>3
  <2> QED
    BY <1>1, <2>1, <2>2, <2>4, <2>5 DEF InHand
<1>8. CASE StreamReturns
  <2>1. PICK reason \in {"completed", "interrupted"}, byFile \in BOOLEAN :
           Returns(reason, byFile) /\ pc \in {"open", "stream", "poll"}
    BY <1>8, StreamReturnsAs
  <2>2. UNCHANGED <<queue, current, history, next>> /\ pc # "cleanup"
    BY <2>1 DEF Returns, Rpcs
  <2>3. CASE clip = "wait" /\ ctxDone
    <3>1. item' = None /\ item # None /\ current = None
      BY <1>2, <2>1, <2>3 DEF Returns, HasItem, OnTheAir, Deciding, InClip, Playing
    <3>2. StageOf = "held" /\ StageOf' = "free"
      BY <2>2, <3>1 DEF StageOf
    <3>3. ViewOf(queue, None, "free", h, a)
            \in Contract!PlayerMoves(ViewOf(queue, item, "held", h, a))
      BY PlayerMovesAre
    <3>4. View' = ViewOf(queue, None, "free", h, a)
      BY <1>1, <2>2, <3>1, <3>2
    <3> QED
      BY <1>1, <2>2, <3>1, <3>2, <3>3, <3>4 DEF InHand
  <2>4. CASE ~(clip = "wait" /\ ctxDone)
    <3>1. UNCHANGED item /\ pc' # "cleanup"
      BY <2>1, <2>4 DEF Returns, EndTrack, Viewed, Typed, TypeOK, Clips
    <3> QED
      BY <2>2, <3>1, SameView DEF Viewed
  <2> QED
    BY <2>3, <2>4
<1>9. CASE \/ RunEnds \/ QueueEmpty \/ StartTrack \/ OpenStream \/ WriteChunk
           \/ ConsumeSkip \/ ConsumeSeek \/ CheckPaused \/ HoldTest
  <2>1. UNCHANGED <<queue, item, current, history, next>> /\ pc # "cleanup" /\ pc' # "cleanup"
    BY <1>9 DEF RunEnds, QueueEmpty, StartTrack, OpenStream, WriteChunk, ConsumeSkip,
       ConsumeSeek, CheckPaused, HoldTest, EndTrack, stationVars, Rpcs
  <2> QED
    BY <2>1, SameView DEF Viewed
<1>10. CASE UNCHANGED vars
  BY <1>10, SameView DEF Viewed, vars, stationVars
<1> QED
  BY <1>3, <1>4, <1>5, <1>6, <1>7, <1>8, <1>9, <1>10
     DEF PlayerStep, Environment, StreamReturns, SilenceLoops, UpstreamGoesOn, Finished

LEMMA ViewInit == Init => Contract!Init /\ InHand
<1> SUFFICES ASSUME Init PROVE Contract!Init /\ InHand
  OBVIOUS
<1>1. queue = <<>> /\ item = None /\ current = None /\ history = <<>> /\ next = 1
  BY DEF Init, StationInit, PlayerInit
<1>2. Played(history) = <<>> /\ 1..(next - 1) = {} /\ StageOf = "free"
  BY <1>1 DEF Played, StageOf
<1>3. View = ViewOf(<<>>, None, "free", <<>>, {})
  BY <1>1, <1>2, ViewIs
<1> QED
  BY <1>1, <1>3 DEF Contract!Init, Contract!EmptyStation, Contract!Nothing, ViewOf, None, InHand

LEMMA ViewSteps == Viewed /\ [Next]_vars => [Contract!Next]_View /\ InHand'
<1> SUFFICES ASSUME Viewed, [Next]_vars PROVE [Contract!Next]_View /\ InHand'
  OBVIOUS
<1>1. CASE StationNext /\ UNCHANGED playerVars
  BY <1>1, HandlersMove, HandlersView DEF Contract!Next
<1>2. CASE PlayerStep \/ Environment
  BY <1>2, PlayerMoves DEF Contract!Next
<1>3. CASE UNCHANGED vars
  BY <1>3, SameView DEF Viewed, vars, stationVars
<1> QED
  BY <1>1, <1>2, <1>3 DEF Next

LEMMA ViewedAlways == Spec => []Viewed
BY ViewInit, ViewSteps, TypedAlways, PlacedAlways, TracedAlways, PTL DEF Spec, Viewed

(* Whatever the interleaving of any number of handlers with the player,    *)
(* whoever looks at the queue, at Current() and at the history sees each   *)
(* item in one place, moving in one direction (player.go:44-113,           *)
(* station.go:118-200, queue.go).                                          *)
THEOREM ImplementsStationContract == Spec => KeepsStationContract
BY ViewInit, ViewSteps, ViewedAlways, PTL DEF Spec, KeepsStationContract, Contract!Spec

-----------------------------------------------------------------------------
(* The part of SkipEndsItem that is no matter of fairness: a skip that has *)
(* reached the clip of an item is not undone, by whatever Pause, Resume,   *)
(* Seek or Stop comes after it.  The next step of the player that matters  *)
(* to the item takes it off the air, and the next one says it is gone, for *)
(* good.                                                                   *)
SkipHit(i) ==
    /\ current = i /\ ctrl.skipRequested
    /\ pc = "skip?" \/ (pc \in {"stream", "poll"} /\ streamCancel = "cancelled")

Leaving(i) == item = i /\ pc \in {"ending", "cleanup"}

(* Nothing a handler does takes the skip back.                             *)
LEMMA HandlersKeepSkip ==
    ASSUME Typed, StationNext
    PROVE  /\ ctrl.skipRequested => ctrl'.skipRequested
           /\ streamCancel = "cancelled" => streamCancel' = "cancelled"
<1> USE DEF Typed, TypeOK, streamVars
<1>1. ASSUME NEW c \in Clients, CallStarts(c)
      PROVE  ctrl'.skipRequested = ctrl.skipRequested /\ UNCHANGED streamCancel
  BY <1>1 DEF CallStarts, QueueTrack, RemoveFromQueue, SkipToItem, ClearQueue, Skip, Pause,
     Resume, Stop, Seek
<1>2. ASSUME NEW c \in Clients, CallContinues(c)
      PROVE  /\ ctrl.skipRequested => ctrl'.skipRequested
             /\ streamCancel = "cancelled" => streamCancel' = "cancelled"
  <2>1. CASE ClearCurrent(c) \/ LoadCancel(c)
    BY <2>1 DEF ClearCurrent, LoadCancel
  <2>2. CASE Interrupt(c)
    BY <2>2 DEF Interrupt
  <2>3. CASE CallCancel(c)
    BY <2>3 DEF CallCancel
  <2>4. CASE SetPaused(c) \/ SetPendingSeek(c)
    BY <2>4 DEF SetPaused, SetPendingSeek
  <2> QED
    BY <1>2, <2>1, <2>2, <2>3, <2>4 DEF CallContinues
<1>3. ASSUME NEW i \in Items, Prefetched(i)
      PROVE  UNCHANGED <<ctrl, streamCancel>>
  BY <1>3 DEF Prefetched, Mark
<1> QED
  BY <1>1, <1>2, <1>3 DEF StationNext

(* What became of an item is decided once.                                 *)
LEMMA OutcomeStays ==
    ASSUME Typed, Placed, [Next]_vars, NEW i \in Items, outcome[i] # "none"
    PROVE  outcome'[i] = outcome[i]
<1>1. ~Contains(queue, i) /\ item # i
  BY DEF Placed, ItemConservation
<1>2. ASSUME NEW c \in Clients, CallStarts(c) \/ CallContinues(c)
      PROVE  outcome'[i] = outcome[i]
  <2>1. ASSUME NEW j \in Items, RemoveFromQueue(c, j) PROVE outcome'[i] = outcome[i]
    BY <1>1, <2>1 DEF RemoveFromQueue, Discard
  <2>2. ASSUME NEW j \in Items, SkipToItem(c, j) PROVE outcome'[i] = outcome[i]
    BY <1>1, <2>2 DEF SkipToItem, Discard, Pending
  <2>3. ASSUME NEW op \in {"Clear", "ClearStop"}, ClearQueue(c, op)
        PROVE  outcome'[i] = outcome[i]
    BY <1>1, <2>3 DEF ClearQueue, Discard, Pending
  <2>4. CASE \/ \E mode \in Modes : QueueTrack(c, mode)
             \/ Skip(c) \/ Pause(c) \/ Resume(c) \/ Stop(c)
             \/ \E pos \in SeekArgs : Seek(c, pos)
    BY <2>4 DEF QueueTrack, Skip, Pause, Resume, Stop, Seek
  <2>5. CASE CallContinues(c)
    BY <2>5 DEF CallContinues, ClearCurrent, Interrupt, LoadCancel, CallCancel, SetPaused,
       SetPendingSeek
  <2> QED
    BY <1>2, <2>1, <2>2, <2>3, <2>4, <2>5 DEF CallStarts
<1>3. ASSUME NEW j \in Items, Prefetched(j) PROVE outcome'[i] = outcome[i]
  BY <1>3 DEF Prefetched, Mark
<1>4. CASE PlayerStep \/ Environment
  <2>1. \/ UNCHANGED outcome
        \/ \E o : outcome' = [outcome EXCEPT ![item] = o]
    <3>1. CASE DropFailed \/ Cleanup
      BY <3>1 DEF DropFailed, Cleanup
    <3>2. CASE StreamReturns
      <4>1. PICK reason \in {"completed", "interrupted"}, byFile \in BOOLEAN :
               Returns(reason, byFile)
        BY <3>2, StreamReturnsAs
      <4> QED
        BY <4>1 DEF Returns, Typed, TypeOK, Clips
    <3>3. CASE \/ RunEnds \/ QueueEmpty \/ PopFront \/ SetCurrent \/ StartTrack
               \/ OpenStream \/ WriteChunk
      BY <3>3 DEF RunEnds, QueueEmpty, PopFront, SetCurrent, StartTrack, OpenStream,
         WriteChunk, stationVars
    <3>4. CASE ConsumeSkip \/ ConsumeSeek \/ CheckPaused \/ HoldTest \/ ClearAir
      BY <3>4 DEF ConsumeSkip, ConsumeSeek, CheckPaused, HoldTest, ClearAir, stationVars
    <3>5. CASE UNCHANGED vars
      BY <3>5 DEF vars, stationVars
    <3> QED
      BY <1>4, <3>1, <3>2, <3>3, <3>4, <3>5
         DEF PlayerStep, Environment, StreamReturns, SilenceLoops, UpstreamGoesOn, Finished
  <2>2. ASSUME NEW o, outcome' = [outcome EXCEPT ![item] = o]
        PROVE  outcome'[i] = outcome[i]
    BY <1>1, <2>2 DEF Typed, TypeOK
  <2> QED
    BY <2>1, <2>2
<1>5. CASE UNCHANGED vars
  BY <1>5 DEF vars, stationVars
<1> QED
  BY <1>2, <1>3, <1>4, <1>5 DEF Next, StationNext

(* The clip that a skip has hit runs on, or its return is found to be a    *)
(* skip.                                                                   *)
LEMMA SkipHitStays ==
    ASSUME Viewed, [Next]_vars, NEW i \in Items, SkipHit(i)
    PROVE  SkipHit(i)' \/ Leaving(i)'
<1> USE DEF SkipHit, Leaving
<1>1. /\ current = i /\ item = i /\ i # None /\ OnTheAir /\ ctrl.skipRequested
      /\ clip \in {"track", "hold", "live"}
  <2>1. current = i /\ i # None
    BY StationAssumption DEF Items, None
  <2>2. OnTheAir /\ item = i
    BY <2>1 DEF Viewed, Traced, InHand
  <2> QED
    BY <2>1, <2>2
       DEF Viewed, Typed, Holding, OnTheAir, Deciding, InClip, Playing
<1>2. CASE StationNext /\ UNCHANGED playerVars
  <2>1. UNCHANGED current
    BY <1>2, StationTouches DEF Viewed, Traced
  <2> QED
    BY <1>2, <2>1, HandlersKeepSkip DEF Viewed, playerVars
<1>3. CASE WriteChunk \/ UNCHANGED vars
  BY <1>3 DEF WriteChunk, vars, stationVars
<1>4. CASE StreamReturns
  <2>1. PICK reason \in {"completed", "interrupted"}, byFile \in BOOLEAN :
           Returns(reason, byFile) /\ pc \in {"open", "stream", "poll"}
    BY <1>4, StreamReturnsAs
  <2>2. UNCHANGED <<current, ctrl>>
    BY <2>1 DEF Returns
  <2>3. UNCHANGED item /\ pc' \in {"skip?", "ending"}
    <3>1. CASE clip = "hold"
      BY <2>1, <3>1 DEF Returns
    <3>2. CASE clip = "live"
      BY <2>1, <3>2 DEF Returns, EndTrack
    <3>3. CASE clip = "track"
      BY <2>1, <3>3 DEF Returns, EndTrack
    <3> QED
      BY <1>1, <3>1, <3>2, <3>3
  <2> QED
    BY <1>1, <2>2, <2>3
<1>5. CASE ConsumeSkip
  BY <1>1, <1>5 DEF ConsumeSkip, EndTrack
<1>6. CASE \/ RunEnds \/ QueueEmpty \/ PopFront \/ DropFailed \/ SetCurrent \/ StartTrack
           \/ OpenStream \/ ConsumeSeek \/ CheckPaused \/ HoldTest \/ ClearAir \/ Cleanup
  BY <1>6 DEF RunEnds, QueueEmpty, PopFront, DropFailed, SetCurrent, StartTrack, OpenStream,
     ConsumeSeek, CheckPaused, HoldTest, ClearAir, Cleanup
<1> QED
  BY <1>2, <1>3, <1>4, <1>5, <1>6
     DEF Next, PlayerStep, Environment, StreamReturns, SilenceLoops, UpstreamGoesOn, Finished

(* From the end of the track to its record nothing comes between.          *)
LEMMA LeavingLeaves ==
    ASSUME Typed, [Next]_vars, NEW i \in Items, Leaving(i)
    PROVE  Leaving(i)' \/ outcome'[i] # "none"
<1> USE DEF Leaving
<1>1. CASE (StationNext /\ UNCHANGED playerVars) \/ UNCHANGED vars
  BY <1>1 DEF playerVars, vars
<1>2. CASE ClearAir
  BY <1>2 DEF ClearAir
<1>3. CASE Cleanup
  BY <1>3 DEF Cleanup, Reason, Typed, TypeOK
<1>4. CASE StreamReturns
  BY <1>4, StreamReturnsAs
<1>5. CASE \/ RunEnds \/ QueueEmpty \/ PopFront \/ DropFailed \/ SetCurrent \/ StartTrack
           \/ OpenStream \/ WriteChunk \/ ConsumeSkip \/ ConsumeSeek \/ CheckPaused \/ HoldTest
  BY <1>5 DEF RunEnds, QueueEmpty, PopFront, DropFailed, SetCurrent, StartTrack, OpenStream,
     WriteChunk, ConsumeSkip, ConsumeSeek, CheckPaused, HoldTest
<1> QED
  BY <1>1, <1>2, <1>3, <1>4, <1>5
     DEF Next, PlayerStep, Environment, StreamReturns, SilenceLoops, UpstreamGoesOn, Finished

(* A skip that has hit an item leads one way only: off the air, then gone, *)
(* and never on (station.go:195-216, player.go:88-185).                   *)
THEOREM SkipSticks ==
    Spec => [][\A i \in Items : /\ SkipHit(i) => SkipHit(i)' \/ Leaving(i)'
                                /\ Leaving(i) => Leaving(i)' \/ outcome'[i] # "none"
                                /\ outcome[i] # "none" => outcome'[i] = outcome[i]]_vars
<1> DEFINE OneWay == \A i \in Items : /\ SkipHit(i) => SkipHit(i)' \/ Leaving(i)'
                                      /\ Leaving(i) => Leaving(i)' \/ outcome'[i] # "none"
                                      /\ outcome[i] # "none" => outcome'[i] = outcome[i]
<1>1. Viewed /\ [Next]_vars => OneWay
  BY SkipHitStays, LeavingLeaves, OutcomeStays DEF Viewed
<1> QED
  BY <1>1, ViewedAlways, PTL DEF Spec

-----------------------------------------------------------------------------
(* The part of StopEndsRun that is no matter of fairness: once Run's       *)
(* context is cancelled the goroutine has at most this many steps left.    *)
StepsLeft ==
    CASE pc = "done" -> 0
      [] pc = "top" -> 1
      [] pc = "cleanup" -> 2
      [] pc = "ending" -> 3
      [] pc = "hold?" -> 4
      [] pc = "paused?" -> 5
      [] pc \in {"seek?", "reset"} -> 7
      [] pc \in {"skip?", "check"} -> 8
      [] pc = "open" /\ clip = "idle" -> 3
      [] pc = "open" /\ clip \in {"track", "live"} -> 6
      [] pc = "open" /\ clip \in {"wait", "hold"} -> 10
      [] pc = "stream" /\ clip = "idle" -> 2
      [] pc = "stream" /\ clip \in {"track", "live"} -> 5
      [] pc = "stream" /\ clip \in {"wait", "hold"} -> 9
      [] pc = "poll" -> 4

LEMMA StepsAreFew == Typed => StepsLeft \in 0..10
BY DEF Typed, TypeOK, PcValues, Clips, StepsLeft

LEMMA ReturnsWindDown ==
    ASSUME Typed, ctxDone, NEW reason \in {"completed", "interrupted"},
           NEW byFile \in BOOLEAN, Returns(reason, byFile),
           pc \in {"open", "stream"} \/ (pc = "poll" /\ clip = "track")
    PROVE  StepsLeft' < StepsLeft
<1> USE DEF StepsLeft
<1>1. UNCHANGED clip /\ clip \in Clips
  BY DEF Returns, Typed, TypeOK
<1>2. CASE clip = "idle"
  <2>1. pc' = "top" /\ pc \in {"open", "stream"}
    BY <1>2 DEF Returns
  <2> QED
    BY <1>2, <2>1
<1>3. CASE clip = "wait"
  <2>1. pc' = "done" /\ pc \in {"open", "stream"}
    BY <1>3 DEF Returns
  <2> QED
    BY <1>3, <2>1
<1>4. CASE clip = "hold"
  <2>1. pc' = "skip?" /\ pc \in {"open", "stream"}
    BY <1>4 DEF Returns
  <2> QED
    BY <1>4, <2>1
<1>5. CASE clip \in {"track", "live"}
  <2>1. pc' = "ending"
    BY <1>5 DEF Returns, EndTrack
  <2> QED
    BY <1>5, <2>1
<1> QED
  BY <1>1, <1>2, <1>3, <1>4, <1>5 DEF Clips

LEMMA PlayerWindsDown ==
    ASSUME Typed, ctxDone, PlayerStep \/ Environment
    PROVE  ctxDone' /\ (UNCHANGED playerVars \/ StepsLeft' < StepsLeft)
<1> USE DEF StepsLeft
<1>1. CASE RunEnds \/ ClearAir \/ Cleanup
  <2>1. ctxDone' /\ ((pc = "top" /\ pc' = "done") \/ (pc = "cleanup" /\ pc' = "top")
                     \/ (pc = "ending" /\ pc' = "cleanup"))
    <3> HIDE DEF StepsLeft
    <3> QED
      BY <1>1 DEF RunEnds, ClearAir, Cleanup, stationVars, Rpcs
  <2> QED
    BY <2>1
<1>2. CASE QueueEmpty \/ PopFront
  <2> HIDE DEF StepsLeft
  <2>1. FALSE
    BY <1>2 DEF QueueEmpty, PopFront
  <2> QED
    BY <2>1
<1>3. CASE DropFailed \/ SetCurrent
  <2>1. pc = "check" /\ pc' \in {"top", "reset"} /\ UNCHANGED ctxDone
    <3> HIDE DEF StepsLeft
    <3> QED
      BY <1>3 DEF DropFailed, SetCurrent, Rpcs
  <2> QED
    BY <2>1
<1>4. CASE StartTrack
  <2>1. pc = "reset" /\ pc' = "open" /\ clip' \in {"track", "live"} /\ UNCHANGED ctxDone
    BY <1>4 DEF StartTrack, Rpcs
  <2> QED
    BY <2>1
<1>5. CASE OpenStream
  BY <1>5 DEF OpenStream, Rpcs, Typed, TypeOK, Clips
<1>6. CASE WriteChunk
  BY <1>6 DEF WriteChunk, Interrupted, stationVars
<1>7. CASE StreamReturns
  <2>1. PICK reason \in {"completed", "interrupted"}, byFile \in BOOLEAN :
           Returns(reason, byFile) /\ pc \in {"open", "stream", "poll"}
    BY <1>7, StreamReturnsAs
  <2>2. pc = "poll" => clip = "track"
    BY DEF Typed, Holding
  <2>3. ctxDone'
    BY <2>1 DEF Returns, Rpcs
  <2> HIDE DEF StepsLeft
  <2> QED
    BY <2>1, <2>2, <2>3, ReturnsWindDown
<1>8. CASE ConsumeSkip
  BY <1>8 DEF ConsumeSkip, EndTrack, Rpcs
<1>9. CASE ConsumeSeek
  BY <1>9 DEF ConsumeSeek, Rpcs, Typed, Holding
<1>10. CASE CheckPaused
  BY <1>10 DEF CheckPaused, EndTrack, stationVars
<1>11. CASE HoldTest
  BY <1>11 DEF HoldTest, EndTrack, stationVars
<1>12. CASE UNCHANGED vars
  BY <1>12 DEF vars, stationVars, playerVars
<1> QED
  BY <1>1, <1>2, <1>3, <1>4, <1>5, <1>6, <1>7, <1>8, <1>9, <1>10, <1>11, <1>12
     DEF PlayerStep, Environment, StreamReturns, SilenceLoops, UpstreamGoesOn, Finished

(* After Stop (station.go:381-395) nothing that other RPCs do, no hold, no *)
(* silence and no relay keeps Run going: each step brings it nearer to its *)
(* return, which is at most ten steps away (player.go:36-113).             *)
THEOREM StopWindsDown ==
    Spec => /\ [](StepsLeft \in 0..10)
            /\ [][ctxDone => ctxDone' /\ (UNCHANGED playerVars \/ StepsLeft' < StepsLeft)]_vars
<1> DEFINE WindsDown == ctxDone => ctxDone' /\ (UNCHANGED playerVars \/ StepsLeft' < StepsLeft)
<1>1. Typed /\ Traced /\ [Next]_vars => WindsDown
  <2> SUFFICES ASSUME Typed, Traced, [Next]_vars, ctxDone
               PROVE  ctxDone' /\ (UNCHANGED playerVars \/ StepsLeft' < StepsLeft)
    OBVIOUS
  <2>1. CASE StationNext /\ UNCHANGED playerVars
    BY <2>1, StationTouches DEF Traced
  <2>2. CASE PlayerStep \/ Environment
    BY <2>2, PlayerWindsDown
  <2>3. CASE UNCHANGED vars
    BY <2>3 DEF vars, stationVars, playerVars
  <2> QED
    BY <2>1, <2>2, <2>3 DEF Next
<1> QED
  BY <1>1, StepsAreFew, TypedAlways, TracedAlways, PTL DEF Spec
=============================================================================
