------------------------- MODULE QueueEventsProofs -------------------------
(***************************************************************************)
(* The types of QueueEvents and LowTracked, proved for any number of       *)
(* handlers, any thresholds and any lengths of queue and buffers, and that *)
(* no QUEUE_LOW gets lost but where RefillKeepsUp excepts it: word of a    *)
(* low queue is on its way, or the script at work.  That it arrives is     *)
(* liveness and stays with TLC.                                            *)
(***************************************************************************)
EXTENDS QueueEvents, TLAPS

(* Of two publishers between change and swap each knows of the other: a    *)
(* publisher without overlap is alone.                                     *)
RacersAreMarked ==
    \A p, q \in Publishers : p # q /\ Owing(p) /\ Owing(q) => overlap[p]

(* What a publisher without overlap has read still holds.                  *)
ReadsHold ==
    \A p \in Publishers :
        /\ step[p] \in {"updated", "threshold", "swap"} /\ ~overlap[p] => seen[p] = length
        /\ step[p] = "swap" => limit[p] # 0 /\ (overlap[p] \/ limit[p] = threshold)

(* No swap without overlap is of a station without a threshold.            *)
CleanHasThreshold == clean => threshold # 0

Inv == TypeOK /\ RacersAreMarked /\ ReadsHold /\ CleanHasThreshold /\ LowTracked

(* Init establishes the invariant: nobody is in QueueChanged.              *)
LEMMA InitInv == Init => Inv
<1> SUFFICES ASSUME Init PROVE Inv
    OBVIOUS
<1>1. /\ <<>> \in Seq(Events) /\ Len(<<>>) = 0
      /\ 0 \in 0..MaxLength /\ 0 \in 0..MaxTaken /\ 0 \in 0..MaxTurns
      BY QueueEventsAssumption
<1>2. TypeOK
      <2>1. /\ seen \in [Publishers -> 0..MaxLength] /\ limit \in [Publishers -> Thresholds \union {0}]
            /\ step \in [Publishers -> {"idle", "len", "updated", "threshold", "swap", "low"}]
            /\ overlap \in [Publishers -> BOOLEAN]
            BY <1>1 DEF Init
      <2>2. /\ bus \in Seq(Events) /\ Len(bus) <= BusCap
            /\ out \in Seq(Events) /\ Len(out) <= OutCap
            BY <1>1, QueueEventsAssumption DEF Init
      <2>3. /\ length \in 0..MaxLength /\ taken \in 0..MaxTaken /\ turns \in 0..MaxTurns
            /\ threshold \in Thresholds /\ serving \subseteq Handlers
            BY <1>1 DEF Init
      <2>4. /\ wasLow \in BOOLEAN /\ signal \in BOOLEAN /\ clean \in BOOLEAN /\ unheard \in BOOLEAN
            /\ link \in {"open", "broken", "registered"}
            /\ main \in {"idle", "status", "queue", "answer", "stuck"}
            BY DEF Init
      <2> QED BY <2>1, <2>2, <2>3, <2>4 DEF TypeOK
<1>3. \A p \in Publishers : step[p] = "idle"
      BY DEF Init
<1> QED BY <1>2, <1>3
        DEF Init, Inv, RacersAreMarked, ReadsHold, CleanHasThreshold, LowTracked, Owing

(* A queue change keeps the types of what it changes.                      *)
LEMMA ChangeTypes ==
    ASSUME TypeOK, NEW p \in Publishers, NEW n \in 0..MaxLength, Change(p, n)
    PROVE  /\ length' \in 0..MaxLength
           /\ step' \in [Publishers -> {"idle", "len", "updated", "threshold", "swap", "low"}]
           /\ overlap' \in [Publishers -> BOOLEAN]
           /\ UNCHANGED <<threshold, seen, limit, wasLow, clean, unheard>>
           /\ UNCHANGED <<link, bus, out, signal, turns>>
<1>1. /\ length' = n /\ step' = [step EXCEPT ![p] = "len"]
      /\ UNCHANGED <<threshold, seen, limit, wasLow, clean, unheard>>
      /\ UNCHANGED <<link, bus, out, signal, turns>>
      BY DEF Change, pathVars
<1>2. overlap' \in [Publishers -> BOOLEAN]
      <2>1. \A q \in Publishers :
               (IF q = p THEN \E r \in Publishers \ {p} : Owing(r)
                ELSE overlap[q] \/ Owing(q)) \in BOOLEAN
            BY DEF TypeOK, Owing
      <2> QED BY <2>1 DEF Change
<1> QED BY <1>1, <1>2 DEF TypeOK

(* What comes in the queue's way, or out of it, keeps the types.           *)
LEMMA PathTypes ==
    ASSUME TypeOK,
           Forward \/ ConnectionBreaks \/ Reregister \/ Subscribe
    PROVE  TypeOK'
<1> USE QueueEventsAssumption DEF TypeOK
<1>1. CASE Forward
      <2>1. /\ out' = Append(out, Head(bus)) /\ bus' = Tail(bus) /\ bus # <<>>
            /\ Len(out) < OutCap
            /\ UNCHANGED <<length, taken, threshold, link, signal, main, serving, turns>>
            /\ UNCHANGED <<step, seen, limit, wasLow, overlap, clean, unheard>>
            BY <1>1 DEF Forward, queueVars, lowVars, mainVars
      <2>2. Head(bus) \in Events /\ Tail(bus) \in Seq(Events) /\ Len(Tail(bus)) = Len(bus) - 1
            BY <2>1
      <2>3. Append(out, Head(bus)) \in Seq(Events)
            /\ Len(Append(out, Head(bus))) = Len(out) + 1
            BY <2>2
      <2> QED BY <2>1, <2>2, <2>3
<1>2. CASE ConnectionBreaks
      <2>1. /\ link' = "broken" /\ bus' = <<>> /\ turns < MaxTurns /\ turns' = turns + 1
            /\ UNCHANGED <<length, taken, threshold, out, signal, main, serving>>
            /\ UNCHANGED <<step, seen, limit, wasLow, overlap, clean, unheard>>
            BY <1>2 DEF ConnectionBreaks, queueVars, lowVars, mainVars
      <2> QED BY <2>1
<1>3. CASE Reregister \/ Subscribe
      <2>1. /\ link' \in {"registered", "open"} /\ signal' \in {TRUE, signal}
            /\ UNCHANGED <<length, taken, threshold, bus, out, main, serving, turns>>
            /\ UNCHANGED <<step, seen, limit, wasLow, overlap, clean, unheard>>
            BY <1>3 DEF Reregister, Subscribe, queueVars, lowVars, mainVars
      <2> QED BY <2>1
<1> QED BY <1>1, <1>2, <1>3

(* So do the steps of the goroutine that owns the Lua state, other than    *)
(* its calls.                                                              *)
LEMMA MainTypes ==
    ASSUME TypeOK, Dispatch \/ OnRegister \/ ReadStatus \/ Answered \/ Hang
    PROVE  TypeOK'
<1>1. /\ UNCHANGED <<length, threshold, link, bus, turns>>
      /\ UNCHANGED <<step, seen, limit, wasLow, overlap, clean, unheard>>
      BY DEF Dispatch, OnRegister, ReadStatus, Answered, Hang, queueVars, lowVars, pathVars
<1>2. out' \in Seq(Events) /\ Len(out') <= OutCap
      <2>1. CASE Dispatch
            <3>1. Tail(out) \in Seq(Events) /\ Len(Tail(out)) = Len(out) - 1
                  BY <2>1 DEF Dispatch, TypeOK
            <3> QED BY <2>1, <3>1, QueueEventsAssumption DEF Dispatch, TypeOK
      <2>2. CASE ~Dispatch
            <3>1. UNCHANGED out
                  BY <2>2 DEF OnRegister, ReadStatus, Answered, Hang, pathVars
            <3> QED BY <3>1 DEF TypeOK
      <2> QED BY <2>1, <2>2
<1>3. main' \in {"idle", "status", "queue", "answer", "stuck"}
      BY DEF Dispatch, OnRegister, ReadStatus, Answered, Hang
<1>4. (taken' = 0 \/ taken' = taken) /\ (signal' = FALSE \/ signal' = signal)
      /\ (serving' = {} \/ serving' = serving)
      BY DEF Dispatch, OnRegister, ReadStatus, Answered, Hang, queueVars, pathVars
<1>5. taken' \in 0..MaxTaken
      BY <1>4, QueueEventsAssumption DEF TypeOK
<1>6. signal' \in BOOLEAN /\ serving' \subseteq Handlers
      BY <1>4, Zenon DEF TypeOK
<1> QED BY <1>1, <1>2, <1>3, <1>5, <1>6 DEF TypeOK

(* And so does every step of QueueChanged.                                 *)
LEMMA QueueChangedTypes ==
    ASSUME TypeOK, NEW p \in Publishers, QueueChanged(p)
    PROVE  TypeOK'
<1> USE QueueEventsAssumption DEF TypeOK
<1>1. UNCHANGED <<length, taken, threshold, link, out, signal, main, serving, turns>>
      BY DEF QueueChanged, ReadLength, PublishUpdated, LoadThreshold, Swap, PublishLow,
         queueVars, pathVars, mainVars
<1>2. CASE ReadLength(p) \/ PublishUpdated(p) \/ PublishLow(p)
      <2>1. /\ seen' \in [Publishers -> 0..MaxLength]
            /\ UNCHANGED <<limit, wasLow, overlap, clean>>
            BY <1>2 DEF ReadLength, PublishUpdated, PublishLow
      <2>2. step' \in [Publishers -> {"idle", "len", "updated", "threshold", "swap", "low"}]
            BY <1>2 DEF ReadLength, PublishUpdated, PublishLow
      <2>4. unheard' \in BOOLEAN
            <3>1. unheard' = unheard \/ unheard' = (unheard \/ (bus' = bus /\ link # "broken"))
                  BY <1>2 DEF ReadLength, PublishUpdated, PublishLow
            <3> QED BY <3>1
      <2>3. bus' \in Seq(Events) /\ Len(bus') <= BusCap
            <3>1. bus' = bus \/ \E e \in Events : Publish(e)
                  BY <1>2 DEF ReadLength, PublishUpdated, PublishLow, pathVars, Events
            <3>2. ASSUME NEW e \in Events, Publish(e) PROVE bus' \in Seq(Events) /\ Len(bus') <= BusCap
                  <4>1. Append(bus, e) \in Seq(Events) /\ Len(Append(bus, e)) = Len(bus) + 1
                        OBVIOUS
                  <4> QED BY <3>2, <4>1 DEF Publish
            <3> QED BY <3>1, <3>2
      <2> QED BY <1>1, <2>1, <2>2, <2>3, <2>4
<1>3. CASE LoadThreshold(p)
      <2>1. /\ step' \in [Publishers -> {"idle", "len", "updated", "threshold", "swap", "low"}]
            /\ seen' \in [Publishers -> 0..MaxLength]
            /\ limit' \in [Publishers -> Thresholds \union {0}]
            /\ overlap' \in [Publishers -> BOOLEAN]
            <3>1. CASE threshold = 0
                  <4>1. /\ step' = [step EXCEPT ![p] = "idle"]
                        /\ seen' = [seen EXCEPT ![p] = 0]
                        /\ overlap' = [overlap EXCEPT ![p] = FALSE]
                        /\ UNCHANGED limit
                        BY <1>3, <3>1 DEF LoadThreshold
                  <4>2. overlap' \in [Publishers -> BOOLEAN]
                        BY <4>1
                  <4> QED BY <4>1, <4>2
            <3>2. CASE threshold # 0
                  <4>1. /\ step' = [step EXCEPT ![p] = "swap"]
                        /\ limit' = [limit EXCEPT ![p] = threshold]
                        /\ UNCHANGED <<seen, overlap>>
                        BY <1>3, <3>2 DEF LoadThreshold
                  <4>2. limit' \in [Publishers -> Thresholds \union {0}]
                        BY <4>1
                  <4> QED BY <4>1, <4>2
            <3> QED BY <3>1, <3>2
      <2>2. UNCHANGED <<wasLow, clean, unheard, bus>>
            BY <1>3 DEF LoadThreshold, pathVars
      <2> QED BY <1>1, <2>1, <2>2
<1>4. CASE Swap(p)
      <2>1. /\ step' \in [Publishers -> {"idle", "len", "updated", "threshold", "swap", "low"}]
            /\ seen' \in [Publishers -> 0..MaxLength]
            /\ limit' \in [Publishers -> Thresholds \union {0}]
            /\ overlap' \in [Publishers -> BOOLEAN]
            BY <1>4 DEF Swap
      <2>2. wasLow' \in BOOLEAN
            BY <1>4 DEF Swap, IsLow
      <2>3. clean' = ~overlap[p] /\ unheard' = (overlap[p] \/ (unheard /\ wasLow'))
            BY <1>4 DEF Swap
      <2>5. clean' \in BOOLEAN /\ unheard' \in BOOLEAN
            BY <2>3
      <2>4. UNCHANGED bus
            BY <1>4 DEF Swap, pathVars
      <2> QED BY <1>1, <2>1, <2>2, <2>4, <2>5
<1> QED BY <1>2, <1>3, <1>4 DEF QueueChanged

(* TypeOK is inductive by itself.                                          *)
LEMMA TypeStep == TypeOK /\ [Next]_vars => TypeOK'
<1> SUFFICES ASSUME TypeOK, [Next]_vars PROVE TypeOK'
    OBVIOUS
<1>1. CASE PopFront
      <2>1. length - 1 \in 0..MaxLength /\ Player \in Publishers
            BY <1>1, QueueEventsAssumption DEF PopFront, TypeOK, Publishers
      <2>2. Change(Player, length - 1) /\ taken' \in 0..MaxTaken
            /\ UNCHANGED <<main, serving>>
            BY <1>1, QueueEventsAssumption DEF PopFront, Leaves, TypeOK, mainVars
      <2> QED BY <2>1, <2>2, ChangeTypes DEF TypeOK
<1>2. ASSUME NEW h \in Handlers, QueueTrack(h) \/ TakeOut(h) PROVE TypeOK'
      <2>1. PICK n \in 0..MaxLength : Change(h, n)
            BY <1>2, QueueEventsAssumption DEF QueueTrack, TakeOut, Append1, TypeOK
      <2>2. taken' \in 0..MaxTaken /\ UNCHANGED <<main, serving>>
            BY <1>2, QueueEventsAssumption DEF QueueTrack, TakeOut, Leaves, TypeOK, mainVars
      <2>3. h \in Publishers
            BY DEF Publishers
      <2> QED BY <2>1, <2>2, <2>3, ChangeTypes DEF TypeOK
<1>3. ASSUME NEW h \in Handlers, Refill(h) PROVE TypeOK'
      <2>1. length + 1 \in 0..MaxLength /\ h \in Publishers
            BY <1>3, QueueEventsAssumption DEF Refill, TypeOK, Publishers
      <2>2. Change(h, length + 1) /\ taken' = taken /\ main' = "answer" /\ serving' = {h}
            BY <1>3 DEF Refill, Append1
      <2> QED BY <2>1, <2>2, ChangeTypes DEF TypeOK
<1>4. ASSUME NEW t \in Thresholds, SetMetadata(t) PROVE TypeOK'
      <2>1. /\ threshold' = t /\ turns < MaxTurns /\ turns' = turns + 1
            /\ clean' = FALSE /\ unheard' = TRUE
            /\ UNCHANGED <<length, taken, step, seen, limit, wasLow>>
            /\ UNCHANGED <<link, bus, out, signal, main, serving>>
            BY <1>4 DEF SetMetadata, queueVars, pathVars, mainVars
      <2>2. overlap' \in [Publishers -> BOOLEAN]
            BY <1>4 DEF SetMetadata, TypeOK, Owing
      <2>3. turns' \in 0..MaxTurns
            BY <2>1, QueueEventsAssumption DEF TypeOK
      <2> QED BY <2>1, <2>2, <2>3 DEF TypeOK
<1>5. ASSUME NEW p \in Publishers, QueueChanged(p) PROVE TypeOK'
      BY <1>5, QueueChangedTypes
<1>6. CASE Forward \/ ConnectionBreaks \/ Reregister \/ Subscribe
      BY <1>6, PathTypes
<1>7. CASE Dispatch \/ OnRegister \/ ReadStatus \/ Answered \/ Hang
      BY <1>7, MainTypes
<1>8. CASE UNCHANGED vars
      BY <1>8 DEF vars, queueVars, lowVars, pathVars, mainVars, TypeOK
<1> QED
    BY <1>1, <1>2, <1>3, <1>4, <1>5, <1>6, <1>7, <1>8
    DEF Next, OthersCall, Registers, LinkStep, MainStep

(* A queue change: the others that owe a swap are marked, and so is the    *)
(* newcomer if there are any.                                              *)
LEMMA ChangeKeeps ==
    ASSUME Inv, NEW p \in Publishers, NEW n \in 0..MaxLength, Change(p, n)
    PROVE  (RacersAreMarked /\ ReadsHold /\ CleanHasThreshold /\ LowTracked)'
<1>1. /\ length' = n /\ step[p] = "idle" /\ step' = [step EXCEPT ![p] = "len"]
      /\ UNCHANGED <<threshold, seen, limit, wasLow, clean>>
      BY DEF Change
<1>2. overlap'[p] = (\E r \in Publishers \ {p} : Owing(r))
      BY DEF Change
<1>3. \A q \in Publishers \ {p} : overlap'[q] = (overlap[q] \/ Owing(q))
      BY DEF Change
<1>4. \A q \in Publishers \ {p} : step'[q] = step[q] /\ Owing(q)' = Owing(q)
      BY <1>1 DEF Inv, TypeOK, Owing
<1>5. step'[p] = "len" /\ Owing(p)'
      BY <1>1 DEF Inv, TypeOK, Owing
<1>6. RacersAreMarked'
      BY <1>2, <1>3, <1>4 DEF RacersAreMarked
<1>7. ReadsHold'
      <2>1. \A q \in Publishers \ {p} : Owing(q) => overlap'[q]
            BY <1>3
      <2> QED BY <1>1, <1>3, <1>4, <1>5, <2>1 DEF Inv, ReadsHold, Owing
<1>8. CleanHasThreshold' /\ LowTracked'
      BY <1>1, <1>5 DEF Inv, CleanHasThreshold, LowTracked
<1> QED BY <1>6, <1>7, <1>8

(* A new threshold marks everybody that owes a swap.                       *)
LEMMA SetMetadataKeeps ==
    ASSUME Inv, NEW t \in Thresholds, SetMetadata(t)
    PROVE  (RacersAreMarked /\ ReadsHold /\ CleanHasThreshold /\ LowTracked)'
<1>1. clean' = FALSE /\ UNCHANGED <<length, step, seen, limit>>
      BY DEF SetMetadata, queueVars
<1>2. \A q \in Publishers : overlap'[q] = (overlap[q] \/ Owing(q)) /\ Owing(q)' = Owing(q)
      BY <1>1 DEF SetMetadata, Owing
<1>3. \A q \in Publishers : Owing(q) => overlap'[q]
      BY <1>2
<1>4. RacersAreMarked'
      BY <1>2, <1>3 DEF RacersAreMarked
<1>5. ReadsHold'
      BY <1>1, <1>2, <1>3 DEF Inv, ReadsHold, Owing
<1> QED BY <1>1, <1>4, <1>5 DEF CleanHasThreshold, LowTracked

(* A publisher that swaps without overlap is alone, and what it read and   *)
(* loaded is still so.                                                     *)
LEMMA SwapKeeps ==
    ASSUME Inv, NEW p \in Publishers, Swap(p)
    PROVE  (RacersAreMarked /\ ReadsHold /\ CleanHasThreshold /\ LowTracked)'
<1> USE DEF Inv, TypeOK
<1>1. /\ step[p] = "swap" /\ Owing(p)
      /\ wasLow' = (seen[p] <= limit[p]) /\ clean' = ~overlap[p]
      /\ UNCHANGED <<length, threshold>>
      BY DEF Swap, IsLow, Owing, queueVars
<1>2. \A q \in Publishers \ {p} :
         /\ step'[q] = step[q] /\ Owing(q)' = Owing(q) /\ overlap'[q] = overlap[q]
         /\ seen'[q] = seen[q] /\ limit'[q] = limit[q]
      BY DEF Swap, Owing
<1>3. step'[p] \in {"low", "idle"} /\ ~Owing(p)'
      <2>1. step' = [step EXCEPT ![p] = "low"] \/ step' = [step EXCEPT ![p] = "idle"]
            BY DEF Swap
      <2> QED BY <2>1 DEF Owing
<1>4. RacersAreMarked'
      BY <1>2, <1>3 DEF RacersAreMarked
<1>5. ReadsHold'
      BY <1>1, <1>2, <1>3 DEF ReadsHold
<1>6. clean' => threshold' # 0 /\ wasLow' = (length' <= threshold')
      BY <1>1 DEF ReadsHold
<1> QED BY <1>4, <1>5, <1>6 DEF CleanHasThreshold, LowTracked

(* The other steps of QueueChanged read, and those that find no threshold  *)
(* end where nobody was clean.                                             *)
LEMMA ReadingKeeps ==
    ASSUME Inv, NEW p \in Publishers,
           ReadLength(p) \/ PublishUpdated(p) \/ LoadThreshold(p) \/ PublishLow(p)
    PROVE  (RacersAreMarked /\ ReadsHold /\ CleanHasThreshold /\ LowTracked)'
<1> USE DEF Inv, TypeOK
<1>1. UNCHANGED <<length, threshold, wasLow, clean>>
      BY DEF ReadLength, PublishUpdated, LoadThreshold, PublishLow, queueVars
<1>2. \A q \in Publishers \ {p} :
         /\ step'[q] = step[q] /\ Owing(q)' = Owing(q) /\ overlap'[q] = overlap[q]
         /\ seen'[q] = seen[q] /\ limit'[q] = limit[q]
      BY DEF ReadLength, PublishUpdated, LoadThreshold, PublishLow, Owing
<1>3. CASE ReadLength(p) \/ PublishUpdated(p) \/ (LoadThreshold(p) /\ threshold # 0)
      <2>1. /\ step'[p] \in {"updated", "threshold", "swap"} /\ Owing(p) /\ Owing(p)'
            /\ overlap'[p] = overlap[p]
            BY <1>3 DEF ReadLength, PublishUpdated, LoadThreshold, Owing
      <2>2. /\ step'[p] \in {"updated", "threshold", "swap"} /\ ~overlap[p] => seen'[p] = length
            /\ step'[p] = "swap" => limit'[p] = threshold /\ threshold # 0
            BY <1>3 DEF ReadLength, PublishUpdated, LoadThreshold, ReadsHold
      <2>3. RacersAreMarked'
            BY <1>2, <2>1 DEF RacersAreMarked
      <2>4. ReadsHold'
            BY <1>1, <1>2, <2>1, <2>2 DEF ReadsHold
      <2> QED BY <1>1, <2>1, <2>3, <2>4 DEF CleanHasThreshold, LowTracked
<1>4. CASE (LoadThreshold(p) /\ threshold = 0) \/ PublishLow(p)
      <2>1. step'[p] = "idle" /\ ~Owing(p)'
            BY <1>4 DEF LoadThreshold, PublishLow, Owing
      <2>2. threshold = 0 \/ ~Owing(p)
            BY <1>4 DEF PublishLow, Owing
      <2>3. RacersAreMarked'
            BY <1>2, <2>1 DEF RacersAreMarked
      <2>4. ReadsHold'
            BY <1>1, <1>2, <2>1 DEF ReadsHold
      <2>5. LowTracked'
            BY <1>1, <1>2, <2>1, <2>2 DEF LowTracked, CleanHasThreshold
      <2> QED BY <1>1, <2>3, <2>4, <2>5 DEF CleanHasThreshold
<1> QED BY <1>3, <1>4

(* Every step keeps the invariant. *)
LEMMA InvStep == Inv /\ [Next]_vars => Inv'
<1> SUFFICES ASSUME Inv, [Next]_vars PROVE Inv'
    OBVIOUS
<1> DEFINE Others == RacersAreMarked /\ ReadsHold /\ CleanHasThreshold /\ LowTracked
<1>0. TypeOK'
      BY TypeStep DEF Inv
<1>1. ASSUME NEW p \in Publishers, NEW n \in 0..MaxLength, Change(p, n) PROVE Others'
      BY <1>1, ChangeKeeps
<1>2. (PopFront \/ OthersCall \/ \E h \in Handlers : Refill(h))
         => \E p \in Publishers, n \in 0..MaxLength : Change(p, n)
      BY QueueEventsAssumption
      DEF PopFront, OthersCall, QueueTrack, TakeOut, Refill, Append1, Inv, TypeOK, Publishers
<1>3. ASSUME Registers PROVE Others'
      BY <1>3, SetMetadataKeeps DEF Registers
<1>4. ASSUME NEW p \in Publishers, QueueChanged(p) PROVE Others'
      BY <1>4, SwapKeeps, ReadingKeeps DEF QueueChanged
<1>5. ASSUME \/ LinkStep \/ ConnectionBreaks \/ Dispatch \/ OnRegister \/ ReadStatus
             \/ Answered \/ Hang \/ UNCHANGED vars
      PROVE  Others'
      <2>1. UNCHANGED <<length, threshold, wasLow, step, seen, limit, overlap, clean>>
            BY <1>5 DEF LinkStep, Forward, Reregister, Subscribe, ConnectionBreaks, Dispatch,
               OnRegister, ReadStatus, Answered, Hang, vars, queueVars, lowVars
      <2> QED BY <2>1 DEF Inv, RacersAreMarked, ReadsHold, CleanHasThreshold, LowTracked, Owing
<1>6. Others'
      BY <1>1, <1>2, <1>3, <1>4, <1>5 DEF Next, MainStep
<1> QED BY <1>0, <1>6 DEF Inv, Others

(* Every variable keeps to its range, the buffers of the bus and of the    *)
(* script's connection in particular to theirs (events.go, engine.go).     *)
THEOREM TypeCorrect == Spec => []TypeOK
<1>1. Inv => TypeOK
      BY DEF Inv
<1> QED BY InitInv, InvStep, <1>1, PTL DEF Spec

(* QueueChanged takes no lock, and yet wasQueueLow says whether the queue  *)
(* is low once everybody is through, if the last swap raced with nothing   *)
(* (station.go:411-425).                                                   *)
THEOREM WasLowIsRight == Spec => []LowTracked
<1>1. Inv => LowTracked
      BY DEF Inv
<1> QED BY InitInv, InvStep, <1>1, PTL DEF Spec

-----------------------------------------------------------------------------
(* Word of a low queue.                                                    *)

Among(q) == \E j \in 1..Len(q) : q[j] = "QUEUE_LOW"

(* A QUEUE_LOW is about to be published or on its way, on_register is to   *)
(* run, or a callback of the script is running.                            *)
WordIsOut ==
    \/ \E p \in Publishers : step[p] = "low"
    \/ Among(bus) \/ Among(out)
    \/ link = "broken" \/ signal
    \/ main # "idle"

(* Once wasQueueLow is set the script has been told, or will be, unless a  *)
(* change that raced with another is still to be swapped.                  *)
LowIsOut ==
    wasLow /\ Low /\ ~unheard /\ (\A p \in Publishers : Owing(p) => ~overlap[p]) => WordIsOut

HeardIsClean == ~unheard => clean

(* The queue has room for a refill, as the bound on its length must allow. *)
RoomToRefill == \A t \in Thresholds : t < MaxLength

Heard == Inv /\ LowIsOut /\ HeardIsClean

LEMMA AmongAppended ==
    ASSUME NEW q \in Seq(Events), NEW e \in Events
    PROVE  /\ Among(q) => Among(Append(q, e))
           /\ Among(Append(q, "QUEUE_LOW"))
           /\ Append(q, e) # q
<1>1. /\ Len(Append(q, e)) = Len(q) + 1 /\ Len(q) \in Nat
      /\ \A j \in 1..Len(q) : Append(q, e)[j] = q[j]
      OBVIOUS
<1>2. /\ Len(Append(q, "QUEUE_LOW")) = Len(q) + 1
      /\ Append(q, "QUEUE_LOW")[Len(q) + 1] = "QUEUE_LOW"
      OBVIOUS
<1> QED BY <1>1, <1>2 DEF Among

LEMMA AmongTheRest ==
    ASSUME NEW q \in Seq(Events), q # <<>>, Among(q)
    PROVE  Head(q) = "QUEUE_LOW" \/ Among(Tail(q))
<1>1. PICK j \in 1..Len(q) : q[j] = "QUEUE_LOW"
      BY DEF Among
<1>2. /\ Len(Tail(q)) = Len(q) - 1 /\ Head(q) = q[1]
      /\ \A k \in 1..(Len(q) - 1) : Tail(q)[k] = q[k + 1]
      OBVIOUS
<1>3. CASE j # 1
      <2>1. j - 1 \in 1..Len(Tail(q)) /\ Tail(q)[j - 1] = "QUEUE_LOW"
            BY <1>1, <1>2, <1>3
      <2> QED BY <2>1 DEF Among
<1> QED BY <1>1, <1>2, <1>3

(* A queue change finds the word out if it was needed, and leaves it so.   *)
LEMMA ChangeLeavesWord ==
    ASSUME Heard, NEW p \in Publishers, NEW n \in 0..MaxLength, Change(p, n),
           main' = main \/ main' # "idle"
    PROVE  LowIsOut' /\ HeardIsClean'
<1> USE DEF Heard, Inv, TypeOK
<1>1. /\ step[p] = "idle" /\ step' = [step EXCEPT ![p] = "len"]
      /\ UNCHANGED <<threshold, wasLow, clean, unheard>>
      /\ UNCHANGED <<link, bus, out, signal>>
      BY DEF Change, pathVars
<1>2. overlap'[p] = (\E r \in Publishers \ {p} : Owing(r)) /\ Owing(p)' /\ ~Owing(p)
      BY <1>1 DEF Change, Owing
<1>3. HeardIsClean'
      BY <1>1 DEF HeardIsClean
<1>4. ASSUME wasLow', Low', ~unheard', \A q \in Publishers : Owing(q)' => ~overlap'[q]
      PROVE  WordIsOut'
  <2>1. \A q \in Publishers : ~Owing(q)
        BY <1>2, <1>4
  <2>2. Low
        <3>1. clean
              BY <1>1, <1>4 DEF HeardIsClean
        <3>2. length <= threshold
              BY <2>1, <3>1, <1>1, <1>4 DEF LowTracked
        <3>3. threshold > 0
              BY <1>1, <1>4 DEF Low
        <3> QED BY <3>2, <3>3 DEF Low
  <2>3. WordIsOut
        BY <2>1, <2>2, <1>1, <1>4 DEF LowIsOut
  <2>4. \A q \in Publishers : step[q] = "low" => step'[q] = "low"
        BY <1>1
  <2> QED BY <2>3, <2>4, <1>1 DEF WordIsOut
<1> QED BY <1>3, <1>4 DEF LowIsOut

(* A swap that finds the queue low either finds it was so before, or       *)
(* publishes.                                                              *)
LEMMA SwapLeavesWord ==
    ASSUME Heard, NEW p \in Publishers, Swap(p)
    PROVE  LowIsOut' /\ HeardIsClean'
<1> USE DEF Heard, Inv, TypeOK
<1>1. /\ step[p] = "swap" /\ Owing(p) /\ wasLow' = IsLow(seen[p], limit[p])
      /\ step' = [step EXCEPT ![p] = IF wasLow' /\ ~wasLow THEN "low" ELSE "idle"]
      /\ clean' = ~overlap[p] /\ unheard' = (overlap[p] \/ (unheard /\ wasLow'))
      /\ UNCHANGED <<length, threshold>>
      /\ UNCHANGED <<link, bus, out, signal, main>>
      BY DEF Swap, Owing, queueVars, pathVars, mainVars
<1>2. HeardIsClean'
      BY <1>1 DEF HeardIsClean
<1>3. ASSUME wasLow', Low', ~unheard' PROVE WordIsOut'
  <2>1. CASE ~wasLow
        <3>1. step'[p] = "low"
              BY <2>1, <1>1, <1>3
        <3> QED BY <3>1 DEF WordIsOut
  <2>2. CASE wasLow
        <3>1. ~overlap[p] /\ ~unheard
              BY <1>1, <1>3
        <3>2. \A q \in Publishers : Owing(q) => ~overlap[q]
              BY <3>1, <1>1 DEF RacersAreMarked
        <3>3. WordIsOut
              BY <2>2, <3>1, <3>2, <1>1, <1>3 DEF LowIsOut, Low
        <3>4. \A q \in Publishers : step[q] = "low" => step'[q] = "low"
              BY <1>1
        <3> QED BY <3>3, <3>4, <1>1 DEF WordIsOut
  <2> QED BY <2>1, <2>2
<1> QED BY <1>2, <1>3 DEF LowIsOut

(* Publishing a QUEUE_LOW puts it on its way, or makes the script one that *)
(* has not heard; the other steps of QueueChanged leave the word alone.    *)
LEMMA ReadingLeavesWord ==
    ASSUME Heard, NEW p \in Publishers,
           ReadLength(p) \/ PublishUpdated(p) \/ LoadThreshold(p) \/ PublishLow(p)
    PROVE  LowIsOut' /\ HeardIsClean'
<1> USE DEF Heard, Inv, TypeOK
<1>1. /\ UNCHANGED <<length, threshold, wasLow, clean, link, out, signal, main>>
      /\ \A q \in Publishers \ {p} : step'[q] = step[q] /\ Owing(q)' = Owing(q)
                                   /\ overlap'[q] = overlap[q]
      BY DEF ReadLength, PublishUpdated, LoadThreshold, PublishLow, queueVars, pathVars, mainVars,
         Owing
<1>2. unheard => unheard'
      BY DEF ReadLength, PublishUpdated, LoadThreshold, PublishLow
<1>3. HeardIsClean'
      BY <1>1, <1>2 DEF HeardIsClean
<1>4. Among(bus) => Among(bus')
      <2>1. bus' = bus \/ bus' = Append(bus, "QUEUE_UPDATED") \/ bus' = Append(bus, "QUEUE_LOW")
            BY DEF ReadLength, PublishUpdated, LoadThreshold, PublishLow, Publish, pathVars
      <2> QED BY <2>1, AmongAppended DEF Events
<1>5. CASE ReadLength(p) \/ PublishUpdated(p) \/ (LoadThreshold(p) /\ threshold # 0)
      <2>1. Owing(p) /\ Owing(p)' /\ overlap'[p] = overlap[p] /\ step[p] # "low"
            BY <1>5 DEF ReadLength, PublishUpdated, LoadThreshold, Owing
      <2>2. LowIsOut'
            BY <1>1, <1>2, <1>4, <2>1 DEF LowIsOut, WordIsOut, Low
      <2> QED BY <1>3, <2>2
<1>6. CASE LoadThreshold(p) /\ threshold = 0
      BY <1>1, <1>3, <1>6 DEF LowIsOut, Low
<1>7. CASE PublishLow(p)
      <2>1. /\ Publish("QUEUE_LOW") /\ unheard' = (unheard \/ (bus' = bus /\ link # "broken"))
            BY <1>7 DEF PublishLow
      <2>2. ~unheard' => link' = "broken" \/ Among(bus')
            <3>1. bus' = bus \/ bus' = Append(bus, "QUEUE_LOW")
                  BY <2>1 DEF Publish
            <3> QED BY <2>1, <3>1, <1>1, AmongAppended DEF Events
      <2> QED BY <1>3, <2>2 DEF LowIsOut, WordIsOut
<1> QED BY <1>5, <1>6, <1>7

(* Nobody on the way from the bus to the script loses the word, and the    *)
(* script is done only when the queue is long enough.                      *)
LEMMA PathKeepsWord ==
    ASSUME Heard, RoomToRefill,
           \/ LinkStep \/ ConnectionBreaks \/ Dispatch \/ OnRegister \/ ReadStatus
           \/ Answered \/ Hang \/ UNCHANGED vars
    PROVE  LowIsOut' /\ HeardIsClean'
<1> USE DEF Heard, Inv, TypeOK
<1>1. /\ UNCHANGED <<length, threshold, wasLow, step, overlap, clean, unheard>>
      BY DEF LinkStep, Forward, Reregister, Subscribe, ConnectionBreaks, Dispatch, OnRegister,
         ReadStatus, Answered, Hang, vars, queueVars, lowVars
<1>2. HeardIsClean'
      BY <1>1 DEF HeardIsClean
<1>3. ASSUME WordIsOut, Low PROVE WordIsOut'
  <2>1. CASE \E p \in Publishers : step[p] = "low"
        BY <2>1, <1>1 DEF WordIsOut
  <2>2. CASE ConnectionBreaks \/ Reregister \/ Hang \/ Answered \/ OnRegister
        BY <2>2 DEF ConnectionBreaks, Reregister, Hang, Answered, OnRegister, WordIsOut
  <2>3. CASE Subscribe
        BY <2>1, <2>3, <1>3 DEF Subscribe, WordIsOut, mainVars
  <2>4. CASE ReadStatus
        <3>1. length <= threshold /\ threshold < MaxLength
              BY <1>3 DEF Low, RoomToRefill
        <3>2. main' = "queue"
              <4>1. length < MaxLength
                    BY <3>1, QueueEventsAssumption
              <4> QED BY <2>4, <3>1, <4>1 DEF ReadStatus
        <3> QED BY <3>2 DEF WordIsOut
  <2>5. CASE Forward
        <3>1. /\ bus # <<>> /\ out' = Append(out, Head(bus)) /\ bus' = Tail(bus)
              /\ UNCHANGED <<link, signal, main>> /\ Head(bus) \in Events
              BY <2>5 DEF Forward, mainVars
        <3>2. Among(out) => Among(out')
              BY <3>1, AmongAppended
        <3>3. Among(bus) => Among(out') \/ Among(bus')
              BY <3>1, AmongAppended, AmongTheRest
        <3> QED BY <1>3, <2>1, <3>1, <3>2, <3>3 DEF WordIsOut
  <2>6. CASE Dispatch
        <3>1. /\ main = "idle" /\ out # <<>> /\ out' = Tail(out)
              /\ main' = IF Head(out) = "QUEUE_LOW" THEN "status" ELSE "idle"
              /\ UNCHANGED <<link, bus, signal>>
              BY <2>6 DEF Dispatch
        <3>2. Among(out) => Head(out) = "QUEUE_LOW" \/ Among(out')
              BY <3>1, AmongTheRest
        <3> QED BY <1>3, <2>1, <3>1, <3>2 DEF WordIsOut
  <2>7. CASE UNCHANGED vars
        BY <1>3, <2>7 DEF vars, lowVars, pathVars, mainVars, WordIsOut, Among
  <2> QED BY <2>2, <2>3, <2>4, <2>5, <2>6, <2>7 DEF LinkStep
<1>4. LowIsOut'
      <2>1. Low' = Low /\ \A p \in Publishers : Owing(p)' = Owing(p)
            BY <1>1 DEF Low, Owing
      <2> QED BY <1>1, <1>3, <2>1 DEF LowIsOut
<1> QED BY <1>2, <1>4

LEMMA HeardStep == RoomToRefill /\ Heard /\ [Next]_vars => Heard'
<1> SUFFICES ASSUME RoomToRefill, Heard, [Next]_vars PROVE Heard'
    OBVIOUS
<1>0. Inv'
      BY InvStep DEF Heard
<1>1. ASSUME PopFront \/ OthersCall \/ \E h \in Handlers : Refill(h) PROVE LowIsOut' /\ HeardIsClean'
      <2>1. PICK p \in Publishers, n \in 0..MaxLength : Change(p, n)
            BY <1>1, QueueEventsAssumption
            DEF PopFront, OthersCall, QueueTrack, TakeOut, Refill, Append1, Heard, Inv, TypeOK,
                Publishers
      <2>2. main' = main \/ main' # "idle"
            BY <1>1 DEF PopFront, OthersCall, QueueTrack, TakeOut, Refill, mainVars
      <2> QED BY <2>1, <2>2, ChangeLeavesWord
<1>2. ASSUME Registers PROVE LowIsOut' /\ HeardIsClean'
      <2>1. unheard' = TRUE
            BY <1>2 DEF Registers, SetMetadata
      <2> QED BY <2>1 DEF LowIsOut, HeardIsClean
<1>3. ASSUME NEW p \in Publishers, QueueChanged(p) PROVE LowIsOut' /\ HeardIsClean'
      BY <1>3, SwapLeavesWord, ReadingLeavesWord DEF QueueChanged
<1>4. ASSUME \/ LinkStep \/ ConnectionBreaks \/ Dispatch \/ OnRegister \/ ReadStatus
             \/ Answered \/ Hang \/ UNCHANGED vars
      PROVE  LowIsOut' /\ HeardIsClean'
      BY <1>4, PathKeepsWord
<1>5. LowIsOut' /\ HeardIsClean'
      BY <1>1, <1>2, <1>3, <1>4 DEF Next, MainStep
<1> QED BY <1>0, <1>5 DEF Heard

(* A low queue does not go unnoticed: a publisher has still to swap, or    *)
(* word is on its way to the script, or the script is at it.               *)
LowIsNoticed == Low /\ ~unheard => WordIsOut \/ \E p \in Publishers : Owing(p)

(* From the swap of wasQueueLow (station.go:411-425) through the bus       *)
(* (events.go) and the connection to the script's callback (engine.go),    *)
(* nobody loses word of a low queue but where RefillKeepsUp excepts it,    *)
(* given that the queue's bound leaves room for a refill.                  *)
THEOREM NoLowIsLost == RoomToRefill => (Spec => []LowIsNoticed)
<1> SUFFICES ASSUME RoomToRefill PROVE Spec => []LowIsNoticed
    OBVIOUS
<1>1. Init => Heard
      BY InitInv DEF Init, Heard, LowIsOut, HeardIsClean
<1>2. Heard /\ [Next]_vars => Heard'
      BY HeardStep
<1>3. Heard => LowIsNoticed
      BY DEF Heard, Inv, HeardIsClean, LowTracked, LowIsOut, LowIsNoticed, Low
<1> QED BY <1>1, <1>2, <1>3, PTL DEF Spec
=============================================================================
