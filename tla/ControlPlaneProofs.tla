------------------------ MODULE ControlPlaneProofs ------------------------
(***************************************************************************)
(* What holds of ControlPlane for every number of calls, callers, stations *)
(* and tracks, and for every tree of folders and every token.              *)
(*                                                                         *)
(* A track has a rank at a station: pending, in the player's hands, in the *)
(* history, gone.  No move of a station lowers the rank of a track it has  *)
(* accepted; what a caller was told or shown is a bound on a rank.         *)
(***************************************************************************)
EXTENDS ControlPlane, PlayQueueProofs

StationStates == [queue : Seq(Tracks), hand : Tracks \union {Nothing}, stage : Stages,
                  history : Seq(Tracks), accepted : SUBSET Tracks]

Once(q) == \A j, k \in 1..Len(q) : j < k => q[j] # q[k]

(* Nothing is in two places of a station, nor twice in its queue.          *)
OnePlace(s) ==
    /\ Once(s.queue)
    /\ s.stage = "free" <=> s.hand = Nothing
    /\ s.hand # Nothing => /\ s.hand \in s.accepted
                           /\ ~Contains(s.queue, s.hand) /\ ~Contains(s.history, s.hand)
    /\ \A t \in Tracks : /\ Contains(s.queue, t) => t \in s.accepted /\ ~Contains(s.history, t)
                         /\ Contains(s.history, t) => t \in s.accepted

Rank(s, t) ==
    IF Contains(s.queue, t) THEN 1
    ELSE IF s.hand = t THEN 2
    ELSE IF Contains(s.history, t) THEN 3 ELSE 4

Onward(s, r) ==
    /\ s.accepted \subseteq r.accepted
    /\ \A t \in s.accepted : Rank(s, t) <= Rank(r, t)

-----------------------------------------------------------------------------
(* How the moves of a station leave its tracks.                            *)

LEMMA TrackIds == Nothing \notin Tracks /\ Tracks \subseteq Nat
BY ContractAssumption DEF Nothing

LEMMA ThinnedOnce ==
    ASSUME NEW q \in Seq(Tracks), NEW r \in Seq(Tracks), Thinned(r, q), Once(q)
    PROVE  Once(r)
<1> SUFFICES ASSUME NEW j \in 1..Len(r), NEW k \in 1..Len(r), j < k PROVE r[j] # r[k]
  BY DEF Once
<1>1. PICK f \in [1..Len(r) -> 1..Len(q)] :
        /\ \A m \in 1..Len(r) : r[m] = q[f[m]]
        /\ \A m, n \in 1..Len(r) : m < n => f[m] < f[n]
  BY DEF Thinned
<1>2. f[j] \in 1..Len(q) /\ f[k] \in 1..Len(q) /\ f[j] < f[k]
  BY <1>1
<1>3. q[f[j]] # q[f[k]]
  BY <1>2 DEF Once
<1> QED
  BY <1>1, <1>3

LEMMA EmptyThins ==
    ASSUME NEW q \in Seq(Tracks)
    PROVE  Thinned(<<>>, q) /\ \A t : ~Contains(<<>>, t)
<1>1. <<>> = Drop(q, Len(q) + 1) /\ Len(q) + 1 \in 1..(Len(q) + 1)
  BY DEF Drop
<1>2. Thinned(Drop(q, Len(q) + 1), q)
  BY <1>1, DropThins
<1> QED
  BY <1>1, <1>2 DEF Contains

(* A station whose queue is thinned.                                       *)
LEMMA ThinnedStation ==
    ASSUME NEW s \in StationStates, OnePlace(s), NEW q \in Seq(Tracks), Thinned(q, s.queue),
           NEW r, r = [s EXCEPT !.queue = q]
    PROVE  /\ r \in StationStates /\ OnePlace(r) /\ Onward(s, r) /\ r.accepted = s.accepted
           /\ r.queue = q
           /\ \A t \in Tracks : Contains(s.queue, t) /\ ~Contains(q, t)
                                   => t \in r.accepted /\ Rank(r, t) = 4
<1>1. /\ r.queue = q /\ r.hand = s.hand /\ r.stage = s.stage /\ r.history = s.history
      /\ r.accepted = s.accepted /\ r \in StationStates /\ s.queue \in Seq(Tracks)
      /\ s.accepted \subseteq Tracks
  BY DEF StationStates
<1>2. \A t : Contains(q, t) => Contains(s.queue, t)
  BY ThinnedContains
<1>3. Once(q)
  BY <1>1, ThinnedOnce DEF OnePlace
<1>4. OnePlace(r)
  BY <1>1, <1>2, <1>3 DEF OnePlace
<1>5. ASSUME NEW t \in Tracks, t \in s.accepted PROVE Rank(s, t) <= Rank(r, t)
  BY <1>1, <1>2 DEF Rank
<1>6. ASSUME NEW t \in Tracks, Contains(s.queue, t), ~Contains(q, t)
      PROVE  t \in r.accepted /\ Rank(r, t) = 4
  BY <1>1, <1>6, TrackIds DEF OnePlace, Rank
<1> QED
  BY <1>1, <1>4, <1>5, <1>6 DEF Onward

LEMMA OnwardSame == \A s : Onward(s, s)
BY DEF Onward, Rank

LEMMA TakenOutOnward ==
    ASSUME NEW s \in StationStates, OnePlace(s), NEW i
    PROVE  LET r == TakenOut(s, i)
           IN  /\ r \in StationStates /\ OnePlace(r) /\ Onward(s, r) /\ r.accepted = s.accepted
               /\ Contains(s.queue, i) /\ i \in Tracks => i \in r.accepted /\ Rank(r, i) = 4
<1>1. CASE Contains(s.queue, i)
  <2>1. s.queue \in Seq(Tracks) /\ TakenOut(s, i) = [s EXCEPT !.queue = Remove(s.queue, i)]
    BY <1>1 DEF TakenOut, StationStates
  <2>2. Remove(s.queue, i) \in Seq(Tracks)
    BY <1>1, <2>1, RemoveClosesGap
  <2>3. Thinned(Remove(s.queue, i), s.queue) /\ ~Contains(Remove(s.queue, i), i)
    BY <1>1, <2>1, RemoveThins DEF OnePlace, Once
  <2> QED
    BY <1>1, <2>1, <2>2, <2>3, ThinnedStation
<1>2. CASE ~Contains(s.queue, i)
  BY <1>2, OnwardSame DEF TakenOut
<1> QED
  BY <1>1, <1>2

LEMMA SkippedToOnward ==
    ASSUME NEW s \in StationStates, OnePlace(s), NEW i
    PROVE  LET r == SkippedTo(s, i)
           IN  /\ r \in StationStates /\ OnePlace(r) /\ Onward(s, r) /\ r.accepted = s.accepted
               /\ \A t \in Tracks : Contains(s.queue, t) /\ ~Contains(r.queue, t)
                                       => t \in r.accepted /\ Rank(r, t) = 4
<1>1. CASE Contains(s.queue, i)
  <2>1. s.queue \in Seq(Tracks) /\ SkippedTo(s, i) = [s EXCEPT !.queue = SkipTo(s.queue, i)]
    BY <1>1 DEF SkippedTo, StationStates
  <2>2. IndexIn(s.queue, i) \in 1..(Len(s.queue) + 1)
    BY <1>1, <2>1, IndexInQueue
  <2>3. SkipTo(s.queue, i) \in Seq(Tracks) /\ Thinned(SkipTo(s.queue, i), s.queue)
    BY <2>1, <2>2, DropKeepsRest, DropThins DEF SkipTo
  <2> QED
    BY <2>1, <2>3, ThinnedStation
<1>2. CASE ~Contains(s.queue, i)
  BY <1>2, OnwardSame DEF SkippedTo
<1> QED
  BY <1>1, <1>2

LEMMA EmptiedOnward ==
    ASSUME NEW s \in StationStates, OnePlace(s)
    PROVE  LET r == Emptied(s)
           IN  /\ r \in StationStates /\ OnePlace(r) /\ Onward(s, r) /\ r.accepted = s.accepted
               /\ \A t \in Tracks : Contains(s.queue, t) => t \in r.accepted /\ Rank(r, t) = 4
<1>1. Emptied(s) = [s EXCEPT !.queue = <<>>] /\ s.queue \in Seq(Tracks)
  BY DEF Emptied, StationStates
<1>2. <<>> \in Seq(Tracks) /\ Thinned(<<>>, s.queue) /\ \A t : ~Contains(<<>>, t)
  BY <1>1, EmptyThins
<1>3. ASSUME NEW q \in Seq(Tracks), q = <<>>
      PROVE  /\ Emptied(s) \in StationStates /\ OnePlace(Emptied(s)) /\ Onward(s, Emptied(s))
             /\ Emptied(s).accepted = s.accepted
             /\ \A t \in Tracks : Contains(s.queue, t) /\ ~Contains(q, t)
                    => t \in Emptied(s).accepted /\ Rank(Emptied(s), t) = 4
  <2>1. Emptied(s) = [s EXCEPT !.queue = q] /\ Thinned(q, s.queue)
    BY <1>1, <1>2, <1>3
  <2> QED
    BY <2>1, ThinnedStation
<1> QED
  BY <1>2, <1>3

(* A new track is put at the back or in front.                             *)
LEMMA QueuedOnward ==
    ASSUME NEW s \in StationStates, OnePlace(s), NEW i \in Tracks, i \notin s.accepted,
           NEW mode
    PROVE  LET r == Queued(s, i, mode)
           IN  /\ r \in StationStates /\ OnePlace(r) /\ Onward(s, r)
               /\ r.accepted = s.accepted \union {i}
<1> DEFINE r == Queued(s, i, mode)
           q == s.queue
<1>1. /\ q \in Seq(Tracks) /\ Len(q) \in Nat /\ s.accepted \in SUBSET Tracks
      /\ \A k \in 1..Len(q) : q[k] \in s.accepted /\ q[k] # i
  BY DEF StationStates, OnePlace, Contains
<1>2. /\ r.queue = (IF mode = "Append" THEN Append(q, i) ELSE PushFront(q, i))
      /\ r.accepted = s.accepted \union {i}
      /\ r.hand = s.hand /\ r.stage = s.stage /\ r.history = s.history
  BY DEF Queued, StationStates
<1>3. r.queue \in Seq(Tracks) /\ \A t : Contains(r.queue, t) <=> Contains(q, t) \/ t = i
  <2>1. Append(q, i) \in Seq(Tracks) /\ PushFront(q, i) \in Seq(Tracks)
    BY <1>1, PushFrontMovesBack
  <2>2. \A t : /\ Contains(Append(q, i), t) <=> Contains(q, t) \/ t = i
               /\ Contains(PushFront(q, i), t) <=> Contains(q, t) \/ t = i
    BY <1>1, PushContains
  <2> QED
    BY <1>2, <2>1, <2>2
<1>4. Once(r.queue)
  <2>1. CASE mode = "Append"
    <3>1. /\ r.queue = Append(q, i) /\ Len(r.queue) = Len(q) + 1 /\ r.queue[Len(q) + 1] = i
          /\ \A k \in 1..Len(q) : r.queue[k] = q[k]
      BY <1>1, <1>2, <2>1
    <3> QED
      BY <1>1, <3>1 DEF OnePlace, Once
  <2>2. CASE mode # "Append"
    <3>1. /\ r.queue = PushFront(q, i) /\ Len(r.queue) = Len(q) + 1 /\ r.queue[1] = i
          /\ \A k \in 2..(Len(q) + 1) : r.queue[k] = q[k - 1]
      <4>1. r.queue = PushFront(q, i)
        BY <1>2, <2>2
      <4>2. /\ Len(PushFront(q, i)) = Len(q) + 1 /\ PushFront(q, i)[1] = i
            /\ \A k \in 2..(Len(q) + 1) : PushFront(q, i)[k] = q[k - 1]
        <5>1. q \in Seq(Tracks) /\ i \in Tracks
          BY <1>1
        <5> HIDE DEF r, q
        <5> QED
          BY <5>1, PushFrontMovesBack
      <4> HIDE DEF r, q
      <4> QED
        BY <4>1, <4>2
    <3>2. ASSUME NEW j \in 1..(Len(q) + 1), NEW k \in 1..(Len(q) + 1), j < k
          PROVE  r.queue[j] # r.queue[k]
      <4>1. k - 1 \in 1..Len(q) /\ r.queue[k] = q[k - 1]
        BY <1>1, <3>1, <3>2
      <4>2. CASE j = 1
        BY <1>1, <3>1, <4>1, <4>2
      <4>3. CASE j # 1
        <5>1. j - 1 \in 1..Len(q) /\ j - 1 < k - 1 /\ r.queue[j] = q[j - 1]
          BY <1>1, <3>1, <3>2, <4>3
        <5> QED
          BY <4>1, <5>1 DEF OnePlace, Once
      <4> QED
        BY <4>2, <4>3
    <3> QED
      BY <3>1, <3>2 DEF Once
  <2> QED
    BY <2>1, <2>2
<1>5. r \in StationStates
  <2>1. r = [[s EXCEPT !.queue = r.queue] EXCEPT !.accepted = s.accepted \union {i}]
    BY <1>2 DEF Queued, StationStates
  <2> HIDE DEF r
  <2> QED
    BY <1>1, <1>3, <2>1 DEF StationStates
<1>6. OnePlace(r)
  BY <1>1, <1>2, <1>3, <1>4, TrackIds DEF OnePlace
<1>7. ASSUME NEW t \in s.accepted PROVE Rank(s, t) <= Rank(r, t)
  BY <1>2, <1>3, <1>7 DEF Rank
<1> QED
  BY <1>2, <1>5, <1>6, <1>7 DEF Onward

(* The history keeps some of what it had, and the new entry.               *)
LEMMA NewestHolds ==
    ASSUME NEW h \in Seq(Tracks), NEW i \in Tracks
    PROVE  /\ Newest(Append(h, i)) \in Seq(Tracks)
           /\ \A t : Contains(Newest(Append(h, i)), t) => Contains(h, t) \/ t = i
<1> DEFINE longer == Append(h, i)
<1>1. longer \in Seq(Tracks) /\ Len(longer) \in Nat /\ Remembered \in Nat \ {0}
  BY ContractAssumption
<1>2. \A t : Contains(longer, t) => Contains(h, t) \/ t = i
  BY PushContains
<1> HIDE DEF longer
<1>3. CASE Len(longer) > Remembered
  <2>1. Len(longer) - Remembered + 1 \in 1..(Len(longer) + 1)
    BY <1>1, <1>3
  <2>2. /\ Drop(longer, Len(longer) - Remembered + 1) \in Seq(Tracks)
        /\ Thinned(Drop(longer, Len(longer) - Remembered + 1), longer)
    BY <1>1, <2>1, DropKeepsRest, DropThins
  <2>3. Newest(longer) = Drop(longer, Len(longer) - Remembered + 1)
    BY <1>3 DEF Newest
  <2>4. \A t : Contains(Newest(longer), t) => Contains(longer, t)
    BY <2>2, <2>3, ThinnedContains
  <2> QED
    BY <1>2, <2>2, <2>3, <2>4 DEF longer
<1>4. CASE ~(Len(longer) > Remembered)
  BY <1>1, <1>2, <1>4 DEF Newest, longer
<1> QED
  BY <1>3, <1>4

(* The player takes the head of the queue.                                 *)
LEMMA PoppedOnward ==
    ASSUME NEW s \in StationStates, OnePlace(s), s.stage = "free", s.queue # <<>>
    PROVE  LET r == Popped(s)
           IN  r \in StationStates /\ OnePlace(r) /\ Onward(s, r) /\ r.accepted = s.accepted
<1> DEFINE r == Popped(s)
           q == s.queue
<1>1. /\ q \in Seq(Tracks) /\ Len(q) \in Nat \ {0} /\ s.hand = Nothing
      /\ Head(q) \in Tracks /\ Head(q) = q[1] /\ Tail(q) \in Seq(Tracks)
      /\ Len(Tail(q)) = Len(q) - 1 /\ \A k \in 1..Len(Tail(q)) : Tail(q)[k] = q[k + 1]
  BY HeadTailProperties DEF StationStates, OnePlace
<1>2. /\ r.queue = Tail(q) /\ r.hand = Head(q) /\ r.stage = "held"
      /\ r.history = s.history /\ r.accepted = s.accepted
  BY DEF Popped, StationStates
<1>3. r \in StationStates
  <2>1. r = [[[s EXCEPT !.queue = Tail(q)] EXCEPT !.hand = Head(q)] EXCEPT !.stage = "held"]
    BY DEF Popped, StationStates
  <2>2. [s EXCEPT !.queue = Tail(q)] \in StationStates
    BY <1>1 DEF StationStates
  <2>3. [[s EXCEPT !.queue = Tail(q)] EXCEPT !.hand = Head(q)] \in StationStates
    BY <1>1, <2>2 DEF StationStates
  <2> QED
    BY <2>1, <2>3 DEF StationStates, Stages
<1>4. Thinned(Tail(q), q) /\ Once(Tail(q)) /\ \A t : Contains(Tail(q), t) => Contains(q, t)
  BY <1>1, TailThins, ThinnedOnce, ThinnedContains DEF OnePlace
<1>5. Contains(q, Head(q)) /\ ~Contains(Tail(q), Head(q))
  BY <1>1 DEF OnePlace, Once, Contains
<1>6. OnePlace(r)
  BY <1>1, <1>2, <1>4, <1>5, TrackIds DEF OnePlace
<1>7. ASSUME NEW t \in s.accepted PROVE Rank(s, t) <= Rank(r, t)
  <2>1. t \in Tracks
    BY DEF StationStates
  <2>2. CASE Contains(q, t)
    BY <2>2 DEF Rank
  <2>3. CASE ~Contains(q, t)
    BY <1>1, <1>2, <1>4, <1>5, <2>1, <2>3, TrackIds DEF Rank
  <2> QED
    BY <2>2, <2>3
<1> HIDE DEF r
<1>8. Onward(s, r)
  BY <1>2, <1>7 DEF Onward
<1> QED
  BY <1>2, <1>3, <1>6, <1>8 DEF r

LEMMA PlayerMovesOnward ==
    ASSUME NEW s \in StationStates, OnePlace(s), NEW r \in PlayerMoves(s)
    PROVE  r \in StationStates /\ OnePlace(r) /\ Onward(s, r) /\ r.accepted = s.accepted
<1>0. /\ s.queue \in Seq(Tracks) /\ s.hand \in Tracks \union {Nothing}
      /\ s.stage \in {"free", "held", "air", "off"} /\ s.history \in Seq(Tracks)
      /\ s.accepted \in SUBSET Tracks
  BY DEF StationStates, Stages
<1>1. CASE s.stage = "free"
  <2>1. s.queue # <<>> /\ r = Popped(s)
    BY <1>1 DEF PlayerMoves
  <2> QED
    BY <1>1, <2>1, PoppedOnward
<1>2. CASE (s.stage = "held" /\ r = Aired(s)) \/ (s.stage = "air" /\ r = OffAir(s))
  <2>1. /\ r \in StationStates /\ r.stage # "free" /\ s.stage # "free"
        /\ r.queue = s.queue /\ r.hand = s.hand /\ r.history = s.history
        /\ r.accepted = s.accepted
    BY <1>2 DEF Aired, OffAir, StationStates, Stages
  <2>2. OnePlace(r)
    BY <2>1 DEF OnePlace
  <2>3. Onward(s, r)
    BY <2>1 DEF Onward, Rank
  <2> QED
    BY <2>1, <2>2, <2>3
<1>3. ASSUME NEW g, g = GivenUp(s)
      PROVE  /\ g \in StationStates /\ g.queue = s.queue /\ g.hand = Nothing
             /\ g.stage = "free" /\ g.history = s.history /\ g.accepted = s.accepted
  <2>1. g = [[s EXCEPT !.hand = Nothing] EXCEPT !.stage = "free"]
    BY <1>3 DEF GivenUp, StationStates
  <2>2. [s EXCEPT !.hand = Nothing] \in StationStates
    BY DEF StationStates
  <2> QED
    BY <1>3, <2>1, <2>2 DEF StationStates, Stages, GivenUp
<1>4. CASE r = GivenUp(s) /\ s.stage = "held"
  <2>1. /\ r \in StationStates /\ r.queue = s.queue /\ r.hand = Nothing
        /\ r.stage = "free" /\ r.history = s.history /\ r.accepted = s.accepted
    BY <1>3, <1>4
  <2>2. OnePlace(r)
    BY <2>1 DEF OnePlace
  <2>3. ASSUME NEW t \in s.accepted PROVE Rank(s, t) <= Rank(r, t)
    BY <2>1, <1>0, TrackIds DEF Rank, OnePlace
  <2> QED
    BY <2>1, <2>2, <2>3 DEF Onward
<1>5. CASE r = Recorded(s) /\ s.stage = "off"
  <2>1. s.hand \in Tracks /\ s.hand # Nothing
    BY <1>0, <1>5 DEF OnePlace
  <2>2. /\ Newest(Append(s.history, s.hand)) \in Seq(Tracks)
        /\ \A t : Contains(Newest(Append(s.history, s.hand)), t)
                     => Contains(s.history, t) \/ t = s.hand
    BY <1>0, <2>1, NewestHolds
  <2>3. r = [GivenUp(s) EXCEPT !.history = Newest(Append(GivenUp(s).history, s.hand))]
    BY <1>5 DEF Recorded
  <2>4. /\ r \in StationStates /\ r.queue = s.queue /\ r.hand = Nothing
        /\ r.stage = "free" /\ r.history = Newest(Append(s.history, s.hand))
        /\ r.accepted = s.accepted
    BY <1>3, <2>2, <2>3 DEF StationStates
  <2>5. OnePlace(r)
    BY <2>1, <2>2, <2>4 DEF OnePlace
  <2>6. ASSUME NEW t \in s.accepted PROVE Rank(s, t) <= Rank(r, t)
    BY <2>1, <2>2, <2>4, <1>0, TrackIds DEF Rank, OnePlace
  <2> QED
    BY <2>4, <2>5, <2>6 DEF Onward
<1>6. \/ s.stage = "free"
      \/ s.stage = "held" /\ (r = Aired(s) \/ r = GivenUp(s))
      \/ s.stage = "air" /\ r = OffAir(s)
      \/ s.stage = "off" /\ r = Recorded(s)
  BY <1>0 DEF PlayerMoves
<1> QED
  BY <1>1, <1>2, <1>4, <1>5, <1>6

-----------------------------------------------------------------------------
(* The inductive invariant.                                                *)

Parts == [current : Tracks \union {Nothing}, queue : Seq(Tracks), history : Seq(Tracks)]

Claims == {tokens[c] : tokens \in TokenChoices, c \in Callers}

Steps == {"arrived", "operate", "stop", "current", "queue", "history"}

CallRecords ==
    [by : Callers, op : Writes \union Reads \union Pages, slug : Slugs, track : Nat,
     mode : {"Append", "PlayNext"}, source : Locations \union {Here, Url}, claims : Claims,
     at : Steps, on : Stations \union {Nothing}, seen : Parts]

Typed ==
    /\ made \in Seq(Slugs) /\ Len(made) \in 1..MaxStations
    /\ registered \in [Slugs -> Stations \union {Nothing}]
    /\ stations \in [Stations -> StationStates]
    /\ token \in TokenChoices
    /\ calls \in Seq(CallRecords \union {Finished}) /\ Len(calls) <= MaxCalls
    /\ waits \in [Callers -> 0..MaxCalls]
    /\ DOMAIN listing = Callers
    /\ shown \in [Callers -> Parts]
    /\ toldGone \in SUBSET Tracks
    /\ \A k \in DOMAIN calls : calls[k].at \in Steps \ {"arrived"} => calls[k].on \in Stations

(* A slug leads to the station that was made under it, and so did a call   *)
(* that passed the checks.                                                 *)
FromTheRegistry ==
    /\ \A s \in Slugs : registered[s] # Nothing =>
          registered[s] \in 1..Len(made) /\ made[registered[s]] = s
    /\ \A k \in DOMAIN calls : calls[k].at = "operate" =>
          /\ calls[k].on \in 1..Len(made) /\ made[calls[k].on] = calls[k].slug
          /\ RequireSlug(calls[k].claims, calls[k].slug) /\ RequireWrite(calls[k].claims)

(* A track is in one place of one station, and its QueueTrack call is over. *)
Sorted ==
    /\ \A n \in Stations : OnePlace(stations[n])
    /\ \A n \in Stations : \A t \in stations[n].accepted :
          t \in DOMAIN calls /\ calls[t].at = "done"
    /\ \A m, n \in Stations : m # n => stations[m].accepted \intersect stations[n].accepted = {}

AtLeast(r, t) == \E n \in Stations : t \in stations[n].accepted /\ r <= Rank(stations[n], t)

Told == \A t \in toldGone : AtLeast(4, t)

Shown == \A c \in Callers, t \in Tracks : Place(shown[c], t) # 0 => AtLeast(Place(shown[c], t), t)

(* A snapshot that is being read, for a caller that will get it.           *)
Looks(k) == k \in DOMAIN calls /\ calls[k].at \in {"queue", "history"} /\ Waiting(k)

SeenFirst ==
    \A k \in DOMAIN calls : Looks(k) /\ calls[k].seen.current # Nothing =>
       /\ AtLeast(2, calls[k].seen.current)
       /\ Place(shown[calls[k].by], calls[k].seen.current) <= 2

SeenNext ==
    \A k \in DOMAIN calls : Looks(k) /\ calls[k].at = "history" =>
       \A t \in Tracks : Contains(calls[k].seen.queue, t) =>
          /\ t # calls[k].seen.current
          /\ AtLeast(1, t)
          /\ Place(shown[calls[k].by], t) <= 1

Browsing ==
    /\ \A k \in DOMAIN calls : calls[k].at = "arrived" /\ calls[k].op = "ListDirectory"
          => calls[k].claims = token[calls[k].by]
    /\ \A c \in Callers : listing[c] = NoList \/ \E dir \in Folders : listing[c] = Listed(token[c], dir)

Sound == Typed /\ Sorted

-----------------------------------------------------------------------------
(* What a step does to the calls.                                          *)

LEMMA SetOne ==
    ASSUME NEW S, NEW q \in Seq(S), NEW k \in DOMAIN q, NEW e \in S,
           NEW r, r = [q EXCEPT ![k] = e]
    PROVE  /\ r \in Seq(S) /\ Len(r) = Len(q) /\ DOMAIN r = DOMAIN q
           /\ r[k] = e /\ \A j \in DOMAIN q \ {k} : r[j] = q[j]
OBVIOUS

LEMMA AddOne ==
    ASSUME NEW S, NEW q \in Seq(S), NEW e \in S, NEW r, r = Append(q, e)
    PROVE  /\ r \in Seq(S) /\ Len(r) = Len(q) + 1
           /\ DOMAIN q = 1..Len(q) /\ DOMAIN r = 1..(Len(q) + 1) /\ Len(q) \in Nat
           /\ r[Len(q) + 1] = e /\ \A j \in DOMAIN q : r[j] = q[j]
OBVIOUS

(* A call is made.                                                         *)
Makes(r) ==
    /\ Len(calls) < MaxCalls /\ r \in CallRecords /\ r.at = "arrived"
    /\ r.op = "ListDirectory" => r.claims = token[r.by]
    /\ calls' = Append(calls, r)
    /\ waits[r.by] = Nothing /\ waits' = [waits EXCEPT ![r.by] = Len(calls) + 1]
    /\ listing' = [listing EXCEPT ![r.by] = NoList]
    /\ UNCHANGED <<serverVars, token, known, shown, toldGone>>

LEMMA CallMakes ==
    ASSUME Typed, NEW claims \in Claims, NEW c \in Callers,
           NEW op \in Writes \union Reads \union Pages,
           NEW slug \in Slugs, NEW track \in Nat, NEW mode \in {"Append", "PlayNext"},
           NEW source \in Locations \union {Here, Url},
           op = "ListDirectory" => claims = token[c],
           CallWith(claims, c, op, slug, track, mode, source)
    PROVE  \E r : Makes(r)
<1> DEFINE r == [by |-> c, op |-> op, slug |-> slug, track |-> track,
                 mode |-> mode, source |-> source, claims |-> claims,
                 at |-> "arrived", on |-> Nothing, seen |-> NoPart]
<1>1. NoPart \in Parts
  BY DEF NoPart, Parts
<1>2. r \in CallRecords
  BY <1>1 DEF CallRecords, Steps
<1>3. r.by = c /\ r.op = op /\ r.claims = claims /\ r.at = "arrived"
  OBVIOUS
<1>4. /\ waits[c] = Nothing /\ Len(calls) < MaxCalls
      /\ calls' = Append(calls, r) /\ waits' = [waits EXCEPT ![c] = Len(calls) + 1]
      /\ listing' = [listing EXCEPT ![c] = NoList]
      /\ UNCHANGED <<serverVars, token, known, shown, toldGone>>
  BY DEF CallWith
<1> HIDE DEF r
<1>5. Makes(r)
  BY <1>2, <1>3, <1>4 DEF Makes
<1> QED
  BY <1>5

LEMMA CallsMake ==
    ASSUME Typed, ScriptCalls \/ \E c \in Viewers : ViewerCalls(c)
    PROVE  \E r : Makes(r)
<1>1. /\ Script \in Callers /\ Viewers \subseteq Callers /\ Own \in Slugs
      /\ \A c \in Callers : token[c] \in Claims
      /\ Nothing \in Nat /\ 1..Len(calls) \subseteq Nat
  BY ControlPlaneAssumption DEF Callers, Claims, Typed, Nothing
<1>2. ASSUME NEW c \in Callers, NEW op \in Writes \union Reads \union Pages, NEW slug \in Slugs,
             Simple(c, op, slug)
      PROVE  \E r : Makes(r)
  BY <1>1, <1>2, CallMakes DEF Simple, Call
<1>3. ASSUME NEW t \in 1..Len(calls), NEW op \in {"RemoveFromQueue", "SkipTo"},
             Call(Script, op, Own, t, "Append", Here)
      PROVE  \E r : Makes(r)
  BY <1>1, <1>3, CallMakes DEF Call, Writes
<1>4. ASSUME NEW word, NEW source \in Locations \union {Url},
             Call(Script, "QueueTrack", Own, Nothing, ParseQueueMode(word), source)
      PROVE  \E r : Makes(r)
  <2>1. ParseQueueMode(word) \in {"Append", "PlayNext"}
    BY DEF ParseQueueMode
  <2> QED
    BY <1>1, <1>4, <2>1, CallMakes DEF Call, Writes
<1>5. ASSUME NEW source \in Locations,
             Call(Script, "ListDirectory", Own, Nothing, "Append", source)
      PROVE  \E r : Makes(r)
  BY <1>1, <1>5, CallMakes DEF Call, Reads
<1>6. ASSUME NEW c \in Callers,
             CallWith(token[Script], c, "GetStatus", Own, Nothing, "Append", Here)
      PROVE  \E r : Makes(r)
  BY <1>1, <1>6, CallMakes DEF Reads
<1>7. ASSUME ScriptCalls PROVE \E r : Makes(r)
  <2>1. CASE \E op \in {"UnregisterStation", "ClearQueue", "Skip", "Pause", "Resume",
                        "Seek", "SeekBy", "GetStatus"} : Radio(op)
    BY <1>1, <1>2, <2>1 DEF Radio, Writes, Reads
  <2>2. CASE luaRegister \/ luaListStations \/ luaServerInfo
    BY <1>1, <1>2, <2>2 DEF luaRegister, luaListStations, luaServerInfo, Writes, Reads
  <2>3. CASE luaQueue
    BY <1>4, <2>3 DEF luaQueue
  <2>4. CASE luaDequeue \/ luaSkipTo
    BY <1>3, <2>4 DEF luaDequeue, luaSkipTo
  <2>5. CASE luaListDirectory
    BY <1>5, <2>5 DEF luaListDirectory
  <2> QED
    BY <1>7, <2>1, <2>2, <2>3, <2>4, <2>5 DEF ScriptCalls, luaUnregister, luaClearQueue,
       luaSkip, luaPause, luaResume, luaSeek, luaSeekBy, luaStatus
<1>8. ASSUME NEW c \in Viewers, ViewerCalls(c) PROVE \E r : Makes(r)
  BY <1>1, <1>2, <1>6, <1>8, ViewerOpsAssumption DEF ViewerCalls, controlStatusHandler
<1> QED
  BY <1>7, <1>8

(* A handler goes on: its call becomes e, and nobody hears of it yet.      *)
Goes(k, e) ==
    /\ calls' = [calls EXCEPT ![k] = e]
    /\ e \in CallRecords /\ e.at # "arrived" /\ e.on \in Stations
    /\ e.by = calls[k].by /\ e.op = calls[k].op
    /\ e.slug = calls[k].slug /\ e.claims = calls[k].claims
    /\ UNCHANGED <<token, clientVars>>

LEMMA AtWork ==
    ASSUME Typed, NEW k \in DOMAIN calls, calls[k].at # "done"
    PROVE  calls[k] \in CallRecords /\ calls[k].at \in Steps /\ k \in Tracks /\ k # Nothing
<1>1. calls[k] \in CallRecords \union {Finished} /\ k \in 1..MaxCalls
  BY ControlPlaneAssumption DEF Typed
<1>2. calls[k] # Finished
  BY DEF Finished
<1> QED
  BY <1>1, <1>2, ControlPlaneAssumption DEF CallRecords, Nothing

LEMMA HandlersWork ==
    ASSUME Typed, NEW k \in DOMAIN calls, HandlerStep(k)
    PROVE  calls[k].at # "done" /\ calls[k] \in CallRecords /\ k \in Tracks /\ k # Nothing
<1>1. calls[k].at # "done"
  <2>1. CASE Refuse(k) \/ NotRegistered(k) \/ Admit(k) \/ RegisterStation(k)
             \/ UnregisterStation(k) \/ GetStatus(k) \/ NowPlaying(k)
             \/ NowPlayingRefused(k) \/ LookAround(k) \/ ListDirectory(k)
    BY <2>1 DEF Refuse, NotRegistered, Admit, RegisterStation, UnregisterStation, GetStatus,
       NowPlaying, NowPlayingRefused, LookAround, ListDirectory, Arrived
  <2>2. CASE QueueTrack(k) \/ RemoveFromQueue(k) \/ ClearQueue(k) \/ SkipToTrack(k)
             \/ SteerCurrent(k)
    BY <2>2 DEF QueueTrack, RemoveFromQueue, ClearQueue, SkipToTrack, SteerCurrent, Operates
  <2>3. CASE StopPlayer(k) \/ ReadCurrent(k) \/ ReadQueue(k) \/ ReadHistory(k)
    BY <2>3 DEF StopPlayer, ReadCurrent, ReadQueue, ReadHistory
  <2> QED
    BY <2>1, <2>2, <2>3 DEF HandlerStep
<1> QED
  BY <1>1, AtWork

(* The steps after which a handler has more to do.                         *)
LEMMA AdmitGoes ==
    ASSUME Typed, NEW k \in DOMAIN calls, Admit(k)
    PROVE  \E e : Goes(k, e) /\ e.at = "operate" /\ e.on = registered[calls[k].slug]
<1>1. calls[k] \in CallRecords /\ registered[calls[k].slug] \in Stations
  <2>1. calls[k] \in CallRecords
    BY AtWork DEF Admit, Arrived
  <2>2. registered[calls[k].slug] # Nothing /\ registered \in [Slugs -> Stations \union {Nothing}]
    BY DEF Admit, LookedUp, Typed
  <2> QED
    BY <2>1, <2>2 DEF CallRecords
<1>2. /\ calls' = [calls EXCEPT ![k].at = "operate", ![k].on = registered[calls[k].slug]]
      /\ UNCHANGED <<token, clientVars>>
  BY DEF Admit, LookedUp
<1>3. "operate" \in Steps \ {"arrived"}
  BY DEF Steps
<1> DEFINE n == registered[calls[k].slug]
           e == [[calls[k] EXCEPT !.at = "operate"] EXCEPT !.on = n]
<1>4. calls' = [calls EXCEPT ![k] = e]
  BY <1>1, <1>2 DEF CallRecords
<1> HIDE DEF n
<1>5. /\ e \in CallRecords /\ e.at = "operate" /\ e.at # "arrived" /\ e.on = n
      /\ e.by = calls[k].by /\ e.op = calls[k].op
      /\ e.slug = calls[k].slug /\ e.claims = calls[k].claims
  <2>1. [calls[k] EXCEPT !.at = "operate"] \in CallRecords
    BY <1>1, <1>3 DEF CallRecords
  <2> QED
    BY <1>1, <1>3, <2>1 DEF CallRecords, n
<1> HIDE DEF e
<1> QED
  BY <1>1, <1>2, <1>4, <1>5 DEF Goes, n

LEMMA UnregisterGoes ==
    ASSUME Typed, NEW k \in DOMAIN calls, UnregisterStation(k)
    PROVE  \E e : Goes(k, e) /\ e.at = "stop"
<1>1. calls[k] \in CallRecords /\ registered[calls[k].slug] \in Stations
  <2>1. calls[k] \in CallRecords
    BY AtWork DEF UnregisterStation, Arrived
  <2>2. registered[calls[k].slug] # Nothing /\ registered \in [Slugs -> Stations \union {Nothing}]
    BY DEF UnregisterStation, Typed
  <2> QED
    BY <2>1, <2>2 DEF CallRecords
<1>2. /\ calls' = [calls EXCEPT ![k].at = "stop", ![k].on = registered[calls[k].slug]]
      /\ UNCHANGED <<token, clientVars>>
  BY DEF UnregisterStation
<1>3. "stop" \in Steps \ {"arrived"}
  BY DEF Steps
<1> DEFINE n == registered[calls[k].slug]
           e == [[calls[k] EXCEPT !.at = "stop"] EXCEPT !.on = n]
<1>4. calls' = [calls EXCEPT ![k] = e]
  BY <1>1, <1>2 DEF CallRecords
<1> HIDE DEF n
<1>5. /\ e \in CallRecords /\ e.at = "stop" /\ e.at # "arrived" /\ e.on = n
      /\ e.by = calls[k].by /\ e.op = calls[k].op
      /\ e.slug = calls[k].slug /\ e.claims = calls[k].claims
  <2>1. [calls[k] EXCEPT !.at = "stop"] \in CallRecords
    BY <1>1, <1>3 DEF CallRecords
  <2> QED
    BY <1>1, <1>3, <2>1 DEF CallRecords, n
<1> HIDE DEF e
<1> QED
  BY <1>1, <1>2, <1>4, <1>5 DEF Goes, n

LEMMA LookGoes ==
    ASSUME Typed, NEW k \in DOMAIN calls, GetStatus(k) \/ NowPlaying(k)
    PROVE  \E e : Goes(k, e) /\ e.at = "current"
<1>1. calls[k] \in CallRecords /\ registered[calls[k].slug] \in Stations
  <2>1. calls[k] \in CallRecords
    BY AtWork DEF GetStatus, NowPlaying, Arrived
  <2>2. registered[calls[k].slug] # Nothing /\ registered \in [Slugs -> Stations \union {Nothing}]
    BY DEF GetStatus, NowPlaying, LookedUp, Typed
  <2> QED
    BY <2>1, <2>2 DEF CallRecords
<1>2. /\ calls' = [calls EXCEPT ![k].at = "current", ![k].on = registered[calls[k].slug]]
      /\ UNCHANGED <<token, clientVars>>
  BY DEF GetStatus, NowPlaying, LookedUp, FirstPart
<1>3. "current" \in Steps \ {"arrived"}
  BY DEF Steps
<1> DEFINE n == registered[calls[k].slug]
           e == [[calls[k] EXCEPT !.at = "current"] EXCEPT !.on = n]
<1>4. calls' = [calls EXCEPT ![k] = e]
  BY <1>1, <1>2 DEF CallRecords
<1> HIDE DEF n
<1>5. /\ e \in CallRecords /\ e.at = "current" /\ e.at # "arrived" /\ e.on = n
      /\ e.by = calls[k].by /\ e.op = calls[k].op
      /\ e.slug = calls[k].slug /\ e.claims = calls[k].claims
  <2>1. [calls[k] EXCEPT !.at = "current"] \in CallRecords
    BY <1>1, <1>3 DEF CallRecords
  <2> QED
    BY <1>1, <1>3, <2>1 DEF CallRecords, n
<1> HIDE DEF e
<1> QED
  BY <1>1, <1>2, <1>4, <1>5 DEF Goes, n

LEMMA CurrentGoes ==
    ASSUME Typed, NEW k \in DOMAIN calls, ReadCurrent(k)
    PROVE  \E e : /\ Goes(k, e) /\ e.at = "queue" /\ e.on = calls[k].on
                  /\ e.seen = [calls[k].seen EXCEPT !.current = CurrentOf(stations[calls[k].on])]
<1>1. calls[k] \in CallRecords /\ calls[k].on \in Stations /\ calls[k].at = "current"
  BY AtWork DEF ReadCurrent, Typed, Steps
<1> DEFINE value == CurrentOf(stations[calls[k].on])
           seen == [calls[k].seen EXCEPT !.current = value]
<1>2. stations[calls[k].on] \in StationStates /\ calls[k].seen \in Parts
  BY <1>1 DEF Typed, CallRecords
<1>3. value \in Tracks \union {Nothing}
  BY <1>2 DEF CurrentOf, StationStates
<1>4. seen \in Parts
  BY <1>2, <1>3 DEF Parts
<1>5. /\ calls' = [calls EXCEPT ![k].seen["current"] = value, ![k].at = "queue"]
      /\ UNCHANGED <<token, clientVars>>
  BY DEF ReadCurrent, See, FirstPart
<1>6. calls' = [calls EXCEPT ![k] = [[@ EXCEPT !.seen = seen] EXCEPT !.at = "queue"]]
  BY <1>1, <1>5 DEF Typed, CallRecords
<1>7. "queue" \in Steps \ {"arrived"}
  BY DEF Steps
<1> HIDE DEF seen, value
<1> DEFINE e == [[calls[k] EXCEPT !.seen = seen] EXCEPT !.at = "queue"]
<1>8. calls' = [calls EXCEPT ![k] = e]
  BY <1>6
<1>9. /\ e \in CallRecords /\ e.at = "queue" /\ e.at # "arrived" /\ e.on = calls[k].on
      /\ e.seen = seen /\ e.by = calls[k].by /\ e.op = calls[k].op
      /\ e.slug = calls[k].slug /\ e.claims = calls[k].claims
  <2>1. [calls[k] EXCEPT !.seen = seen] \in CallRecords
    BY <1>1, <1>4 DEF CallRecords
  <2> QED
    BY <1>1, <1>7, <2>1 DEF CallRecords
<1> HIDE DEF e
<1> QED
  BY <1>1, <1>5, <1>8, <1>9 DEF Goes, seen, value

LEMMA QueueGoes ==
    ASSUME Typed, NEW k \in DOMAIN calls, ReadQueue(k)
    PROVE  \E e : /\ Goes(k, e) /\ e.at = "history" /\ e.on = calls[k].on
                  /\ e.seen = [calls[k].seen EXCEPT !.queue = stations[calls[k].on].queue]
<1>1. calls[k] \in CallRecords /\ calls[k].on \in Stations /\ calls[k].at = "queue"
  BY AtWork DEF ReadQueue, Typed, Steps
<1> DEFINE value == stations[calls[k].on].queue
           seen == [calls[k].seen EXCEPT !.queue = value]
<1>2. stations[calls[k].on] \in StationStates /\ calls[k].seen \in Parts
  BY <1>1 DEF Typed, CallRecords
<1>3. value \in Seq(Tracks)
  BY <1>2 DEF StationStates
<1>4. seen \in Parts
  BY <1>2, <1>3 DEF Parts
<1>5. /\ calls' = [calls EXCEPT ![k].seen["queue"] = value, ![k].at = "history"]
      /\ UNCHANGED <<token, clientVars>>
  BY DEF ReadQueue, See, FirstPart
<1>6. calls' = [calls EXCEPT ![k] = [[@ EXCEPT !.seen = seen] EXCEPT !.at = "history"]]
  BY <1>1, <1>5 DEF Typed, CallRecords
<1>7. "history" \in Steps \ {"arrived"}
  BY DEF Steps
<1> HIDE DEF seen, value
<1> DEFINE e == [[calls[k] EXCEPT !.seen = seen] EXCEPT !.at = "history"]
<1>8. calls' = [calls EXCEPT ![k] = e]
  BY <1>6
<1>9. /\ e \in CallRecords /\ e.at = "history" /\ e.at # "arrived" /\ e.on = calls[k].on
      /\ e.seen = seen /\ e.by = calls[k].by /\ e.op = calls[k].op
      /\ e.slug = calls[k].slug /\ e.claims = calls[k].claims
  <2>1. [calls[k] EXCEPT !.seen = seen] \in CallRecords
    BY <1>1, <1>4 DEF CallRecords
  <2> QED
    BY <1>1, <1>7, <2>1 DEF CallRecords
<1> HIDE DEF e
<1> QED
  BY <1>1, <1>5, <1>8, <1>9 DEF Goes, seen, value

Last(k) ==
    \/ Refuse(k) \/ NotRegistered(k) \/ RegisterStation(k) \/ StopPlayer(k)
    \/ QueueTrack(k) \/ RemoveFromQueue(k) \/ ClearQueue(k) \/ SkipToTrack(k)
    \/ SteerCurrent(k) \/ NowPlayingRefused(k) \/ ReadHistory(k)
    \/ LookAround(k) \/ ListDirectory(k)

LEMMA LastIsDone ==
    ASSUME NEW k, Last(k)
    PROVE  Done(k) /\ token' = token
<1>1. CASE Refuse(k) \/ NotRegistered(k) \/ SteerCurrent(k) \/ NowPlayingRefused(k) \/ LookAround(k)
  BY <1>1 DEF Refuse, NotRegistered, SteerCurrent, NowPlayingRefused, LookAround, Answer
<1>2. CASE RegisterStation(k) \/ StopPlayer(k) \/ ReadHistory(k) \/ ListDirectory(k)
  BY <1>2 DEF RegisterStation, StopPlayer, ReadHistory, ListDirectory
<1>3. CASE QueueTrack(k) \/ RemoveFromQueue(k) \/ ClearQueue(k) \/ SkipToTrack(k)
  BY <1>3 DEF QueueTrack, RemoveFromQueue, ClearQueue, SkipToTrack, Becomes, TellGone, Answer
<1> QED
  BY <1>1, <1>2, <1>3 DEF Last

LEMMA HandlersGo ==
    ASSUME Typed, NEW k \in DOMAIN calls, HandlerStep(k)
    PROVE  token' = token /\ (Done(k) \/ \E e : Goes(k, e))
<1>1. CASE Last(k)
  BY <1>1, LastIsDone
<1>2. CASE ~Last(k)
  <2>1. Admit(k) \/ UnregisterStation(k) \/ (GetStatus(k) \/ NowPlaying(k))
        \/ ReadCurrent(k) \/ ReadQueue(k)
    BY <1>2 DEF Last, HandlerStep
  <2>2. \E e : Goes(k, e)
    BY <2>1, AdmitGoes, UnregisterGoes, LookGoes, CurrentGoes, QueueGoes
  <2> QED
    BY <2>2 DEF Goes
<1> QED
  BY <1>1, <1>2

(* Only its own call changes, and no other caller begins to wait.          *)
LEMMA OneCallChanges ==
    ASSUME Typed, NEW k \in DOMAIN calls, calls[k] \in CallRecords,
           Done(k) \/ \E e : Goes(k, e)
    PROVE  /\ calls' \in Seq(CallRecords \union {Finished})
           /\ Len(calls') = Len(calls) /\ DOMAIN calls' = DOMAIN calls
           /\ \A j \in DOMAIN calls \ {k} : calls'[j] = calls[j]
           /\ \/ Done(k) /\ calls'[k] = Finished
              \/ /\ Goes(k, calls'[k]) /\ waits' = waits
           /\ waits' \in [Callers -> 0..MaxCalls]
           /\ \A j \in DOMAIN calls \ {k} :
                 calls[j] \in CallRecords /\ Waiting(j)' => Waiting(j)
<1>1. calls \in Seq(CallRecords \union {Finished}) /\ waits \in [Callers -> 0..MaxCalls]
  BY DEF Typed
<1>2. calls[k].by \in Callers /\ 0 \in 0..MaxCalls /\ DOMAIN calls = 1..Len(calls)
  BY <1>1, ControlPlaneAssumption DEF CallRecords
<1>3. CASE Done(k)
  <2>1. /\ calls' \in Seq(CallRecords \union {Finished})
        /\ Len(calls') = Len(calls) /\ DOMAIN calls' = DOMAIN calls
        /\ calls'[k] = Finished
        /\ \A j \in DOMAIN calls \ {k} : calls'[j] = calls[j]
    BY <1>1, <1>3, SetOne DEF Done
  <2>2. waits' \in [Callers -> 0..MaxCalls]
        /\ \A c \in Callers : waits'[c] = waits[c] \/ (c = calls[k].by /\ waits'[c] = 0 /\ Waiting(k))
    BY <1>1, <1>2, <1>3 DEF Done, Nothing
  <2>3. ASSUME NEW j \in DOMAIN calls \ {k}, calls[j] \in CallRecords, Waiting(j)'
        PROVE  Waiting(j)
    <3>1. calls[j].by \in Callers /\ waits'[calls[j].by] = j /\ j # 0
      BY <1>2, <2>1, <2>3 DEF Waiting, CallRecords
    <3>2. waits[calls[j].by] = j
      BY <2>2, <3>1
    <3> QED
      BY <3>2 DEF Waiting
  <2> QED
    BY <1>3, <2>1, <2>2, <2>3
<1>4. CASE \E e : Goes(k, e)
  <2>1. PICK e : Goes(k, e)
    BY <1>4
  <2>2. /\ calls' \in Seq(CallRecords \union {Finished})
        /\ Len(calls') = Len(calls) /\ DOMAIN calls' = DOMAIN calls
        /\ calls'[k] = e
        /\ \A j \in DOMAIN calls \ {k} : calls'[j] = calls[j]
    BY <1>1, <2>1, SetOne DEF Goes
  <2>3. waits' = waits
    BY <2>1 DEF Goes, clientVars
  <2>4. ASSUME NEW j \in DOMAIN calls \ {k}, calls[j] \in CallRecords, Waiting(j)'
        PROVE  Waiting(j)
    BY <2>2, <2>3, <2>4 DEF Waiting
  <2> QED
    BY <1>1, <2>1, <2>2, <2>3, <2>4
<1> QED
  BY <1>3, <1>4

(* Which step leads where.                                                 *)
LEMMA WhereNext ==
    ASSUME Typed, NEW k \in DOMAIN calls, HandlerStep(k)
    PROVE  /\ calls'[k].at = "operate" => Admit(k)
           /\ calls'[k].at = "queue" => ReadCurrent(k)
           /\ calls'[k].at = "history" => ReadQueue(k)
<1>1. CASE Last(k)
  <2>1. calls'[k] = Finished
    BY <1>1, LastIsDone DEF Done, Typed
  <2> QED
    BY <2>1 DEF Finished
<1>2. ASSUME NEW e, Goes(k, e) PROVE calls'[k] = e
  BY <1>2 DEF Goes, Typed
<1>3. CASE UnregisterStation(k)
  <2>1. calls'[k].at = "stop"
    BY <1>2, <1>3, UnregisterGoes
  <2> QED
    BY <2>1
<1>4. CASE GetStatus(k) \/ NowPlaying(k)
  <2>1. calls'[k].at = "current"
    BY <1>2, <1>4, LookGoes
  <2> QED
    BY <2>1
<1>5. CASE ReadCurrent(k)
  <2>1. calls'[k].at = "queue"
    BY <1>2, <1>5, CurrentGoes
  <2> QED
    BY <1>5, <2>1
<1>6. CASE ReadQueue(k)
  <2>1. calls'[k].at = "history"
    BY <1>2, <1>6, QueueGoes
  <2> QED
    BY <1>6, <2>1
<1>7. CASE Admit(k)
  <2>1. calls'[k].at = "operate"
    BY <1>2, <1>7, AdmitGoes
  <2> QED
    BY <1>7, <2>1
<1> QED
  BY <1>1, <1>3, <1>4, <1>5, <1>6, <1>7 DEF Last, HandlerStep

LEMMA StepsAre ==
    ASSUME Typed, ControlNext
    PROVE  \/ \E r : Makes(r)
           \/ \E c \in Callers : GiveUp(c)
           \/ \E k \in DOMAIN calls : HandlerStep(k)
           \/ \E n \in Stations : PlayerStep(n)
BY CallsMake DEF ControlNext

-----------------------------------------------------------------------------
(* What a step does to the stations.                                       *)

(* Station n becomes s, and accepts no tracks but those of new.            *)
Puts(n, s, new) ==
    /\ n \in Stations /\ s \in StationStates /\ OnePlace(s) /\ Onward(stations[n], s)
    /\ s.accepted = stations[n].accepted \union new
    /\ stations' = [stations EXCEPT ![n] = s]

LEMMA TargetOf ==
    ASSUME Sound, NEW k \in DOMAIN calls, NEW op, Operates(k, op)
    PROVE  /\ Target(k) \in Stations
           /\ stations[Target(k)] \in StationStates /\ OnePlace(stations[Target(k)])
           /\ k \in Tracks /\ calls[k].at # "done"
           /\ calls[k] \in CallRecords
<1>1. calls[k].at = "operate" /\ "operate" \in Steps \ {"arrived"}
  BY DEF Operates, Steps
<1>2. calls[k].on \in Stations
  BY <1>1 DEF Sound, Typed
<1> QED
  BY <1>1, <1>2, AtWork DEF Sound, Typed, Sorted, Target

LEMMA QueueTrackPuts ==
    ASSUME Sound, NEW k \in DOMAIN calls, QueueTrack(k)
    PROVE  Puts(Target(k), Queued(stations[Target(k)], k, calls[k].mode), {k})
<1>1. /\ Target(k) \in Stations
      /\ stations[Target(k)] \in StationStates /\ OnePlace(stations[Target(k)])
      /\ k \in Tracks /\ calls[k].at # "done"
  BY TargetOf DEF QueueTrack
<1>2. k \notin stations[Target(k)].accepted
  BY <1>1 DEF Sound, Sorted
<1>3. stations' = [stations EXCEPT ![Target(k)] = Queued(stations[Target(k)], k, calls[k].mode)]
  BY DEF QueueTrack, Becomes
<1> HIDE DEF Target
<1> QED
  BY <1>1, <1>2, <1>3, QueuedOnward DEF Puts

(* Tracks that a call says are gone have no place any more.                *)
GoneFrom(s, gone) == \A t \in gone \intersect Tracks : t \in s.accepted /\ Rank(s, t) = 4

LEMMA RemovePuts ==
    ASSUME Sound, NEW k \in DOMAIN calls, RemoveFromQueue(k)
    PROVE  LET s == TakenOut(stations[Target(k)], calls[k].track)
           IN  Puts(Target(k), s, {}) /\ GoneFrom(s, Removed(Target(k), calls[k].track))
<1>1. /\ Target(k) \in Stations
      /\ stations[Target(k)] \in StationStates /\ OnePlace(stations[Target(k)])
  BY TargetOf DEF RemoveFromQueue
<1> DEFINE s == TakenOut(stations[Target(k)], calls[k].track)
<1>2. stations' = [stations EXCEPT ![Target(k)] = s]
  BY DEF RemoveFromQueue, Becomes
<1>3. /\ s \in StationStates /\ OnePlace(s) /\ Onward(stations[Target(k)], s)
      /\ s.accepted = stations[Target(k)].accepted
      /\ Contains(stations[Target(k)].queue, calls[k].track) /\ calls[k].track \in Tracks
            => calls[k].track \in s.accepted /\ Rank(s, calls[k].track) = 4
  BY <1>1, TakenOutOnward
<1> HIDE DEF s
<1>4. GoneFrom(s, Removed(Target(k), calls[k].track))
  BY <1>3 DEF GoneFrom, Removed, Pending
<1>5. Puts(Target(k), s, {})
  BY <1>1, <1>2, <1>3 DEF Puts
<1> QED
  BY <1>4, <1>5 DEF s

LEMMA ClearPuts ==
    ASSUME Sound, NEW k \in DOMAIN calls, ClearQueue(k)
    PROVE  LET s == Emptied(stations[Target(k)])
           IN  Puts(Target(k), s, {}) /\ GoneFrom(s, Pending(Target(k)))
<1>1. /\ Target(k) \in Stations
      /\ stations[Target(k)] \in StationStates /\ OnePlace(stations[Target(k)])
  BY TargetOf DEF ClearQueue
<1> DEFINE s == Emptied(stations[Target(k)])
<1>2. stations' = [stations EXCEPT ![Target(k)] = s]
  BY DEF ClearQueue, Becomes
<1>3. /\ s \in StationStates /\ OnePlace(s) /\ Onward(stations[Target(k)], s)
      /\ s.accepted = stations[Target(k)].accepted
      /\ \A t \in Tracks : Contains(stations[Target(k)].queue, t) => t \in s.accepted /\ Rank(s, t) = 4
  BY <1>1, EmptiedOnward
<1> HIDE DEF s
<1>4. GoneFrom(s, Pending(Target(k)))
  BY <1>3 DEF GoneFrom, Pending
<1>5. Puts(Target(k), s, {})
  BY <1>1, <1>2, <1>3 DEF Puts
<1> QED
  BY <1>4, <1>5 DEF s

LEMMA SkipToPuts ==
    ASSUME Sound, NEW k \in DOMAIN calls, SkipToTrack(k)
    PROVE  LET s == SkippedTo(stations[Target(k)], calls[k].track)
           IN  /\ Puts(Target(k), s, {})
               /\ GoneFrom(s, Pending(Target(k)) \ {t \in Tracks : Contains(s.queue, t)})
<1>1. /\ Target(k) \in Stations
      /\ stations[Target(k)] \in StationStates /\ OnePlace(stations[Target(k)])
  BY TargetOf DEF SkipToTrack
<1> DEFINE s == SkippedTo(stations[Target(k)], calls[k].track)
<1>2. stations' = [stations EXCEPT ![Target(k)] = s]
  BY DEF SkipToTrack, Becomes
<1>3. /\ s \in StationStates /\ OnePlace(s) /\ Onward(stations[Target(k)], s)
      /\ s.accepted = stations[Target(k)].accepted
      /\ \A t \in Tracks : Contains(stations[Target(k)].queue, t) /\ ~Contains(s.queue, t)
                              => t \in s.accepted /\ Rank(s, t) = 4
  BY <1>1, SkippedToOnward
<1> HIDE DEF s
<1>4. GoneFrom(s, Pending(Target(k)) \ {t \in Tracks : Contains(s.queue, t)})
  BY <1>3 DEF GoneFrom, Pending
<1>5. Puts(Target(k), s, {})
  BY <1>1, <1>2, <1>3 DEF Puts
<1> QED
  BY <1>4, <1>5 DEF s

LEMMA PlayerPuts ==
    ASSUME Sound, NEW n \in Stations, PlayerStep(n)
    PROVE  \E s : Puts(n, s, {})
<1>1. stations[n] \in StationStates /\ OnePlace(stations[n])
  BY DEF Sound, Typed, Sorted
<1>2. PICK s \in PlayerMoves(stations[n]) : stations' = [stations EXCEPT ![n] = s]
  BY DEF PlayerStep
<1>3. s \in StationStates /\ OnePlace(s) /\ Onward(stations[n], s) /\ s.accepted = stations[n].accepted
  BY <1>1, PlayerMovesOnward
<1> QED
  BY <1>2, <1>3 DEF Puts

(* A handler changes one station, or none.                                 *)
LEMMA HandlersPut ==
    ASSUME Sound, NEW k \in DOMAIN calls, HandlerStep(k)
    PROVE  \/ stations' = stations
           \/ \E n, s : Puts(n, s, {})
           \/ QueueTrack(k) /\ \E n, s : Puts(n, s, {k})
<1>1. CASE QueueTrack(k) \/ RemoveFromQueue(k) \/ ClearQueue(k) \/ SkipToTrack(k)
  BY <1>1, QueueTrackPuts, RemovePuts, ClearPuts, SkipToPuts
<1>2. CASE Refuse(k) \/ NotRegistered(k) \/ Admit(k) \/ SteerCurrent(k) \/ GetStatus(k)
           \/ NowPlaying(k) \/ NowPlayingRefused(k) \/ ReadCurrent(k) \/ ReadQueue(k)
           \/ ReadHistory(k) \/ LookAround(k) \/ ListDirectory(k)
  BY <1>2 DEF Refuse, NotRegistered, Admit, SteerCurrent, GetStatus, NowPlaying,
     NowPlayingRefused, ReadCurrent, ReadQueue, ReadHistory, LookAround, ListDirectory,
     LookedUp, See, serverVars
<1>3. CASE RegisterStation(k) \/ UnregisterStation(k) \/ StopPlayer(k)
  BY <1>3 DEF RegisterStation, UnregisterStation, StopPlayer
<1> QED
  BY <1>1, <1>2, <1>3 DEF HandlerStep

Advances ==
    /\ stations' \in [Stations -> StationStates]
    /\ \A n \in Stations : OnePlace(stations'[n]) /\ Onward(stations[n], stations'[n])

LEMMA PutAdvances ==
    ASSUME Sound, stations' = stations \/ \E n, s, new : Puts(n, s, new)
    PROVE  Advances
<1>1. stations \in [Stations -> StationStates] /\ \A n \in Stations : OnePlace(stations[n])
  BY DEF Sound, Typed, Sorted
<1>2. CASE stations' = stations
  BY <1>1, <1>2, OnwardSame DEF Advances
<1>3. CASE \E n, s, new : Puts(n, s, new)
  <2>1. PICK n, s, new : Puts(n, s, new)
    BY <1>3
  <2>2. /\ stations' \in [Stations -> StationStates] /\ stations'[n] = s
        /\ \A m \in Stations \ {n} : stations'[m] = stations[m]
    BY <1>1, <2>1 DEF Puts
  <2> QED
    BY <1>1, <2>1, <2>2, OnwardSame DEF Puts, Advances
<1> QED
  BY <1>2, <1>3

(* What a call does not accept leaves every track with its station.        *)
LEMMA SortedFrom ==
    ASSUME Sound, NEW new \in SUBSET DOMAIN calls,
           stations' = stations \/ \E n, s : Puts(n, s, new),
           \A t \in DOMAIN calls : calls[t].at = "done" =>
               t \in DOMAIN calls' /\ calls'[t].at = "done",
           \A t \in new : calls[t].at # "done" /\ t \in DOMAIN calls' /\ calls'[t].at = "done"
    PROVE  Sorted'
<1>1. Advances
  BY PutAdvances
<1>2. /\ stations \in [Stations -> StationStates]
      /\ \A n \in Stations : \A t \in stations[n].accepted : t \in DOMAIN calls /\ calls[t].at = "done"
      /\ \A m, n \in Stations : m # n => stations[m].accepted \intersect stations[n].accepted = {}
  BY DEF Sound, Typed, Sorted
<1>3. PICK n : \A m \in Stations :
          stations'[m].accepted = stations[m].accepted \union (IF m = n THEN new ELSE {})
               \/ stations'[m].accepted = stations[m].accepted
  <2>1. CASE stations' = stations
    BY <2>1
  <2>2. CASE \E n, s : Puts(n, s, new)
    <3>1. PICK n, s : Puts(n, s, new)
      BY <2>2
    <3>2. n \in Stations /\ stations'[n] = s /\ \A m \in Stations \ {n} : stations'[m] = stations[m]
      BY <1>2, <3>1 DEF Puts
    <3>3. s.accepted = stations[n].accepted \union new
      BY <3>1 DEF Puts
    <3> QED
      BY <3>2, <3>3
  <2> QED
    BY <2>1, <2>2
<1>4. ASSUME NEW m \in Stations, NEW t \in stations'[m].accepted
      PROVE  t \in stations[m].accepted \/ (m = n /\ t \in new)
  BY <1>3
<1>5. \A m \in Stations : \A t \in stations'[m].accepted : t \in DOMAIN calls' /\ calls'[t].at = "done"
  BY <1>2, <1>4
<1>6. ASSUME NEW m \in Stations, NEW l \in Stations, m # l,
             NEW t \in stations'[m].accepted, t \in stations'[l].accepted
      PROVE  FALSE
  BY <1>2, <1>4, <1>6
<1>7. \A m, l \in Stations : m # l => stations'[m].accepted \intersect stations'[l].accepted = {}
  BY <1>6
<1> QED
  BY <1>1, <1>5, <1>7 DEF Sorted, Advances

LEMMA SortedWithout ==
    ASSUME Sound, stations' = stations \/ \E n, s : Puts(n, s, {}),
           \A t \in DOMAIN calls : t \in DOMAIN calls' /\ calls'[t] = calls[t]
    PROVE  Sorted' /\ Advances
<1>1. \A t \in DOMAIN calls : calls[t].at = "done" =>
         t \in DOMAIN calls' /\ calls'[t].at = "done"
  OBVIOUS
<1>2. Advances
  BY PutAdvances
<1>3. {} \in SUBSET DOMAIN calls /\ \A t \in {} : calls[t].at # "done" /\ t \in DOMAIN calls'
                                                  /\ calls'[t].at = "done"
  OBVIOUS
<1> QED
  BY <1>1, <1>2, <1>3, SortedFrom

LEMMA SortedStays ==
    ASSUME Sound, [ControlNext]_vars
    PROVE  Sorted' /\ Advances
<1>0. Typed
  BY DEF Sound
<1>1. CASE UNCHANGED vars
  <2>1. stations' = stations /\ calls' = calls
    BY <1>1 DEF vars, serverVars
  <2> QED
    BY <2>1, SortedWithout
<1>2. ASSUME NEW r, Makes(r) PROVE Sorted' /\ Advances
  <2>1. stations' = stations /\ calls' = Append(calls, r)
        /\ calls \in Seq(CallRecords \union {Finished}) /\ r \in CallRecords \union {Finished}
    BY <1>2 DEF Makes, serverVars, Sound, Typed
  <2>2. \A t \in DOMAIN calls : t \in DOMAIN calls' /\ calls'[t] = calls[t]
    BY <2>1, AddOne
  <2> QED
    BY <2>1, <2>2, SortedWithout
<1>3. ASSUME NEW c \in Callers, GiveUp(c) PROVE Sorted' /\ Advances
  <2>1. stations' = stations /\ calls' = calls
    BY <1>3 DEF GiveUp, serverVars
  <2> QED
    BY <2>1, SortedWithout
<1>4. ASSUME NEW k \in DOMAIN calls, HandlerStep(k) PROVE Sorted' /\ Advances
  <2>1. /\ calls[k].at # "done" /\ calls[k] \in CallRecords
        /\ stations' = stations \/ (\E n, s : Puts(n, s, {}))
             \/ (QueueTrack(k) /\ \E n, s : Puts(n, s, {k}))
    BY <1>0, <1>4, HandlersWork, HandlersPut
  <2>2. /\ DOMAIN calls' = DOMAIN calls
        /\ \A j \in DOMAIN calls \ {k} : calls'[j] = calls[j]
    BY <1>0, <1>4, <2>1, HandlersGo, OneCallChanges
  <2>3. CASE stations' = stations \/ \E n, s : Puts(n, s, {})
    BY <2>1, <2>2, <2>3, PutAdvances, SortedFrom
  <2>4. CASE QueueTrack(k) /\ \E n, s : Puts(n, s, {k})
    <3>1. Done(k)
      BY <2>4 DEF QueueTrack, Answer
    <3>2. calls'[k] = Finished /\ Finished.at = "done"
      BY <1>0, <3>1 DEF Done, Typed, Finished
    <3> QED
      BY <2>1, <2>2, <2>4, <3>2, PutAdvances, SortedFrom
  <2> QED
    BY <2>1, <2>3, <2>4
<1>5. ASSUME NEW n \in Stations, PlayerStep(n) PROVE Sorted' /\ Advances
  <2>1. calls' = calls /\ \E s : Puts(n, s, {})
    BY <1>5, PlayerPuts DEF PlayerStep
  <2> QED
    BY <2>1, SortedWithout
<1> QED
  BY <1>0, <1>1, <1>2, <1>3, <1>4, <1>5, StepsAre

LEMMA RankIs == \A s, t : Rank(s, t) \in 1..4
BY DEF Rank

LEMMA AtLeastStays ==
    ASSUME Sound, Advances, NEW r \in 1..4, NEW t, AtLeast(r, t)
    PROVE  AtLeast(r, t)'
<1>1. PICK n \in Stations : t \in stations[n].accepted /\ r <= Rank(stations[n], t)
  BY DEF AtLeast
<1>2. t \in stations'[n].accepted /\ Rank(stations[n], t) <= Rank(stations'[n], t)
  BY <1>1 DEF Advances, Onward
<1>3. r <= Rank(stations'[n], t)
  <2>1. Rank(stations[n], t) \in 1..4 /\ Rank(stations'[n], t) \in 1..4
    BY RankIs
  <2> QED
    BY <1>1, <1>2, <2>1
<1> QED
  BY <1>2, <1>3 DEF AtLeast

(* A track is accepted by one station, so it has one rank.                 *)
LEMMA OneRank ==
    ASSUME Sorted, NEW n \in Stations, NEW r, NEW t \in stations[n].accepted, AtLeast(r, t)
    PROVE  r <= Rank(stations[n], t)
BY DEF Sorted, AtLeast

-----------------------------------------------------------------------------
(* Every variable keeps its type.                                          *)

LEMMA MakesTyped ==
    ASSUME Typed, NEW r, Makes(r)
    PROVE  Typed'
<1>1. /\ calls \in Seq(CallRecords \union {Finished}) /\ r \in CallRecords
      /\ r \in CallRecords \union {Finished} /\ calls' = Append(calls, r)
      /\ Len(calls) < MaxCalls /\ MaxCalls \in Nat
  BY ControlPlaneAssumption DEF Typed, Makes
<1>2. /\ calls' \in Seq(CallRecords \union {Finished}) /\ Len(calls') = Len(calls) + 1
      /\ DOMAIN calls = 1..Len(calls) /\ DOMAIN calls' = 1..(Len(calls) + 1) /\ Len(calls) \in Nat
      /\ calls'[Len(calls) + 1] = r /\ \A j \in DOMAIN calls : calls'[j] = calls[j]
  BY <1>1, AddOne
<1>3. Len(calls') <= MaxCalls /\ Len(calls) + 1 \in 0..MaxCalls
  BY <1>1, <1>2
<1>4. waits' \in [Callers -> 0..MaxCalls] /\ DOMAIN listing' = Callers
  BY <1>3 DEF Makes, Typed
<1>5. ASSUME NEW k \in DOMAIN calls', calls'[k].at \in Steps \ {"arrived"}
      PROVE  calls'[k].on \in Stations
  <2>1. k # Len(calls) + 1
    BY <1>2, <1>5 DEF Makes
  <2>2. k \in DOMAIN calls /\ calls'[k] = calls[k]
    BY <1>2, <2>1
  <2> QED
    BY <1>5, <2>2 DEF Typed
<1>6. UNCHANGED <<made, registered, stations, token, shown, toldGone>>
  BY DEF Makes, serverVars
<1> QED
  BY <1>2, <1>3, <1>4, <1>5, <1>6 DEF Typed

LEMMA RegistryChanges ==
    ASSUME NEW k, HandlerStep(k)
    PROVE  UNCHANGED <<registered, made>> \/ RegisterStation(k) \/ UnregisterStation(k)
<1>1. CASE Refuse(k) \/ NotRegistered(k) \/ Admit(k) \/ SteerCurrent(k) \/ GetStatus(k)
           \/ NowPlaying(k) \/ NowPlayingRefused(k) \/ ReadCurrent(k) \/ ReadQueue(k)
           \/ ReadHistory(k) \/ LookAround(k) \/ ListDirectory(k) \/ StopPlayer(k)
  BY <1>1 DEF Refuse, NotRegistered, Admit, SteerCurrent, GetStatus, NowPlaying,
     NowPlayingRefused, ReadCurrent, ReadQueue, ReadHistory, LookAround, ListDirectory,
     StopPlayer, LookedUp, See, serverVars
<1>2. CASE QueueTrack(k) \/ RemoveFromQueue(k) \/ ClearQueue(k) \/ SkipToTrack(k)
  BY <1>2 DEF QueueTrack, RemoveFromQueue, ClearQueue, SkipToTrack, Becomes
<1> QED
  BY <1>1, <1>2 DEF HandlerStep

LEMMA HandlersTyped ==
    ASSUME Typed, Advances, NEW k \in DOMAIN calls, HandlerStep(k)
    PROVE  Typed'
<1>1. /\ calls[k] \in CallRecords /\ token' = token
      /\ Done(k) \/ \E e : Goes(k, e)
      /\ calls[k].by \in Callers /\ calls[k].slug \in Slugs
      /\ MaxStations \in Nat
  BY HandlersWork, HandlersGo, ControlPlaneAssumption DEF CallRecords
<1>2. /\ calls' \in Seq(CallRecords \union {Finished}) /\ Len(calls') = Len(calls)
      /\ DOMAIN calls' = DOMAIN calls
      /\ \A j \in DOMAIN calls \ {k} : calls'[j] = calls[j]
      /\ calls'[k] = Finished \/ Goes(k, calls'[k])
      /\ waits' \in [Callers -> 0..MaxCalls]
  BY <1>1, OneCallChanges
<1>3. ASSUME NEW j \in DOMAIN calls', calls'[j].at \in Steps \ {"arrived"}
      PROVE  calls'[j].on \in Stations
  <2>1. CASE j # k
    BY <1>2, <1>3, <2>1 DEF Typed
  <2>2. CASE j = k
    BY <1>2, <1>3, <2>2 DEF Goes, Finished, Steps
  <2> QED
    BY <2>1, <2>2
<1>4. /\ made' \in Seq(Slugs) /\ Len(made') \in 1..MaxStations
      /\ registered' \in [Slugs -> Stations \union {Nothing}]
  <2>1. /\ made \in Seq(Slugs) /\ Len(made) \in 1..MaxStations
        /\ registered \in [Slugs -> Stations \union {Nothing}]
    BY DEF Typed
  <2>2. CASE UNCHANGED <<registered, made>>
    BY <2>1, <2>2
  <2>3. CASE RegisterStation(k) /\ ~UNCHANGED <<registered, made>>
    <3>1. /\ Len(made) < MaxStations /\ made' = Append(made, calls[k].slug)
          /\ registered' = [registered EXCEPT ![calls[k].slug] = Len(made')]
      BY <2>3 DEF RegisterStation
    <3>2. made' \in Seq(Slugs) /\ Len(made') = Len(made) + 1
      BY <1>1, <2>1, <3>1
    <3>3. Len(made') \in 1..MaxStations
      BY <1>1, <2>1, <3>1, <3>2
    <3> QED
      BY <1>1, <2>1, <3>1, <3>2, <3>3 DEF Stations
  <2>4. CASE UnregisterStation(k)
    BY <1>1, <2>1, <2>4 DEF UnregisterStation
  <2>5. UNCHANGED <<registered, made>> \/ RegisterStation(k) \/ UnregisterStation(k)
    BY RegistryChanges
  <2> QED
    BY <2>2, <2>3, <2>4, <2>5
<1>5. DOMAIN listing' = Callers /\ shown' \in [Callers -> Parts] /\ toldGone' \in SUBSET Tracks
  <2>1. DOMAIN listing = Callers /\ shown \in [Callers -> Parts] /\ toldGone \in SUBSET Tracks
    BY DEF Typed
  <2>2. CASE Refuse(k) \/ NotRegistered(k) \/ Admit(k) \/ SteerCurrent(k) \/ GetStatus(k)
             \/ NowPlaying(k) \/ NowPlayingRefused(k) \/ ReadCurrent(k) \/ ReadQueue(k)
             \/ LookAround(k) \/ QueueTrack(k) \/ UnregisterStation(k)
    BY <2>1, <2>2 DEF Refuse, NotRegistered, Admit, SteerCurrent, GetStatus, NowPlaying,
       NowPlayingRefused, ReadCurrent, ReadQueue, LookAround, QueueTrack, UnregisterStation,
       LookedUp, See, Answer, clientVars
  <2>3. CASE RegisterStation(k) \/ StopPlayer(k)
    BY <2>1, <2>3 DEF RegisterStation, StopPlayer
  <2>4. CASE RemoveFromQueue(k) \/ ClearQueue(k) \/ SkipToTrack(k)
    <3>1. PICK gone \in SUBSET Tracks : TellGone(k, gone)
      <4>1. CASE RemoveFromQueue(k)
        BY <4>1 DEF RemoveFromQueue, Removed, Pending
      <4>2. CASE ClearQueue(k)
        BY <4>2 DEF ClearQueue, Pending
      <4>3. CASE SkipToTrack(k)
        BY <4>3 DEF SkipToTrack, Pending
      <4> QED
        BY <2>4, <4>1, <4>2, <4>3
    <3> QED
      BY <2>1, <3>1 DEF TellGone
  <2>5. CASE ReadHistory(k)
    <3> DEFINE c == calls[k]
               history == IF c.op = "PublicNowPlaying" THEN <<>> ELSE stations[c.on].history
    <3>1. c.on \in Stations /\ c.seen \in Parts
      BY <1>1, <2>5 DEF ReadHistory, Typed, CallRecords, Steps
    <3>2. history \in Seq(Tracks)
      BY <3>1 DEF Typed, StationStates
    <3>3. [c.seen EXCEPT !.history = history] \in Parts
      BY <3>1, <3>2 DEF Parts
    <3>4. shown' = IF Waiting(k) THEN [shown EXCEPT ![c.by] = [c.seen EXCEPT !.history = history]]
                   ELSE shown
      BY <2>5 DEF ReadHistory
    <3>5. listing' = listing /\ toldGone' = toldGone
      BY <2>5 DEF ReadHistory
    <3> HIDE DEF history
    <3> QED
      BY <1>1, <2>1, <3>3, <3>4, <3>5
  <2>6. CASE ListDirectory(k)
    <3>1. shown' = shown /\ toldGone' = toldGone /\ DOMAIN listing' = DOMAIN listing
      BY <2>6 DEF ListDirectory
    <3> QED
      BY <2>1, <3>1
  <2> QED
    BY <2>2, <2>3, <2>4, <2>5, <2>6 DEF HandlerStep
<1> QED
  BY <1>1, <1>2, <1>3, <1>4, <1>5 DEF Typed, Advances

LEMMA TypedStays ==
    ASSUME Sound, [ControlNext]_vars
    PROVE  Typed'
<1>1. Typed /\ Advances
  BY SortedStays DEF Sound
<1>2. CASE UNCHANGED vars
  BY <1>1, <1>2 DEF Typed, vars, serverVars, clientVars
<1>3. ASSUME NEW c \in Callers, GiveUp(c) PROVE Typed'
  <2>1. waits' \in [Callers -> 0..MaxCalls]
    BY <1>1, <1>3, ControlPlaneAssumption DEF GiveUp, Typed, Nothing
  <2>2. UNCHANGED <<serverVars, token, calls, known, listing, shown, toldGone>>
    BY <1>3 DEF GiveUp
  <2> QED
    BY <1>1, <2>1, <2>2 DEF Typed, serverVars
<1>4. ASSUME NEW n \in Stations, PlayerStep(n) PROVE Typed'
  <2>1. stations' \in [Stations -> StationStates]
    BY <1>1 DEF Advances
  <2>2. UNCHANGED <<registered, made, stopped, token, calls, clientVars>>
    BY <1>4 DEF PlayerStep
  <2> QED
    BY <1>1, <2>1, <2>2 DEF Typed, clientVars
<1> QED
  BY <1>1, <1>2, <1>3, <1>4, MakesTyped, HandlersTyped, StepsAre

-----------------------------------------------------------------------------
(* The registry and the calls that passed the checks.                      *)

LEMMA RegistryHolds ==
    ASSUME Typed, FromTheRegistry, NEW k \in DOMAIN calls, HandlerStep(k)
    PROVE  /\ \A n \in 1..Len(made) : n \in 1..Len(made') /\ made'[n] = made[n]
           /\ \A s \in Slugs : registered'[s] # Nothing =>
                 registered'[s] \in 1..Len(made') /\ made'[registered'[s]] = s
<1>1. /\ made \in Seq(Slugs) /\ registered \in [Slugs -> Stations \union {Nothing}]
      /\ calls[k].slug \in Slugs
      /\ \A s \in Slugs : registered[s] # Nothing =>
            registered[s] \in 1..Len(made) /\ made[registered[s]] = s
  BY HandlersWork DEF Typed, FromTheRegistry, CallRecords
<1>2. CASE UNCHANGED <<registered, made>>
  BY <1>1, <1>2
<1>3. CASE RegisterStation(k) /\ ~UNCHANGED <<registered, made>>
  <2>1. /\ made' = Append(made, calls[k].slug)
        /\ registered' = [registered EXCEPT ![calls[k].slug] = Len(made')]
    BY <1>3 DEF RegisterStation
  <2>2. /\ made' \in Seq(Slugs) /\ Len(made') = Len(made) + 1 /\ Len(made) \in Nat
        /\ made'[Len(made) + 1] = calls[k].slug
        /\ \A n \in 1..Len(made) : made'[n] = made[n]
    BY <1>1, <2>1
  <2>3. registered'[calls[k].slug] = Len(made) + 1
        /\ \A s \in Slugs \ {calls[k].slug} : registered'[s] = registered[s]
    BY <1>1, <2>1, <2>2
  <2>4. \A n \in 1..Len(made) : n \in 1..Len(made')
    BY <2>2
  <2>5. Len(made) + 1 \in 1..Len(made')
    BY <2>2
  <2> QED
    BY <1>1, <2>2, <2>3, <2>4, <2>5
<1>4. CASE UnregisterStation(k)
  BY <1>1, <1>4 DEF UnregisterStation
<1> QED
  BY <1>2, <1>3, <1>4, RegistryChanges

LEMMA FromTheRegistryStays ==
    ASSUME Sound, FromTheRegistry, [ControlNext]_vars
    PROVE  FromTheRegistry'
<1>0. Typed
  BY DEF Sound
<1>1. CASE UNCHANGED vars
  BY <1>1 DEF FromTheRegistry, vars, serverVars
<1>2. ASSUME NEW r, Makes(r) PROVE FromTheRegistry'
  <2>1. /\ calls \in Seq(CallRecords \union {Finished}) /\ r \in CallRecords \union {Finished}
        /\ calls' = Append(calls, r) /\ registered' = registered /\ made' = made
        /\ r.at = "arrived"
    BY <1>0, <1>2 DEF Makes, Typed, serverVars
  <2>2. /\ DOMAIN calls = 1..Len(calls) /\ DOMAIN calls' = 1..(Len(calls) + 1) /\ Len(calls) \in Nat
        /\ calls'[Len(calls) + 1] = r /\ \A j \in DOMAIN calls : calls'[j] = calls[j]
    BY <2>1, AddOne
  <2>3. \A j \in DOMAIN calls' : calls'[j].at = "operate" =>
           j \in DOMAIN calls /\ calls'[j] = calls[j]
    BY <2>1, <2>2
  <2> QED
    BY <2>1, <2>3 DEF FromTheRegistry
<1>3. ASSUME NEW c \in Callers, GiveUp(c) PROVE FromTheRegistry'
  BY <1>3 DEF GiveUp, FromTheRegistry, serverVars
<1>4. ASSUME NEW n \in Stations, PlayerStep(n) PROVE FromTheRegistry'
  BY <1>4 DEF PlayerStep, FromTheRegistry
<1>5. ASSUME NEW k \in DOMAIN calls, HandlerStep(k) PROVE FromTheRegistry'
  <2>1. /\ calls[k] \in CallRecords /\ (Done(k) \/ \E e : Goes(k, e))
        /\ \A n \in 1..Len(made) : n \in 1..Len(made') /\ made'[n] = made[n]
        /\ \A s \in Slugs : registered'[s] # Nothing =>
                 registered'[s] \in 1..Len(made') /\ made'[registered'[s]] = s
    BY <1>0, <1>5, HandlersWork, HandlersGo, RegistryHolds
  <2>2. /\ DOMAIN calls' = DOMAIN calls
        /\ \A j \in DOMAIN calls \ {k} : calls'[j] = calls[j]
        /\ calls'[k] = Finished \/ Goes(k, calls'[k])
    BY <1>0, <2>1, OneCallChanges
  <2>3. ASSUME calls'[k].at = "operate"
        PROVE  /\ calls'[k].on \in 1..Len(made) /\ made[calls'[k].on] = calls'[k].slug
               /\ RequireSlug(calls'[k].claims, calls'[k].slug) /\ RequireWrite(calls'[k].claims)
    <3>1. Goes(k, calls'[k])
      BY <2>2, <2>3 DEF Finished
    <3>2. Admit(k)
      BY <1>0, <1>5, <2>3, WhereNext
    <3>3. /\ calls'[k].on = registered[calls[k].slug] /\ registered[calls[k].slug] # Nothing
          /\ calls[k].slug \in Slugs
      <4>1. PICK e : Goes(k, e) /\ e.on = registered[calls[k].slug]
        BY <1>0, <3>2, AdmitGoes
      <4>2. calls'[k] = e
        BY <1>0, <4>1 DEF Goes, Typed
      <4> QED
        BY <2>1, <3>2, <4>1, <4>2 DEF Admit, LookedUp, CallRecords
    <3>4. RequireSlug(calls[k].claims, calls[k].slug) /\ RequireWrite(calls[k].claims)
      BY <3>2 DEF Admit, Arrived, Permitted
    <3>5. calls'[k].slug = calls[k].slug /\ calls'[k].claims = calls[k].claims
      BY <3>1 DEF Goes
    <3> QED
      BY <3>3, <3>4, <3>5 DEF FromTheRegistry
  <2>4. ASSUME NEW j \in DOMAIN calls', calls'[j].at = "operate"
        PROVE  /\ calls'[j].on \in 1..Len(made') /\ made'[calls'[j].on] = calls'[j].slug
               /\ RequireSlug(calls'[j].claims, calls'[j].slug) /\ RequireWrite(calls'[j].claims)
    <3>1. CASE j = k
      BY <2>1, <2>3, <2>4, <3>1
    <3>2. CASE j # k
      <4>1. j \in DOMAIN calls /\ calls'[j] = calls[j]
        BY <2>2, <3>2
      <4>2. /\ calls[j].on \in 1..Len(made) /\ made[calls[j].on] = calls[j].slug
            /\ RequireSlug(calls[j].claims, calls[j].slug) /\ RequireWrite(calls[j].claims)
        BY <2>4, <4>1 DEF FromTheRegistry
      <4> QED
        BY <2>1, <4>1, <4>2
    <3> QED
      BY <3>1, <3>2
  <2> QED
    BY <2>1, <2>4 DEF FromTheRegistry
<1> QED
  BY <1>0, <1>1, <1>2, <1>3, <1>4, <1>5, StepsAre

(* A station is moved by its player, or by the call that has it as target. *)
Changes(k) == QueueTrack(k) \/ RemoveFromQueue(k) \/ ClearQueue(k) \/ SkipToTrack(k)

LEMMA StationChanges ==
    ASSUME Typed, [ControlNext]_vars, NEW n \in Stations, stations'[n] # stations[n]
    PROVE  \/ stations'[n] \in PlayerMoves(stations[n])
           \/ \E k \in DOMAIN calls : Changes(k) /\ calls[k].at = "operate" /\ calls[k].on = n
<1>1. ASSUME NEW m \in Stations, PlayerStep(m) PROVE stations'[n] \in PlayerMoves(stations[n])
  <2>1. PICK s \in PlayerMoves(stations[m]) : stations' = [stations EXCEPT ![m] = s]
    BY <1>1 DEF PlayerStep
  <2>2. stations'[n] = IF n = m THEN s ELSE stations[n]
    BY <2>1 DEF Typed
  <2> QED
    BY <2>1, <2>2
<1>2. ASSUME NEW k \in DOMAIN calls, HandlerStep(k)
      PROVE  Changes(k) /\ calls[k].at = "operate" /\ calls[k].on = n
  <2>1. Changes(k)
    <3>1. CASE Refuse(k) \/ NotRegistered(k) \/ Admit(k) \/ SteerCurrent(k) \/ GetStatus(k)
               \/ NowPlaying(k) \/ NowPlayingRefused(k) \/ ReadCurrent(k) \/ ReadQueue(k)
               \/ ReadHistory(k) \/ LookAround(k) \/ ListDirectory(k)
      BY <3>1 DEF Refuse, NotRegistered, Admit, SteerCurrent, GetStatus, NowPlaying,
         NowPlayingRefused, ReadCurrent, ReadQueue, ReadHistory, LookAround, ListDirectory,
         LookedUp, See, serverVars
    <3>2. CASE RegisterStation(k) \/ UnregisterStation(k) \/ StopPlayer(k)
      BY <3>2 DEF RegisterStation, UnregisterStation, StopPlayer
    <3> QED
      BY <1>2, <3>1, <3>2 DEF HandlerStep, Changes
  <2>2. calls[k].at = "operate" /\ \E s : stations' = [stations EXCEPT ![calls[k].on] = s]
    BY <2>1 DEF Changes, QueueTrack, RemoveFromQueue, ClearQueue, SkipToTrack, Operates,
       Becomes, Target
  <2> QED
    BY <2>1, <2>2 DEF Typed
<1>3. (\E r : Makes(r)) \/ (\E c \in Callers : GiveUp(c)) \/ UNCHANGED vars => stations' = stations
  BY DEF Makes, GiveUp, vars, serverVars
<1> QED
  BY <1>1, <1>2, <1>3, StepsAre

LEMMA ChangeIsAuthorized ==
    ASSUME Sound, FromTheRegistry, [ControlNext]_vars, NEW n \in Stations
    PROVE  \/ stations'[n] \in {stations[n]} \union PlayerMoves(stations[n])
           \/ \E k \in DOMAIN calls :
                 /\ calls[k].at = "operate" /\ calls[k].on = n
                 /\ made[n] \in calls[k].claims.slugs
                 /\ calls[k].claims.valid /\ ~calls[k].claims.readOnly
<1>1. ASSUME NEW k \in DOMAIN calls, calls[k].at = "operate", calls[k].on = n
      PROVE  /\ made[n] \in calls[k].claims.slugs
             /\ calls[k].claims.valid /\ ~calls[k].claims.readOnly
  BY <1>1 DEF FromTheRegistry, RequireSlug, RequireWrite, HasSlug, Authenticated
<1> QED
  BY <1>1, StationChanges DEF Sound

(* What a call does to its target is a move of StationContract.            *)
LEMMA ChangesKeepContract ==
    ASSUME Sound, NEW k \in DOMAIN calls, Changes(k), NEW n \in Stations,
           calls[k].at = "operate", calls[k].on = n, stations'[n] # stations[n]
    PROVE  stations'[n] \in HandlerMoves(stations[n])
<1>1. /\ stations \in [Stations -> StationStates] /\ OnePlace(stations[n]) /\ Target(k) = n
      /\ calls[k].at # "done" /\ calls[k] \in CallRecords /\ k \in Tracks
  BY AtWork DEF Sound, Typed, Sorted, Target
<1>2. CASE QueueTrack(k)
  <2>1. stations'[n] = Queued(stations[n], k, calls[k].mode)
    BY <1>1, <1>2 DEF QueueTrack, Becomes
  <2>2. k \in Tracks \ stations[n].accepted /\ calls[k].mode \in {"Append", "PlayNext"}
    BY <1>1 DEF CallRecords, Sound, Sorted
  <2> QED
    BY <2>1, <2>2 DEF HandlerMoves
<1>3. ASSUME NEW t, Contains(stations[n].queue, t) PROVE t \in stations[n].accepted
  BY <1>1, <1>3 DEF StationStates, OnePlace, Contains
<1>4. CASE RemoveFromQueue(k)
  <2>1. stations'[n] = TakenOut(stations[n], calls[k].track)
    BY <1>1, <1>4 DEF RemoveFromQueue, Becomes
  <2>2. calls[k].track \in stations[n].accepted
    BY <1>3, <2>1 DEF TakenOut
  <2> QED
    BY <2>1, <2>2 DEF HandlerMoves
<1>5. CASE SkipToTrack(k)
  <2>1. stations'[n] = SkippedTo(stations[n], calls[k].track)
    BY <1>1, <1>5 DEF SkipToTrack, Becomes
  <2>2. calls[k].track \in stations[n].accepted
    BY <1>3, <2>1 DEF SkippedTo
  <2> QED
    BY <2>1, <2>2 DEF HandlerMoves
<1>6. CASE ClearQueue(k)
  <2>1. stations'[n] = Emptied(stations[n])
    BY <1>1, <1>6 DEF ClearQueue, Becomes
  <2> QED
    BY <2>1 DEF HandlerMoves
<1> QED
  BY <1>2, <1>4, <1>5, <1>6 DEF Changes

-----------------------------------------------------------------------------
(* What callers were told.                                                 *)

LEMMA ToldAfter ==
    ASSUME Sound, Told, Advances, NEW gone \in SUBSET Tracks, NEW n, NEW s, Puts(n, s, {}),
           GoneFrom(s, gone), toldGone' \subseteq toldGone \union gone
    PROVE  Told'
<1>1. n \in Stations /\ stations'[n] = s
  BY DEF Puts, Sound, Typed
<1>2. SUFFICES ASSUME NEW t \in toldGone' PROVE AtLeast(4, t)'
  BY DEF Told
<1>3. CASE t \in toldGone
  BY <1>3, AtLeastStays DEF Told
<1>4. CASE t \in gone
  BY <1>1, <1>4 DEF GoneFrom, AtLeast
<1> QED
  BY <1>3, <1>4

LEMMA ToldStays ==
    ASSUME Sound, Told, [ControlNext]_vars
    PROVE  Told'
<1>0. Typed /\ Advances
  BY SortedStays DEF Sound
<1>1. CASE toldGone' = toldGone
  BY <1>0, <1>1, AtLeastStays DEF Told
<1>2. (\E r : Makes(r)) \/ (\E c \in Callers : GiveUp(c)) \/ (\E n \in Stations : PlayerStep(n))
         \/ UNCHANGED vars => toldGone' = toldGone
  BY DEF Makes, GiveUp, PlayerStep, vars, clientVars
<1>3. ASSUME NEW k \in DOMAIN calls, HandlerStep(k) PROVE Told'
  <2>1. CASE Refuse(k) \/ NotRegistered(k) \/ Admit(k) \/ SteerCurrent(k) \/ GetStatus(k)
             \/ NowPlaying(k) \/ NowPlayingRefused(k) \/ ReadCurrent(k) \/ ReadQueue(k)
             \/ LookAround(k) \/ QueueTrack(k) \/ UnregisterStation(k)
    BY <1>1, <2>1 DEF Refuse, NotRegistered, Admit, SteerCurrent, GetStatus, NowPlaying,
       NowPlayingRefused, ReadCurrent, ReadQueue, LookAround, QueueTrack, UnregisterStation,
       LookedUp, See, Answer, clientVars
  <2>2. CASE RegisterStation(k) \/ StopPlayer(k) \/ ReadHistory(k) \/ ListDirectory(k)
    BY <1>1, <2>2 DEF RegisterStation, StopPlayer, ReadHistory, ListDirectory
  <2>3. ASSUME NEW gone \in SUBSET Tracks, TellGone(k, gone), NEW s, NEW n, Puts(n, s, {}),
               GoneFrom(s, gone)
        PROVE  Told'
    <3>1. toldGone' \subseteq toldGone \union gone
      BY <2>3 DEF TellGone
    <3> QED
      BY <1>0, <2>3, <3>1, ToldAfter
  <2>4. CASE RemoveFromQueue(k)
    <3>1. TellGone(k, Removed(Target(k), calls[k].track))
          /\ Removed(Target(k), calls[k].track) \in SUBSET Tracks
      BY <2>4 DEF RemoveFromQueue, Removed, Pending
    <3> QED
      BY <2>3, <2>4, <3>1, RemovePuts
  <2>5. CASE ClearQueue(k)
    <3>1. TellGone(k, Pending(Target(k))) /\ Pending(Target(k)) \in SUBSET Tracks
      BY <2>5 DEF ClearQueue, Pending
    <3> QED
      BY <2>3, <2>5, <3>1, ClearPuts
  <2>6. CASE SkipToTrack(k)
    <3> DEFINE s == SkippedTo(stations[Target(k)], calls[k].track)
               gone == Pending(Target(k)) \ {t \in Tracks : Contains(s.queue, t)}
    <3>1. TellGone(k, gone) /\ gone \in SUBSET Tracks
      BY <2>6 DEF SkipToTrack, Pending
    <3>2. Puts(Target(k), s, {}) /\ GoneFrom(s, gone)
      BY <2>6, SkipToPuts
    <3> QED
      BY <2>3, <3>1, <3>2
  <2> QED
    BY <1>3, <2>1, <2>2, <2>4, <2>5, <2>6 DEF HandlerStep
<1> QED
  BY <1>0, <1>1, <1>2, <1>3, StepsAre

(* A track that is gone is nowhere.                                        *)
LEMMA ToldAnswers ==
    ASSUME Sound, Told
    PROVE  AnswersHold
<1> SUFFICES ASSUME NEW n \in Stations, NEW t \in toldGone
             PROVE  /\ ~Contains(stations[n].queue, t) /\ stations[n].hand # t
                    /\ ~Contains(stations[n].history, t)
  BY DEF AnswersHold
<1>1. AtLeast(4, t) /\ t \in Tracks /\ OnePlace(stations[n]) /\ t # Nothing
  BY TrackIds DEF Told, Sound, Typed, Sorted
<1>2. CASE t \in stations[n].accepted
  <2>1. 4 <= Rank(stations[n], t)
    BY <1>1, <1>2, OneRank DEF Sound
  <2> QED
    BY <2>1 DEF Rank
<1>3. CASE t \notin stations[n].accepted
  BY <1>1, <1>3 DEF OnePlace
<1> QED
  BY <1>2, <1>3

-----------------------------------------------------------------------------
(* What callers were shown.                                                *)

LEMMA PlaceIs == \A snapshot, t : Place(snapshot, t) \in 0..3
BY DEF Place

LEMMA ShownChanges ==
    ASSUME [ControlNext]_vars, Typed, shown' # shown
    PROVE  \E k \in DOMAIN calls : ReadHistory(k) /\ Waiting(k)
<1>1. ASSUME NEW k \in DOMAIN calls, HandlerStep(k) PROVE ReadHistory(k) /\ Waiting(k)
  <2>1. CASE Refuse(k) \/ NotRegistered(k) \/ Admit(k) \/ SteerCurrent(k) \/ GetStatus(k)
             \/ NowPlaying(k) \/ NowPlayingRefused(k) \/ ReadCurrent(k) \/ ReadQueue(k)
             \/ LookAround(k) \/ QueueTrack(k) \/ UnregisterStation(k)
    BY <2>1 DEF Refuse, NotRegistered, Admit, SteerCurrent, GetStatus, NowPlaying,
       NowPlayingRefused, ReadCurrent, ReadQueue, LookAround, QueueTrack, UnregisterStation,
       LookedUp, See, Answer, clientVars
  <2>2. CASE RegisterStation(k) \/ StopPlayer(k) \/ ListDirectory(k)
    BY <2>2 DEF RegisterStation, StopPlayer, ListDirectory
  <2>3. CASE RemoveFromQueue(k) \/ ClearQueue(k) \/ SkipToTrack(k)
    BY <2>3 DEF RemoveFromQueue, ClearQueue, SkipToTrack, TellGone
  <2>4. CASE ReadHistory(k)
    BY <2>4 DEF ReadHistory
  <2> QED
    BY <1>1, <2>1, <2>2, <2>3, <2>4 DEF HandlerStep
<1>2. (\E r : Makes(r)) \/ (\E c \in Callers : GiveUp(c)) \/ (\E n \in Stations : PlayerStep(n))
         \/ UNCHANGED vars => shown' = shown
  BY DEF Makes, GiveUp, PlayerStep, vars, clientVars
<1> QED
  BY <1>1, <1>2, StepsAre

(* A snapshot that is complete: true, not split, and no step back.         *)
LEMMA SnapshotIs ==
    ASSUME Sound, Shown, SeenFirst, SeenNext,
           NEW k \in DOMAIN calls, ReadHistory(k), Waiting(k)
    PROVE  \E new :
             /\ shown' = [shown EXCEPT ![calls[k].by] = new] /\ calls[k].by \in Callers
             /\ ~Contains(new.queue, new.current)
             /\ \A t \in Tracks : Place(new, t) # 0 =>
                   AtLeast(Place(new, t), t) /\ Place(shown[calls[k].by], t) <= Place(new, t)
<1> DEFINE c == calls[k]
           history == IF c.op = "PublicNowPlaying" THEN <<>> ELSE stations[c.on].history
           new == [c.seen EXCEPT !.history = history]
<1>1. /\ c \in CallRecords /\ c.on \in Stations /\ c.seen \in Parts /\ c.by \in Callers
      /\ c.at = "history" /\ Looks(k)
  BY AtWork DEF ReadHistory, Sound, Typed, CallRecords, Steps, Looks
<1>2. shown' = [shown EXCEPT ![c.by] = new]
  BY DEF ReadHistory
<1>3. /\ new.history = history /\ new.current = c.seen.current /\ new.queue = c.seen.queue
      /\ new.queue \in Seq(Tracks)
  BY <1>1 DEF Parts
<1>4. /\ c.seen.current # Nothing => /\ AtLeast(2, c.seen.current)
                                     /\ Place(shown[c.by], c.seen.current) <= 2
      /\ \A t \in Tracks : Contains(c.seen.queue, t) =>
            t # c.seen.current /\ AtLeast(1, t) /\ Place(shown[c.by], t) <= 1
  BY <1>1 DEF SeenFirst, SeenNext
<1>5. ASSUME NEW t \in Tracks, Contains(history, t)
      PROVE  AtLeast(3, t)
  <2>1. ~Contains(<<>>, t)
    BY DEF Contains
  <2>2. Contains(stations[c.on].history, t)
    BY <1>5, <2>1
  <2>3. OnePlace(stations[c.on])
    BY <1>1 DEF Sound, Sorted
  <2>4. t \in stations[c.on].accepted /\ Rank(stations[c.on], t) = 3
    BY <2>2, <2>3, TrackIds DEF OnePlace, Rank
  <2> QED
    BY <1>1, <2>4 DEF AtLeast
<1> HIDE DEF history, new
<1>6. ~Contains(new.queue, new.current)
  <2>1. \A i \in 1..Len(new.queue) : new.queue[i] \in Tracks
    BY <1>3
  <2> QED
    BY <1>3, <1>4, <2>1 DEF Contains
<1>7. ASSUME NEW t \in Tracks, Place(new, t) # 0
      PROVE  AtLeast(Place(new, t), t) /\ Place(shown[c.by], t) <= Place(new, t)
  <2>1. CASE Place(new, t) = 3
    <3>1. Contains(history, t)
      BY <1>3, <2>1 DEF Place
    <3> QED
      BY <1>5, <2>1, <3>1, PlaceIs
  <2>2. CASE Place(new, t) = 2
    BY <1>3, <1>4, <2>2, TrackIds DEF Place
  <2>3. CASE Place(new, t) = 1
    BY <1>3, <1>4, <2>3 DEF Place
  <2> QED
    BY <1>7, <2>1, <2>2, <2>3, PlaceIs
<1> QED
  BY <1>1, <1>2, <1>6, <1>7

LEMMA ShownStays ==
    ASSUME Sound, Shown, SeenFirst, SeenNext, [ControlNext]_vars
    PROVE  Shown'
<1>1. Advances /\ Typed /\ shown \in [Callers -> Parts]
  BY SortedStays DEF Sound, Typed
<1>2. ASSUME NEW t, NEW snapshot, Place(snapshot, t) # 0, AtLeast(Place(snapshot, t), t)
      PROVE  AtLeast(Place(snapshot, t), t)'
  <2>1. Place(snapshot, t) \in 1..4
    BY <1>2, PlaceIs
  <2> QED
    BY <1>1, <1>2, <2>1, AtLeastStays
<1>3. CASE shown' = shown
  BY <1>2, <1>3 DEF Shown
<1>4. ASSUME NEW k \in DOMAIN calls, ReadHistory(k), Waiting(k)
      PROVE  Shown'
  <2>1. PICK new :
             /\ shown' = [shown EXCEPT ![calls[k].by] = new] /\ calls[k].by \in Callers
             /\ \A t \in Tracks : Place(new, t) # 0 => AtLeast(Place(new, t), t)
    BY <1>4, SnapshotIs
  <2>2. \A c \in Callers : shown'[c] = IF c = calls[k].by THEN new ELSE shown[c]
    BY <1>1, <2>1
  <2>3. ASSUME NEW c \in Callers, NEW t \in Tracks, Place(shown'[c], t) # 0
        PROVE  AtLeast(Place(shown'[c], t), t)
    BY <2>1, <2>2, <2>3 DEF Shown
  <2>4. ASSUME NEW c \in Callers, NEW t \in Tracks, NEW snapshot, snapshot = shown'[c],
               Place(snapshot, t) # 0
        PROVE  AtLeast(Place(snapshot, t), t)'
    BY <1>2, <2>3, <2>4
  <2> QED
    BY <2>4 DEF Shown
<1> QED
  BY <1>1, <1>3, <1>4, ShownChanges

(* Only one call of a caller waits, and a snapshot under way stays as it   *)
(* is, with the last one its caller got, but for its own steps.            *)
LEMMA LooksBefore ==
    ASSUME Sound, [ControlNext]_vars, NEW j, Looks(j)'
    PROVE  \/ /\ Looks(j) /\ calls'[j] = calls[j]
              /\ shown'[calls[j].by] = shown[calls[j].by]
           \/ j \in DOMAIN calls /\ (ReadCurrent(j) \/ ReadQueue(j))
<1>0. /\ Typed /\ calls \in Seq(CallRecords \union {Finished}) /\ waits \in [Callers -> 0..MaxCalls]
      /\ shown \in [Callers -> Parts] /\ DOMAIN calls = 1..Len(calls)
      /\ j \in DOMAIN calls' /\ calls'[j].at \in {"queue", "history"}
      /\ waits'[calls'[j].by] = j
  BY DEF Sound, Typed, Looks, Waiting
<1>1. ASSUME Looks(j), calls'[j] = calls[j]
      PROVE  shown'[calls[j].by] = shown[calls[j].by]
  <2>1. CASE shown' = shown
    BY <2>1
  <2>2. ASSUME NEW k \in DOMAIN calls, ReadHistory(k), Waiting(k)
        PROVE  shown'[calls[j].by] = shown[calls[j].by]
    <3>1. calls'[k] = Finished
      BY <1>0, <2>2 DEF ReadHistory, Done
    <3>2. k # j
      BY <1>0, <3>1 DEF Finished
    <3>3. calls[k].by # calls[j].by
      BY <1>1, <2>2, <3>2 DEF Looks, Waiting
    <3>4. calls[j].by \in Callers
      BY <1>0, <1>1, AtWork DEF Looks, CallRecords
    <3> QED
      BY <1>0, <2>2, <3>3, <3>4 DEF ReadHistory
  <2> QED
    BY <1>0, <2>1, <2>2, ShownChanges
<1>2. CASE UNCHANGED vars
  BY <1>0, <1>1, <1>2 DEF vars, clientVars, Looks, Waiting
<1>3. ASSUME NEW r, Makes(r) PROVE Looks(j) /\ calls'[j] = calls[j]
  <2>1. /\ calls' = Append(calls, r) /\ r \in CallRecords \union {Finished} /\ r.at = "arrived"
        /\ waits' = [waits EXCEPT ![r.by] = Len(calls) + 1] /\ r.by \in Callers
    BY <1>3 DEF Makes, CallRecords
  <2>2. /\ DOMAIN calls' = 1..(Len(calls) + 1) /\ Len(calls) \in Nat
        /\ calls'[Len(calls) + 1] = r /\ \A i \in DOMAIN calls : calls'[i] = calls[i]
    BY <1>0, <2>1, AddOne
  <2>3. j \in DOMAIN calls /\ calls'[j] = calls[j] /\ j # Len(calls) + 1
    BY <1>0, <2>1, <2>2
  <2>4. calls[j].by \in Callers
    BY <1>0, <2>3, AtWork DEF CallRecords
  <2>5. waits[calls[j].by] = j
    BY <1>0, <2>1, <2>3, <2>4
  <2> QED
    BY <1>0, <2>3, <2>5 DEF Looks, Waiting
<1>4. ASSUME NEW c \in Callers, GiveUp(c) PROVE Looks(j) /\ calls'[j] = calls[j]
  <2>1. calls' = calls /\ waits' = [waits EXCEPT ![c] = Nothing]
    BY <1>4 DEF GiveUp
  <2>2. calls[j].by \in Callers /\ j # 0
    BY <1>0, <2>1, AtWork DEF CallRecords
  <2>3. waits[calls[j].by] = j
    BY <1>0, <2>1, <2>2 DEF Nothing
  <2> QED
    BY <1>0, <2>1, <2>3 DEF Looks, Waiting
<1>5. ASSUME NEW n \in Stations, PlayerStep(n) PROVE Looks(j) /\ calls'[j] = calls[j]
  BY <1>0, <1>5 DEF PlayerStep, clientVars, Looks, Waiting
<1>6. ASSUME NEW k \in DOMAIN calls, HandlerStep(k)
      PROVE  (Looks(j) /\ calls'[j] = calls[j]) \/ (j = k /\ (ReadCurrent(j) \/ ReadQueue(j)))
  <2>1. calls[k] \in CallRecords /\ (Done(k) \/ \E e : Goes(k, e))
    BY <1>0, <1>6, HandlersWork, HandlersGo
  <2>2. /\ DOMAIN calls' = DOMAIN calls
        /\ \A i \in DOMAIN calls \ {k} : calls'[i] = calls[i]
        /\ \A i \in DOMAIN calls \ {k} : calls[i] \in CallRecords /\ Waiting(i)' => Waiting(i)
    BY <1>0, <2>1, OneCallChanges
  <2>3. CASE j = k
    BY <1>0, <1>6, <2>3, WhereNext
  <2>4. CASE j # k
    <3>1. j \in DOMAIN calls /\ calls'[j] = calls[j]
      BY <1>0, <2>2, <2>4
    <3>2. calls[j] \in CallRecords
      BY <1>0, <3>1, AtWork
    <3>3. Waiting(j)
      BY <1>0, <2>2, <2>4, <3>1, <3>2 DEF Waiting
    <3> QED
      BY <1>0, <3>1, <3>3 DEF Looks
  <2> QED
    BY <2>3, <2>4
<1> QED
  BY <1>0, <1>1, <1>2, <1>3, <1>4, <1>5, <1>6, StepsAre

(* A track that is shown is no further than the station it is shown at.    *)
LEMMA ShownBound ==
    ASSUME Sound, Shown, NEW c \in Callers, NEW n \in Stations, NEW t \in stations[n].accepted
    PROVE  Place(shown[c], t) <= Rank(stations[n], t)
<1>1. t \in Tracks
  BY DEF Sound, Typed, StationStates
<1>2. CASE Place(shown[c], t) = 0
  BY <1>2, RankIs
<1>3. CASE Place(shown[c], t) # 0
  <2>1. AtLeast(Place(shown[c], t), t)
    BY <1>1, <1>3 DEF Shown
  <2> QED
    BY <2>1, OneRank DEF Sound
<1> QED
  BY <1>2, <1>3

LEMMA SeenFirstStays ==
    ASSUME Sound, Shown, SeenFirst, [ControlNext]_vars
    PROVE  SeenFirst'
<1>0. Typed /\ Advances
  BY SortedStays DEF Sound
<1> SUFFICES ASSUME NEW j, Looks(j)', NEW t, t = calls'[j].seen.current, t # Nothing
             PROVE  AtLeast(2, t)' /\ Place(shown'[calls'[j].by], t) <= 2
  BY DEF SeenFirst
<1>1. CASE /\ Looks(j) /\ calls'[j] = calls[j]
           /\ shown'[calls[j].by] = shown[calls[j].by]
  <2>1. AtLeast(2, t) /\ Place(shown[calls[j].by], t) <= 2
    BY <1>1 DEF SeenFirst, Looks
  <2> QED
    BY <1>0, <1>1, <2>1, AtLeastStays
<1>2. CASE j \in DOMAIN calls /\ ReadCurrent(j)
  <2>1. PICK e : /\ Goes(j, e) /\ e.seen = [calls[j].seen EXCEPT !.current = CurrentOf(stations[calls[j].on])]
    BY <1>0, <1>2, CurrentGoes
  <2>2. calls[j] \in CallRecords /\ calls[j].on \in Stations
    BY <1>0, <1>2, AtWork DEF ReadCurrent, Typed, Steps
  <2>3. calls'[j] = e /\ e.by = calls[j].by /\ calls[j].seen \in Parts
    BY <1>0, <1>2, <2>1, <2>2 DEF Goes, Typed, CallRecords
  <2>4. t = CurrentOf(stations[calls[j].on])
    BY <2>1, <2>3 DEF Parts
  <2> DEFINE s == stations[calls[j].on]
  <2>5. OnePlace(s) /\ s.stage = "air" /\ t = s.hand /\ t \in s.accepted /\ Rank(s, t) = 2
    BY <2>2, <2>4, TrackIds DEF CurrentOf, OnePlace, Sound, Sorted, Rank
  <2>6. AtLeast(2, t)
    BY <2>2, <2>5 DEF AtLeast
  <2>7. Place(shown[calls[j].by], t) <= 2
    BY <2>2, <2>5, ShownBound DEF CallRecords
  <2>8. shown' = shown
    BY <1>2 DEF ReadCurrent, See, clientVars
  <2> QED
    BY <1>0, <2>3, <2>6, <2>7, <2>8, AtLeastStays
<1>3. CASE j \in DOMAIN calls /\ ReadQueue(j)
  <2>1. PICK e : /\ Goes(j, e) /\ e.seen = [calls[j].seen EXCEPT !.queue = stations[calls[j].on].queue]
    BY <1>0, <1>3, QueueGoes
  <2>2. calls[j] \in CallRecords /\ calls[j].at = "queue" /\ waits' = waits /\ shown' = shown
    BY <1>0, <1>3, AtWork DEF ReadQueue, See, clientVars
  <2>3. calls'[j] = e /\ e.by = calls[j].by /\ calls[j].seen \in Parts
    BY <1>0, <1>3, <2>1, <2>2 DEF Goes, Typed, CallRecords
  <2>4. t = calls[j].seen.current
    BY <2>1, <2>3 DEF Parts
  <2>5. Looks(j)
    BY <1>3, <2>2, <2>3 DEF Looks, Waiting
  <2>6. AtLeast(2, t) /\ Place(shown[calls[j].by], t) <= 2
    BY <2>4, <2>5 DEF SeenFirst, Looks
  <2> QED
    BY <1>0, <2>2, <2>3, <2>6, AtLeastStays
<1> QED
  BY <1>1, <1>2, <1>3, LooksBefore

LEMMA SeenNextStays ==
    ASSUME Sound, Shown, SeenFirst, SeenNext, [ControlNext]_vars
    PROVE  SeenNext'
<1>0. Typed /\ Advances
  BY SortedStays DEF Sound
<1> SUFFICES ASSUME NEW j, Looks(j)', calls'[j].at = "history",
                    NEW t \in Tracks, Contains(calls'[j].seen.queue, t)
             PROVE  /\ t # calls'[j].seen.current
                    /\ AtLeast(1, t)' /\ Place(shown'[calls'[j].by], t) <= 1
  BY DEF SeenNext
<1>1. CASE /\ Looks(j) /\ calls'[j] = calls[j]
           /\ shown'[calls[j].by] = shown[calls[j].by]
  <2>1. t # calls[j].seen.current /\ AtLeast(1, t) /\ Place(shown[calls[j].by], t) <= 1
    BY <1>1 DEF SeenNext, Looks
  <2> QED
    BY <1>0, <1>1, <2>1, AtLeastStays
<1>2. CASE j \in DOMAIN calls /\ ReadCurrent(j)
  <2>1. PICK e : Goes(j, e) /\ e.at = "queue"
    BY <1>0, <1>2, CurrentGoes
  <2>2. calls'[j] = e
    BY <1>0, <1>2, <2>1 DEF Goes, Typed
  <2> QED
    BY <2>1, <2>2
<1>3. CASE j \in DOMAIN calls /\ ReadQueue(j)
  <2>1. PICK e : /\ Goes(j, e) /\ e.seen = [calls[j].seen EXCEPT !.queue = stations[calls[j].on].queue]
    BY <1>0, <1>3, QueueGoes
  <2>2. /\ calls[j] \in CallRecords /\ calls[j].at = "queue" /\ calls[j].on \in Stations
        /\ waits' = waits /\ shown' = shown
    BY <1>0, <1>3, AtWork DEF ReadQueue, See, clientVars, Typed, Steps
  <2>3. /\ calls'[j] = e /\ e.by = calls[j].by /\ calls[j].by \in Callers
        /\ calls[j].seen \in Parts
    BY <1>0, <1>3, <2>1, <2>2 DEF Goes, Typed, CallRecords
  <2> DEFINE s == stations[calls[j].on]
  <2>4. calls'[j].seen.current = calls[j].seen.current /\ Contains(s.queue, t)
    BY <2>1, <2>3 DEF Parts
  <2>5. OnePlace(s) /\ t \in s.accepted /\ Rank(s, t) = 1
    BY <2>2, <2>4 DEF OnePlace, Sound, Sorted, Rank
  <2>6. AtLeast(1, t)
    BY <2>2, <2>5 DEF AtLeast
  <2>7. Place(shown[calls[j].by], t) <= 1
    BY <2>2, <2>3, <2>5, ShownBound
  <2>8. t # calls[j].seen.current
    <3>1. SUFFICES ASSUME t = calls[j].seen.current PROVE FALSE
      OBVIOUS
    <3>2. Looks(j) /\ t # Nothing
      BY <1>3, <2>2, <2>3, TrackIds DEF Looks, Waiting
    <3>3. AtLeast(2, t)
      BY <3>1, <3>2 DEF SeenFirst, Looks
    <3>4. 2 <= Rank(s, t)
      BY <2>2, <2>5, <3>3, OneRank DEF Sound
    <3> QED
      BY <2>5, <3>4
  <2> QED
    BY <1>0, <2>2, <2>3, <2>4, <2>6, <2>7, <2>8, AtLeastStays
<1> QED
  BY <1>1, <1>2, <1>3, LooksBefore

-----------------------------------------------------------------------------
(* What tokens let callers see.                                            *)

LEMMA PrefixAgrees ==
    ASSUME NEW p \in Seq(STRING), NEW q \in Seq(STRING), ProperPrefix(p, q)
    PROVE  Len(p) < Len(q) /\ \A j \in 1..Len(p) : p[j] = q[j]
BY DEF ProperPrefix, Ext!IsPrefix

LEMMA AgreeingIsPrefix ==
    ASSUME NEW p \in Seq(STRING), NEW q \in Seq(STRING),
           Len(p) < Len(q), \A j \in 1..Len(p) : p[j] = q[j]
    PROVE  ProperPrefix(p, q)
<1>1. p = SubSeq(q, 1, Len(p))
  OBVIOUS
<1> QED
  BY <1>1 DEF ProperPrefix, Ext!IsPrefix

LEMMA SamePath ==
    ASSUME NEW p \in Seq(STRING), NEW q \in Seq(STRING),
           Len(p) = Len(q), \A j \in 1..Len(p) : p[j] = q[j]
    PROVE  p = q
OBVIOUS

(* Whoever may have a path may pass every directory on the way to it.      *)
LEMMA WayThere ==
    ASSUME NEW claims, claims.dirs \subseteq Seq(STRING), Plain(claims),
           NEW p \in Seq(STRING), NEW f \in Seq(STRING), ProperPrefix(p, f), HasDir(claims, f)
    PROVE  CanBrowse(claims, p)
<1>1. CASE claims.dirs = {}
  BY <1>1 DEF CanBrowse, HasDir
<1>2. ASSUME NEW d \in claims.dirs,
             d = <<Star>> \/ d = f \/ ProperPrefix(d, f) \/ Matches(d, f)
      PROVE  CanBrowse(claims, p)
  <2>1. /\ d \in Seq(STRING) /\ Len(d) \in Nat /\ Len(p) \in Nat /\ Len(f) \in Nat
        /\ Len(p) < Len(f) /\ \A j \in 1..Len(p) : p[j] = f[j]
    BY PrefixAgrees
  <2>2. CASE d = <<Star>>
    BY <2>2 DEF CanBrowse, HasDir
  <2>3. ASSUME ProperPrefix(p, d) PROVE CanBrowse(claims, p)
    BY <2>3 DEF CanBrowse, IsAncestorOfAllowedDir
  <2>4. CASE d = f
    BY <2>3, <2>4
  <2>5. CASE ProperPrefix(d, f)
    <3>1. Len(d) < Len(f) /\ \A j \in 1..Len(d) : d[j] = f[j]
      BY <2>1, <2>5, PrefixAgrees
    <3>2. CASE Len(p) < Len(d)
      <4>1. \A j \in 1..Len(p) : p[j] = d[j]
        BY <2>1, <3>1, <3>2
      <4> QED
        BY <2>1, <2>3, <3>2, <4>1, AgreeingIsPrefix
    <3>3. CASE Len(p) = Len(d)
      <4>1. d = p
        BY <2>1, <3>1, <3>3, SamePath
      <4> QED
        BY <4>1 DEF CanBrowse, HasDir
    <3>4. CASE Len(p) > Len(d)
      <4>1. \A j \in 1..Len(d) : d[j] = p[j]
        BY <2>1, <3>1, <3>4
      <4>2. ProperPrefix(d, p)
        BY <2>1, <3>4, <4>1, AgreeingIsPrefix
      <4> QED
        BY <4>2 DEF CanBrowse, HasDir
    <3> QED
      BY <2>1, <3>2, <3>3, <3>4
  <2>6. CASE Matches(d, f) /\ d # <<Star>>
    <3>1. Len(d) = Len(f) /\ \A j \in 1..Len(d) : d[j] = f[j]
      BY <2>1, <2>6 DEF Matches, Plain
    <3>2. d = f
      BY <2>1, <3>1, SamePath
    <3> QED
      BY <2>4, <3>2
  <2> QED
    BY <1>2, <2>2, <2>4, <2>5, <2>6
<1> QED
  BY <1>1, <1>2 DEF HasDir

(* A listing has an entry on the way to each such file below it.           *)
LEMMA ListedReaches ==
    ASSUME NEW claims, claims.dirs \subseteq Seq(STRING), Plain(claims),
           NEW dir \in Folders, NEW f \in Files, ProperPrefix(dir, f), HasDir(claims, f)
    PROVE  \E e \in Listed(claims, dir).entries : e = f \/ ProperPrefix(e, f)
<1>1. /\ dir \in Seq(STRING) /\ f \in Seq(STRING) /\ Len(dir) \in Nat /\ Len(f) \in Nat
      /\ Len(dir) < Len(f) /\ \A j \in 1..Len(dir) : dir[j] = f[j]
      /\ f \notin Folders
  BY PathsAssumption, PrefixAgrees
<1>2. CanBrowse(claims, dir)
  BY <1>1, WayThere
<1>3. Listed(claims, dir).entries = Entries(claims, dir)
  BY <1>2 DEF Listed
<1>4. CASE Len(f) = Len(dir) + 1
  <2>1. f \in Children(dir)
    BY <1>4 DEF Children
  <2>2. f \in Entries(claims, dir)
    BY <1>1, <2>1 DEF Entries
  <2> QED
    BY <1>3, <2>2
<1>5. CASE Len(f) > Len(dir) + 1
  <2> DEFINE e == SubSeq(f, 1, Len(dir) + 1)
  <2>1. Len(dir) + 1 \in 0..(Len(f) - 1)
    BY <1>1, <1>5
  <2>2. e \in Folders /\ e \in Seq(STRING)
    BY <2>1, PathsAssumption
  <2>3. Len(e) = Len(dir) + 1 /\ \A j \in 1..Len(e) : e[j] = f[j]
    BY <1>1, <2>1
  <2> HIDE DEF e
  <2>4. ProperPrefix(e, f)
    BY <1>1, <1>5, <2>2, <2>3, AgreeingIsPrefix
  <2>5. Len(dir) < Len(e) /\ \A j \in 1..Len(dir) : dir[j] = e[j]
    BY <1>1, <2>3
  <2>6. ProperPrefix(dir, e)
    BY <1>1, <2>2, <2>5, AgreeingIsPrefix
  <2>7. CanBrowse(claims, e)
    BY <1>1, <2>2, <2>4, WayThere
  <2>8. e \in Children(dir)
    BY <2>2, <2>3, <2>6 DEF Children
  <2>9. e \in Entries(claims, dir)
    BY <2>2, <2>7, <2>8 DEF Entries
  <2> QED
    BY <1>3, <2>4, <2>9
<1> QED
  BY <1>1, <1>4, <1>5

LEMMA BrowsingIsEnough ==
    ASSUME Typed, Browsing
    PROVE  BrowsingReaches
<1> SUFFICES ASSUME NEW c \in Callers, NEW f \in Files,
                    listing[c].got # "nothing", Plain(token[c]),
                    HasDir(token[c], f), ProperPrefix(listing[c].path, f)
             PROVE  \E e \in listing[c].entries : e = f \/ ProperPrefix(e, f)
  BY DEF BrowsingReaches
<1>1. PICK dir \in Folders : listing[c] = Listed(token[c], dir)
  BY DEF Browsing, NoList
<1>2. listing[c].path = dir
  BY <1>1 DEF Listed
<1>3. token[c].dirs \subseteq Seq(STRING)
  BY PathsAssumption DEF Typed, Callers
<1> QED
  BY <1>1, <1>2, <1>3, ListedReaches

LEMMA ListingChanges ==
    ASSUME NEW k, HandlerStep(k)
    PROVE  listing' = listing \/ ListDirectory(k)
<1>1. CASE Refuse(k) \/ NotRegistered(k) \/ Admit(k) \/ SteerCurrent(k) \/ GetStatus(k)
           \/ NowPlaying(k) \/ NowPlayingRefused(k) \/ ReadCurrent(k) \/ ReadQueue(k)
           \/ LookAround(k) \/ QueueTrack(k) \/ UnregisterStation(k)
  BY <1>1 DEF Refuse, NotRegistered, Admit, SteerCurrent, GetStatus, NowPlaying,
     NowPlayingRefused, ReadCurrent, ReadQueue, LookAround, QueueTrack, UnregisterStation,
     LookedUp, See, Answer, clientVars
<1>2. CASE RegisterStation(k) \/ StopPlayer(k) \/ ReadHistory(k)
  BY <1>2 DEF RegisterStation, StopPlayer, ReadHistory
<1>3. CASE RemoveFromQueue(k) \/ ClearQueue(k) \/ SkipToTrack(k)
  BY <1>3 DEF RemoveFromQueue, ClearQueue, SkipToTrack, TellGone
<1> QED
  BY <1>1, <1>2, <1>3 DEF HandlerStep

LEMMA BrowsingStays ==
    ASSUME Typed, Browsing, [ControlNext]_vars
    PROVE  Browsing'
<1>0. DOMAIN listing = Callers /\ calls \in Seq(CallRecords \union {Finished})
  BY DEF Typed
<1>1. CASE UNCHANGED <<calls, token, listing>>
  BY <1>1 DEF Browsing
<1>2. (\E c \in Callers : GiveUp(c)) \/ (\E n \in Stations : PlayerStep(n)) \/ UNCHANGED vars
         => UNCHANGED <<calls, token, listing>>
  BY DEF GiveUp, PlayerStep, vars, clientVars
<1>3. ASSUME NEW r, Makes(r) PROVE Browsing'
  <2>1. /\ calls' = Append(calls, r) /\ r \in CallRecords \union {Finished} /\ r.by \in Callers
        /\ r.op = "ListDirectory" => r.claims = token[r.by]
        /\ listing' = [listing EXCEPT ![r.by] = NoList] /\ token' = token
    BY <1>3 DEF Makes, CallRecords
  <2>2. /\ DOMAIN calls' = 1..(Len(calls) + 1) /\ DOMAIN calls = 1..Len(calls) /\ Len(calls) \in Nat
        /\ calls'[Len(calls) + 1] = r /\ \A i \in DOMAIN calls : calls'[i] = calls[i]
    BY <1>0, <2>1, AddOne
  <2>3. ASSUME NEW j \in DOMAIN calls', calls'[j].at = "arrived", calls'[j].op = "ListDirectory"
        PROVE  calls'[j].claims = token[calls'[j].by]
    <3>1. CASE j = Len(calls) + 1
      BY <2>1, <2>2, <2>3, <3>1
    <3>2. CASE j \in DOMAIN calls
      BY <2>2, <2>3, <3>2 DEF Browsing
    <3> QED
      BY <2>2, <3>1, <3>2
  <2>4. \A c \in Callers : listing'[c] = NoList \/ listing'[c] = listing[c]
    BY <1>0, <2>1
  <2> QED
    BY <2>1, <2>3, <2>4 DEF Browsing
<1>4. ASSUME NEW k \in DOMAIN calls, HandlerStep(k) PROVE Browsing'
  <2>1. calls[k] \in CallRecords /\ token' = token /\ (Done(k) \/ \E e : Goes(k, e))
    BY <1>4, HandlersWork, HandlersGo
  <2>2. /\ DOMAIN calls' = DOMAIN calls
        /\ \A i \in DOMAIN calls \ {k} : calls'[i] = calls[i]
        /\ calls'[k] = Finished \/ Goes(k, calls'[k])
    BY <2>1, OneCallChanges
  <2>3. calls'[k].at # "arrived"
    BY <2>2 DEF Finished, Goes
  <2>4. \A j \in DOMAIN calls' : calls'[j].at = "arrived" /\ calls'[j].op = "ListDirectory"
           => calls'[j].claims = token'[calls'[j].by]
    BY <2>1, <2>2, <2>3 DEF Browsing
  <2>5. ASSUME NEW c \in Callers
        PROVE  listing'[c] = NoList \/ \E dir \in Folders : listing'[c] = Listed(token[c], dir)
    <3>1. CASE listing' = listing
      BY <3>1 DEF Browsing
    <3>2. CASE ListDirectory(k) /\ listing' # listing
      <4>1. /\ SafeRelPath(calls[k].source) \in Folders
            /\ listing' = [listing EXCEPT ![calls[k].by] =
                              Listed(calls[k].claims, SafeRelPath(calls[k].source))]
        BY <3>2 DEF ListDirectory
      <4>2. calls[k].claims = token[calls[k].by]
        BY <3>2 DEF ListDirectory, Arrived, Browsing
      <4>3. listing'[c] = IF c = calls[k].by
                          THEN Listed(token[c], SafeRelPath(calls[k].source)) ELSE listing[c]
        BY <1>0, <4>1, <4>2
      <4> QED
        BY <4>1, <4>3 DEF Browsing
    <3> QED
      BY <1>4, <3>1, <3>2, ListingChanges
  <2> QED
    BY <2>1, <2>4, <2>5 DEF Browsing
<1> QED
  BY <1>1, <1>2, <1>3, <1>4, StepsAre

-----------------------------------------------------------------------------
(* The theorems.                                                           *)

IInv == /\ Typed /\ FromTheRegistry /\ Sorted /\ Told
        /\ Shown /\ SeenFirst /\ SeenNext /\ Browsing

LEMMA InitHolds == Init => IInv
<1> SUFFICES ASSUME Init PROVE IInv
  OBVIOUS
<1>1. /\ <<>> \in Seq(Tracks) /\ Nothing \notin Tracks /\ \A t : ~Contains(<<>>, t)
      /\ MaxCalls \in Nat /\ MaxStations \in Nat \ {0}
  BY TrackIds, ControlPlaneAssumption DEF Contains
<1>2. EmptyStation \in StationStates /\ NoPart \in Parts
  BY DEF EmptyStation, StationStates, NoPart, Parts, Stages
<1>3. OnePlace(EmptyStation) /\ EmptyStation.accepted = {}
  BY <1>1 DEF OnePlace, Once, EmptyStation
<1>4. calls \in Seq(CallRecords \union {Finished}) /\ Len(calls) = 0 /\ DOMAIN calls = {}
  BY DEF Init
<1>5. made \in Seq(Slugs) /\ Len(made) = 1 /\ made[1] = Own
  BY ControlPlaneAssumption DEF Init
<1>6. registered \in [Slugs -> Stations \union {Nothing}]
  BY <1>1 DEF Init, Stations
<1>7. waits \in [Callers -> 0..MaxCalls]
  BY <1>1 DEF Init, Nothing
<1>8. Typed
  BY <1>1, <1>2, <1>4, <1>5, <1>6, <1>7 DEF Init, Typed
<1>9. FromTheRegistry
  BY <1>4, <1>5 DEF FromTheRegistry, Init
<1>10. Sorted
  BY <1>3 DEF Sorted, Init
<1>11. Told /\ SeenFirst /\ SeenNext
  BY <1>4 DEF Told, SeenFirst, SeenNext, Init
<1>12. Shown
  BY <1>1 DEF Shown, Place, Init, NoPart
<1>13. Browsing
  BY <1>4 DEF Browsing, Init
<1> QED
  BY <1>8, <1>9, <1>10, <1>11, <1>12, <1>13 DEF IInv

LEMMA StepHolds == IInv /\ [ControlNext]_vars => IInv'
<1> SUFFICES ASSUME IInv, [ControlNext]_vars PROVE IInv'
  OBVIOUS
<1>1. Sound /\ FromTheRegistry /\ Told /\ Shown /\ SeenFirst /\ SeenNext /\ Browsing /\ Typed
  BY DEF IInv, Sound
<1> QED
  BY <1>1, SortedStays, TypedStays, FromTheRegistryStays, ToldStays, ShownStays,
     SeenFirstStays, SeenNextStays, BrowsingStays DEF IInv

LEMMA Always == Spec => []IInv
BY InitHolds, StepHolds, PTL DEF Spec

(* Every variable has its type; above all a handler past its checks has a  *)
(* station, and no more stations or calls are made than there may be.      *)
THEOREM TypeCorrect == Spec => []Typed
<1>1. IInv => Typed
  BY DEF IInv
<1> QED
  BY <1>1, Always, PTL

(* A station changes, other than by its player, only at the hands of a     *)
(* call that found it in the registry and whose token has its slug and may *)
(* write (server.go:76-383), however many stations are made under the     *)
(* slug in between.                                                        *)
THEOREM AuthorizedChange == Spec => OnlyAuthorizedChange
<1>1. IInv /\ [ControlNext]_vars =>
        [\A n \in Stations :
          stations'[n] \in {stations[n]} \union PlayerMoves(stations[n])
          \/ \E k \in DOMAIN calls :
                 /\ calls[k].at = "operate" /\ calls[k].on = n
                 /\ made[n] \in calls[k].claims.slugs
                 /\ calls[k].claims.valid /\ ~calls[k].claims.readOnly]_vars
  <2> SUFFICES ASSUME IInv, [ControlNext]_vars
               PROVE  \A n \in Stations :
                        stations'[n] \in {stations[n]} \union PlayerMoves(stations[n])
                        \/ \E k \in DOMAIN calls :
                               /\ calls[k].at = "operate" /\ calls[k].on = n
                               /\ made[n] \in calls[k].claims.slugs
                               /\ calls[k].claims.valid /\ ~calls[k].claims.readOnly
    OBVIOUS
  <2> QED
    BY ChangeIsAuthorized DEF IInv, Sound
<1> QED
  BY <1>1, Always, PTL DEF Spec, OnlyAuthorizedChange

(* A track that RemoveFromQueue, ClearQueue or SkipTo told somebody is     *)
(* gone is in no queue, no player's hands and no history, then or later    *)
(* (server.go:224-317).                                                    *)
THEOREM GoneStaysGone == Spec => []AnswersHold
<1>1. IInv => AnswersHold
  BY ToldAnswers DEF IInv, Sound
<1> QED
  BY <1>1, Always, PTL

(* A snapshot that is read piece by piece shows no track twice, and no     *)
(* track further back than the snapshot before (GetStatus,                 *)
(* server.go:385-421; buildNowPlaying, nowplaying.go:119-158).             *)
THEOREM SnapshotsGoForward == Spec => SnapshotsAdvance
<1>1. ASSUME IInv, [ControlNext]_vars, NEW c \in Callers, shown'[c] # shown[c]
      PROVE  /\ ~Contains(shown'[c].queue, shown'[c].current)
             /\ \A t \in Tracks :
                   Place(shown'[c], t) = 0 \/ Place(shown[c], t) <= Place(shown'[c], t)
  <2>1. Sound /\ Typed /\ Shown /\ SeenFirst /\ SeenNext /\ shown \in [Callers -> Parts]
    BY <1>1 DEF IInv, Sound, Typed
  <2>2. PICK k \in DOMAIN calls : ReadHistory(k) /\ Waiting(k)
    BY <1>1, <2>1, ShownChanges
  <2>3. PICK new :
             /\ shown' = [shown EXCEPT ![calls[k].by] = new] /\ calls[k].by \in Callers
             /\ ~Contains(new.queue, new.current)
             /\ \A t \in Tracks : Place(new, t) # 0 =>
                   AtLeast(Place(new, t), t) /\ Place(shown[calls[k].by], t) <= Place(new, t)
    BY <2>1, <2>2, SnapshotIs
  <2>4. c = calls[k].by /\ shown'[c] = new
    BY <1>1, <2>1, <2>3
  <2> QED
    BY <2>3, <2>4
<1>2. IInv /\ [ControlNext]_vars =>
        [\A c \in Callers : shown'[c] # shown[c] =>
          /\ ~Contains(shown'[c].queue, shown'[c].current)
          /\ \A t \in Tracks :
                Place(shown'[c], t) = 0 \/ Place(shown[c], t) <= Place(shown'[c], t)]_vars
  BY <1>1
<1> QED
  BY <1>2, Always, PTL DEF Spec, SnapshotsAdvance

(* Whoever may queue a file can browse to it, from every folder on the way *)
(* (ListDirectory, server.go:473-528; jwt.go:128).                         *)
THEOREM BrowsingLeadsToAll == Spec => []BrowsingReaches
<1>1. IInv => BrowsingReaches
  BY BrowsingIsEnough DEF IInv
<1> QED
  BY <1>1, Always, PTL

(* A track is in one place of one station, whichever calls are under way,  *)
(* and once its QueueTrack is over; and it only goes on from place to      *)
(* place: no handler and no player takes one back or lets go of it (the    *)
(* methods of Queue and Station that server.go:76-383 calls, player.go).  *)
THEOREM TracksGoOn ==
    Spec => []Sorted /\ [][\A n \in Stations : Onward(stations[n], stations'[n])]_vars
<1>1. IInv => Sorted
  BY DEF IInv
<1>2. IInv /\ [ControlNext]_vars => [\A n \in Stations : Onward(stations[n], stations'[n])]_vars
  BY SortedStays DEF IInv, Sound, Advances
<1> QED
  BY <1>1, <1>2, Always, PTL DEF Spec

(* Each station starts empty and moves, at the hands of handlers and of    *)
(* its player, as StationContract allows and not otherwise (the methods of *)
(* Queue and Station that server.go:76-383 calls): Player is shown to     *)
(* implement that contract, so that what is proved here of the stations'   *)
(* tracks is about the playback goroutine of player.go.                    *)
THEOREM StationsKeepTheContract ==
    Spec => /\ \A n \in Stations : stations[n] = EmptyStation
            /\ [][\A n \in Stations : stations'[n] # stations[n] =>
                    stations'[n] \in PlayerMoves(stations[n]) \union HandlerMoves(stations[n])]_vars
<1>1. Init => \A n \in Stations : stations[n] = EmptyStation
  BY DEF Init
<1>2. IInv /\ [ControlNext]_vars =>
        [\A n \in Stations : stations'[n] # stations[n] =>
          stations'[n] \in PlayerMoves(stations[n]) \union HandlerMoves(stations[n])]_vars
  <2> SUFFICES ASSUME IInv, [ControlNext]_vars, NEW n \in Stations,
                      stations'[n] # stations[n]
               PROVE  stations'[n] \in PlayerMoves(stations[n]) \union HandlerMoves(stations[n])
    OBVIOUS
  <2>1. Sound /\ Typed
    BY DEF IInv, Sound
  <2> QED
    BY <2>1, StationChanges, ChangesKeepContract
<1> QED
  BY <1>1, <1>2, Always, PTL DEF Spec
=============================================================================
