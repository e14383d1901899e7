------------------------- MODULE BroadcasterProofs -------------------------
(***************************************************************************)
(* Proofs about Broadcaster, for any number of listeners and chunks and    *)
(* for any sizes of the buffer and of the run of drops.                    *)
(***************************************************************************)
EXTENDS Broadcaster, FiniteSetTheorems, TLAPS

LEMMA CountIsNat ==
    ASSUME NEW S, S \subseteq Listeners
    PROVE  Cardinality(S) \in Int
<1>1. IsFiniteSet(S)
  BY FS_Subset, BroadcasterAssumption DEF BroadcasterAssumption
<1> QED
  BY <1>1, FS_CardinalityType

LEMMA OweTypes ==
    ASSUME owes \in [Actors -> Int], NEW a \in Actors, NEW S, S \subseteq Listeners,
           Owe(a, S)
    PROVE  owes' \in [Actors -> Int] /\ overlapped' \in BOOLEAN
<1>1. Cardinality(S) \in Int
  BY CountIsNat
<1> QED
  BY <1>1 DEF Owe

(* Every variable keeps to its range; in particular a listener's channel   *)
(* never holds more than its buffer takes.                                 *)
THEOREM TypeCorrect == Spec => []TypeOK
<1>1. Init => TypeOK
  <2> SUFFICES ASSUME Init PROVE TypeOK
    OBVIOUS
  <2>1. ch \in [Listeners -> Seq(1..MaxChunks)] /\ \A l \in Listeners : Len(ch[l]) = 0
    <3>1. <<>> \in Seq(1..MaxChunks) /\ Len(<<>>) = 0
      OBVIOUS
    <3> QED
      BY <3>1 DEF Init
  <2>2. owes \in [Actors -> Int]
    BY DEF Init, Nothing
  <2>3. /\ closes \in [Listeners -> Nat] /\ dropped \in [Listeners -> Nat]
        /\ pc \in [Listeners -> {"away", "select", "write", "leave", "gone"}]
        /\ listeners \subseteq Listeners /\ hungUp \subseteq Listeners
    BY DEF Init
  <2>6. reported \in Int
    BY DEF Init
  <2>7. stopped \in BOOLEAN /\ overlapped \in BOOLEAN
    BY DEF Init
  <2>4. written \in 0..MaxChunks /\ got \in [Listeners -> 0..MaxChunks]
    BY BroadcasterAssumption DEF BroadcasterAssumption, Init
  <2>5. \A l \in Listeners : Len(ch[l]) <= BufferSize
    BY <2>1, BroadcasterAssumption DEF BroadcasterAssumption
  <2> QED
    BY <2>1, <2>2, <2>3, <2>4, <2>5, <2>6, <2>7 DEF TypeOK
<1>2. TypeOK /\ [Next]_vars => TypeOK'
  <2> SUFFICES ASSUME TypeOK, [Next]_vars PROVE TypeOK'
    OBVIOUS
  <2> USE BroadcasterAssumption DEF BroadcasterAssumption, TypeOK, bufferVars, countVars
  <2>1. CASE Write
    <3>1. listeners' \subseteq Listeners /\ written' \in 0..MaxChunks
      BY <2>1 DEF Write, Evicted
    <3>2. ch' \in [Listeners -> Seq(1..MaxChunks)]
      <4>1. written + 1 \in 1..MaxChunks
        BY <2>1 DEF Write
      <4>2. \A l \in Listeners : Append(ch[l], written + 1) \in Seq(1..MaxChunks)
        BY <4>1
      <4> QED
        BY <2>1, <4>2 DEF Write
    <3>3. \A l \in Listeners : Len(ch'[l]) <= BufferSize
      BY <2>1 DEF Write, HasRoom
    <3>4. closes' \in [Listeners -> Nat]
      BY <2>1 DEF Write
    <3>5. dropped' \in [Listeners -> Nat]
      BY <2>1 DEF Write, DropsInARow
    <3>6. owes' \in [Actors -> Int] /\ overlapped' \in BOOLEAN
      <4>1. CASE Evicted # {}
        BY <2>1, <3>1, <4>1, OweTypes DEF Write, ReportEviction, Actors
      <4>2. CASE Evicted = {}
        BY <2>1, <4>2 DEF Write, ReportEviction
      <4> QED
        BY <4>1, <4>2
    <3> QED
      BY <2>1, <3>1, <3>2, <3>3, <3>4, <3>5, <3>6 DEF Write
  <2>2. CASE CloseAll
    <3>1. owes' \in [Actors -> Int] /\ overlapped' \in BOOLEAN
      <4>1. Owe("stop", {}) /\ "stop" \in Actors /\ {} \subseteq Listeners
        BY <2>2 DEF CloseAll, Actors
      <4> QED
        BY <4>1, OweTypes
    <3> QED
      BY <2>2, <3>1 DEF CloseAll
  <2>3. ASSUME NEW a \in Actors, Report(a) PROVE TypeOK'
    BY <2>3 DEF Report, Nothing
  <2>4. ASSUME NEW l \in Listeners, Subscribe(l) PROVE TypeOK'
    <3>1. listeners' \subseteq Listeners
      BY <2>4 DEF Subscribe
    <3>2. owes' \in [Actors -> Int] /\ overlapped' \in BOOLEAN
      BY <2>4, <3>1, OweTypes DEF Subscribe, Actors
    <3> QED
      BY <2>4, <3>1, <3>2 DEF Subscribe
  <2>5. ASSUME NEW l \in Listeners, HangUp(l) PROVE TypeOK'
    BY <2>5 DEF HangUp
  <2>6. ASSUME NEW l \in Listeners, ClientTakes(l) PROVE TypeOK'
    BY <2>6 DEF ClientTakes
  <2>7. ASSUME NEW l \in Listeners, SeesHangUp(l) PROVE TypeOK'
    BY <2>7 DEF SeesHangUp
  <2>8. ASSUME NEW l \in Listeners, Receive(l) PROVE TypeOK'
    <3>1. Head(ch[l]) \in 1..MaxChunks /\ Tail(ch[l]) \in Seq(1..MaxChunks)
      BY <2>8 DEF Receive
    <3>2. Len(Tail(ch[l])) <= BufferSize
      BY <2>8 DEF Receive
    <3> QED
      BY <2>8, <3>1, <3>2 DEF Receive
  <2>9. ASSUME NEW l \in Listeners, SeesClosed(l) PROVE TypeOK'
    BY <2>9 DEF SeesClosed
  <2>10. ASSUME NEW l \in Listeners, WriteFails(l) PROVE TypeOK'
    BY <2>10 DEF WriteFails
  <2>11. ASSUME NEW l \in Listeners, Unsubscribe(l) PROVE TypeOK'
    <3>1. listeners' \subseteq Listeners
      BY <2>11 DEF Unsubscribe
    <3>2. owes' \in [Actors -> Int] /\ overlapped' \in BOOLEAN
      BY <2>11, <3>1, OweTypes DEF Unsubscribe, Actors
    <3> QED
      BY <2>11, <3>1, <3>2 DEF Unsubscribe, Collect
  <2>12. CASE UNCHANGED vars
    BY <2>12 DEF vars
  <2> QED
    BY <2>1, <2>2, <2>3, <2>4, <2>5, <2>6, <2>7, <2>8, <2>9, <2>10, <2>11, <2>12
       DEF Next, HandlerStep
<1> QED
  BY <1>1, <1>2, PTL DEF Spec

-----------------------------------------------------------------------------
(* ChannelClosedOnce is inductive once it also speaks of listeners that    *)
(* have not subscribed: their channel is open and empty, and they are not  *)
(* in the map.                                                             *)
Untouched ==
    \A l \in Listeners : pc[l] = "away" =>
        closes[l] = 0 /\ l \notin listeners /\ ch[l] = <<>> /\ dropped[l] = 0

(* A listener whose handler is gone is not in the map.                     *)
GoneIsOut == \A l \in Listeners : pc[l] = "gone" => l \notin listeners

Closing == ChannelClosedOnce /\ Untouched /\ GoneIsOut

LEMMA ClosingInvariant == Spec => []Closing
<1>1. Init => Closing
  BY DEF Init, Closing, ChannelClosedOnce, Untouched, GoneIsOut
<1>2. TypeOK /\ Closing /\ [Next]_vars => Closing'
  <2> SUFFICES ASSUME TypeOK, Closing, [Next]_vars PROVE Closing'
    OBVIOUS
  <2> USE DEF TypeOK, Closing, ChannelClosedOnce, Untouched, GoneIsOut, bufferVars
  <2>1. CASE Write
    BY <2>1 DEF Write, Evicted
  <2>2. CASE CloseAll
    BY <2>2 DEF CloseAll
  <2>3. ASSUME NEW a \in Actors, Report(a) PROVE Closing'
    BY <2>3 DEF Report
  <2>4. ASSUME NEW l \in Listeners, Subscribe(l) PROVE Closing'
    BY <2>4 DEF Subscribe
  <2>5. ASSUME NEW l \in Listeners, HangUp(l) PROVE Closing'
    BY <2>5 DEF HangUp
  <2>6. ASSUME NEW l \in Listeners, ClientTakes(l) PROVE Closing'
    BY <2>6 DEF ClientTakes
  <2>7. ASSUME NEW l \in Listeners, SeesHangUp(l) PROVE Closing'
    BY <2>7 DEF SeesHangUp
  <2>8. ASSUME NEW l \in Listeners, Receive(l) PROVE Closing'
    BY <2>8 DEF Receive
  <2>9. ASSUME NEW l \in Listeners, SeesClosed(l) PROVE Closing'
    BY <2>9 DEF SeesClosed
  <2>10. ASSUME NEW l \in Listeners, WriteFails(l) PROVE Closing'
    BY <2>10 DEF WriteFails
  <2>11. ASSUME NEW l \in Listeners, Unsubscribe(l) PROVE Closing'
    BY <2>11 DEF Unsubscribe, Collect
  <2>12. CASE UNCHANGED vars
    BY <2>12 DEF vars
  <2> QED
    BY <2>1, <2>2, <2>3, <2>4, <2>5, <2>6, <2>7, <2>8, <2>9, <2>10, <2>11, <2>12
       DEF Next, HandlerStep
<1> QED
  BY <1>1, <1>2, TypeCorrect, PTL DEF Spec

(* No channel is closed twice and none stays open once its listener has    *)
(* left the map, whoever takes it out.                                     *)
THEOREM ClosedExactlyOnce == Spec => []ChannelClosedOnce
BY ClosingInvariant, PTL DEF Closing

-----------------------------------------------------------------------------
(* GapsBounded is inductive once the drop count is tied to the chunks: what *)
(* a listener in the map has missed is what dropped says, and that is less  *)
(* than MaxDrops.                                                           *)
Narrow(l) == \A i \in 1..Len(ch[l]) : Nth(l, i) - Nth(l, i - 1) \in 1..MaxDrops

Counted(l) == written - Newest(l) = dropped[l] /\ dropped[l] < MaxDrops

Gaps ==
    /\ \A l \in Listeners : Connected(l) => Narrow(l)
    /\ \A l \in listeners : Counted(l)

LEMMA SameStream ==
    ASSUME NEW l \in Listeners, ch'[l] = ch[l], got'[l] = got[l], Narrow(l)
    PROVE  Narrow(l)'
BY DEF Narrow, Nth

LEMMA SameCount ==
    ASSUME NEW l \in Listeners, ch'[l] = ch[l], got'[l] = got[l],
           dropped'[l] = dropped[l], written' = written, Counted(l)
    PROVE  Counted(l)'
BY DEF Counted, Newest, Nth

(* A chunk that finds room ends the run of drops.                          *)
LEMMA RoomEndsRun ==
    ASSUME TypeOK, NEW l \in Listeners, Narrow(l), Counted(l),
           ch'[l] = Append(ch[l], written + 1), got'[l] = got[l],
           dropped'[l] = 0, written' = written + 1
    PROVE  Narrow(l)' /\ Counted(l)'
<1>0. PICK n \in Nat : n = Len(ch[l])
  BY DEF TypeOK
<1>1. /\ ch[l] \in Seq(1..MaxChunks) /\ written \in Nat
      /\ got[l] \in Int /\ dropped[l] \in Nat /\ MaxDrops \in Nat \ {0}
      /\ \A i \in 1..n : ch[l][i] \in Int
  BY <1>0, BroadcasterAssumption DEF BroadcasterAssumption, TypeOK
<1>2. /\ Len(ch'[l]) = n + 1 /\ ch'[l][n + 1] = written + 1
      /\ \A i \in 1..n : ch'[l][i] = ch[l][i]
  BY <1>0, <1>1
<1>3. Nth(l, n) \in Int
  BY <1>1 DEF Nth
<1>4. \A i \in 1..n : Nth(l, i)' = Nth(l, i) /\ Nth(l, i - 1)' = Nth(l, i - 1)
  BY <1>1, <1>2 DEF Nth
<1>5. Nth(l, n + 1)' = written + 1 /\ Nth(l, n)' = Nth(l, n)
  BY <1>1, <1>2 DEF Nth
<1>6. written - Nth(l, n) = dropped[l] /\ dropped[l] < MaxDrops
  BY <1>0 DEF Counted, Newest
<1>7. Nth(l, n + 1)' - Nth(l, n)' \in 1..MaxDrops
  BY <1>1, <1>3, <1>5, <1>6
<1>8. Narrow(l)'
  <2>1. ASSUME NEW i \in 1..(n + 1) PROVE Nth(l, i)' - Nth(l, i - 1)' \in 1..MaxDrops
    <3>1. CASE i \in 1..n
      BY <3>1, <1>0, <1>4 DEF Narrow
    <3>2. CASE i = n + 1
      <4>1. i - 1 = n
        BY <3>2, <1>1
      <4> QED
        BY <3>2, <4>1, <1>7
    <3> QED
      BY <1>1, <3>1, <3>2
  <2> QED
    BY <2>1, <1>2 DEF Narrow
<1>9. Counted(l)'
  <2>1. Newest(l)' = written + 1
    BY <1>2, <1>5 DEF Newest
  <2> QED
    BY <2>1, <1>1 DEF Counted
<1> QED
  BY <1>8, <1>9

LEMMA DropCounts ==
    ASSUME TypeOK, NEW l \in Listeners, Counted(l), ch'[l] = ch[l], got'[l] = got[l],
           dropped'[l] = dropped[l] + 1, written' = written + 1,
           ~TooSlow(dropped[l] + 1)
    PROVE  Counted(l)'
<1>1. /\ Len(ch[l]) \in Nat /\ written \in Nat
      /\ got[l] \in Int /\ dropped[l] \in Nat /\ MaxDrops \in Nat \ {0}
      /\ \A i \in 1..Len(ch[l]) : ch[l][i] \in Int
  BY BroadcasterAssumption DEF BroadcasterAssumption, TypeOK
<1>2. Newest(l) \in Int /\ Newest(l)' = Newest(l)
  BY <1>1 DEF Newest, Nth
<1> QED
  BY <1>1, <1>2 DEF Counted, TooSlow

(* The handler takes the oldest chunk: its stream is the same, shifted.    *)
LEMMA ReceiveShifts ==
    ASSUME TypeOK, NEW l \in Listeners, Receive(l)
    PROVE  /\ Narrow(l) => Narrow(l)'
           /\ Counted(l) => Counted(l)'
<1>0. PICK n \in Nat : n = Len(ch[l])
  BY DEF TypeOK
<1>1. ch[l] \in Seq(1..MaxChunks) /\ ch[l] # <<>> /\ n \in Nat \ {0}
  BY <1>0 DEF Receive, TypeOK
<1>2. ch'[l] = Tail(ch[l]) /\ got'[l] = ch[l][1]
  BY <1>1 DEF Receive, TypeOK
<1>3. Len(ch'[l]) = n - 1 /\ \A i \in 1..(n - 1) : ch'[l][i] = ch[l][i + 1]
  BY <1>0, <1>1, <1>2
<1>4. \A i \in 0..(n - 1) : Nth(l, i)' = Nth(l, i + 1)
  BY <1>1, <1>2, <1>3 DEF Nth
<1>5. Narrow(l) => Narrow(l)'
  <2>1. SUFFICES ASSUME Narrow(l), NEW i \in 1..(n - 1)
                 PROVE  Nth(l, i)' - Nth(l, i - 1)' \in 1..MaxDrops
    BY <1>3 DEF Narrow
  <2>2. i \in 0..(n - 1) /\ i - 1 \in 0..(n - 1) /\ (i - 1) + 1 = i /\ i + 1 \in 1..n
    BY <1>1
  <2>3. Nth(l, i)' = Nth(l, i + 1) /\ Nth(l, i - 1)' = Nth(l, i)
    BY <2>2, <1>4
  <2>4. Nth(l, i + 1) - Nth(l, (i + 1) - 1) \in 1..MaxDrops
    BY <2>1, <2>2, <1>0 DEF Narrow
  <2>5. (i + 1) - 1 = i
    BY <2>2
  <2> QED
    BY <2>3, <2>4, <2>5
<1>6. Newest(l)' = Newest(l)
  <2>1. n - 1 \in 0..(n - 1) /\ (n - 1) + 1 = n
    BY <1>1
  <2> QED
    BY <2>1, <1>0, <1>3, <1>4 DEF Newest
<1>7. written' = written /\ dropped' = dropped
  BY DEF Receive
<1> QED
  BY <1>5, <1>6, <1>7 DEF Counted

(* A step that writes nothing and leaves every listener that stays the same *)
(* chunks keeps the gaps as they are.                                       *)
LEMMA KeepsGaps ==
    ASSUME TypeOK, Gaps, written' = written, listeners' \subseteq listeners,
           \A l \in Listeners : Connected(l)' =>
               Connected(l) /\ ch'[l] = ch[l] /\ got'[l] = got[l],
           \A l \in listeners' : Connected(l)' /\ dropped'[l] = dropped[l]
    PROVE  Gaps'
<1>1. \A l \in Listeners : Connected(l)' => Narrow(l)'
  BY SameStream DEF Gaps
<1>2. \A l \in listeners' : Counted(l)'
  BY SameCount DEF Gaps, TypeOK
<1> QED
  BY <1>1, <1>2 DEF Gaps

LEMMA GapsStep ==
    ASSUME TypeOK, TypeOK', Closing, Closing', Gaps, [Next]_vars
    PROVE  Gaps'
<1>1. listeners \subseteq Listeners /\ \A l \in listeners : Connected(l)
  BY DEF TypeOK, Closing, Untouched, GoneIsOut, Connected
<1>2. CASE Write
  <2>1. ASSUME NEW l \in Listeners PROVE Connected(l)' = Connected(l) /\ got'[l] = got[l]
    BY <1>2 DEF Write, Connected
  <2>2. ASSUME NEW l \in Listeners, l \notin listeners \/ ~HasRoom(ch[l])
        PROVE  ch'[l] = ch[l]
    BY <1>2, <2>2 DEF Write
  <2>3. ASSUME NEW l \in listeners, HasRoom(ch[l]) PROVE Narrow(l)' /\ Counted(l)'
    <3>1. ch'[l] = Append(ch[l], written + 1) /\ dropped'[l] = 0 /\ written' = written + 1
      BY <1>1, <1>2, <2>3 DEF Write, Evicted, DropsInARow
    <3>2. Narrow(l) /\ Counted(l)
      BY <1>1 DEF Gaps
    <3> QED
      BY <1>1, <2>1, <3>1, <3>2, RoomEndsRun
  <2>4. ASSUME NEW l \in listeners', ~HasRoom(ch[l]) PROVE Counted(l)'
    <3>1. l \in listeners /\ l \notin Evicted /\ l \in Listeners
      BY <1>1, <1>2 DEF Write
    <3>2. dropped'[l] = dropped[l] + 1 /\ written' = written + 1 /\ ~TooSlow(dropped[l] + 1)
      BY <1>2, <2>4, <3>1 DEF Write, Evicted, DropsInARow
    <3>3. Counted(l)
      BY <3>1 DEF Gaps
    <3> QED
      BY <2>1, <2>2, <2>4, <3>1, <3>2, <3>3, DropCounts
  <2>5. \A l \in Listeners : Connected(l)' => Narrow(l)'
    <3> SUFFICES ASSUME NEW l \in Listeners, Connected(l)' PROVE Narrow(l)'
      OBVIOUS
    <3>1. CASE l \in listeners /\ HasRoom(ch[l])
      BY <3>1, <2>3
    <3>2. CASE l \notin listeners \/ ~HasRoom(ch[l])
      <4>1. Narrow(l)
        BY <2>1 DEF Gaps
      <4> QED
        BY <3>2, <4>1, <2>1, <2>2, SameStream
    <3> QED
      BY <3>1, <3>2
  <2>6. \A l \in listeners' : Counted(l)'
    <3>1. listeners' \subseteq listeners
      BY <1>2 DEF Write
    <3> QED
      BY <3>1, <2>3, <2>4
  <2> QED
    BY <2>5, <2>6 DEF Gaps
<1>3. ASSUME NEW l \in Listeners, Subscribe(l) PROVE Gaps'
  <2>1. /\ ch'[l] = <<>> /\ dropped'[l] = 0 /\ got'[l] = written
        /\ written' = written /\ listeners' = listeners \union {l}
        /\ \A k \in Listeners : k # l =>
              /\ Connected(k)' = Connected(k) /\ ch'[k] = ch[k]
              /\ got'[k] = got[k] /\ dropped'[k] = dropped[k]
    BY <1>3 DEF Subscribe, TypeOK, Closing, Untouched, Connected
  <2>2. Narrow(l)'
    BY <2>1 DEF Narrow
  <2>3. Counted(l)'
    <3>1. Len(ch'[l]) = 0
      BY <2>1
    <3>2. Newest(l)' = written
      BY <2>1, <3>1 DEF Newest, Nth
    <3> QED
      BY <2>1, <3>2, BroadcasterAssumption DEF Counted, BroadcasterAssumption, TypeOK
  <2>4. \A k \in Listeners : Connected(k)' => Narrow(k)'
    BY <2>1, <2>2, SameStream DEF Gaps
  <2>5. \A k \in listeners' : Counted(k)'
    BY <1>1, <2>1, <2>3, SameCount DEF Gaps
  <2> QED
    BY <2>4, <2>5 DEF Gaps
<1>4. ASSUME NEW l \in Listeners, Receive(l) PROVE Gaps'
  <2>1. \A k \in Listeners : Connected(k)' = Connected(k)
    BY <1>4 DEF Receive, Connected, TypeOK
  <2>2. ASSUME NEW k \in Listeners, k # l
        PROVE  ch'[k] = ch[k] /\ got'[k] = got[k] /\ dropped'[k] = dropped[k]
    BY <1>4, <2>2 DEF Receive, TypeOK
  <2>3. written' = written /\ listeners' = listeners
    BY <1>4 DEF Receive
  <2>4. \A k \in Listeners : Connected(k)' => Narrow(k)'
    BY <1>4, <2>1, <2>2, SameStream, ReceiveShifts DEF Gaps
  <2>5. \A k \in listeners' : Counted(k)'
    BY <1>1, <1>4, <2>2, <2>3, SameCount, ReceiveShifts DEF Gaps
  <2> QED
    BY <2>4, <2>5 DEF Gaps
<1>5. \A l \in listeners' : Connected(l)'
  BY DEF TypeOK, Closing, Untouched, GoneIsOut, Connected
<1>6. CASE CloseAll
  BY <1>5, <1>6, KeepsGaps DEF CloseAll, Connected
<1>7. ASSUME NEW l \in Listeners, Unsubscribe(l) PROVE Gaps'
  <2>1. \A k \in Listeners : Connected(k)' =>
            Connected(k) /\ ch'[k] = ch[k] /\ got'[k] = got[k] /\ dropped'[k] = dropped[k]
    BY <1>7 DEF Unsubscribe, Collect, Connected, TypeOK
  <2>2. written' = written /\ listeners' \subseteq listeners
    BY <1>7 DEF Unsubscribe
  <2> QED
    BY <1>1, <1>5, <2>1, <2>2, KeepsGaps
<1>8. ASSUME UNCHANGED <<listeners, bufferVars, written>>,
             \A l \in Listeners : Connected(l)' => Connected(l)
      PROVE  Gaps'
  BY <1>5, <1>8, KeepsGaps DEF bufferVars
<1>9. ASSUME NEW l \in Listeners,
             HangUp(l) \/ ClientTakes(l) \/ SeesHangUp(l) \/ SeesClosed(l) \/ WriteFails(l)
      PROVE  Gaps'
  <2>1. UNCHANGED <<listeners, bufferVars, written>>
    BY <1>9 DEF HangUp, ClientTakes, SeesHangUp, SeesClosed, WriteFails
  <2>2. \A k \in Listeners : Connected(k)' => Connected(k)
    BY <1>9 DEF HangUp, ClientTakes, SeesHangUp, SeesClosed, WriteFails, Connected, TypeOK
  <2> QED
    BY <2>1, <2>2, <1>8
<1>10. ASSUME NEW a \in Actors, Report(a) PROVE Gaps'
  BY <1>8, <1>10 DEF Report, Connected
<1>11. CASE UNCHANGED vars
  BY <1>8, <1>11 DEF vars, bufferVars, Connected
<1> QED
  BY <1>2, <1>3, <1>4, <1>6, <1>7, <1>9, <1>10, <1>11 DEF Next, HandlerStep

LEMMA GapsInvariant == Spec => []Gaps
<1>1. Init => Gaps
  BY DEF Init, Gaps, Connected
<1> QED
  BY <1>1, GapsStep, TypeCorrect, ClosingInvariant, PTL DEF Spec

(* No listener, however slow its client, has a hole of MaxDrops chunks or  *)
(* more in what it hears.                                                  *)
THEOREM GapsStayBounded == Spec => []GapsBounded
<1>1. TypeOK /\ Gaps => GapsBounded
  BY DEF TypeOK, Gaps, GapsBounded, Narrow, Counted
<1> QED
  BY <1>1, TypeCorrect, GapsInvariant, PTL

(* Write takes out nobody but listeners that have missed MaxDrops chunks   *)
(* in a row.                                                               *)
THEOREM EvictsOnlyStuck == Spec => EvictedOnlyWhenStuck
<1>1. ASSUME TypeOK, Gaps, [Next]_vars, NEW l \in listeners \ listeners', written' # written
      PROVE  written' - Newest(l) >= MaxDrops
  <2>1. Write
    BY <1>1 DEF Next, HandlerStep, vars, bufferVars, CloseAll, Report, Subscribe, HangUp,
       ClientTakes, SeesHangUp, Receive, SeesClosed, WriteFails, Unsubscribe
  <2>2. l \in Evicted /\ l \in Listeners /\ written' = written + 1
    BY <1>1, <2>1 DEF Write, TypeOK
  <2>3. dropped[l] + 1 >= MaxDrops
    BY <2>2 DEF Evicted, DropsInARow, TooSlow
  <2>4. written - Newest(l) = dropped[l]
    BY <1>1 DEF Gaps, Counted
  <2>5. Newest(l) \in Int
    <3>1. /\ Len(ch[l]) \in Nat /\ got[l] \in Int
          /\ \A i \in 1..Len(ch[l]) : ch[l][i] \in Int
      BY <1>1, <2>2, BroadcasterAssumption DEF TypeOK, BroadcasterAssumption
    <3> QED
      BY <3>1 DEF Newest, Nth
  <2> QED
    BY <1>1, <2>2, <2>3, <2>4, <2>5, BroadcasterAssumption DEF TypeOK, BroadcasterAssumption
<1>2. TypeOK /\ Gaps /\ [Next]_vars =>
          [\A l \in listeners \ listeners' :
              written' # written => written' - Newest(l) >= MaxDrops]_vars
  BY <1>1
<1> QED
  BY <1>2, TypeCorrect, GapsInvariant, PTL DEF Spec, EvictedOnlyWhenStuck

-----------------------------------------------------------------------------
(* CountReported is inductive once it says what is about to be reported:   *)
(* with no overlap one actor at most owes a count, and that is the count.  *)
Counting ==
    ~overlapped =>
        /\ \A a, b \in Actors : a # b => Free(a) \/ Free(b)
        /\ \A a \in Actors : Free(a) \/ owes[a] = Cardinality(listeners)
        /\ (\A a \in Actors : Free(a)) => reported = Cardinality(listeners)

(* Whoever changes the map owes the count that it leaves behind.           *)
LEMMA OweCounts ==
    ASSUME TypeOK, TypeOK', NEW a \in Actors, Owe(a, listeners')
    PROVE  Counting'
<1> SUFFICES ASSUME ~overlapped'
             PROVE  /\ \A b, c \in Actors : b # c => Free(b)' \/ Free(c)'
                    /\ \A b \in Actors : Free(b)' \/ owes'[b] = Cardinality(listeners')
                    /\ (\A b \in Actors : Free(b)') => reported' = Cardinality(listeners')
    BY DEF Counting
<1>1. \A b \in Actors : Free(b)
      BY DEF Owe
<1>2. \A b \in Actors : IF b = a THEN owes'[b] = Cardinality(listeners') ELSE Free(b)'
      BY <1>1 DEF Owe, Free, TypeOK
<1>3. Cardinality(listeners') \in Nat
      <2>1. IsFiniteSet(listeners')
            BY FS_Subset, BroadcasterAssumption DEF BroadcasterAssumption, TypeOK
      <2> QED BY <2>1, FS_CardinalityType
<1>4. ~Free(a)'
      BY <1>2, <1>3 DEF Free, Nothing
<1> QED BY <1>2, <1>4

LEMMA CountingStep ==
    ASSUME TypeOK, TypeOK', Counting, [Next]_vars
    PROVE  Counting'
<1>1. CASE Write
      <2>1. CASE Evicted # {}
            BY <1>1, <2>1, OweCounts DEF Write, ReportEviction, Actors
      <2>2. CASE Evicted = {}
            <3>1. UNCHANGED <<listeners, owes, reported, overlapped>>
                  BY <1>1, <2>2 DEF Write, ReportEviction
            <3> QED BY <3>1 DEF Counting, Free
      <2> QED BY <2>1, <2>2
<1>2. CASE CloseAll
      BY <1>2, OweCounts DEF CloseAll, Actors
<1>3. ASSUME NEW a \in Actors, Report(a) PROVE Counting'
      <2>1. /\ ~Free(a) /\ reported' = owes[a] /\ UNCHANGED <<listeners, overlapped>>
            /\ \A b \in Actors : Free(b)' = (b = a \/ Free(b))
            /\ \A b \in Actors : b # a => owes'[b] = owes[b]
            BY <1>3 DEF Report, Free, TypeOK
      <2> QED BY <2>1 DEF Counting
<1>4. ASSUME NEW l \in Listeners, Subscribe(l) \/ Unsubscribe(l) PROVE Counting'
      BY <1>4, OweCounts DEF Subscribe, Unsubscribe, Actors
<1>5. ASSUME NEW l \in Listeners,
             \/ HangUp(l) \/ ClientTakes(l) \/ SeesHangUp(l) \/ Receive(l)
             \/ SeesClosed(l) \/ WriteFails(l)
      PROVE  Counting'
      <2>1. UNCHANGED <<listeners, owes, reported, overlapped>>
            BY <1>5 DEF HangUp, ClientTakes, SeesHangUp, Receive, SeesClosed, WriteFails,
               countVars
      <2> QED BY <2>1 DEF Counting, Free
<1>6. CASE UNCHANGED vars
      BY <1>6 DEF vars, countVars, Counting, Free
<1> QED BY <1>1, <1>2, <1>3, <1>4, <1>5, <1>6 DEF Next, HandlerStep

(* With no callback in flight, and none that ran into another, the last    *)
(* count published is the number of listeners (broadcaster.go:51-57).      *)
THEOREM CountIsReported == Spec => []CountReported
<1>1. Init => Counting
      BY FS_EmptySet DEF Init, Counting, Free
<1>2. TypeOK /\ TypeOK' /\ Counting /\ [Next]_vars => Counting'
      BY CountingStep
<1>3. Counting => CountReported
      BY DEF Counting, CountReported
<1> QED BY <1>1, <1>2, <1>3, TypeCorrect, PTL DEF Spec

-----------------------------------------------------------------------------
(* The part of DisconnectedHandlersEnd that is no matter of fairness: how  *)
(* many steps the handler of a listener that has left the map can take.    *)
StepsLeft(l) ==
    CASE pc[l] = "select" -> 2 * Len(ch[l]) + 2
      [] pc[l] = "write"  -> 2 * Len(ch[l]) + 3
      [] pc[l] = "leave"  -> 1
      [] OTHER            -> 0

Drains(l) ==
    /\ l \notin listeners'
    /\ UNCHANGED <<pc[l], ch[l], got[l]>> \/ StepsLeft(l)' < StepsLeft(l)

LEMMA StepsAreCounted ==
    ASSUME TypeOK, NEW l \in Listeners
    PROVE  Len(ch[l]) \in Nat /\ StepsLeft(l) \in Nat
BY DEF TypeOK, StepsLeft

LEMMA HandlerDrains ==
    ASSUME TypeOK, NEW l \in Listeners, HandlerStep(l) \/ ClientTakes(l)
    PROVE  StepsLeft(l)' < StepsLeft(l)
<1> USE DEF StepsLeft
<1>0. Len(ch[l]) \in Nat /\ l \in DOMAIN pc /\ l \in DOMAIN ch
  BY StepsAreCounted DEF TypeOK
<1>1. CASE SeesHangUp(l) \/ SeesClosed(l)
  <2>1. pc[l] = "select" /\ pc'[l] = "leave" /\ ch' = ch
    BY <1>0, <1>1 DEF SeesHangUp, SeesClosed, bufferVars
  <2> QED
    BY <1>0, <2>1
<1>2. CASE Receive(l)
  <2>1. pc[l] = "select" /\ pc'[l] = "write" /\ ch'[l] = Tail(ch[l]) /\ ch[l] # <<>>
    BY <1>0, <1>2 DEF Receive
  <2>2. Len(Tail(ch[l])) = Len(ch[l]) - 1
    BY <2>1 DEF TypeOK
  <2> QED
    BY <1>0, <2>1, <2>2
<1>3. CASE ClientTakes(l)
  <2>1. pc[l] = "write" /\ pc'[l] = "select" /\ ch' = ch
    BY <1>0, <1>3 DEF ClientTakes, bufferVars
  <2> QED
    BY <1>0, <2>1
<1>4. CASE WriteFails(l)
  <2>1. pc[l] = "write" /\ pc'[l] = "leave" /\ ch' = ch
    BY <1>0, <1>4 DEF WriteFails, bufferVars
  <2> QED
    BY <1>0, <2>1
<1>5. CASE Unsubscribe(l)
  <2>1. pc[l] = "leave" /\ pc'[l] = "gone"
    BY <1>0, <1>5 DEF Unsubscribe
  <2> QED
    BY <2>1
<1> QED
  BY <1>1, <1>2, <1>3, <1>4, <1>5 DEF HandlerStep

LEMMA StaysOut ==
    ASSUME TypeOK, [Next]_vars, NEW l \in Listeners, pc[l] # "away", l \notin listeners
    PROVE  Drains(l)
<1>1. CASE Write
  BY <1>1 DEF Write, Drains, TypeOK
<1>2. CASE CloseAll
  BY <1>2 DEF CloseAll, Drains
<1>3. ASSUME NEW a \in Actors, Report(a) PROVE Drains(l)
  BY <1>3 DEF Report, bufferVars, Drains
<1>4. ASSUME NEW k \in Listeners, Subscribe(k) PROVE Drains(l)
  <2>1. k # l /\ listeners' = listeners \union {k} /\ ch' = ch
        /\ pc'[l] = pc[l] /\ got'[l] = got[l]
    BY <1>4 DEF Subscribe, TypeOK
  <2> QED
    BY <2>1 DEF Drains
<1>5. ASSUME NEW k \in Listeners, HangUp(k) PROVE Drains(l)
  BY <1>5 DEF HangUp, bufferVars, Drains
<1>6. ASSUME NEW k \in Listeners, HandlerStep(k) \/ ClientTakes(k) PROVE Drains(l)
  <2>1. l \notin listeners'
    BY <1>6 DEF HandlerStep, ClientTakes, SeesHangUp, Receive, SeesClosed, WriteFails, Unsubscribe
  <2>2. CASE k = l
    BY <1>6, <2>1, <2>2, HandlerDrains DEF Drains
  <2>3. CASE k # l
    <3>1. pc'[l] = pc[l] /\ ch'[l] = ch[l] /\ got'[l] = got[l]
      BY <1>6, <2>3 DEF HandlerStep, ClientTakes, SeesHangUp, Receive, SeesClosed, WriteFails,
         Unsubscribe, Collect, bufferVars, TypeOK
    <3> QED
      BY <2>1, <3>1 DEF Drains
  <2> QED
    BY <2>2, <2>3
<1>7. CASE UNCHANGED vars
  BY <1>7 DEF vars, Drains
<1> QED
  BY <1>1, <1>2, <1>3, <1>4, <1>5, <1>6, <1>7 DEF Next

(* A listener that was evicted or whose station was stopped never comes    *)
(* back, its handler has only what is left in the buffer to send, and at   *)
(* the end of it finds the channel closed: nobody can keep the response    *)
(* open but its own client (stream.go:55-69, broadcaster.go:58-124).       *)
THEOREM DisconnectedDrain ==
    Spec => /\ [](\A l \in Listeners : pc[l] = "select" /\ l \notin listeners => closes[l] = 1)
            /\ [][\A l \in Listeners : pc[l] # "away" /\ l \notin listeners => Drains(l)]_vars
<1> DEFINE SeesTheEnd ==
             \A l \in Listeners : pc[l] = "select" /\ l \notin listeners => closes[l] = 1
           AllDrain == \A l \in Listeners : pc[l] # "away" /\ l \notin listeners => Drains(l)
<1>1. Closing => SeesTheEnd
  BY DEF Closing, ChannelClosedOnce
<1>2. TypeOK /\ [Next]_vars => AllDrain
  BY StaysOut
<1> HIDE DEF SeesTheEnd, AllDrain
<1>3. Spec => []SeesTheEnd /\ [][AllDrain]_vars
  BY <1>1, <1>2, TypeCorrect, ClosingInvariant, PTL DEF Spec
<1> QED
  BY <1>3 DEF SeesTheEnd, AllDrain
=============================================================================
