-------------------------- MODULE ScriptLoopProofs --------------------------
(***************************************************************************)
(* The types of ScriptLoop and its three safety properties, proved for any *)
(* number of timers, requests and messages and any buffer.  Each property  *)
(* is about variables of its own, so that each has an invariant of its     *)
(* own.  That requests are served and that the loop ends stay with TLC.    *)
(***************************************************************************)
EXTENDS ScriptLoop, SequenceTheorems, TLAPS

(* Timers and requests are numbered as they come, and every list of them   *)
(* is in that order.                                                       *)
Rising(s) == \A j, k \in DOMAIN s : j < k => s[j] < s[k]
Below(A, B) == \A a \in A, b \in B : a < b

LEMMA AppendGrows ==
    ASSUME NEW s \in Seq(Nat), NEW x \in Nat
    PROVE  /\ Append(s, x) \in Seq(Nat)
           /\ ToSet(Append(s, x)) = ToSet(s) \union {x}
           /\ Rising(s) /\ Below(ToSet(s), {x}) => Rising(Append(s, x))
<1>1. /\ Append(s, x) \in Seq(Nat) /\ Len(Append(s, x)) = Len(s) + 1
      /\ \A i \in 1..Len(s) : Append(s, x)[i] = s[i]
      /\ Append(s, x)[Len(s) + 1] = x
      OBVIOUS
<1>2. ToSet(Append(s, x)) = ToSet(s) \union {x}
      BY <1>1 DEF ToSet
<1>3. ASSUME Rising(s), Below(ToSet(s), {x}) PROVE Rising(Append(s, x))
      <2>1. \A i \in 1..Len(s) : s[i] < x
            BY <1>3 DEF Below, ToSet
      <2> QED BY <1>1, <1>3, <2>1 DEF Rising
<1> QED BY <1>1, <1>2, <1>3

LEMMA TailShrinks ==
    ASSUME NEW s \in Seq(Nat), s # <<>>
    PROVE  /\ Head(s) \in Nat /\ Tail(s) \in Seq(Nat)
           /\ ToSet(s) = {Head(s)} \union ToSet(Tail(s))
           /\ Rising(s) => Rising(Tail(s)) /\ Below({Head(s)}, ToSet(Tail(s)))
<1>1. /\ Head(s) = s[1] /\ Tail(s) \in Seq(Nat) /\ Len(Tail(s)) = Len(s) - 1 /\ Len(s) \in Nat \ {0}
      /\ \A i \in 1..(Len(s) - 1) : Tail(s)[i] = s[i + 1]
      OBVIOUS
<1>2. DOMAIN s = 1..Len(s) /\ DOMAIN Tail(s) = 1..(Len(s) - 1) /\ 1 \in 1..Len(s)
      BY <1>1
<1>3. ToSet(s) = {Head(s)} \union ToSet(Tail(s))
      <2>1. ASSUME NEW i \in 1..Len(s) PROVE s[i] \in {Head(s)} \union ToSet(Tail(s))
            <3>1. CASE i = 1
                  BY <1>1, <3>1
            <3>2. CASE i # 1
                  <4>1. i - 1 \in 1..(Len(s) - 1) /\ (i - 1) + 1 = i
                        BY <1>1, <3>2
                  <4>2. s[i] = Tail(s)[i - 1]
                        BY <1>1, <4>1
                  <4> QED BY <1>2, <4>1, <4>2 DEF ToSet
            <3> QED BY <3>1, <3>2
      <2>2. ASSUME NEW i \in 1..(Len(s) - 1) PROVE Tail(s)[i] \in ToSet(s)
            <3>1. i + 1 \in 1..Len(s)
                  BY <1>1
            <3> QED BY <1>1, <1>2, <3>1 DEF ToSet
      <2>3. Head(s) \in ToSet(s)
            BY <1>1, <1>2 DEF ToSet
      <2>4. ToSet(s) \subseteq {Head(s)} \union ToSet(Tail(s))
            BY <1>2, <2>1 DEF ToSet
      <2>5. ToSet(Tail(s)) \subseteq ToSet(s)
            <3>1. \A x \in ToSet(Tail(s)) : \E i \in 1..(Len(s) - 1) : x = Tail(s)[i]
                  BY <1>2 DEF ToSet
            <3> QED BY <2>2, <3>1
      <2> QED BY <2>3, <2>4, <2>5
<1>4. ASSUME Rising(s) PROVE Rising(Tail(s))
      BY <1>1, <1>2, <1>4 DEF Rising
<1>5. ASSUME Rising(s) PROVE Below({Head(s)}, ToSet(Tail(s)))
      <2>1. ASSUME NEW i \in 1..(Len(s) - 1) PROVE Head(s) < Tail(s)[i]
            <3>1. i + 1 \in 1..Len(s) /\ 1 < i + 1
                  BY <1>1
            <3> QED BY <1>1, <1>2, <1>5, <3>1 DEF Rising
      <2> QED BY <1>2, <2>1 DEF Below, ToSet
<1> QED BY <1>1, <1>3, <1>4, <1>5

LEMMA EmptyHasNone == ToSet(<<>>) = {} /\ <<>> \in Seq(Nat) /\ Rising(<<>>)
BY DEF ToSet, Rising

-----------------------------------------------------------------------------
(* The requests: queued ones came before the one in hand, that one before  *)
(* those in the list.  A request is in hand from LPOP to radio.queue.      *)
HandHeld == hand # None <=> main \in {"popped", "unanswered", "queue"}

InLine ==
    /\ Rising(queued) /\ Rising(list)
    /\ Below(ToSet(queued), ToSet(list))
    /\ hand # None => Below(ToSet(queued), {hand}) /\ Below({hand}, ToSet(list))

Accounted ==
    \A r \in 1..pushed : r \in ToSet(list) \union {hand} \union ToSet(queued) \union lost

RequestTypes ==
    /\ pushed \in 0..MaxRequests /\ answersLost \in 0..MaxLost
    /\ list \in Seq(Nat) /\ queued \in Seq(Nat) /\ hand \in 0..pushed
    /\ ToSet(list) \union ToSet(queued) \union lost \subseteq 1..pushed

RequestInv == RequestTypes /\ HandHeld /\ InLine /\ Accounted

(* Steps of other actions leave them and do not touch the one in hand.     *)
LEMMA OthersKeepRequests ==
    ASSUME RequestInv, UNCHANGED requestVars,
           main' = main \/ {main, main'} \intersect {"popped", "unanswered", "queue"} = {}
    PROVE  RequestInv'
BY DEF RequestInv, requestVars, RequestTypes, HandHeld, InLine, Accounted

LEMMA RequestStep == RequestInv /\ [Next]_vars => RequestInv'
<1> SUFFICES ASSUME RequestInv, [Next]_vars PROVE RequestInv'
    OBVIOUS
<1> USE DEF RequestInv
<1>1. CASE Pop
      <2>1. /\ main = "lpop" /\ main' = "popped" /\ list # <<>>
            /\ hand' = Head(list) /\ list' = Tail(list)
            /\ UNCHANGED <<pushed, queued, lost, answersLost>>
            BY <1>1 DEF Pop
      <2>2. /\ Head(list) \in Nat /\ Tail(list) \in Seq(Nat)
            /\ ToSet(list) = {Head(list)} \union ToSet(Tail(list))
            /\ Rising(Tail(list)) /\ Below({Head(list)}, ToSet(Tail(list)))
            BY <2>1, TailShrinks DEF RequestTypes, InLine
      <2>3. Head(list) \in 1..pushed
            BY <2>2 DEF RequestTypes
      <2>4. RequestTypes'
            BY <2>1, <2>2, <2>3, ScriptLoopAssumption DEF RequestTypes
      <2>5. HandHeld'
            BY <2>1, <2>3 DEF HandHeld, None
      <2>6. InLine'
            BY <2>1, <2>2 DEF InLine, Below
      <2>7. hand = None
            BY <2>1 DEF HandHeld
      <2>8. Accounted'
            BY <2>1, <2>2, <2>7 DEF Accounted, None
      <2> QED BY <2>4, <2>5, <2>6, <2>8
<1>2. CASE LoseAnswer
      <2>1. /\ main = "popped" /\ main' = "unanswered" /\ answersLost < MaxLost
            /\ answersLost' = answersLost + 1
            /\ UNCHANGED <<hand, list, pushed, queued, lost>>
            BY <1>2 DEF LoseAnswer
      <2> QED BY <2>1, ScriptLoopAssumption DEF RequestTypes, HandHeld, InLine, Accounted
<1>3. CASE PopRetried \/ PopFails
      <2>1. /\ main = "unanswered" /\ main' \in {"lpop", "return"}
            /\ lost' = lost \union {hand} /\ hand' = None
            /\ UNCHANGED <<list, pushed, queued, answersLost>>
            BY <1>3 DEF PopRetried, PopFails, CallTimeout
      <2>2. hand \in 1..pushed
            BY <2>1 DEF HandHeld, RequestTypes, None
      <2> QED BY <2>1, <2>2 DEF RequestTypes, HandHeld, InLine, Accounted, None
<1>4. CASE QueueRequest
      <2>1. /\ main = "queue" /\ main' = "return" /\ hand' = None
            /\ UNCHANGED <<list, pushed>>
            /\ \/ queued' = Append(queued, hand) /\ lost' = lost
               \/ lost' = lost \union {hand} /\ queued' = queued
            /\ answersLost' = answersLost \/ (answersLost < MaxLost /\ answersLost' = answersLost + 1)
            BY <1>4 DEF QueueRequest
      <2>2. hand \in 1..pushed /\ hand \in Nat
            BY <2>1 DEF HandHeld, RequestTypes, None
      <2>3. answersLost' \in 0..MaxLost
            BY <2>1, ScriptLoopAssumption DEF RequestTypes
      <2>4. CASE queued' = queued /\ lost' = lost \union {hand}
            BY <2>1, <2>2, <2>4, <2>3 DEF RequestTypes, HandHeld, InLine, Accounted, None
      <2>5. CASE queued' = Append(queued, hand) /\ lost' = lost
            <3>1. /\ queued' \in Seq(Nat) /\ ToSet(queued') = ToSet(queued) \union {hand}
                  /\ Rising(queued')
                  BY <2>1, <2>2, <2>5, AppendGrows DEF RequestTypes, InLine, HandHeld
            <3>2. Below(ToSet(queued'), ToSet(list))
                  BY <2>1, <2>2, <3>1 DEF InLine, HandHeld, Below
            <3> QED BY <2>1, <2>2, <2>5, <2>3, <3>1, <3>2
                    DEF RequestTypes, HandHeld, InLine, Accounted, None
      <2> QED BY <2>1, <2>4, <2>5
<1>5. CASE PushRequest
      <2>1. /\ pushed < MaxRequests /\ pushed' = pushed + 1 /\ list' = Append(list, pushed + 1)
            /\ UNCHANGED <<main, hand, queued, lost, answersLost>>
            BY <1>5 DEF PushRequest
      <2>2. pushed + 1 \in Nat /\ Below(ToSet(list), {pushed + 1})
            BY DEF RequestTypes, Below
      <2>3. /\ list' \in Seq(Nat) /\ ToSet(list') = ToSet(list) \union {pushed + 1}
            /\ Rising(list')
            BY <2>1, <2>2, AppendGrows DEF RequestTypes, InLine
      <2>4. RequestTypes'
            BY <2>1, <2>3, ScriptLoopAssumption DEF RequestTypes
      <2>5. InLine'
            <3>1. Below(ToSet(queued), {pushed + 1}) /\ (hand # None => hand < pushed + 1)
                  BY DEF RequestTypes, Below
            <3> QED BY <2>1, <2>3, <3>1 DEF InLine, Below
      <2>6. HandHeld' /\ Accounted'
            BY <2>1, <2>3 DEF HandHeld, Accounted, RequestTypes
      <2> QED BY <2>4, <2>5, <2>6
<1>6. CASE PopAnswered
      BY <1>6 DEF PopAnswered, Goes, requestVars, RequestTypes, HandHeld, InLine, Accounted
<1>7. CASE CallLPop \/ PopNothing
      BY <1>7, OthersKeepRequests DEF CallLPop, PopNothing
<1>8. CASE RunDueTimers \/ NotDue \/ Fire \/ TimersRun \/ Callback
      <2>1. UNCHANGED requestVars
            BY <1>8 DEF RunDueTimers, NotDue, Fire, TimersRun, Callback, AddTimer, Return,
               redisCall, sqlCall, httpCall, Waits, LibraryReturns, Goes
      <2>2. main' = main \/ {main, main'} \intersect {"popped", "unanswered", "queue"} = {}
            BY <1>8 DEF RunDueTimers, NotDue, Fire, TimersRun, Callback, AddTimer, Return,
               redisCall, sqlCall, httpCall, Waits, LibraryReturns, Goes
      <2> QED BY <2>1, <2>2, OthersKeepRequests
<1>9. CASE DispatchEvent \/ TakeMessage \/ Shutdown \/ Subscription
      <2>1. UNCHANGED requestVars
            BY <1>9 DEF DispatchEvent, TakeMessage, Shutdown, Subscription, SubReceive, SubSend,
               SubEnds
      <2>2. main' = main \/ {main, main'} \intersect {"popped", "unanswered", "queue"} = {}
            BY <1>9 DEF DispatchEvent, TakeMessage, Shutdown, Subscription, SubReceive, SubSend,
               SubEnds
      <2> QED BY <2>1, <2>2, OthersKeepRequests
<1>10. CASE TimePasses \/ Messages \/ Cancel \/ UNCHANGED vars
      <2>1. UNCHANGED requestVars /\ UNCHANGED main
            BY <1>10 DEF TimePasses, ComesDue, Messages, PublishMessage, DropMessage, Arrives, Cancel,
               vars
      <2> QED BY <2>1, OthersKeepRequests
<1> QED BY <1>1, <1>2, <1>3, <1>4, <1>5, <1>6, <1>7, <1>8, <1>9, <1>10
        DEF Next, Request, Outside

LEMMA RequestInit == Init => RequestInv
BY EmptyHasNone, ScriptLoopAssumption
   DEF Init, RequestInv, RequestTypes, HandHeld, InLine, Accounted, Below, None

(* Requests are queued in the order listeners sent them, each once, and    *)
(* one that is neither queued nor on its way was lost with an answer of    *)
(* the redis server or of radio.queue (redismodule.go, api.go).            *)
THEOREM RequestsKeepOrder == Spec => []RequestsInOrder
<1>1. RequestInv => RequestsInOrder
      BY DEF RequestInv, InLine, Accounted, RequestsInOrder, Rising
<1> QED BY RequestInit, RequestStep, <1>1, PTL DEF Spec

-----------------------------------------------------------------------------
(* The messages: the goroutine has at most one in hand, and none while it  *)
(* receives.                                                               *)
MessageTypes ==
    /\ published \in 0..MaxMessages /\ sub \in {"receive", "send", "ended"}
    /\ inbox \in Seq(Nat) /\ held \in Seq(Nat) /\ msgs \in Seq(Nat) /\ heard \in Seq(Nat)
    /\ dropped \subseteq 1..published

Bounded == Len(inbox) <= InboxCap /\ Len(held) <= 1 /\ Len(msgs) <= MsgCap

EmptyHanded == sub = "receive" => held = <<>>

MessageInv == MessageTypes /\ Bounded /\ EmptyHanded /\ MessagesInOrder

LEMMA Regroup ==
    ASSUME NEW a \in Seq(Nat), NEW b \in Seq(Nat), NEW c \in Seq(Nat)
    PROVE  (a \o b) \o c = a \o (b \o c)
BY ConcatAssociative

LEMMA AppendAtEnd ==
    ASSUME NEW a \in Seq(Nat), NEW b \in Seq(Nat), NEW x \in Nat
    PROVE  Append(b, x) \in Seq(Nat) /\ a \o Append(b, x) = Append(a \o b, x)
<1>1. <<x>> \in Seq(Nat) /\ Append(b, x) \in Seq(Nat) /\ a \o b \in Seq(Nat)
      OBVIOUS
<1>2. Append(b, x) = b \o <<x>> /\ Append(a \o b, x) = (a \o b) \o <<x>>
      BY <1>1, AppendIsConcat
<1> QED BY <1>1, <1>2, Regroup

(* Handing the first of what is behind to what is in front moves nothing.  *)
LEMMA HandOver ==
    ASSUME NEW a \in Seq(Nat), NEW b \in Seq(Nat), b # <<>>
    PROVE  /\ Append(a, Head(b)) \o Tail(b) = a \o b
           /\ (a \o <<Head(b)>>) \o Tail(b) = a \o b
           /\ Head(b) \in Nat /\ Tail(b) \in Seq(Nat)
<1>1. Head(b) \in Nat /\ Tail(b) \in Seq(Nat) /\ <<Head(b)>> \in Seq(Nat)
      BY TailShrinks
<1>2. <<Head(b)>> \o Tail(b) = b
      BY <1>1
<1>3. (a \o <<Head(b)>>) \o Tail(b) = a \o (<<Head(b)>> \o Tail(b))
      BY <1>1, ConcatAssociative
<1>4. Append(a, Head(b)) = a \o <<Head(b)>>
      BY <1>1, AppendIsConcat
<1> QED BY <1>1, <1>2, <1>3, <1>4

(* A message that moves on the way, or none that moves, disturbs no order. *)
LEMMA SameOnTheWay ==
    ASSUME MessagesInOrder, OnTheWay' = OnTheWay, UNCHANGED <<published, dropped>>
    PROVE  MessagesInOrder'
BY DEF MessagesInOrder

LEMMA OthersKeepMessages == ASSUME MessageInv, UNCHANGED messageVars PROVE MessageInv'
<1>1. OnTheWay' = OnTheWay
      BY DEF messageVars, OnTheWay
<1>2. MessagesInOrder'
      BY <1>1, SameOnTheWay DEF messageVars, MessageInv
<1> QED BY <1>2 DEF messageVars, MessageInv, MessageTypes, Bounded, EmptyHanded

LEMMA TakeMessageKeeps == ASSUME MessageInv, TakeMessage PROVE MessageInv'
<1>1. /\ msgs # <<>> /\ heard' = Append(heard, Head(msgs)) /\ msgs' = Tail(msgs)
      /\ UNCHANGED <<sub, inbox, held, published, dropped>>
      BY DEF TakeMessage
<1>2. Head(msgs) \in Nat /\ Tail(msgs) \in Seq(Nat) /\ heard' \o msgs' = heard \o msgs
      BY <1>1, HandOver DEF MessageInv, MessageTypes
<1>3. MessagesInOrder'
      BY <1>1, <1>2, SameOnTheWay DEF OnTheWay, MessageInv
<1>4. heard' \in Seq(Nat) /\ Len(msgs') <= Len(msgs)
      BY <1>1, <1>2 DEF MessageInv, MessageTypes
<1>5. Bounded'
      BY <1>1, <1>2, <1>4, ScriptLoopAssumption DEF MessageInv, MessageTypes, Bounded
<1> QED BY <1>1, <1>2, <1>3, <1>4, <1>5 DEF MessageInv, MessageTypes, EmptyHanded

LEMMA SubReceiveKeeps == ASSUME MessageInv, SubReceive PROVE MessageInv'
<1>1. /\ sub = "receive" /\ inbox # <<>> /\ sub' = "send"
      /\ held' = <<Head(inbox)>> /\ inbox' = Tail(inbox)
      /\ UNCHANGED <<msgs, published, dropped, heard>>
      BY DEF SubReceive
<1>2. /\ Head(inbox) \in Nat /\ Tail(inbox) \in Seq(Nat) /\ heard \o msgs \in Seq(Nat)
      /\ held' \in Seq(Nat) /\ Len(held') = 1 /\ Len(inbox') <= Len(inbox)
      BY <1>1, HandOver DEF MessageInv, MessageTypes
<1>3. heard' \o msgs' \o held' \o inbox' = heard \o msgs \o inbox
      BY <1>1, <1>2, HandOver DEF MessageInv, MessageTypes
<1>4. heard \o msgs \o held = heard \o msgs
      BY <1>1, <1>2 DEF EmptyHanded, MessageInv
<1>5. heard \o msgs \o held \o inbox = heard \o msgs \o inbox
      BY <1>4
<1>6. MessagesInOrder'
      BY <1>1, <1>3, <1>5, SameOnTheWay DEF OnTheWay, MessageInv
<1>7. Bounded'
      BY <1>1, <1>2, ScriptLoopAssumption DEF MessageInv, MessageTypes, Bounded
<1> QED BY <1>1, <1>2, <1>6, <1>7 DEF EmptyHanded, MessageInv, MessageTypes

LEMMA SubSendKeeps == ASSUME MessageInv, SubSend PROVE MessageInv'
<1>1. /\ Len(msgs) < MsgCap /\ msgs' = msgs \o held /\ held' = <<>> /\ sub' = "receive"
      /\ UNCHANGED <<inbox, published, dropped, heard>>
      BY DEF SubSend
<1>2. msgs' \in Seq(Nat) /\ held' \in Seq(Nat) /\ Len(msgs') = Len(msgs) + Len(held)
      BY <1>1, EmptyHasNone DEF MessageInv, MessageTypes
<1>3. heard \o msgs \o held = heard \o (msgs \o held)
      BY Regroup DEF MessageInv, MessageTypes
<1>4. heard' \o msgs' \o held' = heard' \o msgs'
      BY <1>1, <1>2 DEF MessageInv, MessageTypes
<1>5. OnTheWay' = OnTheWay
      BY <1>1, <1>3, <1>4 DEF OnTheWay
<1>6. MessagesInOrder'
      BY <1>1, <1>5, SameOnTheWay DEF MessageInv
<1>7. Bounded'
      BY <1>1, <1>2, ScriptLoopAssumption DEF MessageInv, MessageTypes, Bounded
<1> QED BY <1>1, <1>2, <1>6, <1>7 DEF EmptyHanded, MessageInv, MessageTypes

(* The newest message comes after all others, handed over or dropped.      *)
LEMMA MessagesKeep == ASSUME MessageInv, Messages PROVE MessageInv'
<1> DEFINE new == published + 1
<1>1. /\ published < MaxMessages /\ published' = new
      /\ UNCHANGED <<sub, held, msgs, heard>>
      BY DEF Messages, PublishMessage, DropMessage, Arrives
<1>2. /\ new \in Nat /\ 1..new = (1..published) \union {new} /\ new \notin 1..published
      /\ published' \in 0..MaxMessages
      BY <1>1, ScriptLoopAssumption DEF MessageInv, MessageTypes
<1>3. heard \o msgs \o held \in Seq(Nat) /\ OnTheWay \in Seq(Nat) /\ inbox \in Seq(Nat)
      BY DEF OnTheWay, MessageInv, MessageTypes
<1>4. Rising(OnTheWay) /\ ToSet(OnTheWay) = (1..published) \ dropped
      BY DEF Rising, MessageInv, MessagesInOrder
<1>5. Below(ToSet(OnTheWay), {new}) /\ new \notin dropped
      BY <1>2, <1>4 DEF Below, MessageInv, MessageTypes
<1>6. CASE PublishMessage
      <2>1. inbox' = Append(inbox, new) /\ dropped' = dropped /\ Len(inbox) < InboxCap
            BY <1>1, <1>6 DEF PublishMessage
      <2>2. inbox' \in Seq(Nat) /\ OnTheWay' = Append(OnTheWay, new)
            <3> HIDE DEF new
            <3> QED BY <1>1, <1>2, <1>3, <2>1, AppendAtEnd DEF OnTheWay
      <2>3. Rising(OnTheWay') /\ ToSet(OnTheWay') = ToSet(OnTheWay) \union {new}
            <3> HIDE DEF new
            <3> QED BY <1>2, <1>3, <1>4, <1>5, <2>2, AppendGrows
      <2>4. ToSet(OnTheWay') = (1..published') \ dropped'
            BY <1>1, <1>2, <1>4, <1>5, <2>1, <2>3
      <2>5. MessagesInOrder'
            BY <2>3, <2>4 DEF Rising, MessagesInOrder
      <2>6. Len(inbox') = Len(inbox) + 1
            BY <1>3, <2>1
      <2>7. Bounded'
            BY <1>1, <1>3, <2>1, <2>6, ScriptLoopAssumption DEF Bounded, MessageInv
      <2> QED BY <1>1, <1>2, <2>1, <2>2, <2>5, <2>7 DEF EmptyHanded, MessageInv, MessageTypes
<1>7. CASE DropMessage
      <2>1. dropped' = dropped \union {new} /\ inbox' = inbox
            BY <1>1, <1>7 DEF DropMessage
      <2>2. OnTheWay' = OnTheWay
            BY <1>1, <2>1 DEF OnTheWay
      <2>3. ToSet(OnTheWay') = (1..published') \ dropped'
            BY <1>1, <1>2, <1>4, <2>1, <2>2
      <2>4. MessagesInOrder'
            BY <1>4, <2>2, <2>3 DEF Rising, MessagesInOrder
      <2> QED BY <1>1, <1>2, <2>1, <2>4 DEF Bounded, EmptyHanded, MessageInv, MessageTypes
<1> QED BY <1>6, <1>7 DEF Messages

LEMMA MessageStep == MessageInv /\ [Next]_vars => MessageInv'
<1> SUFFICES ASSUME MessageInv, [Next]_vars PROVE MessageInv'
    OBVIOUS
<1>1. CASE TakeMessage \/ SubReceive \/ SubSend \/ Messages
      BY <1>1, TakeMessageKeeps, SubReceiveKeeps, SubSendKeeps, MessagesKeep
<1>2. CASE SubEnds
      <2>1. sub' = "ended" /\ UNCHANGED <<inbox, held, msgs, published, dropped, heard>>
            BY <1>2 DEF SubEnds
      <2>2. MessagesInOrder'
            BY <2>1, SameOnTheWay DEF OnTheWay, MessageInv
      <2> QED BY <2>1, <2>2 DEF MessageInv, MessageTypes, Bounded, EmptyHanded
<1>3. CASE RunDueTimers \/ NotDue \/ Fire \/ TimersRun \/ DispatchEvent \/ Shutdown \/ Callback
      <2>1. UNCHANGED messageVars
            BY <1>3 DEF RunDueTimers, NotDue, Fire, TimersRun, DispatchEvent, Shutdown, Callback,
               AddTimer, Return, redisCall, sqlCall, httpCall, Waits, LibraryReturns, Goes
      <2> QED BY <2>1, OthersKeepMessages
<1>4. CASE Request \/ TimePasses \/ PushRequest \/ Cancel \/ UNCHANGED vars
      <2>1. UNCHANGED messageVars
            BY <1>4 DEF Request, CallLPop, Pop, PopNothing, PopAnswered, LoseAnswer, PopRetried,
               PopFails, QueueRequest, Goes, TimePasses, ComesDue, PushRequest, Cancel, vars
      <2> QED BY <2>1, OthersKeepMessages
<1> QED BY <1>1, <1>2, <1>3, <1>4 DEF Next, Subscription, Outside

LEMMA MessageInit == Init => MessageInv
<1> SUFFICES ASSUME Init PROVE MessageInv
    OBVIOUS
<1>1. OnTheWay = <<>> /\ published = 0 /\ dropped = {} /\ Rising(OnTheWay)
      BY EmptyHasNone DEF Init, OnTheWay
<1>2. MessagesInOrder
      BY <1>1, EmptyHasNone DEF MessagesInOrder, Rising
<1> QED BY <1>1, <1>2, EmptyHasNone, ScriptLoopAssumption
        DEF Init, MessageInv, MessageTypes, Bounded, EmptyHanded

(* The goroutine of a subscription waits for room in the channel, so that  *)
(* what the script hears is in order and whole, but for the messages that  *)
(* the library has dropped at its own full channel (redismodule.go's       *)
(* redisSubscribe).                                                        *)
THEOREM SubscriptionKeepsOrder == Spec => []MessagesInOrder
<1>1. MessageInv => MessagesInOrder
      BY DEF MessageInv
<1> QED BY MessageInit, MessageStep, <1>1, PTL DEF Spec

-----------------------------------------------------------------------------
(* The timers: what runDueTimers has kept was made before the timer whose  *)
(* callback runs, that one before those it still has to look at.  So none  *)
(* of them is there twice.                                                 *)
First(pairs) == [k \in DOMAIN pairs |-> pairs[k][1]]

TimerTypes ==
    /\ made \in TimerIds /\ current \in 0..made
    /\ timers \in Seq(Nat) /\ kept \in Seq(Nat) /\ todo \in Seq(Nat \X BOOLEAN)
    /\ periodic \union due \union fired \union orphans \subseteq 1..made
    /\ ToSet(timers) \union Ids(todo) \union ToSet(kept) \subseteq 1..made
    /\ main \in {"select", "timers", "callback", "return", "library", "lpop", "popped",
                 "unanswered", "queue", "done"}

Staged ==
    /\ main \in {"select", "timers", "done"} => current = None
    /\ ~Running => todo = <<>> /\ kept = <<>>

Sorted ==
    /\ Rising(timers) /\ Rising(First(todo)) /\ Rising(kept)
    /\ Below(ToSet(kept), Ids(todo))
    /\ InTimer => /\ Below(ToSet(kept), {current}) /\ Below({current}, Ids(todo))
                  /\ current \in fired \union periodic

TimerInv == TimerTypes /\ Staged /\ Sorted /\ TimersKept

LEMMA PairOf ==
    ASSUME NEW n \in Nat, NEW b \in BOOLEAN
    PROVE  <<n, b>>[1] = n /\ <<n, b>> \in Nat \X BOOLEAN
OBVIOUS

LEMMA PairsShrink ==
    ASSUME NEW p \in Seq(Nat \X BOOLEAN), p # <<>>
    PROVE  /\ Head(p)[1] \in Nat /\ Tail(p) \in Seq(Nat \X BOOLEAN)
           /\ Ids(p) = {Head(p)[1]} \union Ids(Tail(p))
           /\ Rising(First(p)) => /\ Rising(First(Tail(p)))
                                  /\ Below({Head(p)[1]}, Ids(Tail(p)))
<1>1. /\ Head(p) = p[1] /\ Head(p) \in Nat \X BOOLEAN
      /\ Tail(p) \in Seq(Nat \X BOOLEAN) /\ Len(Tail(p)) = Len(p) - 1 /\ Len(p) \in Nat \ {0}
      /\ \A i \in 1..(Len(p) - 1) : Tail(p)[i] = p[i + 1]
      OBVIOUS
<1>2. ASSUME NEW q \in Seq(Nat \X BOOLEAN)
      PROVE  First(q) \in Seq(Nat) /\ Len(First(q)) = Len(q) /\ ToSet(First(q)) = Ids(q)
      <2>1. DOMAIN q = 1..Len(q) /\ Len(q) \in Nat /\ \A k \in 1..Len(q) : q[k][1] \in Nat
            OBVIOUS
      <2>2. First(q) \in Seq(Nat) /\ Len(First(q)) = Len(q)
            BY <2>1 DEF First
      <2>3. ToSet(First(q)) = Ids(q)
            BY <2>1 DEF First, ToSet, Ids
      <2> QED BY <2>2, <2>3
<1>3. First(p) \in Seq(Nat) /\ First(p) # <<>> /\ Head(First(p)) = Head(p)[1]
      BY <1>1, <1>2 DEF First
<1>4. Tail(First(p)) = First(Tail(p))
      <2>1. /\ Tail(First(p)) \in Seq(Nat) /\ First(Tail(p)) \in Seq(Nat)
            /\ Len(Tail(First(p))) = Len(p) - 1 /\ Len(First(Tail(p))) = Len(p) - 1
            <3>1. First(Tail(p)) \in Seq(Nat) /\ Len(First(Tail(p))) = Len(p) - 1
                  BY <1>1, <1>2
            <3>2. Len(First(p)) = Len(p)
                  BY <1>2
            <3>3. Tail(First(p)) \in Seq(Nat) /\ Len(Tail(First(p))) = Len(First(p)) - 1
                  BY <1>3
            <3> QED BY <3>1, <3>2, <3>3
      <2>2. ASSUME NEW i \in 1..(Len(p) - 1) PROVE Tail(First(p))[i] = First(Tail(p))[i]
            <3>1. i + 1 \in 1..Len(p) /\ DOMAIN Tail(p) = 1..(Len(p) - 1) /\ DOMAIN p = 1..Len(p)
                  BY <1>1
            <3>2. First(Tail(p))[i] = p[i + 1][1]
                  BY <1>1, <3>1 DEF First
            <3>3. Tail(First(p))[i] = First(p)[i + 1]
                  BY <1>2, <1>3
            <3>4. First(p)[i + 1] = p[i + 1][1]
                  BY <3>1 DEF First
            <3> QED BY <3>2, <3>3, <3>4
      <2> QED BY <2>1, <2>2, SeqEqual
<1>5. ToSet(First(p)) = Ids(p) /\ ToSet(First(Tail(p))) = Ids(Tail(p))
      BY <1>1, <1>2
<1> QED BY <1>1, <1>3, <1>4, <1>5, TailShrinks

LEMMA EmptyAgenda == Ids(<<>>) = {} /\ First(<<>>) = <<>> /\ <<>> \in Seq(Nat \X BOOLEAN)
<1>1. DOMAIN First(<<>>) = {}
      BY DEF First
<1>2. First(<<>>) = <<>>
      BY DEF First
<1> QED BY <1>2 DEF Ids

(* Steps that only move the goroutine inside a callback, or not at all.    *)
LEMMA CallbackKeepsTimers ==
    ASSUME TimerInv, UNCHANGED timerVars, Running' = Running,
           main' \in {"select", "timers", "done"} => current = None,
           main' \in {"select", "timers", "callback", "return", "library", "lpop", "popped",
                     "unanswered", "queue", "done"}
    PROVE  TimerInv'
BY DEF TimerInv, timerVars, TimerTypes, Staged, Sorted, TimersKept, Scheduled, InTimer

(* RunDueTimers, and what it does with each timer.                         *)
LEMMA RunDueTimersKeeps == ASSUME TimerInv, RunDueTimers PROVE TimerInv'
<1> USE DEF TimerInv
<1>1. /\ main = "select" /\ main' = "timers" /\ kept' = <<>> /\ current = None
      /\ todo' = [k \in DOMAIN timers |-> <<timers[k], timers[k] \in due>>]
      /\ UNCHANGED <<timers, made, periodic, due, current, fired, orphans>>
      BY DEF RunDueTimers, Staged
<1>2. todo' \in Seq(Nat \X BOOLEAN) /\ Ids(todo') = ToSet(timers) /\ First(todo') = timers
      <2>1. timers \in Seq(Nat) /\ DOMAIN timers = 1..Len(timers) /\ DOMAIN todo' = DOMAIN timers
            /\ \A k \in DOMAIN timers : timers[k] \in Nat
            BY <1>1 DEF TimerTypes
      <2>2. \A k \in DOMAIN timers : todo'[k] = <<timers[k], timers[k] \in due>>
            BY <1>1
      <2>3. \A k \in DOMAIN timers : todo'[k][1] = timers[k] /\ todo'[k] \in Nat \X BOOLEAN
            <3> SUFFICES ASSUME NEW k \in DOMAIN timers
                         PROVE  todo'[k][1] = timers[k] /\ todo'[k] \in Nat \X BOOLEAN
                OBVIOUS
            <3>1. timers[k] \in Nat
                  BY <2>1
            <3>2. (timers[k] \in due) \in BOOLEAN
                  OBVIOUS
            <3>3. <<timers[k], timers[k] \in due>>[1] = timers[k]
                  /\ <<timers[k], timers[k] \in due>> \in Nat \X BOOLEAN
                  BY <3>1, <3>2, PairOf, Zenon
            <3>4. todo'[k] = <<timers[k], timers[k] \in due>>
                  BY <2>2, Zenon
            <3> QED BY <3>3, <3>4, Zenon
      <2>4. Len(timers) \in Nat
            BY <2>1
      <2>5. todo' \in [1..Len(timers) -> Nat \X BOOLEAN]
            BY <1>1, <2>1, <2>3
      <2>6. todo' \in Seq(Nat \X BOOLEAN)
            BY <2>4, <2>5
      <2>7. Ids(todo') = ToSet(timers)
            BY <2>1, <2>3 DEF Ids, ToSet
      <2>8. First(todo') = timers
            BY <2>1, <2>3 DEF First
      <2> QED BY <2>6, <2>7, <2>8
<1>3. TimerTypes'
      BY <1>1, <1>2, EmptyHasNone DEF TimerTypes
<1>4. Staged' /\ Sorted'
      BY <1>1, <1>2, EmptyHasNone DEF Staged, Sorted, Running, InTimer, Below
<1>5. Scheduled' = Scheduled
      BY <1>1, <1>2, EmptyHasNone DEF Scheduled, Running, InTimer
<1> QED BY <1>1, <1>3, <1>4, <1>5 DEF TimersKept

LEMMA NotDueKeeps == ASSUME TimerInv, NotDue PROVE TimerInv'
<1> USE DEF TimerInv
<1> DEFINE t == Head(todo)[1]
<1>1. /\ main = "timers" /\ main' = "timers" /\ todo # <<>> /\ current = None
      /\ kept' = Append(kept, t) /\ todo' = Tail(todo)
      /\ UNCHANGED <<timers, made, periodic, due, current, fired, orphans>>
      BY DEF NotDue, Staged
<1>2. /\ t \in Nat /\ todo' \in Seq(Nat \X BOOLEAN)
      /\ Ids(todo) = {t} \union Ids(todo')
      /\ Rising(First(todo')) /\ Below({t}, Ids(todo'))
      BY <1>1, PairsShrink DEF TimerTypes, Sorted
<1>3. Below(ToSet(kept), {t}) /\ Below(ToSet(kept), Ids(todo'))
      BY <1>2 DEF Sorted, Below
<1>4. kept' \in Seq(Nat) /\ ToSet(kept') = ToSet(kept) \union {t} /\ Rising(kept')
      <2> HIDE DEF t
      <2> QED BY <1>1, <1>2, <1>3, AppendGrows DEF TimerTypes, Sorted
<1>5. TimerTypes'
      BY <1>1, <1>2, <1>4 DEF TimerTypes
<1>6. Staged' /\ Sorted'
      BY <1>1, <1>2, <1>3, <1>4 DEF Staged, Sorted, Running, InTimer, Below
<1>7. Scheduled' = Scheduled
      BY <1>1, <1>2, <1>4 DEF Scheduled, Running, InTimer
<1> QED BY <1>1, <1>5, <1>6, <1>7 DEF TimersKept

LEMMA FireKeeps == ASSUME TimerInv, Fire PROVE TimerInv'
<1> USE DEF TimerInv
<1> DEFINE t == Head(todo)[1]
<1>1. /\ main = "timers" /\ main' = "callback" /\ todo # <<>> /\ current = None
      /\ current' = t /\ todo' = Tail(todo) /\ due' = due \ {t}
      /\ fired' = fired \union ({t} \ periodic)
      /\ UNCHANGED <<timers, made, periodic, kept, orphans>>
      BY DEF Fire, Staged
<1>2. /\ t \in Nat /\ todo' \in Seq(Nat \X BOOLEAN)
      /\ Ids(todo) = {t} \union Ids(todo')
      /\ Rising(First(todo')) /\ Below({t}, Ids(todo'))
      BY <1>1, PairsShrink DEF TimerTypes, Sorted
<1>3. t \in 1..made /\ t # None
      BY <1>2 DEF TimerTypes, None
<1>4. TimerTypes'
      BY <1>1, <1>2, <1>3 DEF TimerTypes, TimerIds
<1>5. Below(ToSet(kept), {t}) /\ Below(ToSet(kept), Ids(todo'))
      BY <1>2 DEF Sorted, Below
<1>6. Staged' /\ Sorted'
      BY <1>1, <1>2, <1>3, <1>5 DEF Staged, Sorted, Running, InTimer
<1>7. Scheduled' = Scheduled
      BY <1>1, <1>2, <1>3 DEF Scheduled, Running, InTimer
<1>8. TimersKept'
      BY <1>1, <1>3, <1>7 DEF TimersKept, None
<1> QED BY <1>4, <1>6, <1>8

LEMMA TimersRunKeeps == ASSUME TimerInv, TimersRun PROVE TimerInv'
<1> USE DEF TimerInv
<1>1. /\ main = "timers" /\ main' = "select" /\ todo = <<>> /\ current = None
      /\ timers' = kept /\ kept' = <<>>
      /\ UNCHANGED <<made, periodic, due, todo, current, fired, orphans>>
      BY DEF TimersRun, Staged
<1>2. TimerTypes' /\ Staged' /\ Sorted'
      BY <1>1, EmptyHasNone, EmptyAgenda DEF TimerTypes, Staged, Sorted, Running, InTimer, Below
<1>3. Scheduled' = Scheduled
      BY <1>1, EmptyHasNone, EmptyAgenda DEF Scheduled, Running, InTimer
<1> QED BY <1>1, <1>2, <1>3 DEF TimersKept

(* A timer made while timers run is an orphan; any other is the newest.    *)
LEMMA AddTimerKeeps == ASSUME TimerInv, NEW every \in BOOLEAN, AddTimer(every) PROVE TimerInv'
<1> USE DEF TimerInv
<1> DEFINE t == made + 1
<1>1. /\ main = "callback" /\ main' = "return" /\ made < MaxTimers /\ made' = t
      /\ timers' = Append(timers, t)
      /\ periodic' = IF every THEN periodic \union {t} ELSE periodic
      /\ orphans' = IF InTimer THEN orphans \union {t} ELSE orphans
      /\ UNCHANGED <<due, todo, kept, current, fired>>
      BY DEF AddTimer
<1>2. t \in TimerIds /\ t \in Nat /\ 1..t = (1..made) \union {t} /\ made \in Nat
      BY <1>1, ScriptLoopAssumption DEF TimerTypes, TimerIds
<1>3. Below(ToSet(timers), {t})
      BY DEF TimerTypes, TimerIds, Below
<1>4. timers' \in Seq(Nat) /\ ToSet(timers') = ToSet(timers) \union {t} /\ Rising(timers')
      <2> HIDE DEF t
      <2> QED BY <1>1, <1>2, <1>3, AppendGrows DEF TimerTypes, Sorted
<1>5. TimerTypes'
      <2>1. current' \in 0..made' /\ made' \in TimerIds
            BY <1>1, <1>2 DEF TimerTypes
      <2>2. periodic' \union due' \union fired' \union orphans' \subseteq 1..made'
            BY <1>1, <1>2 DEF TimerTypes
      <2>3. ToSet(timers') \union Ids(todo') \union ToSet(kept') \subseteq 1..made'
            BY <1>1, <1>2, <1>4 DEF TimerTypes
      <2> QED BY <1>1, <1>4, <2>1, <2>2, <2>3 DEF TimerTypes
<1>6. Staged' /\ Sorted'
      BY <1>1, <1>4 DEF Staged, Sorted, Running, InTimer
<1>7. t \notin fired /\ \A i \in 1..made : i # t /\ (i \in periodic' <=> i \in periodic)
      BY <1>1, <1>2 DEF TimerTypes
<1>8. TimersKept'
      <2>1. CASE InTimer
            <3>1. Scheduled' = Scheduled /\ (1..made') \ orphans' \subseteq (1..made) \ orphans
                  BY <1>1, <1>2, <2>1 DEF Scheduled, Running, InTimer
            <3> QED BY <1>1, <1>7, <3>1 DEF TimersKept
      <2>2. CASE ~InTimer
            <3>1. Scheduled' = Scheduled \union {t} /\ orphans' = orphans
                  BY <1>1, <1>4, <2>2 DEF Scheduled, Running, InTimer
            <3> QED BY <1>1, <1>2, <1>7, <3>1 DEF TimersKept
      <2> QED BY <2>1, <2>2
<1> QED BY <1>5, <1>6, <1>8

LEMMA ReturnKeeps == ASSUME TimerInv, Return PROVE TimerInv'
<1> USE DEF TimerInv
<1>1. /\ main \in {"callback", "return"} /\ current' = None
      /\ UNCHANGED <<timers, made, periodic, due, todo, fired, orphans>>
      BY DEF Return
<1>2. CASE ~InTimer
      <2>1. main' = "select" /\ UNCHANGED <<kept, current>>
            BY <1>1, <1>2 DEF Return, InTimer
      <2>2. ~Running /\ ~Running'
            BY <1>1, <1>2, <2>1 DEF Running, InTimer
      <2>3. Scheduled' = Scheduled
            BY <1>1, <2>1, <2>2 DEF Scheduled
      <2>4. TimerTypes' /\ Staged' /\ Sorted'
            BY <1>1, <2>1, <2>2 DEF TimerTypes, Staged, Sorted, InTimer
      <2> QED BY <1>1, <2>1, <2>3, <2>4 DEF TimersKept
<1>3. CASE InTimer
      <2>1. main' = "timers" /\ kept' = IF current \in periodic THEN Append(kept, current) ELSE kept
            BY <1>3 DEF Return, KeptAfter
      <2>2. current \in Nat /\ current \in fired \union periodic /\ Below(ToSet(kept), {current})
            /\ Below({current}, Ids(todo))
            BY <1>3 DEF TimerTypes, TimerIds, Sorted
      <2>3. /\ kept' \in Seq(Nat) /\ Rising(kept')
            /\ ToSet(kept') = ToSet(kept) \union ({current} \intersect periodic)
            <3>1. CASE current \in periodic
                  BY <2>1, <2>2, <3>1, AppendGrows DEF TimerTypes, Sorted
            <3>2. CASE current \notin periodic
                  BY <2>1, <3>2 DEF TimerTypes, Sorted
            <3> QED BY <3>1, <3>2
      <2>4. TimerTypes'
            BY <1>1, <2>1, <2>3, ScriptLoopAssumption DEF TimerTypes, TimerIds, None
      <2>5. Staged' /\ Sorted'
            BY <1>1, <2>1, <2>2, <2>3 DEF Staged, Sorted, Running, InTimer, Below
      <2>6. /\ Scheduled = Ids(todo) \union ToSet(kept) \union {current}
            /\ Scheduled' = Ids(todo) \union ToSet(kept')
            BY <1>1, <1>3, <2>1 DEF Scheduled, Running, InTimer
      <2>7. current \notin Ids(todo) \union ToSet(kept)
            BY <2>2 DEF Below
      <2> QED BY <1>1, <2>2, <2>3, <2>4, <2>5, <2>6, <2>7 DEF TimersKept, None
<1> QED BY <1>2, <1>3

LEMMA TimerStep == TimerInv /\ [Next]_vars => TimerInv'
<1> SUFFICES ASSUME TimerInv, [Next]_vars PROVE TimerInv'
    OBVIOUS
<1>1. CASE RunDueTimers \/ NotDue \/ Fire \/ TimersRun
      BY <1>1, RunDueTimersKeeps, NotDueKeeps, FireKeeps, TimersRunKeeps
<1>2. CASE Callback
      <2>1. CASE (\E every \in BOOLEAN : AddTimer(every)) \/ Return
            BY <2>1, AddTimerKeeps, ReturnKeeps
      <2>2. CASE redisCall \/ sqlCall \/ httpCall \/ LibraryReturns
            BY <2>2, CallbackKeepsTimers DEF redisCall, sqlCall, httpCall, Waits, LibraryReturns,
               Goes, timerVars, Running, InTimer
      <2> QED BY <1>2, <2>1, <2>2 DEF Callback
<1>3. CASE Request
      <2>1. /\ UNCHANGED timerVars
            /\ main' \in {"return", "lpop", "popped", "unanswered", "queue"}
            /\ main \notin {"select", "timers", "done"}
            BY <1>3 DEF Request, CallLPop, Pop, PopNothing, PopAnswered, LoseAnswer, PopRetried,
               PopFails, CallTimeout, QueueRequest, Goes
      <2> QED BY <2>1, CallbackKeepsTimers DEF timerVars, Running, InTimer
<1>4. CASE DispatchEvent \/ TakeMessage \/ Shutdown
      <2>1. UNCHANGED timerVars /\ main = "select" /\ main' \in {"callback", "done"}
            BY <1>4 DEF DispatchEvent, TakeMessage, Shutdown
      <2>2. current = None
            BY <2>1 DEF TimerInv, Staged
      <2> QED BY <2>1, <2>2, CallbackKeepsTimers DEF timerVars, Running, InTimer
<1>5. CASE Subscription \/ PushRequest \/ Messages \/ Cancel \/ UNCHANGED vars
      <2>1. UNCHANGED timerVars /\ UNCHANGED main
            BY <1>5 DEF Subscription, SubReceive, SubSend, SubEnds, PushRequest, Messages,
               PublishMessage, DropMessage, Arrives, Cancel, vars
      <2> QED BY <2>1, CallbackKeepsTimers
              DEF timerVars, Running, InTimer, TimerInv, TimerTypes, Staged
<1>6. CASE TimePasses
      <2>1. PICK t \in TimerIds : ComesDue(t)
            BY <1>6 DEF TimePasses
      <2>2. /\ due' = due \union {t} /\ t \in ToSet(timers)
            /\ UNCHANGED <<timers, made, periodic, todo, kept, current, fired, orphans, main>>
            BY <2>1 DEF ComesDue
      <2>3. TimerTypes'
            BY <2>2 DEF TimerInv, TimerTypes
      <2>4. Staged'
            BY <2>2 DEF TimerInv, Staged, Running, InTimer
      <2>5. Sorted'
            <3>1. Sorted
                  BY DEF TimerInv
            <3> QED BY <2>2, <3>1 DEF Sorted, InTimer
      <2>6. TimersKept'
            <3>1. Scheduled' = Scheduled /\ TimersKept
                  BY <2>2 DEF TimerInv, Scheduled, Running, InTimer
            <3> QED BY <2>2, <3>1 DEF TimersKept
      <2> QED BY <2>3, <2>4, <2>5, <2>6 DEF TimerInv
<1> QED BY <1>1, <1>2, <1>3, <1>4, <1>5, <1>6 DEF Next, Outside

LEMMA TimerInit == Init => TimerInv
<1> SUFFICES ASSUME Init PROVE TimerInv
    OBVIOUS
<1>1. made \in TimerIds /\ made \in Nat /\ 1..made # {} /\ 0 \in 0..made /\ Poll \in 1..made
      <2>1. made \in 1..MaxTimers /\ made \in {1, 2}
            BY DEF Init, TimerIds
      <2>2. made \in Nat /\ 1 <= made
            BY <2>1
      <2> QED BY <2>1, <2>2 DEF TimerIds, Poll
<1>2. /\ timers \in Seq(Nat) /\ ToSet(timers) = 1..made /\ Rising(timers)
      <2>1. timers = [k \in 1..made |-> k] /\ DOMAIN timers = 1..made
            BY DEF Init
      <2> QED BY <1>1, <2>1 DEF ToSet, Rising
<1>3. TimerTypes
      BY <1>1, <1>2, EmptyHasNone, EmptyAgenda DEF Init, TimerTypes, None
<1>4. Staged /\ Sorted /\ Scheduled = 1..made
      BY <1>2, EmptyHasNone, EmptyAgenda
         DEF Init, Staged, Sorted, Running, InTimer, Scheduled, Below
<1> QED BY <1>3, <1>4 DEF Init, TimerInv, TimersKept

(* A timer of radio.every stays scheduled, one of radio.after until it has *)
(* fired, whatever the callbacks do; the ones runDueTimers loses, those a  *)
(* timer's callback makes, are excepted (engine.go:419-435).               *)
THEOREM TimersAreKept == Spec => []TimersKept
<1>1. TimerInv => TimersKept
      BY DEF TimerInv
<1> QED BY TimerInit, TimerStep, <1>1, PTL DEF Spec

(* The part of RequestsServed that is no matter of fairness: the loop      *)
(* never loses the timer that takes the requests, also while its own or    *)
(* another callback runs and makes timers that are lost                    *)
(* (engine.go:419-435, api.go:604-619).                                    *)
THEOREM PollStaysScheduled == Spec => [](Poll \in periodic /\ Poll \in Scheduled)
<1> DEFINE PollKept == Poll \in periodic /\ Poll \notin orphans
<1>1. Init => PollKept
      BY DEF Init
<1>2. TimerInv /\ PollKept /\ [Next]_vars => PollKept'
      <2> SUFFICES ASSUME TimerInv, PollKept, [Next]_vars PROVE PollKept'
          OBVIOUS
      <2>1. ASSUME NEW every \in BOOLEAN, AddTimer(every) PROVE PollKept'
            <3>1. made + 1 # Poll
                  BY DEF TimerInv, TimerTypes, TimerIds, Poll
            <3> QED BY <2>1, <3>1 DEF AddTimer
      <2>2. CASE UNCHANGED <<periodic, orphans>>
            BY <2>2
      <2>3. (\E every \in BOOLEAN : AddTimer(every)) \/ UNCHANGED <<periodic, orphans>>
            BY DEF Next, RunDueTimers, NotDue, Fire, TimersRun, DispatchEvent, TakeMessage,
               Shutdown, Callback, Return, redisCall, sqlCall, httpCall, Waits,
               LibraryReturns, Goes, Request, CallLPop, Pop, PopNothing, PopAnswered, LoseAnswer,
               PopRetried, PopFails, QueueRequest, Subscription, SubReceive, SubSend, SubEnds,
               Outside, TimePasses, ComesDue, PushRequest, Messages, PublishMessage,
               DropMessage, Arrives, Cancel, vars, timerVars
      <2> QED BY <2>1, <2>2, <2>3
<1>3. TimerInv /\ PollKept => Poll \in periodic /\ Poll \in Scheduled
      <2>1. TimerInv => Poll \in 1..made
            BY DEF TimerInv, TimerTypes, TimerIds, Poll
      <2> QED BY <2>1 DEF TimerInv, TimersKept
<1> QED BY TimerInit, TimerStep, <1>1, <1>2, <1>3, PTL DEF Spec

(* Every variable keeps to its range.                                      *)
THEOREM TypeCorrect == Spec => []TypeOK
<1>1. TimerInv /\ RequestInv /\ MessageInv /\ ctxDone \in BOOLEAN => TypeOK
      BY DEF TimerInv, TimerTypes, RequestInv, RequestTypes, MessageInv, MessageTypes, Bounded,
             TypeOK
<1>2. Init => ctxDone \in BOOLEAN
      BY DEF Init
<1>3. ctxDone \in BOOLEAN /\ [Next]_vars => (ctxDone \in BOOLEAN)'
      <2>1. [Next]_vars => ctxDone' = ctxDone \/ ctxDone' = TRUE
            BY DEF Next, RunDueTimers, NotDue, Fire, TimersRun, DispatchEvent, TakeMessage,
               Shutdown, Callback, AddTimer, Return, redisCall, sqlCall, httpCall, Waits,
               LibraryReturns, Goes, Request, CallLPop, Pop, PopNothing, PopAnswered, LoseAnswer,
               PopRetried, PopFails, QueueRequest, Subscription, SubReceive, SubSend, SubEnds,
               Outside, TimePasses, ComesDue, PushRequest, Messages, PublishMessage, DropMessage,
               Arrives, Cancel, vars
      <2> QED BY <2>1
<1> QED BY TimerInit, TimerStep, RequestInit, RequestStep, MessageInit, MessageStep,
           <1>1, <1>2, <1>3, PTL DEF Spec
=============================================================================
