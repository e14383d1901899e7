----------------------------- MODULE ScriptLoop -----------------------------
(***************************************************************************)
(* The goroutine that owns the Lua state (Engine.Run's select, the timers  *)
(* of radio.every and radio.after, internal/luastation/engine.go), with    *)
(* what its callbacks wait for: the calls of the redis, sql and http       *)
(* modules, and radio.queue.  The script is the one the docs recommend for *)
(* a request system: a radio.every timer takes requests from a redis list  *)
(* and queues them, and a subscription (redisSubscribe, redismodule.go)    *)
(* brings pub/sub messages through a goroutine of its own.                 *)
(*                                                                         *)
(* Time is what has come due.  The redis server and the client library     *)
(* are external: a call that did its work and whose answer is lost is sent *)
(* again by the library or reported as failed, and a message that finds    *)
(* the library's channel full for a minute is dropped.                     *)
(***************************************************************************)
EXTENDS Naturals, SequencesExt

CONSTANTS
    MaxTimers,    \* how many timers are ever made (a bound)
    MaxRequests,  \* how many requests are ever pushed to the list (a bound)
    MaxMessages,  \* how many messages ever arrive (a bound)
    MaxLost,      \* how many calls lose their answer or fail (a bound)
    MsgCap,       \* the buffer of redisMsgCh
    InboxCap      \* the buffer of the library's channel

ASSUME ScriptLoopAssumption ==
    /\ MaxTimers \in Nat \ {0} /\ MaxRequests \in Nat /\ MaxMessages \in Nat
    /\ MaxLost \in Nat /\ {MsgCap, InboxCap} \subseteq Nat \ {0}

TimerIds == 1..MaxTimers
Poll == 1       \* the timer that takes the requests
None == 0

VARIABLES
    timers,     \* Engine.timers
    made,       \* how many timers were made
    periodic,   \* the timers of radio.every; the others are of radio.after
    due,        \* the timers whose time has come
    todo,       \* what runDueTimers still has to look at
    kept,       \* its "remaining"
    current,    \* the timer whose callback is running, or None
    main,       \* the next step of the goroutine that owns the Lua state
    hand,       \* the request LPOP has taken, or None
    list,       \* the redis list
    pushed,     \* how many requests were pushed to it
    queued,     \* the requests queued at the audio server
    lost,       \* history variable: the requests lost with an answer
    answersLost,\* how many calls lost their answer or failed
    sub,        \* the subscription's goroutine
    inbox,      \* the library's channel
    held,       \* the message that goroutine has received and not handed on
    msgs,       \* redisMsgCh
    published,  \* how many messages reached the library
    dropped,    \* history variable: those the library dropped
    heard,      \* the messages the script's callback got
    ctxDone,    \* Engine.ctx is cancelled
    fired,      \* history variable: the timers of radio.after that have fired
    orphans     \* history variable: the timers made by a timer's callback

timerVars   == <<timers, made, periodic, due, todo, kept, current, fired, orphans>>
requestVars == <<hand, list, pushed, queued, lost, answersLost>>
messageVars == <<sub, inbox, held, msgs, published, dropped, heard>>
vars == <<timerVars, main, requestVars, messageVars, ctxDone>>

(* The script's top level has run: it made the poll timer and, maybe,      *)
(* one more, and subscribed.                                               *)
Init ==
    /\ made \in {1, 2} \intersect TimerIds
    /\ timers = [k \in 1..made |-> k]
    /\ periodic \in {{Poll}, {Poll} \union 1..made}
    /\ due = {} /\ todo = <<>> /\ kept = <<>> /\ current = None
    /\ fired = {} /\ orphans = {}
    /\ main = "select"
    /\ hand = None /\ list = <<>> /\ pushed = 0 /\ queued = <<>>
    /\ lost = {} /\ answersLost = 0
    /\ sub = "receive" /\ inbox = <<>> /\ held = <<>> /\ msgs = <<>>
    /\ published = 0 /\ dropped = {} /\ heard = <<>>
    /\ ctxDone = FALSE

-----------------------------------------------------------------------------
(* The select of Run, and runDueTimers.                                    *)

InTimer == current # None

(* Called at every tick; what comes due from here on waits for the next.   *)
RunDueTimers ==
    /\ main = "select" /\ due # {}
    /\ todo' = [k \in DOMAIN timers |-> <<timers[k], timers[k] \in due>>]
    /\ kept' = <<>> /\ main' = "timers"
    /\ UNCHANGED <<timers, made, periodic, due, current, fired, orphans, requestVars,
                   messageVars, ctxDone>>

NotDue ==
    /\ main = "timers" /\ todo # <<>> /\ ~Head(todo)[2]
    /\ kept' = Append(kept, Head(todo)[1]) /\ todo' = Tail(todo)
    /\ UNCHANGED <<timers, made, periodic, due, current, fired, orphans, main,
                   requestVars, messageVars, ctxDone>>

Fire ==
    /\ main = "timers" /\ todo # <<>> /\ Head(todo)[2]
    /\ current' = Head(todo)[1] /\ todo' = Tail(todo)
    /\ due' = due \ {Head(todo)[1]}
    /\ fired' = fired \union ({Head(todo)[1]} \ periodic)
    /\ main' = "callback"
    /\ UNCHANGED <<timers, made, periodic, kept, orphans, requestVars, messageVars,
                   ctxDone>>

TimersRun ==
    /\ main = "timers" /\ todo = <<>>
    /\ timers' = kept /\ kept' = <<>> /\ main' = "select"
    /\ UNCHANGED <<made, periodic, due, todo, current, fired, orphans, requestVars,
                   messageVars, ctxDone>>

(* A callback, of a timer or not, makes a timer with luaEvery or luaAfter. *)
AddTimer(every) ==
    /\ main = "callback" /\ made < MaxTimers
    /\ made' = made + 1
    /\ timers' = Append(timers, made')
    /\ periodic' = IF every THEN periodic \union {made'} ELSE periodic
    /\ orphans' = IF InTimer THEN orphans \union {made'} ELSE orphans
    /\ main' = "return"
    /\ UNCHANGED <<due, todo, kept, current, fired, requestVars, messageVars, ctxDone>>

(* A wrong variant: whatever has fired is kept.                            *)
KeptAfterAll(t) == TRUE

(* A wrong variant: every timer fires once.                                *)
KeptAfterNone(t) == FALSE

KeptAfter(t) == t \in periodic

(* The callback returns or raises, which callLua only logs.                *)
Return ==
    /\ main \in {"callback", "return"}
    /\ IF InTimer
         THEN /\ kept' = IF KeptAfter(current) THEN Append(kept, current) ELSE kept
              /\ main' = "timers"
         ELSE main' = "select" /\ UNCHANGED kept
    /\ current' = None
    /\ UNCHANGED <<timers, made, periodic, due, todo, fired, orphans, requestVars,
                   messageVars, ctxDone>>

(* An event of the audio server, or a signal for on_register.              *)
DispatchEvent ==
    /\ main = "select"
    /\ main' = "callback"
    /\ UNCHANGED <<timerVars, requestVars, messageVars, ctxDone>>

TakeMessage ==
    /\ main = "select" /\ msgs # <<>>
    /\ heard' = Append(heard, Head(msgs)) /\ msgs' = Tail(msgs)
    /\ main' = "callback"
    /\ UNCHANGED <<timerVars, requestVars, sub, inbox, held, published, dropped, ctxDone>>

Shutdown ==
    /\ main = "select" /\ ctxDone
    /\ main' = "done"
    /\ UNCHANGED <<timerVars, requestVars, messageVars, ctxDone>>

-----------------------------------------------------------------------------
(* The calls that a callback waits for.                                    *)

Goes(from, to) ==
    /\ main = from /\ main' = to
    /\ UNCHANGED <<timerVars, requestVars, messageVars, ctxDone>>

(* A call of a library module has a timeout of its own, under Engine.ctx,  *)
(* and a result or an error to give the callback: to the loop the modules  *)
(* are all alike.                                                          *)
Waits == Goes("callback", "library")

redisCall == Waits

sqlCall == Waits

httpCall == Waits

LibraryReturns == Goes("library", "return")

(* The poll timer's callback calls lpop.                                   *)
CallLPop ==
    /\ main = "callback" /\ current = Poll
    /\ main' = "lpop"
    /\ UNCHANGED <<timerVars, requestVars, messageVars, ctxDone>>

(* A wrong variant: takes what was pushed last.                            *)
PopFromTail ==
    /\ main = "lpop" /\ list # <<>>
    /\ hand' = Last(list) /\ list' = Front(list)
    /\ main' = "popped"
    /\ UNCHANGED <<timerVars, pushed, queued, lost, answersLost, messageVars,
                   ctxDone>>

Pop ==
    /\ main = "lpop" /\ list # <<>>
    /\ hand' = Head(list) /\ list' = Tail(list)
    /\ main' = "popped"
    /\ UNCHANGED <<timerVars, pushed, queued, lost, answersLost, messageVars,
                   ctxDone>>

(* No request, or the server was not reached: nil.                         *)
PopNothing ==
    /\ main = "lpop" /\ (list = <<>> \/ ctxDone)
    /\ main' = "return"
    /\ UNCHANGED <<timerVars, requestVars, messageVars, ctxDone>>

PopAnswered == Goes("popped", "queue")

LoseAnswer ==
    /\ main = "popped" /\ answersLost < MaxLost
    /\ answersLost' = answersLost + 1 /\ main' = "unanswered"
    /\ UNCHANGED <<timerVars, hand, list, pushed, queued, lost, messageVars,
                   ctxDone>>

(* The library sends the LPOP once more, and takes another request.        *)
PopRetried ==
    /\ main = "unanswered" /\ ~ctxDone
    /\ lost' = lost \union {hand} /\ hand' = None
    /\ main' = "lpop"
    /\ UNCHANGED <<timerVars, list, pushed, queued, answersLost, messageVars,
                   ctxDone>>

(* A wrong variant: a context without redisCallTimeout.                    *)
NoTimeout == FALSE

(* redisCallTimeout, or Engine.ctx is cancelled.                           *)
CallTimeout == main = "unanswered"

PopFails ==
    /\ CallTimeout
    /\ lost' = lost \union {hand} /\ hand' = None
    /\ main' = "return"
    /\ UNCHANGED <<timerVars, list, pushed, queued, answersLost, messageVars,
                   ctxDone>>

(* radio.queue: the server queues the request; or the call fails before    *)
(* or after that and raises, which ends the callback.                      *)
QueueRequest ==
    /\ main = "queue"
    /\ \/ /\ queued' = Append(queued, hand)
          /\ UNCHANGED <<lost, answersLost>>
       \/ /\ answersLost < MaxLost
          /\ lost' = lost \union {hand} /\ answersLost' = answersLost + 1
          /\ UNCHANGED queued
    /\ hand' = None /\ main' = "return"
    /\ UNCHANGED <<timerVars, list, pushed, messageVars, ctxDone>>

-----------------------------------------------------------------------------
(* The subscription's goroutine.                                           *)

SubReceive ==
    /\ sub = "receive" /\ inbox # <<>>
    /\ held' = <<Head(inbox)>> /\ inbox' = Tail(inbox) /\ sub' = "send"
    /\ UNCHANGED <<timerVars, main, requestVars, msgs, published, dropped, heard, ctxDone>>

(* A wrong variant: does not wait, like EventBus.Publish.                  *)
SubSendOrDrop ==
    /\ sub = "send"
    /\ msgs' = IF Len(msgs) < MsgCap THEN msgs \o held ELSE msgs
    /\ held' = <<>> /\ sub' = "receive"
    /\ UNCHANGED <<timerVars, main, requestVars, inbox, published, dropped, heard,
                   ctxDone>>

SubSend ==
    /\ sub = "send" /\ Len(msgs) < MsgCap
    /\ msgs' = msgs \o held
    /\ held' = <<>> /\ sub' = "receive"
    /\ UNCHANGED <<timerVars, main, requestVars, inbox, published, dropped, heard,
                   ctxDone>>

(* Cancelled, or the library has closed its channel: what the goroutine    *)
(* holds and what is in the channel is dropped.                            *)
SubEnds ==
    /\ sub # "ended"
    /\ ctxDone \/ (sub = "receive" /\ inbox = <<>>)
    /\ sub' = "ended"
    /\ UNCHANGED <<timerVars, main, requestVars, inbox, held, msgs, published, dropped,
                   heard, ctxDone>>

-----------------------------------------------------------------------------
(* The world outside; what it does after the end is left out.              *)

ComesDue(t) ==
    /\ t \in ToSet(timers) \ due
    /\ due' = due \union {t}
    /\ UNCHANGED <<timers, made, periodic, todo, kept, current, fired, orphans, main,
                   requestVars, messageVars, ctxDone>>

PushRequest ==
    /\ ~ctxDone /\ pushed < MaxRequests
    /\ pushed' = pushed + 1 /\ list' = Append(list, pushed')
    /\ UNCHANGED <<timerVars, main, hand, queued, lost, answersLost,
                   messageVars, ctxDone>>

(* A message reaches the library; those that do are numbered.  One that is *)
(* published while the library has no connection reaches nobody.           *)
Arrives ==
    /\ ~ctxDone /\ published < MaxMessages /\ sub # "ended"
    /\ published' = published + 1
    /\ UNCHANGED <<timerVars, main, requestVars, sub, held, msgs, heard, ctxDone>>

(* One that waits until the library's channel has room is taken to arrive  *)
(* then.                                                                   *)
PublishMessage ==
    /\ Arrives /\ Len(inbox) < InboxCap
    /\ inbox' = Append(inbox, published')
    /\ UNCHANGED dropped

(* The library drops one that has waited a minute.                         *)
DropMessage ==
    /\ Arrives /\ Len(inbox) = InboxCap
    /\ dropped' = dropped \union {published'}
    /\ UNCHANGED inbox

Cancel ==
    /\ ctxDone' = TRUE
    /\ UNCHANGED <<timerVars, main, requestVars, messageVars>>

Callback ==
    \/ \E every \in BOOLEAN : AddTimer(every)
    \/ Return \/ redisCall \/ sqlCall \/ httpCall \/ LibraryReturns

Request ==
    \/ CallLPop \/ Pop \/ PopNothing \/ PopAnswered \/ LoseAnswer \/ PopRetried
    \/ PopFails \/ QueueRequest

Subscription == SubReceive \/ SubSend \/ SubEnds

TimePasses == \E t \in TimerIds : ComesDue(t)

Messages == PublishMessage \/ DropMessage

Outside == TimePasses \/ PushRequest \/ Messages \/ Cancel

Next ==
    \/ RunDueTimers \/ NotDue \/ Fire \/ TimersRun
    \/ DispatchEvent \/ TakeMessage \/ Shutdown
    \/ Callback \/ Request \/ Subscription \/ Outside

Spec == Init /\ [][Next]_vars

(* The poll timer's time comes; the select picks the tick and the end of   *)
(* the context some time (it picks at random); a callback returns, and     *)
(* every call is answered or times out.  The poll timer's callback does    *)
(* call lpop.                                                              *)
FairSpec ==
    /\ Spec
    /\ WF_vars(ComesDue(Poll))
    /\ SF_vars(RunDueTimers) /\ SF_vars(Shutdown)
    /\ WF_vars(NotDue \/ Fire \/ TimersRun)
    /\ WF_vars(Return \/ LibraryReturns)
    /\ SF_vars(CallLPop)
    /\ WF_vars(Pop \/ PopNothing \/ PopAnswered \/ PopFails \/ QueueRequest)

-----------------------------------------------------------------------------
Ids(todoLeft) == {todoLeft[k][1] : k \in DOMAIN todoLeft}

TypeOK ==
    /\ made \in TimerIds /\ ToSet(timers) \subseteq 1..made
    /\ periodic \subseteq 1..made /\ due \subseteq 1..made
    /\ fired \subseteq 1..made /\ orphans \subseteq 1..made
    /\ Ids(todo) \subseteq 1..made /\ ToSet(kept) \subseteq 1..made
    /\ current \in 0..made
    /\ main \in {"select", "timers", "callback", "return", "library", "lpop", "popped",
                 "unanswered", "queue", "done"}
    /\ pushed \in 0..MaxRequests /\ published \in 0..MaxMessages
    /\ dropped \subseteq 1..published /\ Len(inbox) <= InboxCap /\ Len(msgs) <= MsgCap
    /\ answersLost \in 0..MaxLost
    /\ hand \in 0..pushed /\ lost \subseteq 1..pushed
    /\ sub \in {"receive", "send", "ended"} /\ ctxDone \in BOOLEAN

Running == main = "timers" \/ InTimer

(* What runDueTimers leaves in Engine.timers.                              *)
Scheduled == IF Running THEN Ids(todo) \union ToSet(kept) \union ({current} \ {None})
             ELSE ToSet(timers)

(* A timer of radio.every runs for ever, one of radio.after until it has   *)
(* fired and not again, except for those that a timer's callback makes.    *)
TimersKept ==
    \A t \in (1..made) \ orphans :
        /\ t \in periodic \/ t \notin fired => t \in Scheduled
        /\ t \in Scheduled \ {current} => t \in periodic \/ t \notin fired

(* The requests: each is in the list, in the callback's hands, queued      *)
(* once and in the order they were pushed, or lost with a lost answer.     *)
RequestsInOrder ==
    /\ \A j, k \in DOMAIN queued : j < k => queued[j] < queued[k]
    /\ \A r \in 1..pushed :
          r \in ToSet(list) \union {hand} \union ToSet(queued) \union lost

(* What the library has handed over and the script has or will hear.       *)
OnTheWay == heard \o msgs \o held \o inbox

(* The script hears messages in the order they were published: on the way  *)
(* through the goroutine and the channel none is skipped, doubled or       *)
(* overtaken, however slow the callbacks are.  Of those that reach the     *)
(* library only those are missing that it dropped, having waited at its    *)
(* full channel too long (redisSubscribe, redismodule.go:306-332).         *)
MessagesInOrder ==
    /\ \A j, k \in DOMAIN OnTheWay : j < k => OnTheWay[j] < OnTheWay[k]
    /\ ToSet(OnTheWay) = (1..published) \ dropped

(* The list is worked off, as long as the engine runs.                     *)
RequestsServed == (list # <<>>) ~> (list = <<>> \/ ctxDone)

(* Once the context is cancelled, Run returns, whatever its callbacks      *)
(* wait for.                                                               *)
ShutsDown == ctxDone ~> main = "done"
=============================================================================
