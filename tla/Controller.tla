----------------------------- MODULE Controller -----------------------------
(***************************************************************************)
(* A station controller (internal/luastation/engine.go and api.go) against *)
(* the server of Lifecycle: the goroutine that owns the Lua state and      *)
(* calls radio.register and radio.unregister, and subscribeEventsLoop,     *)
(* which watches the station's events, registers the station again         *)
(* whenever that stream ends and signals the first goroutine to run the    *)
(* script's on_register callback, which puts tracks into the queue.        *)
(*                                                                         *)
(* The script has one slug.  A server that cannot be reached is a step     *)
(* that is not taken yet: the code retries it.                             *)
(***************************************************************************)
EXTENDS Lifecycle

CONSTANTS
    Main, Loop,   \* the two goroutines, as callers of the server
    Stream,       \* the loop's SubscribeEvents stream
    MaxCalls,     \* how often the script registers or unregisters (a bound)
    MayRefuse     \* whether the server may refuse the token from some time on

ASSUME ControllerAssumption ==
    /\ Main \in Owners /\ Loop \in Owners /\ Main # Loop
    /\ Stream \in Watchers
    /\ MaxCalls \in Nat /\ MayRefuse \in BOOLEAN

VARIABLES
    main,     \* the next step of the goroutine that owns the Lua state
    known,    \* registeredSlug and unregistered: "never", "yes", "unregistered"
    calls,    \* the calls of register and unregister so far
    loop,     \* the next step of subscribeEventsLoop, "none" before it starts
    signals,  \* what is in reregisteredCh
    byLoop,   \* history variable: the stations the loop made for a script that
              \* was registered and has not unregistered since
    primed    \* history variable: the stations that on_register put tracks into

mainVars == <<main, known, calls, primed>>
loopVars == <<loop, signals, byLoop>>
controllerVars == <<vars, mainVars, loopVars>>

SignalCap == 1

ControllerInit ==
    /\ Init
    /\ main = "idle" /\ known = "never" /\ calls = 0
    /\ loop = "none" /\ signals = 0
    /\ byLoop = {} /\ primed = {}

-----------------------------------------------------------------------------
(* The script: radio.register and radio.unregister.                        *)

CallRegister ==
    /\ main = "idle" /\ calls < MaxCalls
    /\ main' = "register" /\ calls' = calls + 1
    /\ UNCHANGED <<vars, known, primed, loopVars>>

(* One attempt of registerWithRetry that reaches the server; its answer    *)
(* may be lost, and then it is tried again.                                *)
Registers ==
    /\ main = "register" /\ Register(Main)
    /\ main' \in {"register", "note"}
    /\ UNCHANGED <<known, calls, primed, loopVars>>

RegisterRaises ==
    /\ main = "register" /\ MayRefuse
    /\ main' = "idle"
    /\ UNCHANGED <<vars, known, calls, primed, loopVars>>

SetRegisterInfo ==
    /\ main = "note"
    /\ known' = "yes" /\ main' = "idle"
    /\ UNCHANGED <<vars, calls, primed, loopVars>>

CallUnregister ==
    /\ main = "idle" /\ known = "yes" /\ calls < MaxCalls
    /\ main' = "unregister" /\ calls' = calls + 1
    /\ UNCHANGED <<vars, known, primed, loopVars>>

Unregisters ==
    /\ main = "unregister" /\ Unregister(Main)
    /\ main' = "answer"
    /\ UNCHANGED <<known, calls, primed, loopVars>>

Answered ==
    /\ main = "answer" /\ stopAt[Main] = "idle"
    /\ main' = "forget"
    /\ UNCHANGED <<vars, known, calls, primed, loopVars>>

(* The call fails: not reached, not registered, or its answer was lost.    *)
UnregisterRaises ==
    /\ \/ main = "unregister"
       \/ main = "answer" /\ stopAt[Main] = "idle"
    /\ main' = "idle"
    /\ UNCHANGED <<vars, known, calls, primed, loopVars>>

SetUnregistered ==
    /\ main = "forget"
    /\ known' = "unregistered" /\ main' = "idle"
    /\ byLoop' = {}
    /\ UNCHANGED <<vars, calls, primed, loop, signals>>

(* Run's select takes a signal and calls the script's on_register, which   *)
(* queues tracks with one more call of the server.                         *)
TakeSignal ==
    /\ main = "idle" /\ loop # "none" /\ signals > 0
    /\ signals' = signals - 1 /\ main' = "callback"
    /\ UNCHANGED <<vars, known, calls, primed, loop, byLoop>>

OnRegister ==
    /\ main = "callback"
    /\ main' = "idle"
    /\ primed' = IF known = "yes" THEN primed \union ({registered} \ {None})
                 ELSE primed
    /\ UNCHANGED <<vars, known, calls, loopVars>>

-----------------------------------------------------------------------------
(* subscribeEventsLoop.                                                    *)

(* The script is loaded and has registered.                                *)
StartLoop ==
    /\ loop = "none" /\ main = "idle" /\ known = "yes"
    /\ loop' = "subscribe"
    /\ UNCHANGED <<vars, mainVars, signals, byLoop>>

(* With no slug the server refuses the stream.                             *)
OpenStream ==
    /\ loop = "subscribe"
    /\ loop' = IF known = "yes" THEN "opening" ELSE "check"
    /\ UNCHANGED <<vars, mainVars, signals, byLoop>>

Opened ==
    /\ loop = "opening" /\ Find(Stream)
    /\ loop' = "stream"
    /\ UNCHANGED <<mainVars, signals, byLoop>>

NotFound ==
    /\ loop = "opening" /\ registered = None
    /\ loop' = "check"
    /\ UNCHANGED <<vars, mainVars, signals, byLoop>>

(* A wrong variant: without keepalive, a connection that went silent.      *)
NeverOver == FALSE

StreamOver == at[Stream] = "away"

RecvFails ==
    /\ loop = "stream" /\ StreamOver
    /\ loop' = "check"
    /\ UNCHANGED <<vars, mainVars, signals, byLoop>>

(* A wrong variant: a stream that ended is opened again, and no more.      *)
CheckResubscribes ==
    /\ loop = "check"
    /\ loop' = IF known = "unregistered" THEN "done" ELSE "subscribe"
    /\ UNCHANGED <<vars, mainVars, signals, byLoop>>

Check ==
    /\ loop = "check"
    /\ loop' = IF known = "unregistered" THEN "done" ELSE "register"
    /\ UNCHANGED <<vars, mainVars, signals, byLoop>>

(* Remembers the station this call made.                                   *)
Makes == byLoop' = IF known = "yes" THEN byLoop \union ((made + 1)..made') ELSE byLoop

(* A wrong variant: on_register only for a station the answer calls new.   *)
ReregistersTellsNew ==
    /\ loop = "register" /\ Register(Loop)
    /\ loop' \in {"register", IF made' # made THEN "signal" ELSE "subscribe"}
    /\ Makes
    /\ UNCHANGED <<mainVars, signals>>

Reregisters ==
    /\ loop = "register" /\ Register(Loop)
    /\ loop' \in {"register", "signal"}
    /\ Makes
    /\ UNCHANGED <<mainVars, signals>>

(* An error that is not retryable ends the loop.                           *)
ReregisterRefused ==
    /\ loop = "register" /\ MayRefuse
    /\ loop' = "refused"
    /\ UNCHANGED <<vars, mainVars, signals, byLoop>>

(* The send does not wait: a signal that is there already is enough.       *)
Send == signals' = IF signals < SignalCap THEN signals + 1 ELSE signals

Signal ==
    /\ loop = "signal"
    /\ Send
    /\ loop' = "subscribe"
    /\ UNCHANGED <<vars, mainVars, byLoop>>

-----------------------------------------------------------------------------
(* The server by itself: the steps of a Stop, of players and of the        *)
(* stream's handler; the connection may break, and the server restart.     *)

ServerStep ==
    /\ \/ StopStep(Main)
       \/ \E st \in Stations : PlayerEnds(st)
       \/ HandlerStep(Stream)
    /\ UNCHANGED <<mainVars, loopVars>>

ConnectionLost == ClientGone(Stream) /\ UNCHANGED <<mainVars, loopVars>>

ServerRestarts ==
    /\ Restart
    /\ main' = IF main = "answer" THEN "idle" ELSE main
    /\ UNCHANGED <<known, calls, primed, loopVars>>

ScriptCalls == CallRegister \/ CallUnregister

MainStep ==
    \/ Registers \/ SetRegisterInfo
    \/ Unregisters \/ UnregisterRaises \/ Answered \/ SetUnregistered
    \/ TakeSignal \/ OnRegister

LoopStep ==
    \/ StartLoop \/ OpenStream \/ Opened \/ NotFound \/ RecvFails
    \/ Check \/ Reregisters \/ Signal

ControllerNext ==
    \/ ScriptCalls \/ MainStep \/ RegisterRaises
    \/ LoopStep \/ ReregisterRefused
    \/ ServerStep \/ ConnectionLost \/ ServerRestarts

ControllerSpec == ControllerInit /\ [][ControllerNext]_controllerVars

(* Both goroutines go on, a call is answered at some time (or tried again  *)
(* until it is), and the server does what it was asked to.  The script's   *)
(* top level and its callbacks end; it need not call anything.             *)
FairControllerSpec ==
    /\ ControllerSpec
    /\ WF_controllerVars(MainStep /\ main' # main)
    /\ WF_controllerVars(LoopStep /\ loop' # loop)
    /\ WF_controllerVars(StopStep(Main) /\ UNCHANGED <<mainVars, loopVars>>)
    /\ WF_controllerVars(HandlerStep(Stream) /\ UNCHANGED <<mainVars, loopVars>>)

-----------------------------------------------------------------------------
(* The loop is watching over the station.                                  *)
Watching == loop \notin {"none", "refused", "done"}

(* A station that the server lost comes back while the script has not      *)
(* unregistered it, unless the loop has ended for good - after an          *)
(* unregister, even if the script registers again, or a refused token - or *)
(* its stream subscribed to a station after CloseAll and is never ended.   *)
ComesBack ==
    (known = "yes" /\ registered = None)
        ~> \/ registered # None
           \/ known # "yes" \/ loop \in {"refused", "done"} \/ Stream \in tooLate

(* Every station that the loop made gets the script's tracks while it is   *)
(* there, though answers are lost and signals dropped, unless the server   *)
(* refuses the token before the loop has had an answer.                    *)
RestartIsPrimed ==
    \A st \in Stations :
        (registered = st /\ st \in byLoop)
            ~> (st \in primed \/ registered # st \/ known # "yes" \/ loop = "refused")

(* A controller that is registered gets to hear its own station's events,  *)
(* unless its stream subscribed to one that had been stopped already.      *)
HearsItsStation ==
    (known = "yes" /\ Watching)
        ~> \/ at[Stream] = "open" /\ on[Stream] = registered
           \/ known # "yes" \/ ~Watching \/ Stream \in tooLate

(* What the engine promises of an intentional unregister: the loop does    *)
(* not undo it.                                                            *)
UnregisterSticks ==
    known = "unregistered" /\ main \in {"idle", "callback"} => registered = None
=============================================================================
