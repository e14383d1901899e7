----------------------------- MODULE Lifecycle -----------------------------
(***************************************************************************)
(* What begins and ends with a station: its entry in the registry          *)
(* (internal/registry/registry.go), its player goroutine                   *)
(* (internal/cli/serve_run.go), its HTTP listeners and SubscribeEvents     *)
(* streams, and Station.Stop, which an UnregisterStation handler runs in   *)
(* three steps after the station has left the registry.                    *)
(*                                                                         *)
(* One slug: others share nothing but the map.  The stations registered    *)
(* under it one after the other are 1, 2, ...; a handler keeps the one it  *)
(* found, whatever the registry says later.  What a listener hears, its    *)
(* eviction and its writes are in Broadcaster: here a client reads.        *)
(***************************************************************************)
EXTENDS Naturals, FiniteSets

CONSTANTS
    Owners,       \* the callers of RegisterStation and UnregisterStation
    Listeners,    \* the clients of GET /stream/{slug}
    Watchers,     \* the clients of SubscribeEvents
    MaxStations,  \* how many stations are ever registered (a bound)
    MaxRestarts   \* how often the server restarts (a bound)

ASSUME LifecycleAssumption ==
    /\ MaxStations \in Nat /\ MaxRestarts \in Nat
    /\ Listeners \intersect Watchers = {}

Handlers == Listeners \union Watchers
Stations == 1..MaxStations
None == 0

VARIABLES
    registered,  \* Registry.stations[slug], or None
    made,        \* the stations made so far
    player,      \* player[st]: the goroutine that runs Station.Run
    cancelled,   \* the stations whose runCancel was called
    stopping,    \* stopping[o]: the station o is stopping, or None
    stopAt,      \* stopAt[o]: the next step of Stop
    at,          \* at[h]: the next step of the handler of h
    on,          \* on[h]: the station its handler found
    subscribed,  \* the handlers in Broadcaster.listeners or EventBus.subs
    closed,      \* the handlers whose channel was closed
    restarts,
    stops,       \* history variable: how often each station was stopped
    tooLate      \* history variable: the handlers that subscribed after CloseAll

stationVars == <<registered, made, player, cancelled>>
stopVars    == <<stopping, stopAt, stops>>
handlerVars == <<at, on, subscribed, closed, tooLate>>
vars == <<stationVars, stopVars, handlerVars, restarts>>

Init ==
    /\ registered = None /\ made = 0
    /\ player = [st \in Stations |-> "none"]
    /\ cancelled = {}
    /\ stopping = [o \in Owners |-> None]
    /\ stopAt = [o \in Owners |-> "idle"]
    /\ at = [h \in Handlers |-> "away"]
    /\ on = [h \in Handlers |-> None]
    /\ subscribed = {} /\ closed = {} /\ tooLate = {}
    /\ restarts = 0
    /\ stops = [st \in Stations |-> 0]

-----------------------------------------------------------------------------
(* Registering and unregistering.                                          *)

(* A wrong variant: looks, and makes the station all the same.             *)
MustMake == TRUE

IsNew == registered = None

StartStation(st) == player' = [player EXCEPT ![st] = "running"]

(* Registry.Register holds its lock across onNew, which starts the player; *)
(* a known slug only gets new metadata.                                    *)
Register(o) ==
    /\ stopAt[o] = "idle"
    /\ IF IsNew
         THEN /\ made < MaxStations
              /\ made' = made + 1
              /\ registered' = made'
              /\ StartStation(made')
              /\ UNCHANGED cancelled
         ELSE UNCHANGED stationVars
    /\ UNCHANGED <<stopVars, handlerVars, restarts>>

(* A wrong variant: the station is looked up, and deleted after the stop.  *)
TakeOutLater == UNCHANGED registered

TakeOut == registered' = None

Unregister(o) ==
    /\ stopAt[o] = "idle" /\ registered # None
    /\ TakeOut
    /\ stopping' = [stopping EXCEPT ![o] = registered]
    /\ stopAt' = [stopAt EXCEPT ![o] = "cancel"]
    /\ stops' = [stops EXCEPT ![registered] = @ + 1]
    /\ UNCHANGED <<made, player, cancelled, handlerVars, restarts>>

(* A wrong variant: nobody was given the cancel func.                      *)
CancelNothing(o) ==
    /\ stopAt[o] = "cancel"
    /\ stopAt' = [stopAt EXCEPT ![o] = "audio"]
    /\ UNCHANGED <<stationVars, stopping, stops, handlerVars, restarts>>

Cancel(o) ==
    /\ stopAt[o] = "cancel"
    /\ cancelled' = cancelled \union {stopping[o]}
    /\ stopAt' = [stopAt EXCEPT ![o] = "audio"]
    /\ UNCHANGED <<registered, made, player, stopping, stops, handlerVars, restarts>>

(* A wrong variant: the map is emptied and the channels forgotten.         *)
ForgetAll(handlers, st) ==
    /\ subscribed' = subscribed \ {h \in handlers : on[h] = st}
    /\ UNCHANGED closed

(* CloseAll of the broadcaster or of the event bus.                        *)
CloseAll(handlers, st) ==
    LET mine == {h \in handlers \intersect subscribed : on[h] = st}
    IN  /\ subscribed' = subscribed \ mine
        /\ closed' = closed \union mine

CloseAudio(o) ==
    /\ stopAt[o] = "audio"
    /\ CloseAll(Listeners, stopping[o])
    /\ stopAt' = [stopAt EXCEPT ![o] = "events"]
    /\ UNCHANGED <<stationVars, stopping, stops, at, on, tooLate, restarts>>

(* A wrong variant: only the broadcaster is closed.                        *)
EventsStayOpen(o) ==
    /\ stopAt[o] = "events"
    /\ stopAt' = [stopAt EXCEPT ![o] = "idle"]
    /\ stopping' = [stopping EXCEPT ![o] = None]
    /\ UNCHANGED <<stationVars, stops, handlerVars, restarts>>

CloseEvents(o) ==
    /\ stopAt[o] = "events"
    /\ CloseAll(Watchers, stopping[o])
    /\ stopAt' = [stopAt EXCEPT ![o] = "idle"]
    /\ stopping' = [stopping EXCEPT ![o] = None]
    /\ UNCHANGED <<stationVars, stops, at, on, tooLate, restarts>>

(* Run returns once it sees its context cancelled.                         *)
PlayerEnds(st) ==
    /\ player[st] = "running" /\ st \in cancelled
    /\ player' = [player EXCEPT ![st] = "ended"]
    /\ UNCHANGED <<registered, made, cancelled, stopVars, handlerVars, restarts>>

-----------------------------------------------------------------------------
(* Listening and watching: both handlers look the station up, subscribe,   *)
(* and go on until their client is gone or their channel is closed.        *)

Find(h) ==
    /\ at[h] = "away" /\ registered # None
    /\ at' = [at EXCEPT ![h] = "found"]
    /\ on' = [on EXCEPT ![h] = registered]
    /\ UNCHANGED <<stationVars, stopVars, subscribed, closed, tooLate, restarts>>

(* The station whose stop has come past the CloseAll that h needs.         *)
ClosedFor(h, st) ==
    /\ stops[st] > 0
    /\ \A o \in Owners : stopping[o] = st =>
          stopAt[o] \notin IF h \in Listeners THEN {"cancel", "audio"}
                           ELSE {"cancel", "audio", "events"}

Subscribe(h) ==
    /\ at[h] = "found"
    /\ at' = [at EXCEPT ![h] = "open"]
    /\ subscribed' = subscribed \union {h}
    /\ tooLate' = IF ClosedFor(h, on[h]) THEN tooLate \union {h} ELSE tooLate
    /\ UNCHANGED <<stationVars, stopVars, on, closed, restarts>>

(* The handler returns and unsubscribes; its client may come back.         *)
Leave(h) ==
    /\ at' = [at EXCEPT ![h] = "away"]
    /\ on' = [on EXCEPT ![h] = None]
    /\ subscribed' = subscribed \ {h}
    /\ closed' = closed \ {h}
    /\ tooLate' = tooLate \ {h}
    /\ UNCHANGED <<stationVars, stopVars, restarts>>

SeesClosed(h) == at[h] = "open" /\ h \in closed /\ Leave(h)

ClientGone(h) == at[h] = "open" /\ Leave(h)

-----------------------------------------------------------------------------
(* The server is killed and started again: the registry is in memory.      *)
Restart ==
    /\ restarts < MaxRestarts
    /\ restarts' = restarts + 1
    /\ registered' = None
    /\ player' = [st \in Stations |-> IF player[st] = "running" THEN "ended" ELSE player[st]]
    /\ stopping' = [o \in Owners |-> None]
    /\ stopAt' = [o \in Owners |-> "idle"]
    /\ at' = [h \in Handlers |-> "away"]
    /\ on' = [h \in Handlers |-> None]
    /\ subscribed' = {} /\ closed' = {} /\ tooLate' = {}
    /\ UNCHANGED <<made, cancelled, stops>>

StopStep(o) == Cancel(o) \/ CloseAudio(o) \/ CloseEvents(o)

HandlerStep(h) == Subscribe(h) \/ SeesClosed(h)

Next ==
    \/ \E o \in Owners : Register(o) \/ Unregister(o) \/ StopStep(o)
    \/ \E st \in Stations : PlayerEnds(st)
    \/ \E h \in Handlers : Find(h) \/ HandlerStep(h) \/ ClientGone(h)
    \/ Restart

Spec == Init /\ [][Next]_vars

(* A handler that was begun goes on; the player looks at its context       *)
(* between chunks.  Nobody need call, and no client need leave.            *)
FairSpec ==
    /\ Spec
    /\ \A o \in Owners : WF_vars(StopStep(o))
    /\ \A st \in Stations : WF_vars(PlayerEnds(st))
    /\ \A h \in Handlers : WF_vars(HandlerStep(h))

-----------------------------------------------------------------------------
TypeOK ==
    /\ registered \in Stations \union {None} /\ made \in 0..MaxStations
    /\ player \in [Stations -> {"none", "running", "ended"}]
    /\ cancelled \subseteq Stations
    /\ stopping \in [Owners -> Stations \union {None}]
    /\ stopAt \in [Owners -> {"idle", "cancel", "audio", "events"}]
    /\ at \in [Handlers -> {"away", "found", "open"}]
    /\ on \in [Handlers -> Stations \union {None}]
    /\ subscribed \subseteq Handlers /\ closed \subseteq Handlers /\ tooLate \subseteq Handlers
    /\ restarts \in 0..MaxRestarts
    /\ stops \in [Stations -> Nat]

(* A player that nobody has told to stop plays for the station in the      *)
(* registry, or a handler is about to tell it: however registrations and   *)
(* unregistrations of the slug interleave, no player is left behind and no *)
(* two play on for one slug.                                               *)
NoOrphanPlayer ==
    \A st \in Stations : player[st] = "running" /\ st \notin cancelled =>
        \/ registered = st
        \/ \E o \in Owners : stopping[o] = st /\ stopAt[o] = "cancel"

(* A station is stopped by one handler, once: what Broadcaster and Player  *)
(* take for granted of Station.Stop.                                       *)
StoppedOnce == \A st \in Stations : stops[st] <= 1

(* Whoever is still subscribed to a station whose CloseAll has run did so  *)
(* after it; everyone from before has had its channel closed, once.        *)
StopDisconnects ==
    \A h \in Handlers : at[h] = "open" =>
        /\ h \in subscribed <=> h \notin closed
        /\ h \in subscribed /\ ClosedFor(h, on[h]) => h \in tooLate

(* A station that has left the registry stops playing.                     *)
UnregisteredEnds ==
    \A st \in Stations : (st <= made /\ registered # st) ~> (player[st] = "ended")

(* A listener or watcher that was there before gets its stream ended.  One *)
(* that had found the station and subscribes after CloseAll does not:      *)
(* nothing closes its channel any more.                                    *)
DisconnectedLeave ==
    \A h \in Handlers : (at[h] = "open" /\ on[h] # registered /\ h \notin tooLate)
                        ~> (at[h] = "away")
=============================================================================
