-------------------------- MODULE LifecycleProofs --------------------------
(***************************************************************************)
(* What Lifecycle's run checks for three stations of one slug, two owners  *)
(* and two handlers, proved for any number of each: its invariants.  Then, *)
(* that Controller takes Lifecycle's steps and no others, and what is safe *)
(* about the promises its run checks.  The liveness properties of both     *)
(* stay with TLC; ToBeDisconnected and PrimingIsUnderWay say that what     *)
(* they wait for is always on its way.                                     *)
(***************************************************************************)
EXTENDS Controller, TLAPS

(* A Stop that is under way has a station to stop. *)
HasStation == \A o \in Owners : stopAt[o] # "idle" => stopping[o] \in Stations

(* A handler has its channel in the map, or closed, only once it subscribed. *)
OpenOnly == \A h \in Handlers : h \in subscribed \/ h \in closed => at[h] = "open"

(* The station in the registry was made and not stopped; none is stopped    *)
(* that was not made.                                                       *)
FreshInRegistry ==
    /\ registered <= made
    /\ \A st \in Stations : registered = st \/ made < st => stops[st] = 0

Base == TypeOK /\ HasStation /\ OpenOnly /\ FreshInRegistry

(* A handler has the station in the registry, or one that was stopped. *)
WasStopped ==
    \A h \in Handlers : at[h] # "away" =>
        on[h] \in Stations /\ (on[h] = registered \/ stops[on[h]] > 0)

Inv == Base /\ StoppedOnce /\ NoOrphanPlayer /\ StopDisconnects /\ WasStopped

(* Init establishes the invariant: nothing was made and nobody is there. *)
LEMMA InitInv == Init => Inv
  BY LifecycleAssumption
  DEF Init, Inv, Base, TypeOK, HasStation, OpenOnly, FreshInRegistry, StoppedOnce,
      NoOrphanPlayer, StopDisconnects, WasStopped, Stations, Handlers, None

(* Every step keeps the types, a station for every Stop, channels only of   *)
(* open handlers, and a fresh station in the registry.                      *)
LEMMA BaseStep == Base /\ [Next]_vars => Base'
<1> SUFFICES ASSUME Base, [Next]_vars PROVE Base'
    OBVIOUS
<1> USE LifecycleAssumption
    DEF Base, TypeOK, HasStation, OpenOnly, FreshInRegistry, Stations, None
<1>1. ASSUME NEW o \in Owners, Register(o) PROVE Base'
      <2>1. CASE IsNew
            <3>1. /\ made' \in Stations /\ made' = made + 1 /\ registered' = made'
                  /\ player' = [player EXCEPT ![made'] = "running"]
                  /\ UNCHANGED <<cancelled, stopping, stopAt, stops, restarts>>
                  /\ UNCHANGED <<at, on, subscribed, closed, tooLate>>
                  BY <1>1, <2>1 DEF Register, StartStation, stopVars, handlerVars
            <3>2. stops[made'] = 0 /\ \A st \in Stations : made' < st => stops[st] = 0
                  BY <3>1
            <3> QED BY <2>1, <3>1, <3>2 DEF IsNew
      <2>2. CASE ~IsNew
            BY <1>1, <2>2 DEF Register, stationVars, stopVars, handlerVars
      <2> QED BY <2>1, <2>2
<1>2. ASSUME NEW o \in Owners, Unregister(o) PROVE Base'
      BY <1>2 DEF Unregister, TakeOut, handlerVars
<1>3. ASSUME NEW o \in Owners, Cancel(o) PROVE Base'
      BY <1>3 DEF Cancel, handlerVars
<1>4. ASSUME NEW o \in Owners, CloseAudio(o) PROVE Base'
      BY <1>4 DEF CloseAudio, CloseAll, stationVars, Handlers
<1>5. ASSUME NEW o \in Owners, CloseEvents(o) PROVE Base'
      BY <1>5 DEF CloseEvents, CloseAll, stationVars, Handlers
<1>6. ASSUME NEW st \in Stations, PlayerEnds(st) PROVE Base'
      BY <1>6 DEF PlayerEnds, stopVars, handlerVars
<1>7. ASSUME NEW h \in Handlers, Find(h) PROVE Base'
      BY <1>7 DEF Find, stationVars, stopVars
<1>8. ASSUME NEW h \in Handlers, Subscribe(h) PROVE Base'
      BY <1>8 DEF Subscribe, stationVars, stopVars
<1>9. ASSUME NEW h \in Handlers, SeesClosed(h) \/ ClientGone(h) PROVE Base'
      <2>1. /\ at' = [at EXCEPT ![h] = "away"] /\ on' = [on EXCEPT ![h] = 0]
            /\ subscribed' = subscribed \ {h} /\ closed' = closed \ {h}
            /\ tooLate' = tooLate \ {h}
            BY <1>9 DEF SeesClosed, ClientGone, Leave
      <2>2. /\ UNCHANGED <<registered, made, player, cancelled>>
            /\ UNCHANGED <<stopping, stopAt, stops, restarts>>
            BY <1>9 DEF SeesClosed, ClientGone, Leave, stationVars, stopVars
      <2> QED BY <2>1, <2>2
<1>10. CASE Restart
       BY <1>10 DEF Restart
<1>11. CASE UNCHANGED vars
       BY <1>11 DEF vars, stationVars, stopVars, handlerVars
<1> QED
    BY <1>1, <1>2, <1>3, <1>4, <1>5, <1>6, <1>7, <1>8, <1>9, <1>10, <1>11
    DEF Next, StopStep, HandlerStep

(* Only Unregister stops a station, and the one it takes is fresh. *)
LEMMA StoppedOnceStep == Base /\ StoppedOnce /\ [Next]_vars => StoppedOnce'
<1> SUFFICES ASSUME Base, StoppedOnce, [Next]_vars PROVE StoppedOnce'
    OBVIOUS
<1> USE DEF Base, TypeOK, FreshInRegistry, Stations, None, StoppedOnce
<1>1. ASSUME NEW o \in Owners, Unregister(o) PROVE StoppedOnce'
      BY <1>1 DEF Unregister
<1>2. CASE \A o \in Owners : ~Unregister(o)
      <2>1. UNCHANGED stops
            BY <1>2 DEF Next, Register, StopStep, HandlerStep, Cancel, CloseAudio, CloseEvents,
               PlayerEnds, Find, Subscribe, SeesClosed, ClientGone, Leave, Restart, vars, stopVars
      <2> QED BY <2>1
<1> QED BY <1>1, <1>2

(* A player that loses its entry gets the handler that took the entry, and  *)
(* a handler that goes past "cancel" has cancelled it.                      *)
LEMMA NoOrphanStep == Base /\ NoOrphanPlayer /\ [Next]_vars => NoOrphanPlayer'
<1> SUFFICES ASSUME Base, NoOrphanPlayer, [Next]_vars,
                    NEW st \in Stations, player'[st] = "running", st \notin cancelled'
             PROVE  \/ registered' = st
                    \/ \E o \in Owners : stopping'[o] = st /\ stopAt'[o] = "cancel"
    BY DEF NoOrphanPlayer
<1> USE DEF Base, TypeOK, HasStation, Stations, None
<1>1. ASSUME NEW o \in Owners, Register(o)
      PROVE registered' = st \/ \E p \in Owners : stopping'[p] = st /\ stopAt'[p] = "cancel"
      <2>1. UNCHANGED <<stopping, stopAt, cancelled>>
            BY <1>1 DEF Register, stationVars, stopVars
      <2>2. CASE IsNew
            <3>1. /\ player' = [player EXCEPT ![made'] = "running"]
                  /\ registered = 0 /\ registered' = made'
                  BY <1>1, <2>2 DEF Register, StartStation, IsNew
            <3>2. st = made' \/ player[st] = "running"
                  BY <3>1
            <3> QED BY <2>1, <3>1, <3>2 DEF NoOrphanPlayer
      <2>3. CASE ~IsNew
            BY <1>1, <2>1, <2>3 DEF Register, stationVars, NoOrphanPlayer
      <2> QED BY <2>2, <2>3
<1>2. ASSUME NEW o \in Owners, Unregister(o)
      PROVE \E p \in Owners : stopping'[p] = st /\ stopAt'[p] = "cancel"
      <2>1. CASE registered = st
            BY <1>2, <2>1 DEF Unregister
      <2>2. CASE registered # st
            <3>1. PICK p \in Owners : stopping[p] = st /\ stopAt[p] = "cancel"
                  BY <1>2, <2>2 DEF Unregister, NoOrphanPlayer
            <3>2. p # o
                  BY <1>2, <3>1 DEF Unregister
            <3> QED BY <1>2, <3>1, <3>2 DEF Unregister
      <2> QED BY <2>1, <2>2
<1>3. ASSUME NEW o \in Owners, Cancel(o) \/ CloseAudio(o) \/ CloseEvents(o)
      PROVE registered' = st \/ \E p \in Owners : stopping'[p] = st /\ stopAt'[p] = "cancel"
      <2>1. player[st] = "running" /\ st \notin cancelled /\ registered' = registered
            BY <1>3 DEF Cancel, CloseAudio, CloseEvents, stationVars
      <2>2. ASSUME NEW p \in Owners, stopping[p] = st, stopAt[p] = "cancel"
            PROVE stopping'[p] = st /\ stopAt'[p] = "cancel"
            <3>1. p # o
                  BY <1>3, <2>2 DEF Cancel, CloseAudio, CloseEvents
            <3> QED BY <1>3, <2>2, <3>1 DEF Cancel, CloseAudio, CloseEvents
      <2> QED BY <2>1, <2>2 DEF NoOrphanPlayer
<1>4. ASSUME NEW s \in Stations, PlayerEnds(s)
      PROVE registered' = st \/ \E p \in Owners : stopping'[p] = st /\ stopAt'[p] = "cancel"
      BY <1>4 DEF PlayerEnds, NoOrphanPlayer, stopVars
<1>5. ASSUME NEW h \in Handlers,
             Find(h) \/ Subscribe(h) \/ SeesClosed(h) \/ ClientGone(h)
      PROVE registered' = st \/ \E p \in Owners : stopping'[p] = st /\ stopAt'[p] = "cancel"
      <2>1. UNCHANGED <<registered, player, cancelled, stopping, stopAt>>
            BY <1>5 DEF Find, Subscribe, SeesClosed, ClientGone, Leave, stationVars, stopVars
      <2> QED BY <2>1 DEF NoOrphanPlayer
<1>6. CASE Restart
      BY <1>6 DEF Restart
<1>7. CASE UNCHANGED vars
      BY <1>7 DEF vars, stationVars, stopVars, NoOrphanPlayer
<1> QED
    BY <1>1, <1>2, <1>3, <1>4, <1>5, <1>6, <1>7 DEF Next, StopStep, HandlerStep

(* A CloseAll takes out everyone who is subscribed to the station, and      *)
(* ClosedFor becomes true by nothing else.                                  *)
LEMMA DisconnectsStep == Base /\ StopDisconnects /\ [Next]_vars => StopDisconnects'
<1> SUFFICES ASSUME Base, StopDisconnects, [Next]_vars, NEW h \in Handlers, at'[h] = "open"
             PROVE  /\ h \in subscribed' <=> h \notin closed'
                    /\ h \in subscribed' /\ ClosedFor(h, on[h])' => h \in tooLate'
    BY DEF StopDisconnects
<1> DEFINE Goal == /\ h \in subscribed' <=> h \notin closed'
                   /\ h \in subscribed' /\ ClosedFor(h, on[h])' => h \in tooLate'
<1> USE LifecycleAssumption DEF Base, TypeOK, OpenOnly, HasStation, Stations, Handlers, None
<1>1. ASSUME NEW o \in Owners, Register(o) \/ Cancel(o) PROVE Goal
      <2>1. UNCHANGED <<at, on, subscribed, closed, tooLate, stops, stopping>>
            BY <1>1 DEF Register, Cancel, stopVars, handlerVars
      <2>2. \A p \in Owners : stopAt'[p] = stopAt[p] \/ (stopAt[p] = "cancel" /\ stopAt'[p] = "audio")
            BY <1>1 DEF Register, Cancel, stopVars
      <2>3. ClosedFor(h, on[h])' => ClosedFor(h, on[h])
            BY <2>1, <2>2 DEF ClosedFor
      <2> QED BY <2>1, <2>3 DEF StopDisconnects
<1>2. ASSUME NEW o \in Owners, Unregister(o) PROVE Goal
      <2>1. /\ UNCHANGED <<at, on, subscribed, closed, tooLate>>
            /\ stopping' = [stopping EXCEPT ![o] = registered] /\ stopAt[o] = "idle"
            /\ stopAt' = [stopAt EXCEPT ![o] = "cancel"]
            /\ stops' = [stops EXCEPT ![registered] = @ + 1] /\ registered \in Stations
            BY <1>2 DEF Unregister, handlerVars
      <2>2. CASE on[h] = registered
            <3>1. stopping'[o] = on[h] /\ stopAt'[o] = "cancel" /\ on'[h] = on[h]
                  BY <2>1, <2>2
            <3>2. ~ClosedFor(h, on[h])'
                  BY <3>1 DEF ClosedFor
            <3> QED BY <2>1, <3>2 DEF StopDisconnects
      <2>3. CASE on[h] # registered
            <3>1. on[h] \in Stations \union {None} /\ on'[h] = on[h]
                  BY <2>1
            <3>2. stops'[on[h]] = stops[on[h]]
                  BY <2>1, <2>3, <3>1
            <3>3. \A p \in Owners : p # o => stopping'[p] = stopping[p] /\ stopAt'[p] = stopAt[p]
                  BY <2>1
            <3>4. ClosedFor(h, on[h])' => ClosedFor(h, on[h])
                  BY <2>1, <3>1, <3>2, <3>3 DEF ClosedFor
            <3> QED BY <2>1, <3>4 DEF StopDisconnects
      <2> QED BY <2>2, <2>3
<1>3. ASSUME NEW o \in Owners, NEW side, CloseAll(side, stopping[o]),
             \/ CloseAudio(o) /\ side = Listeners
             \/ CloseEvents(o) /\ side = Watchers
      PROVE Goal
      <2>1. UNCHANGED <<at, on, tooLate, stops>>
            BY <1>3 DEF CloseAudio, CloseEvents
      <2>2. CASE h \in side /\ h \in subscribed /\ on[h] = stopping[o]
            BY <1>3, <2>1, <2>2 DEF CloseAll
      <2>3. CASE ~(h \in side /\ h \in subscribed /\ on[h] = stopping[o])
            <3>1. (h \in subscribed' <=> h \in subscribed) /\ (h \in closed' <=> h \in closed)
                  BY <1>3, <2>3 DEF CloseAll
            <3>2. ASSUME h \in subscribed, ClosedFor(h, on[h])' PROVE ClosedFor(h, on[h])
                  <4>1. stops[on[h]] > 0
                        BY <2>1, <3>2 DEF ClosedFor
                  <4>2. ASSUME NEW p \in Owners, stopping[p] = on[h]
                        PROVE  stopAt[p] \notin IF h \in Listeners THEN {"cancel", "audio"}
                                                ELSE {"cancel", "audio", "events"}
                        <5>1. CASE p = o
                              <6>1. h \notin side
                                    BY <2>3, <3>2, <4>2, <5>1
                              <6>2. CASE CloseAudio(o) /\ side = Listeners
                                    <7>1. stopping'[p] = on'[h] /\ stopAt'[p] = "events"
                                          BY <2>1, <4>2, <5>1, <6>2 DEF CloseAudio
                                    <7> QED BY <3>2, <6>1, <6>2, <7>1 DEF ClosedFor
                              <6>3. CASE CloseEvents(o) /\ side = Watchers
                                    BY <5>1, <6>1, <6>3 DEF CloseEvents
                              <6> QED BY <1>3, <6>2, <6>3
                        <5>2. CASE p # o
                              <6>1. stopping'[p] = on'[h] /\ stopAt'[p] = stopAt[p]
                                    BY <1>3, <2>1, <4>2, <5>2 DEF CloseAudio, CloseEvents
                              <6> QED BY <3>2, <6>1 DEF ClosedFor
                        <5> QED BY <5>1, <5>2
                  <4> QED BY <4>1, <4>2 DEF ClosedFor
            <3> QED BY <2>1, <3>1, <3>2 DEF StopDisconnects
      <2> QED BY <2>2, <2>3
<1>4. ASSUME NEW st \in Stations, PlayerEnds(st) PROVE Goal
      BY <1>4 DEF PlayerEnds, stopVars, handlerVars, StopDisconnects, ClosedFor
<1>5. ASSUME NEW g \in Handlers, Find(g) PROVE Goal
      <2>1. h # g
            BY <1>5 DEF Find
      <2>2. at[h] = "open" /\ on'[h] = on[h] /\ UNCHANGED <<subscribed, closed, tooLate>>
            BY <1>5, <2>1 DEF Find
      <2>3. UNCHANGED <<stopping, stopAt, stops>>
            BY <1>5 DEF Find, stopVars
      <2> QED BY <2>2, <2>3 DEF StopDisconnects, ClosedFor
<1>6. ASSUME NEW g \in Handlers, Subscribe(g) PROVE Goal
      <2>1. UNCHANGED <<on, closed, stopping, stopAt, stops>>
            BY <1>6 DEF Subscribe, stopVars
      <2>2. ClosedFor(h, on[h])' <=> ClosedFor(h, on[h])
            BY <2>1 DEF ClosedFor
      <2>3. CASE h = g
            BY <1>6, <2>1, <2>2, <2>3 DEF Subscribe
      <2>4. CASE h # g
            <3>1. /\ at[h] = "open" /\ (h \in subscribed' <=> h \in subscribed)
                  /\ h \in tooLate => h \in tooLate'
                  BY <1>6, <2>4 DEF Subscribe
            <3> QED BY <2>1, <2>2, <3>1 DEF StopDisconnects
      <2> QED BY <2>3, <2>4
<1>7. ASSUME NEW g \in Handlers, SeesClosed(g) \/ ClientGone(g) PROVE Goal
      <2>1. h # g /\ at[h] = "open" /\ on'[h] = on[h]
            BY <1>7 DEF SeesClosed, ClientGone, Leave
      <2>2. /\ h \in subscribed' <=> h \in subscribed
            /\ h \in closed' <=> h \in closed
            /\ h \in tooLate' <=> h \in tooLate
            BY <1>7, <2>1 DEF SeesClosed, ClientGone, Leave
      <2>3. UNCHANGED <<stopping, stopAt, stops>>
            BY <1>7 DEF SeesClosed, ClientGone, Leave, stopVars
      <2> QED BY <2>1, <2>2, <2>3 DEF StopDisconnects, ClosedFor
<1>8. CASE Restart
      BY <1>8 DEF Restart
<1>9. CASE UNCHANGED vars
      BY <1>9 DEF vars, stationVars, stopVars, handlerVars, StopDisconnects, ClosedFor
<1>10. ASSUME NEW o \in Owners, CloseAudio(o) \/ CloseEvents(o) PROVE Goal
       BY <1>3, <1>10 DEF CloseAudio, CloseEvents
<1> QED
    BY <1>1, <1>2, <1>4, <1>5, <1>6, <1>7, <1>8, <1>9, <1>10 DEF Next, StopStep, HandlerStep

(* A station leaves the registry by an Unregister, which counts, or by a    *)
(* restart, which leaves no handler.                                        *)
LEMMA WasStoppedStep == Base /\ WasStopped /\ [Next]_vars => WasStopped'
<1> SUFFICES ASSUME Base, WasStopped, [Next]_vars, NEW h \in Handlers, at'[h] # "away"
             PROVE  on'[h] \in Stations /\ (on'[h] = registered' \/ stops'[on'[h]] > 0)
    BY DEF WasStopped, Handlers
<1> USE DEF Base, TypeOK, FreshInRegistry, WasStopped, Stations, None
<1>1. ASSUME NEW o \in Owners, Register(o)
      PROVE on'[h] \in Stations /\ (on'[h] = registered' \/ stops'[on'[h]] > 0)
      <2>1. /\ UNCHANGED <<at, on, stops>>
            /\ registered = None \/ registered' = registered
            BY <1>1 DEF Register, IsNew, stationVars, stopVars, handlerVars
      <2> QED BY <2>1
<1>2. ASSUME NEW o \in Owners, Unregister(o)
      PROVE on'[h] \in Stations /\ (on'[h] = registered' \/ stops'[on'[h]] > 0)
      BY <1>2 DEF Unregister, handlerVars
<1>3. ASSUME NEW o \in Owners, StopStep(o)
      PROVE on'[h] \in Stations /\ (on'[h] = registered' \/ stops'[on'[h]] > 0)
      BY <1>3 DEF StopStep, Cancel, CloseAudio, CloseEvents, stationVars, handlerVars
<1>4. ASSUME NEW st \in Stations, PlayerEnds(st)
      PROVE on'[h] \in Stations /\ (on'[h] = registered' \/ stops'[on'[h]] > 0)
      BY <1>4 DEF PlayerEnds, stopVars, handlerVars
<1>5. ASSUME NEW g \in Handlers, Find(g)
      PROVE on'[h] \in Stations /\ (on'[h] = registered' \/ stops'[on'[h]] > 0)
      BY <1>5 DEF Find, stationVars, stopVars
<1>6. ASSUME NEW g \in Handlers, Subscribe(g)
      PROVE on'[h] \in Stations /\ (on'[h] = registered' \/ stops'[on'[h]] > 0)
      BY <1>6 DEF Subscribe, stationVars, stopVars
<1>7. ASSUME NEW g \in Handlers, SeesClosed(g) \/ ClientGone(g)
      PROVE on'[h] \in Stations /\ (on'[h] = registered' \/ stops'[on'[h]] > 0)
      BY <1>7 DEF SeesClosed, ClientGone, Leave, stationVars, stopVars
<1>8. CASE Restart
      BY <1>8 DEF Restart
<1>9. CASE UNCHANGED vars
      BY <1>9 DEF vars, stationVars, stopVars, handlerVars
<1> QED
    BY <1>1, <1>2, <1>3, <1>4, <1>5, <1>6, <1>7, <1>8, <1>9 DEF Next, HandlerStep

LEMMA InvStep == Inv /\ [Next]_vars => Inv'
  BY BaseStep, StoppedOnceStep, NoOrphanStep, DisconnectsStep, WasStoppedStep DEF Inv

LEMMA Invariance == Spec => []Inv
  BY InitInv, InvStep, PTL DEF Spec

(* Every variable keeps to its range: whatever stations come and go, a Stop *)
(* under way has a station and a handler the one it found.                  *)
THEOREM TypeCorrect == Spec => []TypeOK
  BY Invariance, PTL DEF Inv, Base

(* No player is left behind: one that plays on for a station that is not in *)
(* the registry is about to be told to stop.                                *)
THEOREM NoPlayerIsLeft == Spec => []NoOrphanPlayer
  BY Invariance, PTL DEF Inv

(* Station.Stop is called once for a station. *)
THEOREM StopIsCalledOnce == Spec => []StoppedOnce
  BY Invariance, PTL DEF Inv

(* Only a handler that subscribed after CloseAll is still subscribed to a   *)
(* station after it.                                                        *)
THEOREM StopLeavesNobody == Spec => []StopDisconnects
  BY Invariance, PTL DEF Inv

(* The stops that CloseAll of h's side is still ahead of. *)
BeforeCloseAll(h) == IF h \in Listeners THEN {"cancel", "audio"} ELSE {"cancel", "audio", "events"}

(* Whoever listens to or watches a station that is not in the registry any  *)
(* more, and was there in time, has its channel closed, or a Stop is on its *)
(* way to closing it.                                                       *)
ToBeDisconnected ==
    \A h \in Handlers : at[h] = "open" /\ on[h] # registered /\ h \notin tooLate =>
        \/ h \in closed
        \/ \E o \in Owners : stopping[o] = on[h] /\ stopAt[o] \in BeforeCloseAll(h)

LEMMA NobodyWaitsInVain == Inv => ToBeDisconnected
<1> SUFFICES ASSUME Inv, NEW h \in Handlers, at[h] = "open", on[h] # registered,
                    h \notin tooLate, h \notin closed
             PROVE  \E o \in Owners : stopping[o] = on[h] /\ stopAt[o] \in BeforeCloseAll(h)
    BY DEF ToBeDisconnected
<1>1. h \in subscribed /\ ~ClosedFor(h, on[h])
      BY DEF Inv, StopDisconnects
<1>2. stops[on[h]] > 0
      BY DEF Inv, WasStopped
<1> QED BY <1>1, <1>2 DEF ClosedFor, BeforeCloseAll

(* Nobody is forgotten: what Station.Stop (station.go:381-395) leaves to    *)
(* CloseAll of the broadcaster and of the event bus is done, or being done, *)
(* for everyone who was there before, whichever calls and restarts come in  *)
(* between.                                                                 *)
THEOREM NobodyIsForgotten == Spec => []ToBeDisconnected
  BY Invariance, NobodyWaitsInVain, PTL

-----------------------------------------------------------------------------
(* The controller.                                                          *)

LEMMA ControllerStepIsServerStep == [ControllerNext]_controllerVars => [Next]_vars
<1> SUFFICES ASSUME [ControllerNext]_controllerVars, ~UNCHANGED vars PROVE Next
    OBVIOUS
<1> USE ControllerAssumption DEF Handlers
<1>1. CASE Registers \/ Unregisters
      BY <1>1 DEF Registers, Unregisters, Next
<1>2. CASE Opened \/ Reregisters
      BY <1>2 DEF Opened, Reregisters, Next
<1>3. CASE ServerStep \/ ConnectionLost \/ ServerRestarts
      BY <1>3 DEF ServerStep, ConnectionLost, ServerRestarts, Next
<1>4. CASE ScriptCalls \/ RegisterRaises \/ ReregisterRefused
      BY <1>4 DEF ScriptCalls, CallRegister, CallUnregister, RegisterRaises, ReregisterRefused
<1>5. CASE \/ SetRegisterInfo \/ UnregisterRaises \/ Answered \/ SetUnregistered
           \/ TakeSignal \/ OnRegister
      BY <1>5 DEF SetRegisterInfo, UnregisterRaises, Answered, SetUnregistered, TakeSignal, OnRegister
<1>6. CASE StartLoop \/ OpenStream \/ NotFound \/ RecvFails \/ Check \/ Signal
      BY <1>6 DEF StartLoop, OpenStream, NotFound, RecvFails, Check, Signal
<1> QED
    BY <1>1, <1>2, <1>3, <1>4, <1>5, <1>6
    DEF ControllerNext, MainStep, LoopStep, controllerVars

(* A controller does to the server what callers and watchers may do, no     *)
(* more (engine.go and api.go): its two goroutines are two owners and its   *)
(* event stream is a watcher.                                               *)
THEOREM ImplementsLifecycle == ControllerSpec => Spec
<1>1. ControllerInit => Init
      BY DEF ControllerInit
<1> QED BY <1>1, ControllerStepIsServerStep, PTL DEF ControllerSpec, Spec

(* So all that is proved of the server holds of a server with a controller. *)
THEOREM ServerStaysSafe ==
    ControllerSpec => [](NoOrphanPlayer /\ StoppedOnce /\ StopDisconnects /\ ToBeDisconnected)
<1>1. Inv => NoOrphanPlayer /\ StoppedOnce /\ StopDisconnects /\ ToBeDisconnected
      BY NobodyWaitsInVain DEF Inv
<1> QED BY <1>1, Invariance, ImplementsLifecycle, PTL

(* Where the two goroutines may be, and what they know: a Stop runs while   *)
(* the script waits for the answer to its unregister, and the loop makes    *)
(* stations for a script that is registered.                                *)
ControllerTyped ==
    /\ main \in {"idle", "register", "note", "unregister", "answer", "forget", "callback"}
    /\ known \in {"never", "yes", "unregistered"}
    /\ loop \in {"none", "subscribe", "opening", "stream", "check", "register",
                 "signal", "refused", "done"}
    /\ calls \in 0..MaxCalls /\ signals \in 0..SignalCap
    /\ byLoop \subseteq 1..made /\ primed \subseteq Stations
    /\ known # "yes" => byLoop = {}
    /\ stopAt[Main] # "idle" => main = "answer"
    /\ \A o \in Owners \ {Main} : stopAt[o] = "idle"

LEMMA ControllerTypedStep ==
    Base /\ ControllerTyped /\ [ControllerNext]_controllerVars => ControllerTyped'
<1> SUFFICES ASSUME Base, ControllerTyped, [ControllerNext]_controllerVars PROVE ControllerTyped'
    OBVIOUS
<1> USE ControllerAssumption, LifecycleAssumption
    DEF Base, TypeOK, ControllerTyped, Stations, None, SignalCap
<1>1. CASE ScriptCalls \/ RegisterRaises \/ ReregisterRefused
      <2>1. UNCHANGED <<made, stopAt, known, primed, signals, byLoop>>
            BY <1>1 DEF ScriptCalls, CallRegister, CallUnregister, RegisterRaises,
               ReregisterRefused, vars, stationVars, stopVars, handlerVars, mainVars, loopVars
      <2>2. /\ main # "answer" \/ main' = main
            /\ main' \in {main, "register", "unregister", "idle"} /\ loop' \in {loop, "refused"}
            BY <1>1 DEF ScriptCalls, CallRegister, CallUnregister, RegisterRaises,
               ReregisterRefused, mainVars, loopVars
      <2>3. calls' \in 0..MaxCalls
            BY <1>1 DEF ScriptCalls, CallRegister, CallUnregister, RegisterRaises,
               ReregisterRefused, mainVars
      <2> QED BY <2>1, <2>2, <2>3
<1>2. CASE Registers
      <2>1. made' \in {made, made + 1} /\ UNCHANGED <<stopAt, known, calls, primed, loop, signals, byLoop>>
            BY <1>2 DEF Registers, Register, stationVars, stopVars, loopVars
      <2>2. main' \in {"register", "note"} /\ stopAt[Main] = "idle"
            BY <1>2 DEF Registers, Register
      <2> QED BY <2>1, <2>2
<1>3. CASE Unregisters
      BY <1>3 DEF Unregisters, Unregister, handlerVars, loopVars
<1>4. CASE SetRegisterInfo \/ UnregisterRaises \/ Answered
      BY <1>4 DEF SetRegisterInfo, UnregisterRaises, Answered,
         vars, stationVars, stopVars, handlerVars, loopVars
<1>5. CASE SetUnregistered
      BY <1>5 DEF SetUnregistered, vars, stationVars, stopVars, handlerVars
<1>6. CASE TakeSignal \/ OnRegister
      <2>1. /\ UNCHANGED <<made, stopAt, known, calls, loop, byLoop>>
            /\ main # "answer" /\ main' \in {"idle", "callback"}
            BY <1>6 DEF TakeSignal, OnRegister, vars, stationVars, stopVars, handlerVars, mainVars, loopVars
      <2>2. signals' \in 0..SignalCap
            BY <1>6 DEF TakeSignal, OnRegister, loopVars
      <2>3. primed' \subseteq Stations
            BY <1>6 DEF TakeSignal, OnRegister
      <2> QED BY <2>1, <2>2, <2>3
<1>7. CASE StartLoop \/ OpenStream \/ NotFound \/ RecvFails \/ Check \/ Signal
      <2>1. UNCHANGED <<made, stopAt, main, known, calls, primed, byLoop>>
            BY <1>7 DEF StartLoop, OpenStream, NotFound, RecvFails, Check, Signal,
               vars, stationVars, stopVars, handlerVars, mainVars, loopVars
      <2>2. loop' \in {"subscribe", "opening", "check", "done", "register"}
            BY <1>7 DEF StartLoop, OpenStream, NotFound, RecvFails, Check, Signal
      <2>3. signals' \in 0..SignalCap
            BY <1>7 DEF StartLoop, OpenStream, NotFound, RecvFails, Check, Signal, Send
      <2> QED BY <2>1, <2>2, <2>3
<1>8. CASE Opened
      BY <1>8 DEF Opened, Find, stationVars, stopVars, mainVars
<1>9. CASE Reregisters
      <2>1. /\ made' \in {made, made + 1} /\ UNCHANGED <<stopAt, main, known, calls, primed, signals>>
            /\ loop' \in {"register", "signal"}
            BY <1>9 DEF Reregisters, Register, stationVars, stopVars, mainVars
      <2>2. byLoop' \subseteq 1..made' /\ (known # "yes" => byLoop' = byLoop)
            BY <1>9, <2>1 DEF Reregisters, Makes
      <2> QED BY <2>1, <2>2
<1>10. CASE ServerStep
       <2>1. UNCHANGED <<made, main, known, calls, primed, loop, signals, byLoop>>
             BY <1>10 DEF ServerStep, StopStep, HandlerStep, Cancel, CloseAudio, CloseEvents,
                PlayerEnds, Subscribe, SeesClosed, Leave, stationVars, mainVars, loopVars
       <2>2. (stopAt'[Main] # "idle" => stopAt[Main] # "idle") /\ \A o \in Owners \ {Main} : stopAt'[o] = stopAt[o]
             BY <1>10 DEF ServerStep, StopStep, HandlerStep, Cancel, CloseAudio, CloseEvents,
                PlayerEnds, Subscribe, SeesClosed, Leave, stopVars
       <2> QED BY <2>1, <2>2
<1>11. CASE ConnectionLost
       BY <1>11 DEF ConnectionLost, ClientGone, Leave, stationVars, stopVars, mainVars, loopVars
<1>12. CASE ServerRestarts
       BY <1>12 DEF ServerRestarts, Restart, loopVars
<1>13. CASE UNCHANGED controllerVars
       BY <1>13 DEF controllerVars, vars, stationVars, stopVars, mainVars, loopVars
<1> QED
    BY <1>1, <1>2, <1>3, <1>4, <1>5, <1>6, <1>7, <1>8, <1>9, <1>10, <1>11, <1>12, <1>13
    DEF ControllerNext, MainStep, LoopStep

(* The loop has one stream, which its client side has not given up.         *)
OneStream == at[Stream] # "away" => loop = "stream"

LEMMA OneStreamStep ==
    Base /\ OneStream /\ [ControllerNext]_controllerVars => OneStream'
<1> SUFFICES ASSUME Base, OneStream, [ControllerNext]_controllerVars, at'[Stream] # "away"
             PROVE  loop' = "stream"
    BY DEF OneStream
<1> USE ControllerAssumption DEF Base, TypeOK, OneStream, Handlers
<1>1. CASE UNCHANGED at
      <2>1. loop = "stream"
            BY <1>1
      <2>2. ~RecvFails
            BY <1>1 DEF RecvFails, StreamOver
      <2> QED BY <2>1, <2>2
              DEF ControllerNext, ScriptCalls, CallRegister, CallUnregister, MainStep, Registers,
                  SetRegisterInfo, Unregisters, UnregisterRaises, Answered, SetUnregistered,
                  TakeSignal, OnRegister, RegisterRaises, LoopStep, StartLoop, OpenStream, Opened,
                  NotFound, Check, Reregisters, Signal, ReregisterRefused, ServerStep,
                  ConnectionLost, ServerRestarts, controllerVars, loopVars
<1>2. CASE Opened
      BY <1>2 DEF Opened
<1>3. CASE ServerStep
      <2>1. at[Stream] # "away" /\ loop' = loop
            BY <1>3 DEF ServerStep, StopStep, HandlerStep, Cancel, CloseAudio, CloseEvents,
               PlayerEnds, Subscribe, SeesClosed, Leave, handlerVars, loopVars
      <2> QED BY <2>1
<1>4. CASE ConnectionLost
      BY <1>4 DEF ConnectionLost, ClientGone, Leave
<1>5. CASE ServerRestarts
      BY <1>5 DEF ServerRestarts, Restart
<1>6. CASE ~(Opened \/ ServerStep \/ ConnectionLost \/ ServerRestarts)
      <2>1. UNCHANGED at
            BY <1>6 DEF ControllerNext, ScriptCalls, CallRegister, CallUnregister, MainStep,
               Registers, Register, SetRegisterInfo, Unregisters, Unregister, UnregisterRaises,
               Answered, SetUnregistered, TakeSignal, OnRegister, RegisterRaises, LoopStep,
               StartLoop, OpenStream, NotFound, RecvFails, Check, Reregisters, Signal,
               ReregisterRefused, controllerVars, vars, handlerVars
      <2> QED BY <2>1, <1>1
<1> QED BY <1>2, <1>3, <1>4, <1>5, <1>6

(* A station the loop has made, and which is the script's and there, has    *)
(* the script's tracks, or on_register runs, or a signal says that it       *)
(* should, or the loop has yet to send one.                                 *)
PrimingIsUnderWay ==
    \A st \in byLoop : registered = st /\ known = "yes" =>
        \/ st \in primed \/ signals > 0 \/ main = "callback"
        \/ loop \in {"register", "signal", "refused"}

LEMMA PrimingStep ==
    Base /\ ControllerTyped /\ PrimingIsUnderWay /\ [ControllerNext]_controllerVars
        => PrimingIsUnderWay'
<1> SUFFICES ASSUME Base, ControllerTyped, PrimingIsUnderWay, [ControllerNext]_controllerVars,
                    NEW st \in byLoop', registered' = st, known' = "yes"
             PROVE  \/ st \in primed' \/ signals' > 0 \/ main' = "callback"
                    \/ loop' \in {"register", "signal", "refused"}
    BY DEF PrimingIsUnderWay
<1> DEFINE Goal == \/ st \in primed' \/ signals' > 0 \/ main' = "callback"
                   \/ loop' \in {"register", "signal", "refused"}
<1> USE DEF Base, TypeOK, ControllerTyped, Stations, None, SignalCap
<1>1. ASSUME st \in byLoop, registered = st, known = "yes" PROVE Goal
      <2>1. \/ st \in primed \/ signals > 0 \/ main = "callback"
            \/ loop \in {"register", "signal", "refused"}
            BY <1>1 DEF PrimingIsUnderWay
      <2>2. primed \subseteq primed'
            BY DEF ControllerNext, ScriptCalls, CallRegister, CallUnregister, MainStep, Registers,
               SetRegisterInfo, Unregisters, UnregisterRaises, Answered, SetUnregistered,
               TakeSignal, OnRegister, RegisterRaises, LoopStep, StartLoop, OpenStream, Opened,
               NotFound, RecvFails, Check, Reregisters, Signal, ReregisterRefused, ServerStep,
               ConnectionLost, ServerRestarts, controllerVars, mainVars
      <2>3. CASE signals > 0
            <3>1. signals' > 0 \/ main' = "callback"
                  BY <2>3 DEF ControllerNext, ScriptCalls, CallRegister, CallUnregister, MainStep,
                     Registers, SetRegisterInfo, Unregisters, UnregisterRaises, Answered,
                     SetUnregistered, TakeSignal, OnRegister, RegisterRaises, LoopStep, StartLoop,
                     OpenStream, Opened, NotFound, RecvFails, Check, Reregisters, Signal, Send,
                     ReregisterRefused, ServerStep, ConnectionLost, ServerRestarts,
                     controllerVars, loopVars
            <3> QED BY <3>1
      <2>4. CASE main = "callback"
            <3>1. main' = main \/ OnRegister
                  BY <2>4 DEF ControllerNext, ScriptCalls, CallRegister, CallUnregister, MainStep,
                     Registers, SetRegisterInfo, Unregisters, UnregisterRaises, Answered,
                     SetUnregistered, TakeSignal, RegisterRaises, LoopStep, StartLoop, OpenStream,
                     Opened, NotFound, RecvFails, Check, Reregisters, Signal, ReregisterRefused,
                     ServerStep, ConnectionLost, ServerRestarts, controllerVars, mainVars
            <3>2. ASSUME OnRegister PROVE st \in primed'
                  BY <1>1, <3>2 DEF OnRegister
            <3> QED BY <2>4, <3>1, <3>2
      <2>5. CASE loop \in {"register", "signal", "refused"}
            <3>1. loop' = loop \/ loop' \in {"signal", "refused"} \/ Signal
                  BY <2>5 DEF ControllerNext, ScriptCalls, CallRegister, CallUnregister, MainStep,
                     Registers, SetRegisterInfo, Unregisters, UnregisterRaises, Answered,
                     SetUnregistered, TakeSignal, OnRegister, RegisterRaises, LoopStep, StartLoop,
                     OpenStream, Opened, NotFound, RecvFails, Check, Reregisters,
                     ReregisterRefused, ServerStep, ConnectionLost, ServerRestarts,
                     controllerVars, loopVars
            <3>2. ASSUME Signal PROVE signals' > 0
                  BY <3>2 DEF Signal, Send
            <3> QED BY <2>5, <3>1, <3>2
      <2> QED BY <2>1, <2>2, <2>3, <2>4, <2>5
<1>2. CASE Reregisters
      BY <1>2 DEF Reregisters
<1>3. CASE ~Reregisters
      <2>1. byLoop' \subseteq byLoop
            BY <1>3 DEF ControllerNext, ScriptCalls, CallRegister, CallUnregister, MainStep,
               Registers, SetRegisterInfo, Unregisters, UnregisterRaises, Answered,
               SetUnregistered, TakeSignal, OnRegister, RegisterRaises, LoopStep, StartLoop,
               OpenStream, Opened, NotFound, RecvFails, Check, Signal, ReregisterRefused,
               ServerStep, ConnectionLost, ServerRestarts, controllerVars, loopVars
      <2>2. known = "yes"
            BY <2>1
      <2>3. registered = st
            <3>1. st \in 1..made
                  BY <2>1
            <3>2. UNCHANGED registered \/ registered' = None \/ registered' = made + 1
                  BY <1>3, ControllerStepIsServerStep
                  DEF Next, Register, Unregister, TakeOut, StopStep, HandlerStep, Cancel, CloseAudio,
                      CloseEvents, PlayerEnds, Find, Subscribe, SeesClosed, ClientGone, Leave,
                      Restart, vars, stationVars
            <3> QED BY <3>1, <3>2
      <2> QED BY <1>1, <2>1, <2>2, <2>3
<1> QED BY <1>2, <1>3

ControllerInv == Inv /\ ControllerTyped /\ OneStream /\ PrimingIsUnderWay

LEMMA ControllerInitInv == ControllerInit => ControllerInv
<1> SUFFICES ASSUME ControllerInit PROVE ControllerInv
    OBVIOUS
<1>1. Inv
      BY InitInv DEF ControllerInit
<1>2. ControllerTyped
      BY ControllerAssumption, LifecycleAssumption
      DEF ControllerInit, Init, ControllerTyped, SignalCap, Stations
<1>3. OneStream /\ PrimingIsUnderWay
      BY ControllerAssumption DEF ControllerInit, Init, OneStream, PrimingIsUnderWay, Handlers
<1> QED BY <1>1, <1>2, <1>3 DEF ControllerInv

LEMMA ControllerInvariance == ControllerSpec => []ControllerInv
<1>1. ControllerInv /\ [ControllerNext]_controllerVars => ControllerInv'
      BY InvStep, ControllerStepIsServerStep, ControllerTypedStep, OneStreamStep, PrimingStep
      DEF ControllerInv, Inv
<1> QED BY <1>1, ControllerInitInv, PTL DEF ControllerSpec

(* A signal that is dropped, an answer that is lost and a callback that is  *)
(* busy cost no station its tracks (engine.go:145-162 and 380-393): as long *)
(* as the station is there and not primed, on_register is still to run.     *)
THEOREM SignalsSuffice == ControllerSpec => []PrimingIsUnderWay
  BY ControllerInvariance, PTL DEF ControllerInv

(* The loop has a stream only while it reads from it, and the stream is of  *)
(* the station in the registry, or about to end: its channel is closed, or  *)
(* the Stop that closes it is the one the script's unregister waits for.    *)
StreamFollows ==
    /\ at[Stream] # "away" => loop = "stream"
    /\ at[Stream] = "open" /\ on[Stream] # registered /\ Stream \notin tooLate =>
          Stream \in closed \/ (stopping[Main] = on[Stream] /\ main = "answer")

(* Whatever stations come and go while the event loop is elsewhere, it does *)
(* not wait for the events of one that is gone (engine.go:345-373), unless  *)
(* it subscribed after CloseAll.                                            *)
THEOREM LoopFollowsTheStation == ControllerSpec => []StreamFollows
<1>1. ControllerInv => StreamFollows
  <2> SUFFICES ASSUME ControllerInv, at[Stream] = "open", on[Stream] # registered,
                      Stream \notin tooLate, Stream \notin closed
               PROVE  stopping[Main] = on[Stream] /\ main = "answer"
      BY DEF ControllerInv, OneStream, StreamFollows
  <2>1. PICK o \in Owners : stopping[o] = on[Stream] /\ stopAt[o] \in BeforeCloseAll(Stream)
        BY NobodyWaitsInVain, ControllerAssumption DEF ControllerInv, ToBeDisconnected, Handlers
  <2>2. stopAt[o] # "idle"
        BY <2>1 DEF BeforeCloseAll
  <2> QED BY <2>1, <2>2 DEF ControllerInv, ControllerTyped
<1> QED BY <1>1, ControllerInvariance, PTL
=============================================================================
