---------------------------- MODULE ControlPlane ----------------------------
(***************************************************************************)
(* The calls that control stations and look at them: the functions of a    *)
(* script's radio table (internal/luastation/api.go), the RPC handlers of  *)
(* the audio server (internal/grpcapi/server.go) behind its interceptor,   *)
(* and GET .../now-playing (internal/httpapi).  A handler checks the token *)
(* (module Access), looks the station up, and then works on the station it *)
(* found, whatever the registry says by then; a snapshot is read piece by  *)
(* piece.  A caller that gives up after its timeout goes on, and so does   *)
(* the handler.                                                            *)
(*                                                                         *)
(* A station moves as StationMoves says, which Player implements.          *)
(* The track of a QueueTrack call has the number of the call.              *)
(***************************************************************************)
EXTENDS StationMoves, Access, FiniteSets

CONSTANTS
    Script, Viewers,  \* the callers: the controller, and dashboards
    Slugs, Own,       \* the station names, and the script's
    TokenChoices,     \* the tokens that callers may have: functions on Callers
    ViewerOps,        \* what dashboards ask for (a bound)
    Folders, Files,   \* what is below audio_root: paths
    Locations,        \* the paths callers ask for, as they write them
    MaxCalls,         \* how many calls are ever made (a bound)
    MaxLate,          \* how many handlers nobody waits for run at once (a bound)
    MaxStations       \* how many stations are ever registered (a bound)

ASSUME ControlPlaneAssumption ==
    /\ Script \notin Viewers /\ Own \in Slugs
    /\ {MaxCalls, MaxLate} \subseteq Nat /\ MaxStations \in Nat \ {0}
    /\ Tracks = 1..MaxCalls

(* Paths are lists of names; whatever is below audio_root is in folders.   *)
ASSUME PathsAssumption ==
    /\ Folders \union Files \subseteq Seq(STRING)
    /\ <<>> \in Folders /\ Folders \intersect Files = {}
    /\ \A p \in Folders \union Files : \A k \in 0..(Len(p) - 1) : SubSeq(p, 1, k) \in Folders
    /\ \A tokens \in TokenChoices, c \in {Script} \union Viewers :
          tokens[c].dirs \subseteq Seq(STRING)

Callers  == {Script} \union Viewers
Stations == 1..MaxStations
CallIds  == 1..MaxCalls

Writes == {"RegisterStation", "UnregisterStation", "QueueTrack", "RemoveFromQueue",
           "ClearQueue", "Skip", "SkipTo", "Pause", "Resume", "Seek", "SeekBy"}
Reads  == {"GetStatus", "ListStations", "ListDirectory", "GetServerInfo"}
Pages  == {"NowPlaying", "PublicNowPlaying"}

ASSUME ViewerOpsAssumption == ViewerOps \subseteq Writes \union Reads \union Pages

VARIABLES
    registered,  \* registered[slug]: Registry.stations, a station or Nothing
    made,        \* the stations made so far, by their slug
    stations,    \* stations[n]: the state of station n
    stopped,     \* the stations whose player was told to stop
    token,       \* token[c]: the claims of caller c
    calls,       \* the calls made so far, with where their handlers are
    waits,       \* waits[c]: the call c waits for, or Nothing
    known,       \* Engine.registeredSlug is set
    listing,     \* listing[c]: the directory listing c looks at
    shown,       \* shown[c]: the last snapshot of a station c got
    toldGone     \* history variable: the tracks a caller was told are removed

serverVars == <<registered, made, stations, stopped>>
clientVars == <<waits, known, listing, shown, toldGone>>
vars == <<serverVars, token, calls, clientVars>>

NoPart == [current |-> Nothing, queue |-> <<>>, history |-> <<>>]
Here   == [absolute |-> FALSE, path |-> <<>>]
Url    == [http |-> TRUE]  \* a source that is not a LOCAL_FILE
Finished == [at |-> "done"]
NoList == [path |-> <<>>, entries |-> {}, got |-> "nothing"]

(* The script has registered its station.                                  *)
Init ==
    /\ made = <<Own>>
    /\ registered = [s \in Slugs |-> IF s = Own THEN 1 ELSE Nothing]
    /\ known = TRUE
    /\ stations = [n \in Stations |-> EmptyStation]
    /\ stopped = {}
    /\ token \in TokenChoices
    /\ calls = <<>>
    /\ waits = [c \in Callers |-> Nothing]
    /\ listing = [c \in Callers |-> NoList]
    /\ shown = [c \in Callers |-> NoPart]
    /\ toldGone = {}

-----------------------------------------------------------------------------
(* Making a call.                                                          *)

CallWith(claims, c, op, slug, track, mode, source) ==
    /\ waits[c] = Nothing /\ Len(calls) < MaxCalls
    /\ calls' = Append(calls, [by |-> c, op |-> op, slug |-> slug, track |-> track,
                               mode |-> mode, source |-> source, claims |-> claims,
                               at |-> "arrived", on |-> Nothing, seen |-> NoPart])
    /\ waits' = [waits EXCEPT ![c] = Len(calls) + 1]
    /\ listing' = [listing EXCEPT ![c] = NoList]
    /\ UNCHANGED <<serverVars, token, known, shown, toldGone>>

Call(c, op, slug, track, mode, source) ==
    CallWith(token[c], c, op, slug, track, mode, source)

Simple(c, op, slug) == Call(c, op, slug, Nothing, "Append", Here)

(* The functions of the radio table: all but four raise unless registered. *)
Radio(op) == known /\ Simple(Script, op, Own)

luaRegister == Simple(Script, "RegisterStation", Own)

luaUnregister == Radio("UnregisterStation")

(* PLAY_NOW_INTERRUPT pushes like PLAY_NEXT and interrupts, which only     *)
(* makes the player move on; any other word is APPEND.                     *)
ParseQueueMode(word) ==
    IF word \in {"PLAY_NEXT", "PLAY_NOW_INTERRUPT", "INTERRUPT"} THEN "PlayNext" ELSE "Append"

luaQueue ==
    \E word \in {"APPEND", "PLAY_NOW_INTERRUPT"}, source \in Locations \union {Url} :
        known /\ Call(Script, "QueueTrack", Own, Nothing, ParseQueueMode(word), source)

luaDequeue ==
    \E t \in 1..Len(calls) : known /\ Call(Script, "RemoveFromQueue", Own, t, "Append", Here)

luaClearQueue == Radio("ClearQueue")

luaSkip == Radio("Skip")

luaSkipTo ==
    \E t \in 1..Len(calls) : known /\ Call(Script, "SkipTo", Own, t, "Append", Here)

luaPause == Radio("Pause")

luaResume == Radio("Resume")

luaSeek == Radio("Seek")

luaSeekBy == Radio("SeekBy")

luaStatus == Radio("GetStatus")

luaListStations == Simple(Script, "ListStations", Own)

luaListDirectory ==
    \E source \in Locations : Call(Script, "ListDirectory", Own, Nothing, "Append", source)

luaServerInfo == Simple(Script, "GetServerInfo", Own)

(* The controller's own control API asks with the script's token.          *)
controlStatusHandler(c) ==
    known /\ CallWith(token[Script], c, "GetStatus", Own, Nothing, "Append", Here)

(* A dashboard speaks to the server itself, about any station.             *)
ViewerCalls(c) ==
    \/ controlStatusHandler(c)
    \/ \E op \in ViewerOps, slug \in Slugs : Simple(c, op, slug)

-----------------------------------------------------------------------------
(* Its end: the answer reaches a caller that still waits.                  *)

Waiting(k) == waits[calls[k].by] = k

Done(k) ==
    /\ calls' = [calls EXCEPT ![k] = Finished]
    /\ waits' = IF Waiting(k) THEN [waits EXCEPT ![calls[k].by] = Nothing] ELSE waits

(* The call failed, or what it answered leaves nothing to remember.        *)
Answer(k) == Done(k) /\ UNCHANGED <<known, listing, shown, toldGone>>

Late == {k \in DOMAIN calls : calls[k].at # "done" /\ ~Waiting(k)}

(* Ten seconds have passed, or the answer is lost: the caller gets an      *)
(* error, and nobody stops the handler.                                    *)
GiveUp(c) ==
    /\ waits[c] # Nothing /\ Cardinality(Late) < MaxLate
    /\ waits' = [waits EXCEPT ![c] = Nothing]
    /\ UNCHANGED <<serverVars, token, calls, known, listing, shown, toldGone>>

-----------------------------------------------------------------------------
(* The checks at the head of the handlers.                                 *)

(* Only a local file is subject to the token's directories.                *)
MayQueue(claims, source) ==
    source # Url => ~Escapes(source) /\ HasDir(claims, SafeRelPath(source))

(* A wrong variant: a read-only token may still skip.                      *)
PermittedToSkip(k) ==
    LET c == calls[k] IN
    /\ RequireSlug(c.claims, c.slug)
    /\ c.op \in Writes \ {"SkipTo", "ClearQueue"} => RequireWrite(c.claims)
    /\ c.op = "QueueTrack" => MayQueue(c.claims, c.source)

Permitted(k) ==
    LET c == calls[k] IN
    /\ RequireSlug(c.claims, c.slug)
    /\ c.op \in Writes => RequireWrite(c.claims)
    /\ c.op = "QueueTrack" => MayQueue(c.claims, c.source)

Arrived(k, ops) == calls[k].at = "arrived" /\ calls[k].op \in ops

Refuse(k) ==
    /\ \/ Arrived(k, Writes \union {"GetStatus"}) /\ ~Permitted(k)
       \/ Arrived(k, Reads) /\ ~Authenticated(calls[k].claims)
    /\ Answer(k)
    /\ UNCHANGED <<serverVars, token>>

(* registry.Get finds nothing: an error, or a status that says so.         *)
NotRegistered(k) ==
    /\ Arrived(k, (Writes \ {"RegisterStation"}) \union {"GetStatus"}) /\ Permitted(k)
    /\ registered[calls[k].slug] = Nothing
    /\ Answer(k)
    /\ UNCHANGED <<serverVars, token>>

LookedUp(k, at) ==
    /\ registered[calls[k].slug] # Nothing
    /\ calls' = [calls EXCEPT ![k].at = at, ![k].on = registered[calls[k].slug]]
    /\ UNCHANGED <<serverVars, token, clientVars>>

Admit(k) ==
    /\ Arrived(k, Writes \ {"RegisterStation", "UnregisterStation"}) /\ Permitted(k)
    /\ LookedUp(k, "operate")

(* A script that is told yes remembers the slug.                           *)
RegisterStation(k) ==
    /\ Arrived(k, {"RegisterStation"}) /\ Permitted(k)
    /\ IF registered[calls[k].slug] # Nothing THEN UNCHANGED <<registered, made>>
       ELSE /\ Len(made) < MaxStations
            /\ made' = Append(made, calls[k].slug)
            /\ registered' = [registered EXCEPT ![calls[k].slug] = Len(made')]
    /\ known' = (known \/ (Waiting(k) /\ calls[k].by = Script))
    /\ Done(k)
    /\ UNCHANGED <<stations, stopped, token, listing, shown, toldGone>>

UnregisterStation(k) ==
    /\ Arrived(k, {"UnregisterStation"}) /\ Permitted(k)
    /\ LET n == registered[calls[k].slug] IN
       /\ n # Nothing
       /\ registered' = [registered EXCEPT ![calls[k].slug] = Nothing]
       /\ calls' = [calls EXCEPT ![k].at = "stop", ![k].on = n]
    /\ UNCHANGED <<made, stations, stopped, token, clientVars>>

StopPlayer(k) ==
    /\ calls[k].at = "stop"
    /\ stopped' = stopped \union {calls[k].on}
    /\ known' = (known /\ ~(Waiting(k) /\ calls[k].by = Script))
    /\ Done(k)
    /\ UNCHANGED <<registered, made, stations, token, listing, shown, toldGone>>

-----------------------------------------------------------------------------
(* The calls that change a station.                                        *)

Target(k) == calls[k].on

Operates(k, op) == calls[k].at = "operate" /\ calls[k].op = op /\ Target(k) # Nothing

Becomes(k, s) ==
    /\ stations' = [stations EXCEPT ![Target(k)] = s]
    /\ UNCHANGED <<registered, made, stopped, token>>

(* The caller learns that these tracks are gone.                           *)
TellGone(k, gone) ==
    /\ toldGone' = IF Waiting(k) THEN toldGone \union gone ELSE toldGone
    /\ Done(k)
    /\ UNCHANGED <<known, listing, shown>>

QueueTrack(k) ==
    /\ Operates(k, "QueueTrack")
    /\ Becomes(k, Queued(stations[Target(k)], k, calls[k].mode))
    /\ Answer(k)

Pending(n) == {t \in Tracks : Contains(stations[n].queue, t)}

(* A wrong variant: says yes to every track the station has had.           *)
RemovedAny(n, t) == {t} \intersect stations[n].accepted

Removed(n, t) == {t} \intersect Pending(n)

RemoveFromQueue(k) ==
    /\ Operates(k, "RemoveFromQueue")
    /\ Becomes(k, TakenOut(stations[Target(k)], calls[k].track))
    /\ TellGone(k, Removed(Target(k), calls[k].track))

ClearQueue(k) ==
    /\ Operates(k, "ClearQueue")
    /\ Becomes(k, Emptied(stations[Target(k)]))
    /\ TellGone(k, Pending(Target(k)))

(* What is ahead is dropped; the caller gets their number, or an error.    *)
SkipToTrack(k) ==
    /\ Operates(k, "SkipTo")
    /\ LET s == SkippedTo(stations[Target(k)], calls[k].track) IN
       /\ Becomes(k, s)
       /\ TellGone(k, Pending(Target(k)) \ {t \in Tracks : Contains(s.queue, t)})

(* Skip, Pause, Resume, Seek and SeekBy: what they do to the item on air   *)
(* is in Station and Player.                                               *)
SteerCurrent(k) ==
    /\ \E op \in {"Skip", "Pause", "Resume", "Seek", "SeekBy"} : Operates(k, op)
    /\ Answer(k)
    /\ UNCHANGED <<serverVars, token>>

-----------------------------------------------------------------------------
(* The calls that look.                                                    *)

(* A wrong variant: of a snapshot, the queue is read first.                *)
FirstPartQueue == "queue"

FirstPart == "current"

GetStatus(k) == Arrived(k, {"GetStatus"}) /\ Permitted(k) /\ LookedUp(k, FirstPart)

(* Public, unless there is a token: then it must be good for the station.  *)
MayShow(k) ==
    calls[k].op = "NowPlaying" => RequireSlug(calls[k].claims, calls[k].slug)

NowPlaying(k) == Arrived(k, Pages) /\ MayShow(k) /\ LookedUp(k, FirstPart)

NowPlayingRefused(k) ==
    /\ Arrived(k, Pages)
    /\ registered[calls[k].slug] = Nothing \/ ~MayShow(k)
    /\ Answer(k)
    /\ UNCHANGED <<serverVars, token>>

See(k, part, value, next) ==
    /\ calls' = [calls EXCEPT ![k].seen[part] = value, ![k].at = next]
    /\ UNCHANGED <<serverVars, token, clientVars>>

ReadCurrent(k) ==
    /\ calls[k].at = "current"
    /\ See(k, "current", CurrentOf(stations[calls[k].on]),
           IF FirstPart = "current" THEN "queue" ELSE "history")

ReadQueue(k) ==
    /\ calls[k].at = "queue"
    /\ See(k, "queue", stations[calls[k].on].queue,
           IF FirstPart = "queue" THEN "current" ELSE "history")

(* The last part, which now-playing keeps from the public.                 *)
ReadHistory(k) ==
    /\ calls[k].at = "history"
    /\ LET c == calls[k]
           history == IF c.op = "PublicNowPlaying" THEN <<>> ELSE stations[c.on].history
       IN  shown' = IF Waiting(k)
                    THEN [shown EXCEPT ![c.by] = [c.seen EXCEPT !.history = history]]
                    ELSE shown
    /\ Done(k)
    /\ UNCHANGED <<serverVars, token, known, listing, toldGone>>

(* ListStations shows what the token covers, GetServerInfo a version.      *)
LookAround(k) ==
    /\ Arrived(k, {"ListStations", "GetServerInfo"}) /\ Authenticated(calls[k].claims)
    /\ Answer(k)
    /\ UNCHANGED <<serverVars, token>>

Children(dir) == {p \in Folders \union Files : ProperPrefix(dir, p) /\ Len(p) = Len(dir) + 1}

(* A wrong variant: shows only the directories the token may queue from.   *)
EntriesAllowed(claims, dir) == {p \in Children(dir) : HasDir(claims, p)}

Entries(claims, dir) ==
    {p \in Children(dir) : IF p \in Folders THEN CanBrowse(claims, p) ELSE HasDir(claims, p)}

Listed(claims, dir) ==
    IF CanBrowse(claims, dir)
    THEN [path |-> dir, entries |-> Entries(claims, dir), got |-> "entries"]
    ELSE [path |-> dir, entries |-> {}, got |-> "refused"]

ListDirectory(k) ==
    /\ Arrived(k, {"ListDirectory"}) /\ Authenticated(calls[k].claims)
    /\ LET c == calls[k]
           dir == SafeRelPath(c.source)
       IN  listing' = IF Waiting(k) /\ ~Escapes(c.source) /\ dir \in Folders
                      THEN [listing EXCEPT ![c.by] = Listed(c.claims, dir)] ELSE listing
    /\ Done(k)
    /\ UNCHANGED <<serverVars, token, known, shown, toldGone>>

-----------------------------------------------------------------------------
(* A player that was stopped gives back the item it has and ends (a pop    *)
(* that was under way is taken to come before the stop).                   *)
PlayerStep(n) ==
    /\ n \in 1..Len(made)
    /\ n \in stopped => stations[n].stage # "free"
    /\ \E s \in PlayerMoves(stations[n]) : stations' = [stations EXCEPT ![n] = s]
    /\ UNCHANGED <<registered, made, stopped, token, calls, clientVars>>

ScriptCalls ==
    \/ luaRegister \/ luaUnregister \/ luaQueue \/ luaDequeue \/ luaClearQueue
    \/ luaSkip \/ luaSkipTo \/ luaPause \/ luaResume \/ luaSeek \/ luaSeekBy
    \/ luaStatus \/ luaListStations \/ luaListDirectory \/ luaServerInfo

HandlerStep(k) ==
    \/ Refuse(k) \/ NotRegistered(k) \/ Admit(k)
    \/ RegisterStation(k) \/ UnregisterStation(k) \/ StopPlayer(k)
    \/ QueueTrack(k) \/ RemoveFromQueue(k) \/ ClearQueue(k) \/ SkipToTrack(k)
    \/ SteerCurrent(k)
    \/ GetStatus(k) \/ NowPlaying(k) \/ NowPlayingRefused(k)
    \/ ReadCurrent(k) \/ ReadQueue(k) \/ ReadHistory(k)
    \/ LookAround(k) \/ ListDirectory(k)

ControlNext ==
    \/ ScriptCalls
    \/ \E c \in Viewers : ViewerCalls(c)
    \/ \E c \in Callers : GiveUp(c)
    \/ \E k \in DOMAIN calls : HandlerStep(k)
    \/ \E n \in Stations : PlayerStep(n)

Spec == Init /\ [][ControlNext]_vars

-----------------------------------------------------------------------------
(* A station changes, other than by its player, only at the hands of a     *)
(* call that found it registered and whose token has its slug and may      *)
(* write, however late the call comes: nothing leaks to a station made     *)
(* under the same slug after the call looked (server.go:76-383; the RPCs  *)
(* RequireWrite lists, interceptor.go:102-119; "a later radio.register()    *)
(* call starts a fresh station", luastation/api.go:145).                   *)
OnlyAuthorizedChange ==
    [][\A n \in Stations :
          stations'[n] \in {stations[n]} \union PlayerMoves(stations[n])
          \/ \E k \in DOMAIN calls :
                 /\ calls[k].at = "operate" /\ calls[k].on = n
                 /\ made[n] \in calls[k].claims.slugs
                 /\ calls[k].claims.valid /\ ~calls[k].claims.readOnly]_vars

(* A track that RemoveFromQueue, ClearQueue or SkipTo told somebody is     *)
(* gone never plays, whatever the player was doing when the call came      *)
(* (server.go:224-317).                                                    *)
AnswersHold ==
    \A n \in Stations, t \in toldGone :
        /\ ~Contains(stations[n].queue, t) /\ stations[n].hand # t
        /\ ~Contains(stations[n].history, t)

Place(snapshot, t) ==
    IF Contains(snapshot.history, t) THEN 3
    ELSE IF snapshot.current = t THEN 2
    ELSE IF Contains(snapshot.queue, t) THEN 1 ELSE 0

(* Though a snapshot is read piece by piece while the player goes on, it   *)
(* never shows the track on air as still to come, and from one snapshot to *)
(* the next of the same caller no track goes back (GetStatus,              *)
(* server.go:385-421; buildNowPlaying, nowplaying.go:119-158).             *)
SnapshotsAdvance ==
    [][\A c \in Callers : shown'[c] # shown[c] =>
          /\ ~Contains(shown'[c].queue, shown'[c].current)
          /\ \A t \in Tracks :
                Place(shown'[c], t) = 0 \/ Place(shown[c], t) <= Place(shown'[c], t)]_vars

Plain(claims) == \A d \in claims.dirs : d = <<Star>> \/ \A k \in DOMAIN d : d[k] # Star

(* Browsing leads to everything the token may queue: a listing has an      *)
(* entry on the way to each such file below it, and a directory that is    *)
(* refused has none (ListDirectory, server.go:473-528; "so a browsing      *)
(* client can navigate down into an allowed subdirectory", jwt.go:128).    *)
(* Only for claims without patterns.                                       *)
BrowsingReaches ==
    \A c \in Callers, f \in Files :
        LET l == listing[c] IN
        (/\ l.got # "nothing" /\ Plain(token[c])
         /\ HasDir(token[c], f) /\ ProperPrefix(l.path, f))
           => \E e \in l.entries : e = f \/ ProperPrefix(e, f)
=============================================================================
