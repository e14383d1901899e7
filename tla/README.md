# A verification of goradio

goradio is an audio server with remote station controllers. The server keeps
one playback engine per registered station; a controller runs a Lua script that
registers a station and keeps its queue filled over gRPC; listeners fetch one
endless MP3 stream per station over HTTP. This directory holds TLA+ models of
the parts whose correctness depends on the order of steps of several
goroutines, the TLC instances that check them and TLAPS proofs about them.

Run from this directory: `tlc -workers 2 -config X.cfg M` for a run of
`PROJECT.json`, `tlapm M.tla` for a proof module.

## The system

| Component | State | Operations | Who touches it |
|---|---|---|---|
| Queue (`playback/queue.go`) | pending items under `q.mu`; per item a `ready` channel and the fields it publishes | Append, PushFront, PopFront, Remove, SkipTo, Clear; MarkReady, MarkFailed, MarkLive | RPC handlers, player, prefetch workers |
| Station controls (`playback/station.go`) | `current`, `isSilence` (atomics); paused, position, pendingSeek, skipRequested (`playCtrlMu`); streamCancel; runCancel; history; wasQueueLow | Interrupt, Pause, Resume, SeekPosition, SeekBy, SetCurrent, Stop, QueueChanged, RecordHistory | RPC handlers, player |
| Player (`playback/player.go`) | the item in hand, byte offset, wasSilent | Run, playLocalItem, streamFile, streamLiveRelay | one goroutine per station |
| Broadcaster (`playback/broadcaster.go`) | listeners with a bounded channel and a drop count | Subscribe, unsubscribe, Write, CloseAll | HTTP handlers, player, Stop |
| Event bus (`playback/events.go`) | subscribers with a bounded channel | Subscribe, unsubscribe, Publish, CloseAll | SubscribeEvents handlers, everyone who publishes |
| Registry (`registry/registry.go`) | slug to station | Register, Unregister, Get, List | RPC and HTTP handlers |
| Prefetch pool and cache (`transcode/`, `audiosource/`, `fetch/`) | bounded job channel, workers, singleflight group, files on disk, live-URL cache | Prefetch, process, GetOrTranscode, Resolve | QueueTrack, workers |
| gRPC control plane (`grpcapi/server.go`, `auth/`) | none of its own | one handler per RPC, each behind RequireSlug/RequireWrite | controllers |
| HTTP surface (`httpapi/`) | none of its own | stream, stations, now-playing | listeners |
| Controller (`luastation/engine.go`, `api.go`, `*module.go`) | registration info, timers, event loop | radio.* functions, dispatch, reconnect, timers | one main goroutine and an event goroutine per script |
| Wiring (`cli/`, `config/`, `cmd/radio`, `silence/`) | configuration | start and shut down | the process |

How they interact: an RPC handler looks a station up in the registry, changes
its queue or its controls under the mutex of each, and may cancel the clip in
flight; the player polls the queue between chunks, pops items, waits for the
pool to close their `ready` channel, and streams through the broadcaster; all
of them publish to the event bus; the controller answers QUEUE_LOW and
TRACK_ENDED by queueing more.

What is hard about it is that no lock spans two of these parts. A handler's
`Current()`, the `playCtrlMu` section, the read of `streamCancel` and the call
of what was read are four separate steps, and the player may be at any of its
own between them. `PROJECT.json` lists the hazards line by line.

## Plan

In order of importance:

1. **Player with Station and PlayQueue** (done): the queue, the controls and the
   player goroutine with every RPC interleaved at every step.
2. **Broadcaster** (done): the fan-out to listeners with its two ways of taking
   one out, and the handlers that must notice.
3. **TranscodePool** against **PrefetchContract** (done): job channel at its
   limit, workers, singleflight, the files each step leaves; the contract is
   what Station's `Mark` assumes.
4. **Lifecycle** (done): registry, Stop and the event bus with their
   subscribers: does everything that belongs to a station end with it?
5. **Controller** on **Lifecycle** (done): registration, unregistration and the
   reconnect loop against a server that may restart.
6. **QueueEvents** (done): QueueChanged's read, publish and swap by several
   callers, the buffers an event may be dropped from, and the script that refills
   the queue on what arrives.
7. **ScriptLoop** (done): the goroutine that owns the Lua state, its timers, the
   calls its callbacks wait for, and a request list and a subscription in redis.
8. **ControlPlane** with **Access**, on **StationMoves** (done): every RPC and
   radio.* function with its token, its lookup, its answer and its timeout.
   **StationContract** is the abstract station that Player implements and
   ControlPlane relies on.
9. **Position**, not done: the truncating clock arithmetic of Pause and SeekBy
   against the bytes really sent. It needs a model of time that Player leaves out.

Every safety property that a run checks is a theorem now, and so is every
refinement between modules as far as it is safety. What else is worth proving: the
safety cores of ResumeLeavesHold, NoStarvation, PlayerGoesOn and ComesBack, each
as a rank that no step of another actor raises (see *Proofs* for those there are),
and that ControlPlane's registry makes the moves of Lifecycle's.

## The modules

**PlayQueue** has the queue's operators. Every method of `Queue` holds `q.mu`
throughout, so each is one operator.

**Station** has the state RPC handlers share with the player and one action per
critical section of a handler. `rpc[c]` is where handler `c` stands between its
sections. `ctrl` is the three fields under `playCtrlMu`. `streamCancel` is the
state of the context that the registered cancel func belongs to, or "nil";
`aimed` is the set of handlers that have read that func and not called it yet: a
handler calls what it read even if the clip has gone, and then nothing happens
because contexts are never reused. `prefetch[i]` is what the pool has published
of an item. `Mark` is the pool's one step the player can see. The item a call
accepts gets the next number, so the order of numbers is the order of calls.

**Player** has the goroutine. `pc` names its next step; `clip` names the stream
call it is in: idle silence, silence while waiting for prefetch, the item's
file, silence of a hold, a relay. A file has `FileChunks` chunks, and `offset`,
`sent` and a sought position count them. Steps that touch nothing another
goroutine reads are merged with the next one that does: opening the file with
the first look at the context, the pacing sleep with the poll after it, EOF with
the return. What stays separate is every read of shared state: `skip?`,
`seek?`, `paused?` and `hold?` are the four looks playLocalItem takes after an
interrupted stream, and `SetCurrent`'s atomic store and its locked reset are two
steps on the way in (`SetCurrent`, `StartTrack`) and out (`ClearAir`,
`Cleanup`).

History variables, read by properties only: `outcome` (how an item left),
`touched` (an RPC or a file error acted on the item on air), `skipFor` (what was
on air when Interrupt ran), `ahead` (which mode queued it), `air` (what the
events so far say), `heard` (the chunk listeners should get next). The
definitions whose comments call them a wrong variant (`PushFrontAtBack`,
`CheckStopWithoutQueue`, ...) are not used: each is a plausible mistake in the
definition below it, and the property it would break is named in
`PROJECT.json`.

**Broadcaster** has the listeners of one station. `Subscribe`, `Unsubscribe`,
`Write` and `CloseAll` hold `Broadcaster.mu` throughout and are one step each;
the count callback each ends with runs after the unlock, so that the actor
*owes* a count (`owes`) until `Report` publishes it. The handler in
`httpapi/stream.go` is at its select, in `w.Write` or on its way out (`pc`);
`SeesHangUp`, `Receive` and `SeesClosed` are the select's cases, of which any
that is ready may be taken. A chunk is the number of its Write, which is enough
to see what a listener misses. A handler that has left is forgotten
(`Collect`): nothing refers to its channel any more. `got`, `reported` and
`overlapped` are history variables.

**PrefetchContract** is what the rest of the server assumes of the pool: an item
is pending once queued, then ready, failed or live, for good. It is what
Station's `prefetch` and `Mark` do. **TranscodePool** is the pool that keeps it.
`at[w]` is where worker `w` is in `process`, with the calls it makes inlined:
the resolver's (`resolve`, `open`, `download`), GetOrTranscode's look at the
cache (`stat`), the singleflight group (`join`, `wait`, `leave`), the second
look under it (`recheck`), ffmpeg (`encode`, `rename`), and the marking and the
deferred removal at the end. `flight[s]` is the call the group has in progress
for a key: followers take the leader's verdict when it leaves. `cached` and
`tmp` are the two files of a key and outlive `Restart`, which stops every worker
at whatever step it is; `downloads` are the files a URL's items have on the
disk. A failure is a choice of the step that can fail.

One thing the model shows that is not an error: `resolve.go:146-149` says that
the cache dedupes repeat downloads of a URL, but resolveHTTP downloads before
anything looks at the cache, so it dedupes the encode only.

**Lifecycle** has one slug of the registry and the stations registered under it
one after the other. `Register` and `Unregister` hold the registry's lock and
are one step each, the first with the player it starts. `Station.Stop` runs
after that lock is given up, in three steps (`Cancel`, `CloseAudio`,
`CloseEvents`), so that the slug may be registered again before the old
station's listeners are disconnected. `on[h]` is the station a stream or
SubscribeEvents handler found; it subscribes in a later step, to that station's
broadcaster or event bus whatever the registry says by then. `tooLate`, a history
variable, has the handlers that did so after CloseAll. `Restart` kills the
server, whose registry is in memory only. Two RPCs of one owner follow each
other; the owners stand for callers that do not wait for one another.

**Controller** is a script's process against that server: it extends Lifecycle,
with its two goroutines among the owners and its event stream among the watchers,
and its steps take the server's with them. `main` is the
goroutine that owns the Lua state: it calls radio.register and radio.unregister,
and runs on_register when the loop has signalled. `loop` is subscribeEventsLoop:
it reads the slug (`OpenStream`), opens the stream (`Opened`, or `NotFound`),
waits for its end (`RecvFails`), looks at the unregistered flag (`Check`),
registers again (`Reregisters`) and signals (`Signal`). `known` is
`registeredSlug` and `unregistered`, which the code sets together under
`registerMu`. A call is sent, executed by the server and answered in separate
steps, so that its answer may be lost: registering is then tried again,
unregistering raises an error. A server that cannot be reached is a step not
taken yet. `byLoop` and `primed` are history variables.

**QueueEvents** has the way of a QUEUE_LOW event from the queue to the script
and back. Of the queue it keeps the length. `step[p]` is where publisher `p`
(the player or a handler) is in QueueChanged, which takes no lock: the length it
read (`seen`), the threshold it loaded (`limit`) and the swap of `wasQueueLow`
are separate steps. `Publish` puts an event into `bus`, the subscriber's
channel, or drops it; `Forward` carries it to `out`; `Dispatch` gives it to the
script, whose on_queue_low queues tracks while radio.status says that the queue
is low. `ConnectionBreaks` loses what is under way; `Reregister` and `Subscribe`
are the loop's steps after that, with the signal that runs on_register.
`overlap`, `clean` and `unheard` are history variables: who raced with whom,
whether the last swap raced with nothing, and whether the script has no reason
to know that the queue is low.

**ScriptLoop** has Engine.Run's select and what its cases run. `main` is what
the goroutine does: the select, runDueTimers, a callback, or one of the calls a
callback waits for. runDueTimers ranges over the list it began with (`todo`),
builds the rest (`kept`), and puts it in place of `Engine.timers` at the end.
`due` is what the clock has reached. The modules for redis, SQL and HTTP are
alike to the loop: a call with a timeout of its own, which ends in a value or in
nil and an error. `lpop` is the one whose effect matters: `Pop` takes the
request off the list, the answer may be lost, and the client library sends the
command again. `sub`, `held` and `msgs` are the goroutine of redisSubscribe, what
it holds and its channel to the loop. `inbox` is the channel of go-redis
(`pubsub.Channel()`), which is bounded: a message waits for room in it for a minute
at most, then the library drops it (`DropMessage`), a minute being a step that may
come whenever the channel is full. A message published while the library has no
connection reaches nobody and is not counted. `fired`, `orphans`, `lost` and
`dropped` are history variables.

**Access** has what a token allows, and SafeRelPath. Paths are sequences of
names. `Matches` is what `filepath.Match` does with a segment `*`; patterns
inside a segment are left out.

**StationMoves** has a station as a record (queue, item in hand, where that item
is, history) and the moves such a record can make, as operators, so that
ControlPlane can use them for several stations. **StationContract** is the
specification of one station that makes these moves and no others.
`Player!KeepsStationContract` is that Player implements it, with the queue, the
item and the history read off Player's own variables.

**ControlPlane** has callers, calls and handlers. A caller begins a call, the
interceptor verifies the token, the handler checks slug and writing, looks the
station up and works on the station it found; its answer reaches the caller if
that one still waits, and the handler of a caller that gave up runs on as one of
`MaxLate`. `ListDirectory` and `QueueTrack` of a local file read the same path with
SafeRelPath; a URL (`Url`) may be queued by any token that may write.
A snapshot (GetStatus, now-playing) is read in as many steps as the code takes,
with the station moving between them.

**MCPlayer**, **MCBroadcaster**, **MCTranscodePool**, **MCLifecycle**,
**MCController**, **MCQueueEvents**, **MCScriptLoop** and **MCControlPlane** give
the instances their handlers, listeners, items, workers, owners, tokens, paths
and bounds. **PlayQueueProofs**, **PlayerProofs**, **BroadcasterProofs**,
**PoolProofs**, **LifecycleProofs** (Lifecycle's and Controller's),
**QueueEventsProofs**, **ScriptLoopProofs** and **ControlPlaneProofs** hold the
proofs.

## What the runs check

| Run | Checks | Result |
|---|---|---|
| `player_safety` | QueueOrder, ItemConservation, UntouchedTrackCompletes, HeardInOrder, EventsMatchAir, KeepsStationContract | holds |
| `player_liveness` | SkipEndsItem, ResumeLeavesHold, NoStarvation, StopEndsRun | holds |
| `skip_hits_later_item` | SkipEndsOnlyItsItem | violated |
| `plays_unready_item` | PlaysOnlyReady | violated |
| `broadcaster` | ChannelClosedOnce, GapsBounded, CountReported, EvictedOnlyWhenStuck, DisconnectedHandlersEnd | holds |
| `transcode_pool` | ReadyIsComplete, OneEncoder, EncodedOnce, DownloadsInHand, KeepsContract | holds |
| `lifecycle` | NoOrphanPlayer, StoppedOnce, StopDisconnects, UnregisteredEnds, DisconnectedLeave | holds |
| `controller` | ComesBack, RestartIsPrimed, HearsItsStation | holds |
| `unregister_undone` | UnregisterSticks | violated |
| `queue_events` | LowTracked, RefillKeepsUp, PlayerGoesOn | holds |
| `script_loop` | TimersKept, RequestsInOrder, MessagesInOrder, RequestsServed, ShutsDown | holds |
| `control_plane` | AnswersHold, BrowsingReaches, OnlyAuthorizedChange, SnapshotsAdvance | holds |

What holds: whatever the interleaving of up to two handlers with the player,
items are played in the order asked for, each ends in exactly one way, the
chunks listeners hear are those of the file in order from the last sought
position, no cancel func reaches a later clip, and TRACK_* and SILENCE_* events
bracket what is on air. Skips, resumes, queued items and stops take effect. Seen
from outside, the station makes the moves of StationContract and no others: an
item goes from the queue to the player, on air, off air and to the history.

A listener's channel is closed once whichever of Write, CloseAll and its own
handler takes it out, and no sooner than it has missed `maxConsecutiveDrops`
chunks in a row; one that stays never misses that many. The published count is
right once callbacks that did not overlap are done. Every queued item is marked
exactly once, by a pool that encodes each source once, never twice at a time,
and never takes what a crash left for a finished file. However a slug is
registered and unregistered, one player at most plays on for it, every station
is stopped once, its player ends, and every listener and watcher that was there
before is disconnected. One that had found the station and subscribes after
CloseAll is not: the two disconnection properties except it, and in the model,
as in the code, it stays until its client gives up.

A controller whose event loop lives gets its station back after a restart, runs
on_register for every station the loop made, whatever answers were lost and
signals dropped, and hears the events of the station that is registered. The
exceptions written into these properties are what the code does: after
unregister() the loop has ended for good, so that a later register() has no
events and no reconnection; an error that is not retryable ends it silently; and
a stream that subscribed after CloseAll is never ended.

Once every queue change has been followed by its swap, and the last one raced with
nothing, `wasQueueLow` says whether the queue is low, so that the next dip is
announced. A script that refills on QUEUE_LOW and on_register then gets its queue
above the threshold. The exceptions are named in the property: changes that raced,
a QUEUE_LOW dropped at a full buffer or before the loop subscribed, a station that
was never seen otherwise than low, and a callback that hangs. The player gets
through QueueChanged whatever becomes of the script.

Within a script, a `radio.every` timer runs for ever and a `radio.after` timer
once; requests taken from a redis list are queued in the order they were pushed
and never twice, and one is lost only with the answer of a call or a failed one;
pub/sub messages are heard in the order they were published, none twice, and of
those that reached the library only those are missing that it dropped because the
script kept its channel full too long: the goroutine and redisMsgCh behind it lose
none. The list is worked off, and Run returns once its context is cancelled.

At the control plane, a station changes only at the hands of a call that found it
registered and whose token has its slug and may write, however late that call
comes, and nothing leaks to the station that was made under the slug in the
meantime. A track a caller was told is gone never plays. A snapshot read piece by
piece never shows the track on air as still to come, and from one to the next no
track goes back. Browsing leads to every file the token may queue.

What does not hold, each a run whose counterexample is a short sequence of calls:

* `skipRequested` is never cleared except by playLocalItem after an interrupted
  stream. PLAY_NOW on a silent station sets it with no clip on air; when the player
  has started the new item before the handler comes to cancelCurrentStream, the
  handler cancels that item's clip, and the item it was to play ends as skipped.
  (A longer way to the same end, not the one the run shows: the handler finds no
  clip, the flag stays set, and the first pause or seek of the item ends it.)
* Interrupt cuts the wait for prefetch, and the player takes an unready item.
* unregister() sets its flag after the server has answered, and the server ends
  the event stream before it answers: the loop can register the station again.

Of the code's behaviour, and excepted by the properties above rather than shown
by a run of their own:

* A seek and a pause consumed together lose the pause (`player.go:148`): the
  track plays on while the station says it is paused. A pause that finds no
  registered clip does the same.
* A pause undone before the player looked at it ends the track (`player.go:152`).
* A client that keeps its connection open and stops reading holds its handler in
  `w.Write` (`stream.go:64`): closing its channel does not end the response.
  DisconnectedHandlersEnd holds under ReadingSpec only.
* A timer made by a timer's callback is dropped when runDueTimers puts its list in
  place of `Engine.timers` (`engine.go:419-435`).
  `docs/content/lua-api/events-and-scheduling.md` promises that such timers run;
  TimersKept excepts them.

## Bounds

* `MaxItems = 2`: an item in hand and one behind it, which is what the hazards
  need (a signal for one item reaching the other, an order of two).
* `MaxCalls = 3`: an item and two calls that act on it, or two items and one
  call, which is what every hazard of the list takes. All six safety properties of
  the run are proved for any number of calls and items.
* `Clients`: 2 handlers in the passing runs, so that two RPCs can be between
  their sections at once; 1 where one is enough to violate the property.
* `FileChunks = 2` (a start, a middle and an end), 1 in the liveness run.
* `SeekArgs`: below and above the file for `Clamp` in the safety run, 0 elsewhere.
* `HistoryMax`: 1 evicts on the second track, 2 does not.
* `FileErrors`: TRUE in the liveness run only; `UntouchedTrackCompletes` counts a
  file error as touching the track.

* `BufferSize = 1`, `MaxDrops = 2`, `MaxChunks = 4`: a buffer that is empty, full
  and overrun; one drop that is forgiven and two that are not; and a write after
  that. Two listeners, so that one can be evicted while the other keeps up.
* The pool: two workers and a file and a URL, so that both paths run and the two
  can meet on one source; three items with `JobsCap = 1`, so that the channel is
  full and one source is queued twice and again later; one failure and one
  restart, each anywhere. All its safety properties are proved without these
  bounds.
* The lifecycle: three stations, so that two can be stopped at once while a third
  is in the registry; two owners, one listener and one watcher, whose handlers
  differ in the CloseAll they wait for; one restart. Its safety properties are
  proved without these bounds.

* The controller: three calls of the script, which are register, unregister and
  register again; one restart; as many stations as these can need
  (`EnoughStations`), so that the bound never stops a registration. The
  violation needs two calls and no restart. What is safe about the three properties
  of the run is proved without these bounds.

* QueueEvents: the player and one handler, which is also the script's, so that two
  publishers race; a queue of two with thresholds 0 (none) and 1; one item
  leaves the queue during a callback, because a track takes longer than a call;
  one break of the connection or change of the threshold; buffers of one event,
  so that they fill. LowTracked is proved without these bounds, and so is
  LowIsNoticed as long as a refill has room in the queue (`RoomToRefill`, which the
  instance is checked to satisfy; the code's queue has no limit).
* ScriptLoop: two timers (the poll timer and one that is there from the start or
  made by a callback), two requests, so that one can overtake or follow the other,
  and one lost answer or failed call; channels of one message (the code's hold 32
  and go-redis's 100) and three messages, so that both channels and the goroutine's
  hand are full, or one message is dropped and a later one is heard. Its safety
  properties are proved without these bounds.
* ControlPlane: three calls by a script and a dashboard, which are the queueing of a
  track, a call that takes it out and one that looks, or unregister, register and
  a late call; one handler that nobody waits for; two stations made under one slug;
  four pairs of tokens (scoped, read-only, foreign, expired) and four paths (the
  root, a detour, the folder beside, out of the root); a history of one item. What
  it leaves out are two slugs at once: no handler reads more than one. All four
  properties of the run are proved without these bounds, for any number of slugs.

The handlers are interchangeable, so the safety run uses their symmetry; the
liveness run does not.

## Fairness

`FairSpec` assumes weak fairness of the player's own steps and of the RPCs
already begun (the Go scheduler runs every runnable goroutine, and no step holds
a lock another waits on for long), and of the prefetch pool (every job of
`internal/transcode` ends: the download and the encode have timeouts). No RPC
need ever be called, no file need ever fail, and a relay may go on forever:
`NoStarvation` therefore excepts held and relayed items.

Broadcaster's `FairSpec` is weak fairness of what handlers and callbacks can do
by themselves; it says nothing of clients, and `DisconnectedHandlersEnd` fails
under it. `ReadingSpec` adds that a client that stays connected goes on reading.
No client need hang up, and the player need not write.

TranscodePool's `FairSpec` is weak fairness of each worker: the download has a
client timeout, ffmpeg a context with a deadline, and a worker that waits in the
group waits for another worker. It does not say which outcome a step has.

Lifecycle's `FairSpec` is weak fairness of a Stop already begun, of the player,
which looks at its context between chunks, and of a handler whose client reads.
No owner need call, no client need leave and the server need not restart.

Controller's `FairSpec` is weak fairness of each goroutine going on to its next
step and of the server's own steps: a call that is retried until the server
answers is answered at some time, and the script's top level and its callbacks
end. Breaking connections, restarts, refusals and the script's calls are free.

QueueEvents' `FairSpec` is weak fairness of every publisher, of the connection and of
the script's steps. Go's select takes a ready case at random, so that an event that
stays there does not keep on_register from ever running; hence strong fairness of
`OnRegister`, and of `Refill`, which waits for a handler that others may use in
between. Nothing need be played, queued or broken.

ScriptLoop's `FairSpec` says that the poll timer's time comes, that the select takes
a tick and the end of its context some time (strong fairness, as above), that
callbacks return and call `lpop` when they are the poll timer's, and that each call
returns: `lpop` and `radio.queue` have a timeout. No request need come.

ControlPlane has safety properties only.

## Proofs

All theorems hold for any number of items, RPCs, handlers, chunks and history
entries, timers, requests and messages, from the assumption each module names for
its constants (`StationAssumption`, `PlayerAssumption`, ...).

* `PlayerProofs!TypeCorrect`: `Spec => []TypeOK`. TypeOK is not inductive: the
  item a step reads (`prefetch[item]`, `outcome[item]`) must exist. The invariant
  `Typed` adds `Holding`: the player has an item exactly at the steps that need
  one.
* `PlayerProofs!QueueKeepsOrder` and `ItemsConserved`: `Spec => []QueueOrder`
  and `Spec => []ItemConservation`. The two are inductive together (`Placed`),
  beside Typed: order rules out that an item is pending twice, so that a removal or
  a pop leaves none behind; conservation says that the next id is not pending yet,
  so that a push keeps the order. `PlayQueueProofs` has the lemmas about the
  queue operators: everything but a push thins the queue, and thinning keeps
  order.
* `PlayerProofs!UntouchedPlaysToItsEnd`: UntouchedTrackCompletes. The
  invariant (`Traced`) follows a cancel func: between two streams nobody has one
  to call, and one that was read or called while a track is current has touched
  it (`CancelsTouch`); a track nobody touched has its file (`HasFile`, which needs
  that an item once marked stays so); and the player looks for the reason of an
  interruption only when there was one (`HasReason`).
* `PlayerProofs!EventsSayWhatIsOnAir` and `NothingIsLostInAHold`: EventsMatchAir and
  HeardInOrder. The events follow `wasSilent` and the step the player is at
  (`AirFollows`); what a stream sends next is its offset plus what it has sent, at
  every step from one look to the next (`InPlace`).
* `PlayerProofs!ImplementsStationContract`: Player implements StationContract, with
  the queue, the item, where it is, the history and the accepted ids of
  `Player!View` for the contract's record. The view changes part by part
  (`ViewParts`), and each step of the player or of a handler is shown to be one
  move or a stutter (`ViewSteps`). A step is a move only where the state is one that
  can be reached: the invariant is `Viewed`, which is Typed, Placed and Traced with
  `InHand` (the item on air is the one in hand).
* `PlayerProofs!SkipSticks` and `StopWindsDown` are what SkipEndsItem and StopEndsRun
  say besides fairness. A skip that has reached the clip of an item (`SkipHit`) stays
  so until the player takes the item off air (`Leaving`), that until the item has
  its outcome, and that for good: no pause, resume, seek or stop takes a step back.
  Once the context is cancelled, `StepsLeft`, at most ten, falls with each step of
  Run and is raised by nobody.

* `BroadcasterProofs`: TypeOK, ChannelClosedOnce, GapsBounded, CountReported and
  EvictedOnlyWhenStuck, for any number of listeners, buffer size and limit, from
  `BroadcasterAssumption`. ChannelClosedOnce needs that a listener not yet
  subscribed has an unclosed channel and one that has left is out of the map
  (`Closing`). GapsBounded needs what the code's drop counter means: for a
  listener in the map it is the number of chunks written since the newest one
  in its channel (`Counted`), and every gap already in the channel is at most
  `MaxDrops` (`Narrow`). The eviction property is an action property from the
  same invariant. `DisconnectedDrain` is what DisconnectedHandlersEnd says besides
  fairness: a listener that is out of the map stays out, every step of its handler
  lowers a rank made of its step and of what its buffer holds, and at the end the
  channel is closed. With FairSpec the only step that may never come is the
  client's (`ClientTakes`), which is why the property needs ReadingSpec.
* `PoolProofs`: TypeOK, OneEncoder, ReadyIsComplete, EncodedOnce,
  DownloadsInHand, and that the pool implements the safety part of
  PrefetchContract, from `PoolAssumption`. Three inductive invariants build on
  each other's types. `Typed`: a worker at work has a queued item. `Sound`: the
  worker past the group's lock is the one the group knows (`LeadersFly`), so
  that a leader that found no file still finds none when it renames, and a
  verdict is as good as the file it stands for (`WholeFiles`). `Owned`: an item
  is in one place, the channel or one worker, and is pending until that worker
  marks it (`InOnePlace`); this is why no item is marked twice. That each is marked
  once is liveness, and two theorems are what it says besides fairness.
  `PendingIsUnderWay`: a pending item is in the channel or with a worker
  (`PendingIsHeld`), and a worker that waits in the group waits for one that is
  encoding its source (`FlightsAreLed`, `WaitersAreLed`: the converse of
  LeadersFly), so that no wait is circular. `WorkersGoForward`: no step takes a
  worker back in process.

* `LifecycleProofs`: TypeOK, NoOrphanPlayer, StoppedOnce and StopDisconnects, from
  `LifecycleAssumption`. The invariant adds that a Stop under way has a station
  (`HasStation`), that only a handler that subscribed has a channel in the map or
  a closed one (`OpenOnly`), that the station in the registry was not stopped
  (`FreshInRegistry`), which is why none is stopped twice, and that a handler whose
  station is not in the registry has one that was (`WasStopped`). From it follows
  `NobodyIsForgotten`: whoever was there in time and has a station that is gone has
  its channel closed or a Stop ahead that closes it, which is what DisconnectedLeave
  and HearsItsStation say besides fairness.
* `LifecycleProofs!ImplementsLifecycle`: a script's process takes Lifecycle's steps and
  no others, so that Lifecycle's theorems hold of the server it talks to
  (`ServerStaysSafe`), from `ControllerAssumption`. `SignalsSuffice` is what
  RestartIsPrimed says besides fairness: a station the loop made either has the
  script's tracks, or on_register runs or is signalled, or the loop has yet to
  signal (`PrimingIsUnderWay`), although a signal is dropped while one is pending.
  `LoopFollowsTheStation`: a stream to a station that is not in the registry, unless
  it subscribed after CloseAll, is closed or the script's own unregister is under
  way (`StreamFollows`).

* `QueueEventsProofs`: TypeOK and LowTracked, from `QueueEventsAssumption`. Of two
  publishers between change and swap each is marked (`RacersAreMarked`), so that one
  without a mark is alone, and what it has read and loaded still holds
  (`ReadsHold`). `NoLowIsLost` is what RefillKeepsUp says besides fairness, with its
  exceptions: while the queue is low a publisher has yet to swap, or word of it is
  being published, in a buffer, implied by a broken connection or by a signal, or
  the script is at it (`WordIsOut`). It needs `RoomToRefill` (see *Bounds*): in a
  model whose queue is full below its threshold the script could not refill.
* `ScriptLoopProofs`: TypeOK, TimersKept, RequestsInOrder and MessagesInOrder, from
  `ScriptLoopAssumption`, each with an invariant of its own. Timers and requests are
  numbered as they come. Every list of them rises, what runDueTimers has kept is
  below the timer that runs and that one below what is left (`Sorted`), so that none
  is there twice; queued requests are below the one in hand and that one below the
  list (`InLine`), and there is one in hand exactly at the steps that need one
  (`HandHeld`). What is on the way to the script is one rising sequence, cut in
  four: a hand-over moves a cut and not the sequence (`SameOnTheWay`), and a message
  that arrives is above all that arrived before it, dropped or not. `PollStaysScheduled`: the timer
  that takes the requests is always among the scheduled ones, though others made
  while timers run are lost; with RequestsInOrder it is what RequestsServed says
  besides fairness.

* `ControlPlaneProofs`: the types, OnlyAuthorizedChange, AnswersHold, SnapshotsAdvance
  and BrowsingReaches, from `ControlPlaneAssumption`, `PathsAssumption` (the folders
  and files are a tree), `ViewerOpsAssumption` and `ContractAssumption`. The
  invariant (`IInv`) has these parts. A call that is past its checks works on a
  station made under its slug, with a token that has that slug and may write
  (`FromTheRegistry`), and keeps working on it when the slug leads elsewhere: hence
  OnlyAuthorizedChange. A track is at one place of one station (`Sorted`) and has a
  rank there: pending, in hand, in the history, gone. No move of a station lowers a
  rank (`Onward`, proved once for each move of StationMoves; `TracksGoOn` states it
  of the system). What callers were told or shown is then a lower bound on a rank:
  of a track told gone it is the last (`Told`), hence AnswersHold; of one shown it
  is where it was shown (`Shown`), and of one seen in the first or second look of a
  snapshot under way where it was seen (`SeenFirst`, `SeenNext`), hence
  SnapshotsAdvance, since a snapshot looks at the current track first and the
  history last. BrowsingReaches is about Access: a listing is what its token allows
  (`Browsing`), and whoever may have a path may pass every folder above it.
* `ControlPlaneProofs!StationsKeepTheContract`: each station starts empty and makes
  the moves of StationContract only. Player is proved to implement the same
  contract, so that the two modules, one with the goroutines and one with the
  calls, meet in it.

Only model-checked: every liveness property, the fairness part of KeepsContract among
them. Of ten of them the parts that are safety are proved, as said above: SkipEndsItem,
StopEndsRun, DisconnectedHandlersEnd, KeepsContract, DisconnectedLeave,
RestartIsPrimed, HearsItsStation, RefillKeepsUp, RequestsServed, and, in
NoPlayerIsLeft, UnregisteredEnds. Of ResumeLeavesHold, NoStarvation, ComesBack,
PlayerGoesOn and ShutsDown nothing is. What SafeRelPath makes of a path (`Cleaned`, a
fold) is not proved either, because it takes an induction over the path: the
theorems hold whatever it makes of it, and the run shows it for the paths of the
instance.

## Not modelled

The clock behind positions (Pause and SeekBy truncate it to seconds), pacing,
ffmpeg and the bytes themselves; the silence clip, configuration and command line,
which run before anything is concurrent; logging; the encoding of protobuf
messages. The conversions between Lua and Go values, JSON and YAML keep no state;
CORS headers and the station list neither. Of the controller: metadata that a
later radio.register replaces while the loop sends the earlier one. Of the
control plane: several slugs at once, and patterns inside a path segment. Of the
pool: an ffmpeg that outlives a killed server, a source whose content changes
under its cache key, and which error failed an item.
