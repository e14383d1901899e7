--------------------------- MODULE TranscodePool ---------------------------
(***************************************************************************)
(* The workers that turn a queued item into a file to play: the pool       *)
(* (internal/transcode/job.go), the cache with its singleflight group      *)
(* (cache.go), and the resolver that downloads URLs and recognises live    *)
(* streams (internal/audiosource/resolve.go, internal/fetch/http.go).      *)
(*                                                                         *)
(* A source is a local file or a URL; the cache file, the .tmp file beside *)
(* it and the singleflight key all go by the source, as long as a local    *)
(* file does not change (its key holds mtime and size).  A worker is at    *)
(* one step of process; what a step calls on the disk is atomic only where *)
(* the file system makes it so.  A restart loses everything but the files. *)
(***************************************************************************)
EXTENDS Naturals, Sequences, FiniteSets

CONSTANTS
    Items,        \* the items ever queued
    Workers,      \* the goroutines NewPool starts
    LocalFiles,   \* sources of type LOCAL_FILE
    Urls,         \* sources of type HTTP_URL
    JobsCap,      \* capacity of Pool.jobs
    MaxFailures,  \* how many downloads and encodes fail (a bound)
    MaxRestarts,  \* how often the server restarts (a bound)
    NoItem, NoWorker

Sources == LocalFiles \union Urls

ASSUME PoolAssumption ==
    /\ JobsCap \in Nat \ {0} /\ MaxFailures \in Nat /\ MaxRestarts \in Nat
    /\ LocalFiles \intersect Urls = {}
    /\ "none" \notin Sources
    /\ NoItem \notin Items /\ NoWorker \notin Workers

VARIABLES
    source,     \* source[i]: QueuedItem.Source, once queued
    prefetch,   \* QueuedItem.ready, err and isLive together
    jobs,       \* Pool.jobs
    at,         \* at[w]: the worker's step
    job,        \* job[w]: the item it processes
    verdict,    \* verdict[w]: what GetOrTranscode is about to return
    flight,     \* flight[s]: the worker that leads the singleflight call
    liveCache,  \* liveCache[u]: Resolver.liveCache
    cached,     \* cached[s]: the file at outPath
    tmp,        \* tmp[s]: the file at outPath + ".tmp"
    downloads,  \* the items whose download-* file is on the disk
    failures, restarts,
    encodes,    \* history variable: encodes[s], how often outPath was put in place
    orphans     \* history variable: downloads whose worker a restart took

diskVars == <<cached, tmp, encodes>>
boundVars == <<failures, restarts>>
vars == <<source, prefetch, jobs, at, job, verdict, flight, liveCache, cached, tmp,
          downloads, failures, restarts, encodes, orphans>>

Steps == {"idle", "resolve", "open", "download", "stat", "join", "wait", "recheck", "encode",
          "rename", "leave", "mark", "remove"}

Init ==
    /\ source = [i \in Items |-> "none"]
    /\ prefetch = [i \in Items |-> "none"]
    /\ jobs = <<>>
    /\ at = [w \in Workers |-> "idle"]
    /\ job = [w \in Workers |-> NoItem]
    /\ verdict = [w \in Workers |-> "none"]
    /\ flight = [s \in Sources |-> NoWorker]
    /\ liveCache = [u \in Urls |-> "unknown"]
    /\ cached = [s \in Sources |-> "none"]
    /\ tmp = [s \in Sources |-> "none"]
    /\ downloads = {} /\ orphans = {}
    /\ failures = 0 /\ restarts = 0
    /\ encodes = [s \in Sources |-> 0]

Src(w) == source[job[w]]

Go(w, step) == at' = [at EXCEPT ![w] = step]

MarkItem(w, state) == prefetch' = [prefetch EXCEPT ![job[w]] = state]

-----------------------------------------------------------------------------
HasRoom == Len(jobs) < JobsCap

(* Prefetch, inside the QueueTrack handler, never blocks.                  *)
Prefetch(i, s) ==
    /\ source[i] = "none"
    /\ source' = [source EXCEPT ![i] = s]
    /\ IF HasRoom
         THEN /\ jobs' = Append(jobs, i)
              /\ prefetch' = [prefetch EXCEPT ![i] = "pending"]
         ELSE /\ prefetch' = [prefetch EXCEPT ![i] = "failed"]
              /\ UNCHANGED jobs
    /\ UNCHANGED <<at, job, verdict, flight, liveCache, diskVars, downloads, boundVars, orphans>>

Take(w) ==
    /\ at[w] = "idle" /\ jobs # <<>>
    /\ job' = [job EXCEPT ![w] = Head(jobs)]
    /\ jobs' = Tail(jobs)
    /\ Go(w, "resolve")
    /\ UNCHANGED <<source, prefetch, verdict, flight, liveCache, diskVars, downloads,
                   boundVars, orphans>>

-----------------------------------------------------------------------------
(* Resolver.Resolve.                                                       *)

ResolveLocal(w) ==
    /\ at[w] = "resolve" /\ Src(w) \in LocalFiles
    /\ Go(w, "stat")
    /\ UNCHANGED <<source, prefetch, jobs, job, verdict, flight, liveCache, diskVars,
                   downloads, boundVars, orphans>>

Relay(w) == MarkItem(w, "live") /\ Go(w, "idle")

(* The look at liveCache.                                                  *)
ResolveUrl(w) ==
    /\ at[w] = "resolve" /\ Src(w) \in Urls
    /\ IF liveCache[Src(w)] = "live" THEN Relay(w) ELSE Go(w, "open") /\ UNCHANGED prefetch
    /\ UNCHANGED <<source, jobs, job, verdict, flight, liveCache, diskVars, downloads,
                   boundVars, orphans>>

(* fetch.Open and IsLiveStream; what the server answers may change from    *)
(* one request to the next, and another worker may have set liveCache.     *)
OpensLive(w) ==
    /\ at[w] = "open"
    /\ liveCache' = [liveCache EXCEPT ![Src(w)] = "live"]
    /\ Relay(w)
    /\ UNCHANGED <<source, jobs, job, verdict, flight, diskVars, downloads, boundVars, orphans>>

OpensFinite(w) ==
    /\ at[w] = "open"
    /\ liveCache' = [liveCache EXCEPT ![Src(w)] = "finite"]
    /\ downloads' = downloads \union {job[w]}
    /\ Go(w, "download")
    /\ UNCHANGED <<source, prefetch, jobs, job, verdict, flight, diskVars, boundVars, orphans>>

(* A bad path, a refused request.                                          *)
ResolveFails(w) ==
    /\ \/ at[w] = "resolve" /\ Src(w) \in LocalFiles
       \/ at[w] = "open"
    /\ failures < MaxFailures
    /\ failures' = failures + 1
    /\ MarkItem(w, "failed")
    /\ Go(w, "idle")
    /\ UNCHANGED <<source, jobs, job, verdict, flight, liveCache, diskVars, downloads,
                   restarts, orphans>>

Downloaded(w) ==
    /\ at[w] = "download"
    /\ Go(w, "stat")
    /\ UNCHANGED <<source, prefetch, jobs, job, verdict, flight, liveCache, diskVars,
                   downloads, boundVars, orphans>>

(* A wrong variant: the truncated file stays.                              *)
DownloadFailsKeepsFile(w) ==
    /\ at[w] = "download" /\ failures < MaxFailures
    /\ failures' = failures + 1
    /\ MarkItem(w, "failed")
    /\ Go(w, "idle")
    /\ UNCHANGED <<source, jobs, job, verdict, flight, liveCache, diskVars, downloads,
                   restarts, orphans>>

(* Too large, cut off, or timed out: SaveToFile removes its file.          *)
DownloadFails(w) ==
    /\ at[w] = "download" /\ failures < MaxFailures
    /\ failures' = failures + 1
    /\ downloads' = downloads \ {job[w]}
    /\ MarkItem(w, "failed")
    /\ Go(w, "idle")
    /\ UNCHANGED <<source, jobs, job, verdict, flight, liveCache, diskVars, restarts, orphans>>

-----------------------------------------------------------------------------
(* Cache.GetOrTranscode.                                                   *)

Stat(w) ==
    /\ at[w] = "stat"
    /\ IF cached[Src(w)] = "none"
         THEN Go(w, "join") /\ UNCHANGED verdict
         ELSE Go(w, "mark") /\ verdict' = [verdict EXCEPT ![w] = "ready"]
    /\ UNCHANGED <<source, prefetch, jobs, job, flight, liveCache, diskVars, downloads,
                   boundVars, orphans>>

(* A wrong variant: every caller encodes for itself.                       *)
LeadsAlways(w) == TRUE

Leads(w) == flight[Src(w)] = NoWorker

(* group.Do: the first caller of a key leads, the others wait for it.      *)
Join(w) ==
    /\ at[w] = "join"
    /\ IF Leads(w)
         THEN Go(w, "recheck") /\ flight' = [flight EXCEPT ![Src(w)] = w]
         ELSE Go(w, "wait") /\ UNCHANGED flight
    /\ UNCHANGED <<source, prefetch, jobs, job, verdict, liveCache, diskVars, downloads,
                   boundVars, orphans>>

(* A wrong variant: without the .tmp file.                                 *)
StartEncodeInPlace(w) ==
    /\ Go(w, "encode")
    /\ cached' = [cached EXCEPT ![Src(w)] = "partial"]
    /\ UNCHANGED <<tmp, verdict>>

(* ffmpeg truncates its output first (-y) and fills it as it goes; only    *)
(* the leader of the key touches it, so that its start is not a step.      *)
StartEncode(w) ==
    /\ Go(w, "encode")
    /\ tmp' = [tmp EXCEPT ![Src(w)] = "partial"]
    /\ UNCHANGED <<cached, verdict>>

(* A wrong variant: what it saw before it joined still holds.              *)
RecheckNothing(w) ==
    /\ at[w] = "recheck"
    /\ StartEncode(w)
    /\ UNCHANGED <<source, prefetch, jobs, job, flight, liveCache, downloads,
                   boundVars, encodes, orphans>>

Recheck(w) ==
    /\ at[w] = "recheck"
    /\ IF cached[Src(w)] = "none"
         THEN StartEncode(w)
         ELSE /\ Go(w, "leave")
              /\ verdict' = [verdict EXCEPT ![w] = "ready"]
              /\ UNCHANGED <<cached, tmp>>
    /\ UNCHANGED <<source, prefetch, jobs, job, flight, liveCache, downloads,
                   boundVars, encodes, orphans>>

Encoded(w) ==
    /\ at[w] = "encode"
    /\ Go(w, "rename")
    /\ tmp' = [tmp EXCEPT ![Src(w)] = "complete"]
    /\ UNCHANGED <<source, prefetch, jobs, job, verdict, flight, liveCache, cached,
                   downloads, boundVars, encodes, orphans>>

(* ffmpeg or the rename fails, or ffmpeg's time is up.                     *)
EncodeFails(w) ==
    /\ at[w] \in {"encode", "rename"} /\ failures < MaxFailures
    /\ failures' = failures + 1
    /\ tmp' = [tmp EXCEPT ![Src(w)] = "none"]
    /\ verdict' = [verdict EXCEPT ![w] = "failed"]
    /\ Go(w, "leave")
    /\ UNCHANGED <<source, prefetch, jobs, job, flight, liveCache, cached, downloads,
                   restarts, encodes, orphans>>

Rename(w) ==
    /\ at[w] = "rename"
    /\ cached' = [cached EXCEPT ![Src(w)] = tmp[Src(w)]]
    /\ tmp' = [tmp EXCEPT ![Src(w)] = "none"]
    /\ encodes' = [encodes EXCEPT ![Src(w)] = @ + 1]
    /\ verdict' = [verdict EXCEPT ![w] = "ready"]
    /\ Go(w, "leave")
    /\ UNCHANGED <<source, prefetch, jobs, job, flight, liveCache, downloads, boundVars, orphans>>

(* The callers that take the leader's result.                              *)
Followers(w) == {f \in Workers : at[f] = "wait" /\ Src(f) = Src(w)}

Leave(w) ==
    /\ at[w] = "leave"
    /\ flight' = [flight EXCEPT ![Src(w)] = NoWorker]
    /\ at' = [f \in Workers |-> IF f \in Followers(w) \union {w} THEN "mark" ELSE at[f]]
    /\ verdict' = [f \in Workers |-> IF f \in Followers(w) THEN verdict[w] ELSE verdict[f]]
    /\ UNCHANGED <<source, prefetch, jobs, job, liveCache, diskVars, downloads, boundVars, orphans>>

-----------------------------------------------------------------------------
(* The end of process.                                                     *)

(* A wrong variant: returns on an error without closing ready.             *)
MarkReadyOnly(w) ==
    /\ at[w] = "mark"
    /\ IF verdict[w] = "ready" THEN MarkItem(w, "ready") ELSE UNCHANGED prefetch
    /\ Go(w, IF job[w] \in downloads THEN "remove" ELSE "idle")
    /\ UNCHANGED <<source, jobs, job, verdict, flight, liveCache, diskVars, downloads,
                   boundVars, orphans>>

Mark(w) ==
    /\ at[w] = "mark"
    /\ MarkItem(w, verdict[w])
    /\ Go(w, IF job[w] \in downloads THEN "remove" ELSE "idle")
    /\ UNCHANGED <<source, jobs, job, verdict, flight, liveCache, diskVars, downloads,
                   boundVars, orphans>>

(* The deferred os.Remove of a download.                                   *)
RemoveDownload(w) ==
    /\ at[w] = "remove"
    /\ downloads' = downloads \ {job[w]}
    /\ Go(w, "idle")
    /\ UNCHANGED <<source, prefetch, jobs, job, verdict, flight, liveCache, diskVars,
                   boundVars, orphans>>

(* The server is killed and started again over the same cache directory:   *)
(* the items not yet marked are lost with the queue they were in.          *)
Restart ==
    /\ restarts < MaxRestarts
    /\ restarts' = restarts + 1
    /\ prefetch' = [i \in Items |-> IF prefetch[i] = "pending" THEN "lost" ELSE prefetch[i]]
    /\ jobs' = <<>>
    /\ at' = [w \in Workers |-> "idle"]
    /\ job' = [w \in Workers |-> NoItem]
    /\ verdict' = [w \in Workers |-> "none"]
    /\ flight' = [s \in Sources |-> NoWorker]
    /\ liveCache' = [u \in Urls |-> "unknown"]
    /\ orphans' = downloads
    /\ UNCHANGED <<source, diskVars, downloads, failures>>

WorkerStep(w) ==
    \/ Take(w)
    \/ ResolveLocal(w) \/ ResolveUrl(w) \/ OpensLive(w) \/ OpensFinite(w) \/ ResolveFails(w)
    \/ Downloaded(w) \/ DownloadFails(w)
    \/ Stat(w) \/ Join(w) \/ Recheck(w) \/ Encoded(w) \/ EncodeFails(w) \/ Rename(w) \/ Leave(w)
    \/ Mark(w) \/ RemoveDownload(w)

Next ==
    \/ \E i \in Items, s \in Sources : Prefetch(i, s)
    \/ \E w \in Workers : WorkerStep(w)
    \/ Restart

Spec == Init /\ [][Next]_vars

(* Downloads and encodes have time limits, so a worker never stops in one. *)
FairSpec == Spec /\ \A w \in Workers : WF_vars(WorkerStep(w))

-----------------------------------------------------------------------------
TypeOK ==
    /\ source \in [Items -> Sources \union {"none"}]
    /\ prefetch \in [Items -> {"none", "pending", "ready", "failed", "live", "lost"}]
    /\ jobs \in Seq(Items) /\ Len(jobs) <= JobsCap
    /\ at \in [Workers -> Steps]
    /\ job \in [Workers -> Items \union {NoItem}]
    /\ verdict \in [Workers -> {"none", "ready", "failed"}]
    /\ flight \in [Sources -> Workers \union {NoWorker}]
    /\ liveCache \in [Urls -> {"unknown", "live", "finite"}]
    /\ cached \in [Sources -> {"none", "partial", "complete"}]
    /\ tmp \in [Sources -> {"none", "partial", "complete"}]
    /\ downloads \subseteq Items /\ orphans \subseteq Items
    /\ failures \in 0..MaxFailures /\ restarts \in 0..MaxRestarts
    /\ encodes \in [Sources -> Nat]

(* An item that is ready has a whole file to play, whatever failed or was  *)
(* cut off by a restart before.                                            *)
ReadyIsComplete == \A i \in Items : prefetch[i] = "ready" => cached[source[i]] = "complete"

(* No two workers run ffmpeg on one source at a time: they would write the *)
(* same .tmp file.                                                         *)
OneEncoder ==
    \A v, w \in Workers :
        /\ {at[v], at[w]} \subseteq {"encode", "rename"}
        /\ Src(v) = Src(w)
        => v = w

(* A source is put in the cache once: an identical one queued while it is  *)
(* encoded, or just after, is served from the same file.                   *)
EncodedOnce == \A s \in Sources : encodes[s] <= 1

(* A download on the disk is in the hands of a worker, but for those whose *)
(* worker a restart took.                                                  *)
DownloadsInHand ==
    \A i \in downloads \ orphans :
        \E w \in Workers : job[w] = i /\ at[w] \notin {"idle", "resolve", "open"}

(* The pool keeps its contract: every queued item is marked, and once.     *)
Contract == INSTANCE PrefetchContract

KeepsContract == Contract!Spec
=============================================================================
