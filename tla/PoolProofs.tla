----------------------------- MODULE PoolProofs -----------------------------
(***************************************************************************)
(* Proofs about TranscodePool, for any number of items, sources, workers,  *)
(* failures and restarts.                                                  *)
(***************************************************************************)
EXTENDS TranscodePool, TLAPS

(* What is in the channel, or in a worker's hands, was queued.             *)
Working ==
    /\ \A n \in DOMAIN jobs : source[jobs[n]] \in Sources
    /\ \A w \in Workers : at[w] # "idle" => job[w] \in Items /\ Src(w) \in Sources

Typed == TypeOK /\ Working

LEMMA StepTypes ==
    ASSUME at \in [Workers -> Steps], NEW w \in Workers, NEW step, Go(w, step),
           step \in {"idle", "resolve", "open", "download", "stat", "join", "wait", "recheck",
                     "encode", "rename", "leave", "mark", "remove"}
    PROVE  at' \in [Workers -> Steps]
  BY DEF Go, Steps

LEMMA MarkTypes ==
    ASSUME prefetch \in [Items -> {"none", "pending", "ready", "failed", "live", "lost"}],
           NEW w \in Workers, NEW state, MarkItem(w, state),
           state \in {"none", "pending", "ready", "failed", "live", "lost"}
    PROVE  prefetch' \in [Items -> {"none", "pending", "ready", "failed", "live", "lost"}]
  BY DEF MarkItem

LEMMA TypedInit == Init => Typed
<1> SUFFICES ASSUME Init PROVE Typed
  OBVIOUS
<1>1. jobs \in Seq(Items) /\ Len(jobs) <= JobsCap /\ DOMAIN jobs = {}
  BY PoolAssumption DEF PoolAssumption, Init
<1>2. failures \in 0..MaxFailures /\ restarts \in 0..MaxRestarts
  BY PoolAssumption DEF PoolAssumption, Init
<1>3. encodes \in [Sources -> Nat]
  BY DEF Init
<1>4. TypeOK
  BY <1>1, <1>2, <1>3 DEF Init, TypeOK, Steps
<1>5. Working
  BY <1>1 DEF Init, Working
<1> QED
  BY <1>4, <1>5 DEF Typed

LEMMA TypedInvariant == Spec => []Typed
<1>1. Typed /\ [Next]_vars => Typed'
  <2> SUFFICES ASSUME Typed, [Next]_vars PROVE Typed'
    OBVIOUS
  <2> USE PoolAssumption DEF PoolAssumption, Typed, TypeOK, Working, Src, diskVars, boundVars
  <2>1. ASSUME NEW w \in Workers, Take(w) PROVE Typed'
    <3>1. at' \in [Workers -> Steps]
      BY <2>1, StepTypes DEF Take
    <3>2. job' \in [Workers -> Items \union {NoItem}]
      BY <2>1 DEF Take
    <3>3. jobs' \in Seq(Items) /\ Len(jobs') <= JobsCap
      BY <2>1 DEF Take
    <3>4. \A n \in DOMAIN jobs' : source[jobs'[n]] \in Sources
      BY <2>1 DEF Take
    <3>5. job'[w] \in Items /\ source[job'[w]] \in Sources
      BY <2>1 DEF Take
    <3>6. TypeOK'
      BY <2>1, <3>1, <3>2, <3>3, <3>4, <3>5 DEF Take, TypeOK
    <3>7. Working'
      BY <2>1, <3>1, <3>2, <3>3, <3>4, <3>5 DEF Take, Go, Working
    <3> QED
      BY <3>6, <3>7 DEF Typed
  <2>2. ASSUME NEW w \in Workers, ResolveLocal(w) PROVE Typed'
    <3>1. at' \in [Workers -> Steps]
      BY <2>2, StepTypes DEF ResolveLocal
    <3>2. TypeOK'
      BY <2>2, <3>1 DEF ResolveLocal, TypeOK
    <3>3. Working'
      BY <2>2, <3>1 DEF ResolveLocal, Go, Working
    <3> QED
      BY <3>2, <3>3 DEF Typed
  <2>3. ASSUME NEW w \in Workers, ResolveUrl(w) PROVE Typed'
    <3>1. at' \in [Workers -> Steps]
      BY <2>3, StepTypes DEF ResolveUrl, Relay
    <3>2. prefetch' \in [Items -> {"none", "pending", "ready", "failed", "live", "lost"}]
      BY <2>3, MarkTypes DEF ResolveUrl, Relay
    <3>3. TypeOK'
      BY <2>3, <3>1, <3>2 DEF ResolveUrl, TypeOK
    <3>4. Working'
      BY <2>3, <3>1, <3>2 DEF ResolveUrl, Go, Relay, Working
    <3> QED
      BY <3>3, <3>4 DEF Typed
  <2>4. ASSUME NEW w \in Workers, OpensLive(w) PROVE Typed'
    <3>1. at' \in [Workers -> Steps]
      BY <2>4, StepTypes DEF OpensLive, Relay
    <3>2. prefetch' \in [Items -> {"none", "pending", "ready", "failed", "live", "lost"}]
      BY <2>4, MarkTypes DEF OpensLive, Relay
    <3>3. liveCache' \in [Urls -> {"unknown", "live", "finite"}]
      BY <2>4 DEF OpensLive
    <3>4. TypeOK'
      BY <2>4, <3>1, <3>2, <3>3 DEF OpensLive, TypeOK
    <3>5. Working'
      BY <2>4, <3>1, <3>2, <3>3 DEF OpensLive, Go, Relay, Working
    <3> QED
      BY <3>4, <3>5 DEF Typed
  <2>5. ASSUME NEW w \in Workers, OpensFinite(w) PROVE Typed'
    <3>1. at' \in [Workers -> Steps]
      BY <2>5, StepTypes DEF OpensFinite
    <3>2. liveCache' \in [Urls -> {"unknown", "live", "finite"}]
      BY <2>5 DEF OpensFinite
    <3>3. downloads' \subseteq Items
      BY <2>5 DEF OpensFinite
    <3>4. TypeOK'
      BY <2>5, <3>1, <3>2, <3>3 DEF OpensFinite, TypeOK
    <3>5. Working'
      BY <2>5, <3>1, <3>2, <3>3 DEF OpensFinite, Go, Working
    <3> QED
      BY <3>4, <3>5 DEF Typed
  <2>6. ASSUME NEW w \in Workers, ResolveFails(w) PROVE Typed'
    <3>1. at' \in [Workers -> Steps]
      BY <2>6, StepTypes DEF ResolveFails
    <3>2. prefetch' \in [Items -> {"none", "pending", "ready", "failed", "live", "lost"}]
      BY <2>6, MarkTypes DEF ResolveFails
    <3>3. failures' \in 0..MaxFailures
      BY <2>6 DEF ResolveFails
    <3>4. TypeOK'
      BY <2>6, <3>1, <3>2, <3>3 DEF ResolveFails, TypeOK
    <3>5. Working'
      BY <2>6, <3>1, <3>2, <3>3 DEF ResolveFails, Go, Working
    <3> QED
      BY <3>4, <3>5 DEF Typed
  <2>7. ASSUME NEW w \in Workers, Downloaded(w) PROVE Typed'
    <3>1. at' \in [Workers -> Steps]
      BY <2>7, StepTypes DEF Downloaded
    <3>2. TypeOK'
      BY <2>7, <3>1 DEF Downloaded, TypeOK
    <3>3. Working'
      BY <2>7, <3>1 DEF Downloaded, Go, Working
    <3> QED
      BY <3>2, <3>3 DEF Typed
  <2>8. ASSUME NEW w \in Workers, DownloadFails(w) PROVE Typed'
    <3>1. at' \in [Workers -> Steps]
      BY <2>8, StepTypes DEF DownloadFails
    <3>2. prefetch' \in [Items -> {"none", "pending", "ready", "failed", "live", "lost"}]
      BY <2>8, MarkTypes DEF DownloadFails
    <3>3. failures' \in 0..MaxFailures
      BY <2>8 DEF DownloadFails
    <3>4. downloads' \subseteq Items
      BY <2>8 DEF DownloadFails
    <3>5. TypeOK'
      BY <2>8, <3>1, <3>2, <3>3, <3>4 DEF DownloadFails, TypeOK
    <3>6. Working'
      BY <2>8, <3>1, <3>2, <3>3, <3>4 DEF DownloadFails, Go, Working
    <3> QED
      BY <3>5, <3>6 DEF Typed
  <2>9. ASSUME NEW w \in Workers, Stat(w) PROVE Typed'
    <3>1. at' \in [Workers -> Steps]
      BY <2>9, StepTypes DEF Stat
    <3>2. verdict' \in [Workers -> {"none", "ready", "failed"}]
      BY <2>9 DEF Stat
    <3>3. TypeOK'
      BY <2>9, <3>1, <3>2 DEF Stat, TypeOK
    <3>4. Working'
      BY <2>9, <3>1, <3>2 DEF Stat, Go, Working
    <3> QED
      BY <3>3, <3>4 DEF Typed
  <2>10. ASSUME NEW w \in Workers, Join(w) PROVE Typed'
    <3>1. at' \in [Workers -> Steps]
      BY <2>10, StepTypes DEF Join
    <3>2. flight' \in [Sources -> Workers \union {NoWorker}]
      BY <2>10 DEF Join
    <3>3. TypeOK'
      BY <2>10, <3>1, <3>2 DEF Join, TypeOK
    <3>4. Working'
      BY <2>10, <3>1, <3>2 DEF Join, Go, Working
    <3> QED
      BY <3>3, <3>4 DEF Typed
  <2>11. ASSUME NEW w \in Workers, Recheck(w) PROVE Typed'
    <3>1. at' \in [Workers -> Steps]
      BY <2>11, StepTypes DEF Recheck, StartEncode
    <3>2. verdict' \in [Workers -> {"none", "ready", "failed"}]
      BY <2>11 DEF Recheck, StartEncode
    <3>3. tmp' \in [Sources -> {"none", "partial", "complete"}]
      BY <2>11 DEF Recheck, StartEncode
    <3>4. cached' = cached
      BY <2>11 DEF Recheck, StartEncode
    <3>5. TypeOK'
      BY <2>11, <3>1, <3>2, <3>3, <3>4 DEF Recheck, TypeOK
    <3>6. Working'
      BY <2>11, <3>1, <3>2, <3>3, <3>4 DEF Recheck, Go, StartEncode, Working
    <3> QED
      BY <3>5, <3>6 DEF Typed
  <2>12. ASSUME NEW w \in Workers, Encoded(w) PROVE Typed'
    <3>1. at' \in [Workers -> Steps]
      BY <2>12, StepTypes DEF Encoded
    <3>2. tmp' \in [Sources -> {"none", "partial", "complete"}]
      BY <2>12 DEF Encoded
    <3>3. TypeOK'
      BY <2>12, <3>1, <3>2 DEF Encoded, TypeOK
    <3>4. Working'
      BY <2>12, <3>1, <3>2 DEF Encoded, Go, Working
    <3> QED
      BY <3>3, <3>4 DEF Typed
  <2>13. ASSUME NEW w \in Workers, EncodeFails(w) PROVE Typed'
    <3>1. at' \in [Workers -> Steps]
      BY <2>13, StepTypes DEF EncodeFails
    <3>2. failures' \in 0..MaxFailures
      BY <2>13 DEF EncodeFails
    <3>3. tmp' \in [Sources -> {"none", "partial", "complete"}]
      BY <2>13 DEF EncodeFails
    <3>4. verdict' \in [Workers -> {"none", "ready", "failed"}]
      BY <2>13 DEF EncodeFails
    <3>5. TypeOK'
      BY <2>13, <3>1, <3>2, <3>3, <3>4 DEF EncodeFails, TypeOK
    <3>6. Working'
      BY <2>13, <3>1, <3>2, <3>3, <3>4 DEF EncodeFails, Go, Working
    <3> QED
      BY <3>5, <3>6 DEF Typed
  <2>14. ASSUME NEW w \in Workers, Rename(w) PROVE Typed'
    <3>1. at' \in [Workers -> Steps]
      BY <2>14, StepTypes DEF Rename
    <3>2. tmp' \in [Sources -> {"none", "partial", "complete"}]
      BY <2>14 DEF Rename
    <3>3. cached' \in [Sources -> {"none", "partial", "complete"}]
      BY <2>14 DEF Rename
    <3>4. verdict' \in [Workers -> {"none", "ready", "failed"}]
      BY <2>14 DEF Rename
    <3>5. encodes' \in [Sources -> Nat]
      BY <2>14 DEF Rename
    <3>6. TypeOK'
      BY <2>14, <3>1, <3>2, <3>3, <3>4, <3>5 DEF Rename, TypeOK
    <3>7. Working'
      BY <2>14, <3>1, <3>2, <3>3, <3>4, <3>5 DEF Rename, Go, Working
    <3> QED
      BY <3>6, <3>7 DEF Typed
  <2>15. ASSUME NEW w \in Workers, Leave(w) PROVE Typed'
    <3>1. at' \in [Workers -> Steps]
      BY <2>15 DEF Leave, Steps, Followers
    <3>2. flight' \in [Sources -> Workers \union {NoWorker}]
      BY <2>15 DEF Leave
    <3>3. verdict' \in [Workers -> {"none", "ready", "failed"}]
      BY <2>15 DEF Leave, Followers
    <3>4. TypeOK'
      BY <2>15, <3>1, <3>2, <3>3 DEF Leave, TypeOK
    <3>5. Working'
      BY <2>15, <3>1, <3>2, <3>3 DEF Leave, Go, Followers, Working
    <3> QED
      BY <3>4, <3>5 DEF Typed
  <2>16. ASSUME NEW w \in Workers, Mark(w) PROVE Typed'
    <3>1. at' \in [Workers -> Steps]
      BY <2>16, StepTypes DEF Mark
    <3>2. prefetch' \in [Items -> {"none", "pending", "ready", "failed", "live", "lost"}]
      BY <2>16, MarkTypes DEF Mark
    <3>3. TypeOK'
      BY <2>16, <3>1, <3>2 DEF Mark, TypeOK
    <3>4. Working'
      BY <2>16, <3>1, <3>2 DEF Mark, Go, Working
    <3> QED
      BY <3>3, <3>4 DEF Typed
  <2>17. ASSUME NEW w \in Workers, RemoveDownload(w) PROVE Typed'
    <3>1. at' \in [Workers -> Steps]
      BY <2>17, StepTypes DEF RemoveDownload
    <3>2. downloads' \subseteq Items
      BY <2>17 DEF RemoveDownload
    <3>3. TypeOK'
      BY <2>17, <3>1, <3>2 DEF RemoveDownload, TypeOK
    <3>4. Working'
      BY <2>17, <3>1, <3>2 DEF RemoveDownload, Go, Working
    <3> QED
      BY <3>3, <3>4 DEF Typed
  <2>18. ASSUME NEW i \in Items, NEW s \in Sources, Prefetch(i, s) PROVE Typed'
    <3>1. jobs' \in Seq(Items) /\ Len(jobs') <= JobsCap
      <4>1. CASE HasRoom
        <5>1. jobs' = Append(jobs, i)
          BY <2>18, <4>1 DEF Prefetch
        <5>2. jobs' \in Seq(Items) /\ Len(jobs') = Len(jobs) + 1
          BY <5>1
        <5>3. Len(jobs) \in Nat /\ Len(jobs) < JobsCap
          BY <4>1 DEF HasRoom
        <5> QED
          BY <5>2, <5>3
      <4>2. CASE ~HasRoom
        BY <2>18, <4>2 DEF Prefetch
      <4> QED
        BY <4>1, <4>2
    <3>2. source' \in [Items -> Sources \union {"none"}]
      BY <2>18 DEF Prefetch
    <3>3. prefetch' \in [Items -> {"none", "pending", "ready", "failed", "live", "lost"}]
      BY <2>18 DEF Prefetch
    <3>4. \A n \in DOMAIN jobs' : source'[jobs'[n]] \in Sources
      <4>1. \A n \in DOMAIN jobs' : jobs'[n] = i \/ (n \in DOMAIN jobs /\ jobs'[n] = jobs[n])
        <5>1. CASE HasRoom
          BY <2>18, <5>1 DEF Prefetch
        <5>2. CASE ~HasRoom
          BY <2>18, <5>2 DEF Prefetch
        <5> QED
          BY <5>1, <5>2
      <4>2. \A k \in Items : source'[k] = IF k = i THEN s ELSE source[k]
        BY <2>18 DEF Prefetch
      <4>3. \A n \in DOMAIN jobs : jobs[n] \in Items
        OBVIOUS
      <4> QED
        BY <4>1, <4>2, <4>3
    <3>5. TypeOK'
      BY <2>18, <3>1, <3>2, <3>3 DEF Prefetch, TypeOK
    <3>6. Working'
      BY <2>18, <3>4 DEF Prefetch, Working
    <3> QED
      BY <3>5, <3>6 DEF Typed
  <2>19. CASE Restart
    <3>1. at' \in [Workers -> Steps]
      BY <2>19 DEF Restart, Steps
    <3>2. jobs' \in Seq(Items) /\ Len(jobs') <= JobsCap /\ DOMAIN jobs' = {}
      BY <2>19 DEF Restart
    <3>3. restarts' \in 0..MaxRestarts
      BY <2>19 DEF Restart
    <3>4. TypeOK'
      BY <2>19, <3>1, <3>2, <3>3 DEF Restart, TypeOK
    <3>5. Working'
      BY <2>19, <3>2 DEF Restart, Working
    <3> QED
      BY <3>4, <3>5 DEF Typed
  <2>20. CASE UNCHANGED vars
    <3>1. TypeOK'
      BY <2>20 DEF vars, TypeOK
    <3>2. Working'
      BY <2>20 DEF vars, Working
    <3> QED
      BY <3>1, <3>2 DEF Typed
  <2> QED
    BY <2>1, <2>2, <2>3, <2>4, <2>5, <2>6, <2>7, <2>8, <2>9, <2>10, <2>11, <2>12,
       <2>13, <2>14, <2>15, <2>16, <2>17, <2>18, <2>19, <2>20
       DEF Next, WorkerStep
<1> QED
  BY TypedInit, <1>1, PTL DEF Spec

(* Every variable keeps to its range; in particular the job channel never  *)
(* holds more than its capacity.  That a worker at work has an item goes   *)
(* with it: OpensFinite and Take rely on it.                               *)
THEOREM TypeCorrect == Spec => []TypeOK
<1>1. Typed => TypeOK
  BY DEF Typed
<1> QED
  BY TypedInvariant, <1>1, PTL

-----------------------------------------------------------------------------
(* The worker past the group's lock is the one the group knows.            *)
LeadersFly ==
    \A w \in Workers : at[w] \in {"recheck", "encode", "rename", "leave"} => flight[Src(w)] = w

(* The leader that found no file still finds none, the one about to rename *)
(* has a whole file, and a verdict is as good as the file it stands for.   *)
WholeFiles ==
    /\ \A s \in Sources : cached[s] # "partial"
    /\ \A s \in Sources : encodes[s] = IF cached[s] = "none" THEN 0 ELSE 1
    /\ \A w \in Workers : at[w] \in {"encode", "rename"} => cached[Src(w)] = "none"
    /\ \A w \in Workers : at[w] = "rename" => tmp[Src(w)] = "complete"
    /\ \A w \in Workers :
          at[w] \in {"leave", "mark"} /\ verdict[w] = "ready" => cached[Src(w)] = "complete"
    /\ \A i \in Items :
          prefetch[i] = "ready" => source[i] \in Sources /\ cached[source[i]] = "complete"

Sound == Typed /\ LeadersFly /\ WholeFiles

LEMMA SoundInit == Init => Sound
<1>1. Init => LeadersFly /\ WholeFiles
  BY DEF Init, LeadersFly, WholeFiles
<1> QED
  BY TypedInit, <1>1 DEF Sound

LEMMA FlightStep == Sound /\ [Next]_vars => LeadersFly'
<1> SUFFICES ASSUME Sound, [Next]_vars PROVE LeadersFly'
  OBVIOUS
<1> USE PoolAssumption DEF PoolAssumption, Sound, Typed, TypeOK, Working, LeadersFly, Src,
        diskVars, boundVars
<1>1. ASSUME NEW w \in Workers, Take(w) PROVE LeadersFly'
  BY <1>1 DEF Take, Go
<1>2. ASSUME NEW w \in Workers, ResolveLocal(w) PROVE LeadersFly'
  BY <1>2 DEF ResolveLocal, Go
<1>3. ASSUME NEW w \in Workers, ResolveUrl(w) PROVE LeadersFly'
  BY <1>3 DEF ResolveUrl, Go, Relay, MarkItem
<1>4. ASSUME NEW w \in Workers, OpensLive(w) PROVE LeadersFly'
  BY <1>4 DEF OpensLive, Go, Relay, MarkItem
<1>5. ASSUME NEW w \in Workers, OpensFinite(w) PROVE LeadersFly'
  BY <1>5 DEF OpensFinite, Go
<1>6. ASSUME NEW w \in Workers, ResolveFails(w) PROVE LeadersFly'
  BY <1>6 DEF ResolveFails, Go, MarkItem
<1>7. ASSUME NEW w \in Workers, Downloaded(w) PROVE LeadersFly'
  BY <1>7 DEF Downloaded, Go
<1>8. ASSUME NEW w \in Workers, DownloadFails(w) PROVE LeadersFly'
  BY <1>8 DEF DownloadFails, Go, MarkItem
<1>9. ASSUME NEW w \in Workers, Stat(w) PROVE LeadersFly'
  BY <1>9 DEF Stat, Go
<1>10. ASSUME NEW w \in Workers, Join(w) PROVE LeadersFly'
  BY <1>10 DEF Join, Go, Leads
<1>11. ASSUME NEW w \in Workers, Recheck(w) PROVE LeadersFly'
  BY <1>11 DEF Recheck, Go, StartEncode
<1>12. ASSUME NEW w \in Workers, Encoded(w) PROVE LeadersFly'
  BY <1>12 DEF Encoded, Go
<1>13. ASSUME NEW w \in Workers, EncodeFails(w) PROVE LeadersFly'
  BY <1>13 DEF EncodeFails, Go
<1>14. ASSUME NEW w \in Workers, Rename(w) PROVE LeadersFly'
  BY <1>14 DEF Rename, Go
<1>15. ASSUME NEW w \in Workers, Leave(w) PROVE LeadersFly'
  BY <1>15 DEF Leave, Go, Followers
<1>16. ASSUME NEW w \in Workers, Mark(w) PROVE LeadersFly'
  BY <1>16 DEF Mark, Go, MarkItem
<1>17. ASSUME NEW w \in Workers, RemoveDownload(w) PROVE LeadersFly'
  BY <1>17 DEF RemoveDownload, Go
<1>18. ASSUME NEW i \in Items, NEW s \in Sources, Prefetch(i, s) PROVE LeadersFly'
  BY <1>18 DEF Prefetch
<1>19. CASE Restart
  BY <1>19 DEF Restart
<1>20. CASE UNCHANGED vars
  BY <1>20 DEF vars
<1> QED
  BY <1>1, <1>2, <1>3, <1>4, <1>5, <1>6, <1>7, <1>8, <1>9, <1>10, <1>11, <1>12, <1>13,
     <1>14, <1>15, <1>16, <1>17, <1>18, <1>19, <1>20
     DEF Next, WorkerStep

LEMMA FilesStep == Sound /\ [Next]_vars => WholeFiles'
<1> SUFFICES ASSUME Sound, [Next]_vars PROVE WholeFiles'
  OBVIOUS
<1> USE PoolAssumption DEF PoolAssumption, Sound, Typed, TypeOK, Working, WholeFiles, Src,
        diskVars, boundVars
<1>1. ASSUME NEW w \in Workers, Take(w) PROVE WholeFiles'
  BY <1>1 DEF Take, Go, LeadersFly
<1>2. ASSUME NEW w \in Workers, ResolveLocal(w) PROVE WholeFiles'
  BY <1>2 DEF ResolveLocal, Go, LeadersFly
<1>3. ASSUME NEW w \in Workers, ResolveUrl(w) PROVE WholeFiles'
  BY <1>3 DEF ResolveUrl, Go, Relay, MarkItem, LeadersFly
<1>4. ASSUME NEW w \in Workers, OpensLive(w) PROVE WholeFiles'
  BY <1>4 DEF OpensLive, Go, Relay, MarkItem, LeadersFly
<1>5. ASSUME NEW w \in Workers, OpensFinite(w) PROVE WholeFiles'
  BY <1>5 DEF OpensFinite, Go, LeadersFly
<1>6. ASSUME NEW w \in Workers, ResolveFails(w) PROVE WholeFiles'
  BY <1>6 DEF ResolveFails, Go, MarkItem, LeadersFly
<1>7. ASSUME NEW w \in Workers, Downloaded(w) PROVE WholeFiles'
  BY <1>7 DEF Downloaded, Go, LeadersFly
<1>8. ASSUME NEW w \in Workers, DownloadFails(w) PROVE WholeFiles'
  BY <1>8 DEF DownloadFails, Go, MarkItem, LeadersFly
<1>9. ASSUME NEW w \in Workers, Stat(w) PROVE WholeFiles'
  BY <1>9 DEF Stat, Go, LeadersFly
<1>10. ASSUME NEW w \in Workers, Join(w) PROVE WholeFiles'
  BY <1>10 DEF Join, Go, Leads, LeadersFly
<1>11. ASSUME NEW w \in Workers, Recheck(w) PROVE WholeFiles'
  <2>1. /\ cached' = cached /\ encodes' = encodes /\ prefetch' = prefetch /\ source' = source
        /\ job' = job
        /\ \A v \in Workers : v # w => at'[v] = at[v]
    BY <1>11 DEF Recheck, Go, StartEncode
  <2>2. /\ cached[Src(w)] = "none" => at'[w] = "encode" /\ verdict' = verdict
        /\ cached[Src(w)] # "none" => at'[w] = "leave" /\ tmp' = tmp
    BY <1>11 DEF Recheck, Go, StartEncode
  <2>3. \A v \in Workers : v # w => verdict'[v] = verdict[v]
    BY <1>11 DEF Recheck, StartEncode
  <2>4. \A v \in Workers : at'[v] \in {"encode", "rename"} => cached'[Src(v)'] = "none"
    BY <2>1, <2>2
  <2>5. \A v \in Workers : at'[v] = "rename" => tmp'[Src(v)'] = "complete"
    <3> SUFFICES ASSUME NEW v \in Workers, at'[v] = "rename" PROVE tmp'[Src(v)'] = "complete"
      OBVIOUS
    <3>1. v # w /\ at[v] = "rename" /\ Src(v)' = Src(v)
      BY <2>1, <2>2
    <3>2. Src(v) # Src(w)
      BY <1>11, <3>1 DEF Recheck, LeadersFly
    <3>3. tmp'[Src(v)] = tmp[Src(v)]
      BY <1>11, <3>1, <3>2 DEF Recheck, StartEncode
    <3> QED
      BY <3>1, <3>3
  <2>6. \A v \in Workers :
          at'[v] \in {"leave", "mark"} /\ verdict'[v] = "ready" => cached'[Src(v)'] = "complete"
    <3>1. at'[w] = "leave" => cached[Src(w)] = "complete"
      <4>1. Src(w) \in Sources
        BY <1>11 DEF Recheck
      <4> QED
        BY <2>2, <4>1
    <3> QED
      BY <2>1, <2>2, <2>3, <3>1
  <2> QED
    BY <2>1, <2>4, <2>5, <2>6
<1>12. ASSUME NEW w \in Workers, Encoded(w) PROVE WholeFiles'
  BY <1>12 DEF Encoded, Go, LeadersFly
<1>13. ASSUME NEW w \in Workers, EncodeFails(w) PROVE WholeFiles'
  BY <1>13 DEF EncodeFails, Go, LeadersFly
<1>14. ASSUME NEW w \in Workers, Rename(w) PROVE WholeFiles'
  BY <1>14 DEF Rename, Go, LeadersFly
<1>15. ASSUME NEW w \in Workers, Leave(w) PROVE WholeFiles'
  BY <1>15 DEF Leave, Go, Followers, LeadersFly
<1>16. ASSUME NEW w \in Workers, Mark(w) PROVE WholeFiles'
  BY <1>16 DEF Mark, Go, MarkItem, LeadersFly
<1>17. ASSUME NEW w \in Workers, RemoveDownload(w) PROVE WholeFiles'
  BY <1>17 DEF RemoveDownload, Go, LeadersFly
<1>18. ASSUME NEW i \in Items, NEW s \in Sources, Prefetch(i, s) PROVE WholeFiles'
  BY <1>18 DEF Prefetch
<1>19. CASE Restart
  BY <1>19 DEF Restart
<1>20. CASE UNCHANGED vars
  BY <1>20 DEF vars
<1> QED
  BY <1>1, <1>2, <1>3, <1>4, <1>5, <1>6, <1>7, <1>8, <1>9, <1>10, <1>11, <1>12, <1>13,
     <1>14, <1>15, <1>16, <1>17, <1>18, <1>19, <1>20
     DEF Next, WorkerStep

LEMMA SoundInvariant == Spec => []Sound
<1>1. Sound /\ LeadersFly' /\ WholeFiles' /\ Typed' => Sound'
  BY DEF Sound
<1> QED
  BY SoundInit, TypedInvariant, FlightStep, FilesStep, <1>1, PTL DEF Spec

(* Two ffmpeg runs never write one .tmp file, though a worker decides that *)
(* it has to encode before it asks the singleflight group.                 *)
THEOREM NeverTwoEncoders == Spec => []OneEncoder
<1>1. Sound => OneEncoder
  BY DEF Sound, LeadersFly, OneEncoder, Src
<1> QED
  BY SoundInvariant, <1>1, PTL

(* An item is marked ready for a whole file, and that file stays whole,    *)
(* whatever else fails and however often the server is restarted.          *)
THEOREM ReadyMeansComplete == Spec => []ReadyIsComplete
<1>1. Sound => ReadyIsComplete
  BY DEF Sound, WholeFiles, ReadyIsComplete
<1> QED
  BY SoundInvariant, <1>1, PTL

(* A source is encoded into the cache once, however many queued items,     *)
(* workers and restarts there are.                                         *)
THEOREM OneEncodePerSource == Spec => []EncodedOnce
<1>1. Sound => EncodedOnce
  BY DEF Sound, WholeFiles, EncodedOnce
<1> QED
  BY SoundInvariant, <1>1, PTL

-----------------------------------------------------------------------------
(* A worker has marked its item when only the download is left to remove.  *)
Unmarked(w) == at[w] \notin {"idle", "remove"}

(* An item is in one place: in the channel, or with one worker; and the    *)
(* items there are the pending ones nobody has marked.                     *)
InOnePlace ==
    /\ \A i \in Items : prefetch[i] = "none" <=> source[i] = "none"
    /\ \A m, n \in DOMAIN jobs : jobs[m] = jobs[n] => m = n
    /\ \A n \in DOMAIN jobs : prefetch[jobs[n]] = "pending"
    /\ \A w \in Workers : Unmarked(w) => prefetch[job[w]] = "pending"
    /\ \A w \in Workers : at[w] = "mark" => verdict[w] \in {"ready", "failed"}
    /\ \A w \in Workers : at[w] = "leave" => verdict[w] \in {"ready", "failed"}
    /\ \A n \in DOMAIN jobs, w \in Workers : at[w] # "idle" => jobs[n] # job[w]
    /\ \A v, w \in Workers : at[v] # "idle" /\ at[w] # "idle" /\ job[v] = job[w] => v = w

Owned == Typed /\ InOnePlace

LEMMA OwnedInit == Init => Owned
<1>1. Init => InOnePlace
  BY PoolAssumption DEF PoolAssumption, Init, InOnePlace, Unmarked
<1> QED
  BY TypedInit, <1>1 DEF Owned

(* A worker's own step moves no item, and marks the one it has if any.     *)
LEMMA StepInPlace ==
    ASSUME Owned, NEW w \in Workers, at[w] # "idle", UNCHANGED <<source, jobs, job>>,
           \A v \in Workers : v # w => at'[v] = at[v] /\ verdict'[v] = verdict[v],
           at'[w] \in {"leave", "mark"} => verdict'[w] \in {"ready", "failed"},
           \/ prefetch' = prefetch /\ (Unmarked(w)' => Unmarked(w))
           \/ /\ Unmarked(w) /\ at'[w] \in {"idle", "remove"}
              /\ \E state \in {"ready", "failed", "live"} : MarkItem(w, state)
    PROVE  InOnePlace'
<1> USE DEF Owned, Typed, TypeOK, Working, InOnePlace
<1>1. \A m, n \in DOMAIN jobs' : jobs'[m] = jobs'[n] => m = n
  OBVIOUS
<1>2. \A v \in Workers : at'[v] \in {"leave", "mark"} => verdict'[v] \in {"ready", "failed"}
  OBVIOUS
<1>3. \A v \in Workers : at'[v] # "idle" => at[v] # "idle"
  OBVIOUS
<1>4. /\ \A n \in DOMAIN jobs', v \in Workers : at'[v] # "idle" => jobs'[n] # job'[v]
      /\ \A u, v \in Workers :
            at'[u] # "idle" /\ at'[v] # "idle" /\ job'[u] = job'[v] => u = v
  BY <1>3
<1>5. /\ \A i \in Items : prefetch'[i] = "none" <=> source'[i] = "none"
      /\ \A n \in DOMAIN jobs' : prefetch'[jobs'[n]] = "pending"
      /\ \A v \in Workers : Unmarked(v)' => prefetch'[job'[v]] = "pending"
  <2>1. CASE prefetch' = prefetch /\ (Unmarked(w)' => Unmarked(w))
    BY <2>1 DEF Unmarked
  <2>2. CASE /\ Unmarked(w) /\ at'[w] \in {"idle", "remove"}
             /\ \E state \in {"ready", "failed", "live"} : MarkItem(w, state)
    <3>1. \A n \in DOMAIN jobs : jobs[n] \in Items
      OBVIOUS
    <3>2. PICK state \in {"ready", "failed", "live"} : MarkItem(w, state)
      BY <2>2
    <3>3. \A i \in Items : prefetch'[i] = IF i = job[w] THEN state ELSE prefetch[i]
      BY <3>2 DEF MarkItem
    <3>4. \A i \in Items : prefetch'[i] = "none" <=> source'[i] = "none"
      BY <2>2, <3>3 DEF Unmarked
    <3>5. \A n \in DOMAIN jobs' : prefetch'[jobs'[n]] = "pending"
      BY <3>1, <3>3
    <3>6. ASSUME NEW v \in Workers, Unmarked(v)' PROVE prefetch'[job'[v]] = "pending"
      <4>1. v # w /\ Unmarked(v)
        BY <2>2, <3>6 DEF Unmarked
      <4>2. job[v] \in Items /\ job[v] # job[w] /\ prefetch[job[v]] = "pending"
        BY <4>1 DEF Unmarked
      <4> QED
        BY <3>3, <4>2
    <3> QED
      BY <3>4, <3>5, <3>6
  <2> QED
    BY <2>1, <2>2
<1> QED
  BY <1>1, <1>2, <1>4, <1>5

LEMMA OwnedStep == Owned /\ [Next]_vars => InOnePlace'
<1> SUFFICES ASSUME Owned, [Next]_vars PROVE InOnePlace'
  OBVIOUS
<1> USE PoolAssumption DEF PoolAssumption, Src
<1>1. ASSUME NEW w \in Workers, Take(w) PROVE InOnePlace'
  <2> USE DEF Owned, Typed, TypeOK, Working, InOnePlace, Unmarked, diskVars, boundVars
  <2>1. /\ jobs # <<>> /\ job' = [job EXCEPT ![w] = jobs[1]] /\ at' = [at EXCEPT ![w] = "resolve"]
        /\ prefetch' = prefetch /\ source' = source /\ verdict' = verdict
    BY <1>1 DEF Take, Go
  <2>2. \A n \in DOMAIN jobs' : n + 1 \in DOMAIN jobs /\ jobs'[n] = jobs[n + 1] /\ n + 1 # 1
    BY <1>1 DEF Take
  <2>3. 1 \in DOMAIN jobs
    BY <2>1
  <2>4. /\ job'[w] = jobs[1] /\ at'[w] = "resolve" /\ prefetch[jobs[1]] = "pending"
        /\ \A v \in Workers : v # w => job'[v] = job[v] /\ at'[v] = at[v]
    BY <2>1, <2>3
  <2>5. \A m, n \in DOMAIN jobs' : jobs'[m] = jobs'[n] => m = n
    <3> SUFFICES ASSUME NEW m \in DOMAIN jobs', NEW n \in DOMAIN jobs', jobs'[m] = jobs'[n]
                 PROVE  m = n
      OBVIOUS
    <3>1. m + 1 = n + 1
      BY <2>2
    <3>2. m \in Nat /\ n \in Nat
      BY <1>1 DEF Take
    <3> QED
      BY <3>1, <3>2
  <2>6. \A n \in DOMAIN jobs' : prefetch'[jobs'[n]] = "pending"
    BY <2>1, <2>2
  <2>7. \A n \in DOMAIN jobs', v \in Workers : at'[v] # "idle" => jobs'[n] # job'[v]
    <3> SUFFICES ASSUME NEW n \in DOMAIN jobs', NEW v \in Workers, at'[v] # "idle"
                 PROVE  jobs'[n] # job'[v]
      OBVIOUS
    <3>1. CASE v = w
      BY <2>2, <2>3, <2>4, <3>1
    <3>2. CASE v # w
      BY <2>2, <2>4, <3>2
    <3> QED
      BY <3>1, <3>2
  <2>8. \A u, v \in Workers :
          at'[u] # "idle" /\ at'[v] # "idle" /\ job'[u] = job'[v] => u = v
    BY <2>3, <2>4
  <2> QED
    BY <2>1, <2>4, <2>5, <2>6, <2>7, <2>8
<1>2. ASSUME NEW w \in Workers,
             \/ ResolveLocal(w) \/ OpensFinite(w) \/ Downloaded(w) \/ Stat(w) \/ Join(w)
             \/ Recheck(w) \/ Encoded(w) \/ EncodeFails(w) \/ Rename(w) \/ RemoveDownload(w)
      PROVE  InOnePlace'
  <2> USE DEF ResolveLocal, OpensFinite, Downloaded, Stat, Join, Recheck, StartEncode, Encoded,
          EncodeFails, Rename, RemoveDownload, Go
  <2>1. /\ at[w] # "idle" /\ UNCHANGED <<source, jobs, job, prefetch>>
        /\ Unmarked(w)' => Unmarked(w)
        /\ \A v \in Workers : v # w => at'[v] = at[v]
    BY <1>2 DEF Unmarked, Owned, Typed, TypeOK, diskVars, boundVars
  <2>2. /\ at'[w] \in {"leave", "mark"} => verdict'[w] \in {"ready", "failed"}
        /\ \A v \in Workers : v # w => verdict'[v] = verdict[v]
    BY <1>2 DEF Owned, Typed, TypeOK, diskVars, boundVars
  <2> QED
    BY <2>1, <2>2, StepInPlace
<1>3. ASSUME NEW w \in Workers, OpensLive(w) \/ ResolveFails(w) \/ DownloadFails(w)
      PROVE  InOnePlace'
  <2> USE DEF OpensLive, Relay, ResolveFails, DownloadFails, Go
  <2>1. /\ at[w] # "idle" /\ UNCHANGED <<source, jobs, job, verdict>> /\ Unmarked(w)
        /\ at'[w] = "idle" /\ \A v \in Workers : v # w => at'[v] = at[v]
    BY <1>3 DEF Unmarked, Owned, Typed, TypeOK
  <2>2. \E state \in {"ready", "failed", "live"} : MarkItem(w, state)
    BY <1>3
  <2> QED
    BY <2>1, <2>2, StepInPlace
<1>4. ASSUME NEW w \in Workers, ResolveUrl(w) PROVE InOnePlace'
  <2>1. /\ at[w] = "resolve" /\ UNCHANGED <<source, jobs, job, verdict>>
        /\ at'[w] \in {"idle", "open"} /\ \A v \in Workers : v # w => at'[v] = at[v]
    BY <1>4 DEF ResolveUrl, Go, Relay, Owned, Typed, TypeOK, boundVars, diskVars
  <2>2. \/ MarkItem(w, "live") /\ at'[w] = "idle"
        \/ prefetch' = prefetch
    BY <1>4 DEF ResolveUrl, Go, Relay, Owned, Typed, TypeOK, boundVars, diskVars
  <2>3. Unmarked(w)
    BY <2>1 DEF Unmarked
  <2>4. (at'[w] \in {"leave", "mark"} => verdict'[w] \in {"ready", "failed"}) /\ at[w] # "idle"
    BY <2>1
  <2> QED
    BY <2>1, <2>2, <2>3, <2>4, StepInPlace
<1>5. ASSUME NEW w \in Workers, Leave(w) PROVE InOnePlace'
  <2> USE DEF Owned, Typed, TypeOK, Working, InOnePlace, Unmarked, diskVars, boundVars
  <2>1. /\ at[w] = "leave" /\ UNCHANGED <<jobs, job, prefetch, source>>
        /\ verdict[w] \in {"ready", "failed"}
    BY <1>5 DEF Leave
  <2>2. \A v \in Workers :
          \/ v = w /\ at'[v] = "mark" /\ verdict'[v] = verdict[v]
          \/ at[v] = "wait" /\ at'[v] = "mark" /\ verdict'[v] = verdict[w]
          \/ v # w /\ at'[v] = at[v] /\ verdict'[v] = verdict[v]
    BY <1>5 DEF Leave, Followers
  <2>3. \A v \in Workers : at'[v] \in {"leave", "mark"} => verdict'[v] \in {"ready", "failed"}
    BY <2>1, <2>2
  <2>4. \A v \in Workers : (at'[v] # "idle" => at[v] # "idle") /\ (Unmarked(v)' => Unmarked(v))
    BY <2>1, <2>2
  <2> QED
    BY <2>1, <2>3, <2>4
<1>6. ASSUME NEW w \in Workers, Mark(w) PROVE InOnePlace'
  <2>1. /\ at[w] # "idle" /\ UNCHANGED <<source, jobs, job, verdict>> /\ Unmarked(w)
        /\ at'[w] \in {"idle", "remove"}
        /\ \A v \in Workers : v # w => at'[v] = at[v]
    BY <1>6 DEF Mark, Go, Unmarked, Owned, Typed, TypeOK, Working, InOnePlace,
           diskVars, boundVars
  <2>2. verdict[w] \in {"ready", "failed"} /\ MarkItem(w, verdict[w])
    BY <1>6 DEF Mark, Owned, InOnePlace
  <2>3. \E state \in {"ready", "failed", "live"} : MarkItem(w, state)
    BY <2>2
  <2> QED
    BY <2>1, <2>3, StepInPlace
<1>7. ASSUME NEW i \in Items, NEW s \in Sources, Prefetch(i, s) PROVE InOnePlace'
  <2> USE DEF Owned, Typed, TypeOK, Working, InOnePlace, Unmarked, diskVars, boundVars
  <2>1. /\ source[i] = "none" /\ prefetch[i] = "none"
        /\ source' = [source EXCEPT ![i] = s] /\ UNCHANGED <<at, job, verdict>>
    BY <1>7 DEF Prefetch
  <2>2. \A k \in Items : k # i => prefetch'[k] = prefetch[k] /\ source'[k] = source[k]
    BY <1>7 DEF Prefetch
  <2>3. prefetch'[i] \in {"pending", "failed"} /\ source'[i] \in Sources
    BY <1>7 DEF Prefetch
  <2>4. /\ \A n \in DOMAIN jobs : jobs[n] \in Items /\ jobs[n] # i
        /\ \A v \in Workers : at[v] # "idle" => job[v] \in Items /\ job[v] # i
    BY <2>1
  <2>5. /\ \A k \in Items : prefetch'[k] = "none" <=> source'[k] = "none"
        /\ \A v \in Workers : Unmarked(v)' => prefetch'[job'[v]] = "pending"
    BY <2>1, <2>2, <2>3, <2>4
  <2>6. CASE HasRoom
    <3>1. jobs' = Append(jobs, i) /\ prefetch'[i] = "pending"
      BY <1>7, <2>6 DEF Prefetch
    <3>2. \A n \in DOMAIN jobs' :
            \/ n \in DOMAIN jobs /\ jobs'[n] = jobs[n]
            \/ n = Len(jobs) + 1 /\ jobs'[n] = i
      BY <3>1
    <3>3. \A m, n \in DOMAIN jobs' : jobs'[m] = jobs'[n] => m = n
      BY <2>4, <3>2
    <3>4. \A n \in DOMAIN jobs' : prefetch'[jobs'[n]] = "pending"
      BY <2>2, <2>4, <3>1, <3>2
    <3>5. \A n \in DOMAIN jobs', v \in Workers : at'[v] # "idle" => jobs'[n] # job'[v]
      BY <2>1, <2>4, <3>2
    <3> QED
      BY <2>1, <2>5, <3>3, <3>4, <3>5
  <2>7. CASE ~HasRoom
    <3>1. jobs' = jobs
      BY <1>7, <2>7 DEF Prefetch
    <3> QED
      BY <2>1, <2>2, <2>4, <2>5, <3>1
  <2> QED
    BY <2>6, <2>7
<1>8. CASE Restart
  BY <1>8 DEF Restart, Owned, Typed, TypeOK, InOnePlace, Unmarked
<1>9. CASE UNCHANGED vars
  BY <1>9 DEF vars, Owned, InOnePlace, Unmarked
<1> QED
  BY <1>1, <1>2, <1>3, <1>4, <1>5, <1>6, <1>7, <1>8, <1>9 DEF Next, WorkerStep

LEMMA OwnedInvariant == Spec => []Owned
<1>1. Owned /\ [Next]_vars /\ Typed' => Owned'
  BY OwnedStep DEF Owned
<1> QED
  BY OwnedInit, TypedInvariant, <1>1, PTL DEF Spec

(* A download that some worker did not leave behind in a restart is in the *)
(* hands of the worker that will remove it.                                *)
THEOREM NoDownloadIsLeftBehind == Spec => []DownloadsInHand
<1>1. Init => DownloadsInHand
  BY DEF Init, DownloadsInHand
<1>2. Owned /\ DownloadsInHand /\ [Next]_vars => DownloadsInHand'
  <2> SUFFICES ASSUME Owned, DownloadsInHand, [Next]_vars PROVE DownloadsInHand'
    OBVIOUS
  <2>1. ASSUME NEW i \in Items, NEW s \in Sources, Prefetch(i, s) PROVE DownloadsInHand'
    BY <2>1 DEF Prefetch, DownloadsInHand
  <2>2. ASSUME NEW w \in Workers, Take(w) PROVE DownloadsInHand'
    <3>1. /\ at[w] = "idle" /\ UNCHANGED <<downloads, orphans>>
          /\ \A v \in Workers : v # w => at'[v] = at[v] /\ job'[v] = job[v]
      BY <2>2 DEF Take, Go, Owned, Typed, TypeOK
    <3> QED
      BY <3>1 DEF DownloadsInHand
  <2>3. ASSUME NEW w \in Workers, ResolveUrl(w) \/ OpensLive(w) \/ ResolveFails(w)
        PROVE  DownloadsInHand'
    <3>1. /\ at[w] \in {"resolve", "open"} /\ UNCHANGED <<downloads, orphans, job>>
          /\ \A v \in Workers : v # w => at'[v] = at[v]
      BY <2>3 DEF ResolveUrl, OpensLive, ResolveFails, Relay, Go, Owned, Typed, TypeOK
    <3> QED
      BY <3>1 DEF DownloadsInHand
  <2>4. ASSUME NEW w \in Workers, OpensFinite(w) PROVE DownloadsInHand'
    <3>1. /\ downloads' = downloads \union {job[w]} /\ UNCHANGED <<orphans, job>>
          /\ at'[w] = "download" /\ \A v \in Workers : v # w => at'[v] = at[v]
      BY <2>4 DEF OpensFinite, Go, Owned, Typed, TypeOK
    <3>2. at[w] = "open"
      BY <2>4 DEF OpensFinite
    <3> QED
      BY <3>1, <3>2 DEF DownloadsInHand
  <2>5. ASSUME NEW w \in Workers, DownloadFails(w) \/ RemoveDownload(w) PROVE DownloadsInHand'
    <3>1. /\ downloads' = downloads \ {job[w]} /\ UNCHANGED <<orphans, job>>
          /\ \A v \in Workers : v # w => at'[v] = at[v]
      BY <2>5 DEF DownloadFails, RemoveDownload, Go, Owned, Typed, TypeOK
    <3> QED
      BY <3>1 DEF DownloadsInHand
  <2>6. ASSUME NEW w \in Workers,
               \/ ResolveLocal(w) \/ Downloaded(w) \/ Stat(w) \/ Join(w) \/ Recheck(w)
               \/ Encoded(w) \/ EncodeFails(w) \/ Rename(w)
        PROVE  DownloadsInHand'
    <3>1. /\ UNCHANGED <<downloads, orphans, job>>
          /\ at'[w] \notin {"idle", "resolve", "open"}
          /\ \A v \in Workers : v # w => at'[v] = at[v]
      BY <2>6 DEF ResolveLocal, Downloaded, Stat, Join, Recheck, StartEncode, Encoded,
         EncodeFails, Rename, Go, Owned, Typed, TypeOK
    <3> QED
      BY <3>1 DEF DownloadsInHand
  <2>7. ASSUME NEW w \in Workers, Leave(w) PROVE DownloadsInHand'
    <3>1. /\ UNCHANGED <<downloads, orphans, job>>
          /\ \A v \in Workers : at'[v] = at[v] \/ at'[v] = "mark"
      BY <2>7 DEF Leave, Followers
    <3> QED
      BY <3>1 DEF DownloadsInHand
  <2>8. ASSUME NEW w \in Workers, Mark(w) PROVE DownloadsInHand'
    <3>1. /\ UNCHANGED <<downloads, orphans, job>>
          /\ at'[w] = IF job[w] \in downloads THEN "remove" ELSE "idle"
          /\ \A v \in Workers : v # w => at'[v] = at[v]
      BY <2>8 DEF Mark, Go, Owned, Typed, TypeOK
    <3> QED
      BY <3>1 DEF DownloadsInHand
  <2>9. CASE Restart
    BY <2>9 DEF Restart, DownloadsInHand
  <2>10. CASE UNCHANGED vars
    BY <2>10 DEF vars, DownloadsInHand
  <2> QED
    BY <2>1, <2>2, <2>3, <2>4, <2>5, <2>6, <2>7, <2>8, <2>9, <2>10 DEF Next, WorkerStep
<1> QED
  BY OwnedInvariant, <1>1, <1>2, PTL DEF Spec

-----------------------------------------------------------------------------
(* The pool implements what Station assumes of it: an item is marked when  *)
(* it was pending and never again, by whichever way its worker leaves      *)
(* process.  (That every item is marked in the end is left to TLC.)        *)
THEOREM ImplementsContract == Spec => Contract!Safety
<1>1. Init => Contract!Init
  BY DEF Init, Contract!Init
<1>2. Owned /\ [Next]_vars => [Contract!Next]_prefetch
  <2> SUFFICES ASSUME Owned, [Next]_vars PROVE [Contract!Next]_prefetch
    OBVIOUS
  <2>1. ASSUME NEW i \in Items, NEW s \in Sources, Prefetch(i, s) PROVE Contract!QueueItem(i)
    BY <2>1 DEF Prefetch, Contract!QueueItem, Owned, InOnePlace
  <2>2. ASSUME NEW w \in Workers, WorkerStep(w)
        PROVE  prefetch' = prefetch \/ Contract!MarkItem(job[w])
    <3>1. CASE OpensLive(w) \/ ResolveFails(w) \/ DownloadFails(w)
      <4>1. prefetch[job[w]] = "pending"
        BY <3>1 DEF OpensLive, ResolveFails, DownloadFails, Owned, InOnePlace, Unmarked
      <4> QED
        BY <3>1, <4>1 DEF OpensLive, Relay, ResolveFails, DownloadFails, MarkItem,
           Contract!MarkItem, Contract!Prefetched
    <3>2. CASE ResolveUrl(w)
      <4>1. prefetch[job[w]] = "pending"
        BY <3>2 DEF ResolveUrl, Owned, InOnePlace, Unmarked
      <4>2. prefetch' = prefetch \/ MarkItem(w, "live")
        BY <3>2 DEF ResolveUrl, Relay
      <4> QED
        BY <4>1, <4>2 DEF MarkItem, Contract!MarkItem, Contract!Prefetched
    <3>3. CASE Mark(w)
      <4>1. prefetch[job[w]] = "pending" /\ verdict[w] \in {"ready", "failed"}
        BY <3>3 DEF Mark, Owned, InOnePlace, Unmarked
      <4> QED
        BY <3>3, <4>1 DEF Mark, MarkItem, Contract!MarkItem, Contract!Prefetched
    <3>4. CASE \/ Take(w) \/ ResolveLocal(w) \/ OpensFinite(w) \/ Downloaded(w) \/ Stat(w)
               \/ Join(w) \/ Recheck(w) \/ Encoded(w) \/ EncodeFails(w) \/ Rename(w)
               \/ Leave(w) \/ RemoveDownload(w)
      BY <3>4 DEF Take, ResolveLocal, OpensFinite, Downloaded, Stat, Join, Recheck, Encoded,
         EncodeFails, Rename, Leave, RemoveDownload
    <3> QED
      BY <2>2, <3>1, <3>2, <3>3, <3>4 DEF WorkerStep
  <2>3. ASSUME NEW w \in Workers, WorkerStep(w) PROVE prefetch' = prefetch \/ job[w] \in Items
    <3>1. CASE at[w] = "idle"
      BY <2>3, <3>1 DEF WorkerStep, Take, ResolveLocal, ResolveUrl, OpensLive, OpensFinite,
         ResolveFails, Downloaded, DownloadFails, Stat, Join, Recheck, Encoded, EncodeFails,
         Rename, Leave, Mark, RemoveDownload
    <3>2. CASE at[w] # "idle"
      BY <3>2 DEF Owned, Typed, Working
    <3> QED
      BY <3>1, <3>2
  <2>4. CASE Restart
    BY <2>4 DEF Restart, Contract!LoseItems, Contract!Next
  <2>5. CASE UNCHANGED vars
    BY <2>5 DEF vars
  <2> QED
    BY <2>1, <2>2, <2>3, <2>4, <2>5 DEF Next, Contract!Next
<1> QED
  BY OwnedInvariant, <1>1, <1>2, PTL DEF Spec, Contract!Safety

-----------------------------------------------------------------------------
(* That every queued item is marked is a liveness property; these are the  *)
(* parts of it that fairness has no say in.  First, a pending item is in   *)
(* somebody's hands, and no worker waits for a call that nobody makes.     *)
Leading(w) == at[w] \in {"recheck", "encode", "rename", "leave"}

FlightsAreLed ==
    \A s \in Sources : flight[s] # NoWorker => Leading(flight[s]) /\ Src(flight[s]) = s

WaitersAreLed == \A w \in Workers : at[w] = "wait" => flight[Src(w)] # NoWorker

PendingIsHeld ==
    \A i \in Items : prefetch[i] = "pending" =>
        \/ \E n \in DOMAIN jobs : jobs[n] = i
        \/ \E w \in Workers : Unmarked(w) /\ job[w] = i

UnderWay == Sound /\ Owned /\ FlightsAreLed /\ WaitersAreLed

(* A worker's own step that only a leader takes to join or to stay in the  *)
(* call, and that a follower takes only behind a leader.                   *)
LEMMA StepInFlight ==
    ASSUME UnderWay, NEW w \in Workers, UNCHANGED <<source, job>>,
           \A v \in Workers : v # w => at'[v] = at[v],
           \/ /\ flight' = flight
              /\ Leading(w) => Leading(w)'
              /\ at'[w] = "wait" => flight[Src(w)] # NoWorker
           \/ /\ at[w] # "idle" /\ flight[Src(w)] = NoWorker
              /\ at'[w] = "recheck" /\ flight' = [flight EXCEPT ![Src(w)] = w]
    PROVE  FlightsAreLed' /\ WaitersAreLed'
<1> USE DEF FlightsAreLed, WaitersAreLed, Src
<1>0. /\ flight \in [Sources -> Workers \union {NoWorker}]
      /\ \A v \in Workers : at[v] # "idle" => Src(v) \in Sources
      /\ NoWorker \notin Workers
  BY PoolAssumption DEF PoolAssumption, UnderWay, Owned, Typed, TypeOK, Working
<1>1. CASE /\ flight' = flight
           /\ Leading(w) => Leading(w)'
           /\ at'[w] = "wait" => flight[Src(w)] # NoWorker
  BY <1>0, <1>1 DEF Leading, UnderWay
<1>2. CASE /\ at[w] # "idle" /\ flight[Src(w)] = NoWorker
           /\ at'[w] = "recheck" /\ flight' = [flight EXCEPT ![Src(w)] = w]
  <2>1. \A s \in Sources : flight'[s] = IF s = Src(w) THEN w ELSE flight[s]
    BY <1>0, <1>2
  <2>2. FlightsAreLed'
    BY <1>0, <1>2, <2>1 DEF Leading, UnderWay
  <2>3. WaitersAreLed'
    BY <1>0, <1>2, <2>1 DEF UnderWay
  <2> QED
    BY <2>2, <2>3
<1> QED
  BY <1>1, <1>2

LEMMA FlightsStep ==
    ASSUME UnderWay, [Next]_vars
    PROVE  FlightsAreLed' /\ WaitersAreLed'
<1>0. at \in [Workers -> Steps] /\ \A v \in Workers : at[v] # "idle" => Src(v) \in Sources
  BY DEF UnderWay, Owned, Typed, TypeOK, Working, Src
<1>1. ASSUME NEW w \in Workers, Take(w) PROVE FlightsAreLed' /\ WaitersAreLed'
  BY <1>1, PoolAssumption DEF Take, Go, PoolAssumption, UnderWay, Owned, Typed, TypeOK, Working,
     Leading, FlightsAreLed, WaitersAreLed, Src
<1>2. ASSUME NEW w \in Workers,
             \/ ResolveLocal(w) \/ ResolveUrl(w) \/ OpensLive(w) \/ OpensFinite(w)
             \/ ResolveFails(w) \/ Downloaded(w) \/ DownloadFails(w) \/ Stat(w) \/ Mark(w)
             \/ RemoveDownload(w)
      PROVE  FlightsAreLed' /\ WaitersAreLed'
  <2>1. /\ UNCHANGED <<source, job, flight>> /\ ~Leading(w) /\ at'[w] # "wait"
        /\ \A v \in Workers : v # w => at'[v] = at[v]
    BY <1>0, <1>2 DEF ResolveLocal, ResolveUrl, OpensLive, OpensFinite, ResolveFails, Downloaded,
       DownloadFails, Stat, Mark, RemoveDownload, Relay, Go, Leading
  <2> QED
    BY <2>1, StepInFlight
<1>3. ASSUME NEW w \in Workers, Recheck(w) \/ Encoded(w) \/ EncodeFails(w) \/ Rename(w)
      PROVE  FlightsAreLed' /\ WaitersAreLed'
  <2>1. /\ UNCHANGED <<source, job, flight>> /\ Leading(w)' /\ at'[w] # "wait"
        /\ \A v \in Workers : v # w => at'[v] = at[v]
    BY <1>0, <1>3 DEF Recheck, StartEncode, Encoded, EncodeFails, Rename, Go, Leading
  <2> QED
    BY <2>1, StepInFlight
<1>4. ASSUME NEW w \in Workers, Join(w) PROVE FlightsAreLed' /\ WaitersAreLed'
  <2>1. UNCHANGED <<source, job>> /\ at[w] = "join" /\ \A v \in Workers : v # w => at'[v] = at[v]
    BY <1>0, <1>4 DEF Join, Go
  <2>2. CASE Leads(w)
    <3>1. at'[w] = "recheck" /\ flight' = [flight EXCEPT ![Src(w)] = w]
      BY <1>0, <1>4, <2>2 DEF Join, Go
    <3> QED
      BY <2>1, <2>2, <3>1, StepInFlight DEF Leads
  <2>3. CASE ~Leads(w)
    <3>1. flight' = flight
      BY <1>4, <2>3 DEF Join
    <3> QED
      BY <2>1, <2>3, <3>1, StepInFlight DEF Leads, Leading
  <2> QED
    BY <2>2, <2>3
<1>5. ASSUME NEW w \in Workers, Leave(w) PROVE FlightsAreLed' /\ WaitersAreLed'
  BY <1>5, PoolAssumption DEF Leave, Followers, PoolAssumption, UnderWay, Owned, Typed, TypeOK,
     Working, Leading, FlightsAreLed, WaitersAreLed, Src
<1>6. ASSUME NEW i \in Items, NEW s \in Sources, Prefetch(i, s)
      PROVE  FlightsAreLed' /\ WaitersAreLed'
  <2>1. UNCHANGED <<at, job, flight>> /\ source[i] = "none"
    BY <1>6 DEF Prefetch
  <2>2. \A k \in Items : k # i => source'[k] = source[k]
    BY <1>6 DEF Prefetch, UnderWay, Owned, Typed, TypeOK
  <2>3. \A w \in Workers : at[w] # "idle" => Src(w)' = Src(w)
    BY <2>1, <2>2, PoolAssumption DEF PoolAssumption, UnderWay, Owned, Typed, Working, Src
  <2>4. FlightsAreLed'
    <3>1. \A t \in Sources : flight[t] # NoWorker => flight[t] \in Workers
      BY DEF UnderWay, Owned, Typed, TypeOK
    <3> QED
      BY <2>1, <2>3, <3>1 DEF UnderWay, Leading, FlightsAreLed
  <2>5. WaitersAreLed'
    BY <2>1, <2>3 DEF UnderWay, WaitersAreLed
  <2> QED
    BY <2>4, <2>5
<1>7. CASE Restart
  BY <1>7 DEF Restart, FlightsAreLed, WaitersAreLed
<1>8. CASE UNCHANGED vars
  BY <1>8 DEF vars, UnderWay, FlightsAreLed, WaitersAreLed, Leading, Src
<1> QED
  BY <1>1, <1>2, <1>3, <1>4, <1>5, <1>6, <1>7, <1>8 DEF Next, WorkerStep

(* A worker's own step that leaves the items where they are, and drops its *)
(* own only when it has marked it.                                         *)
LEMMA StepHolds ==
    ASSUME PendingIsHeld, NEW w \in Workers, UNCHANGED <<jobs, job>>,
           \A v \in Workers \ {w} : Unmarked(v) => Unmarked(v)',
           \A i \in Items : prefetch'[i] = "pending" => prefetch[i] = "pending",
           Unmarked(w) => Unmarked(w)' \/ prefetch'[job[w]] # "pending"
    PROVE  PendingIsHeld'
<1> SUFFICES ASSUME NEW i \in Items, prefetch'[i] = "pending"
             PROVE  \/ \E n \in DOMAIN jobs' : jobs'[n] = i
                    \/ \E v \in Workers : Unmarked(v)' /\ job'[v] = i
  BY DEF PendingIsHeld
<1>1. CASE \E n \in DOMAIN jobs : jobs[n] = i
  BY <1>1
<1>2. CASE \E v \in Workers : Unmarked(v) /\ job[v] = i
  <2>1. PICK v \in Workers : Unmarked(v) /\ job[v] = i
    BY <1>2
  <2>2. Unmarked(v)'
    BY <2>1
  <2> QED
    BY <2>1, <2>2
<1> QED
  BY <1>1, <1>2 DEF PendingIsHeld

LEMMA HeldStep ==
    ASSUME Owned, PendingIsHeld, [Next]_vars
    PROVE  PendingIsHeld'
<1>0. /\ at \in [Workers -> Steps] /\ jobs \in Seq(Items)
      /\ prefetch \in [Items -> {"none", "pending", "ready", "failed", "live", "lost"}]
      /\ \A v \in Workers : at[v] # "idle" => job[v] \in Items
  BY DEF Owned, Typed, TypeOK, Working
<1>1. ASSUME NEW w \in Workers, Take(w) PROVE PendingIsHeld'
  <2>1. /\ jobs # <<>> /\ at[w] = "idle" /\ prefetch' = prefetch
        /\ at'[w] = "resolve" /\ job'[w] = Head(jobs) /\ jobs' = Tail(jobs)
        /\ \A v \in Workers : v # w => at'[v] = at[v] /\ job'[v] = job[v]
    BY <1>0, <1>1 DEF Take, Go, Owned, Typed, TypeOK
  <2> SUFFICES ASSUME NEW i \in Items, prefetch'[i] = "pending"
               PROVE  \/ \E n \in DOMAIN jobs' : jobs'[n] = i
                      \/ \E v \in Workers : Unmarked(v)' /\ job'[v] = i
    BY DEF PendingIsHeld
  <2>2. CASE \E v \in Workers : Unmarked(v) /\ job[v] = i
    BY <2>1, <2>2 DEF Unmarked
  <2>3. CASE \E n \in DOMAIN jobs : jobs[n] = i
    <3>1. PICK n \in 1..Len(jobs) : jobs[n] = i
      BY <1>0, <2>3
    <3>2. CASE n = 1
      BY <1>0, <2>1, <3>1, <3>2 DEF Unmarked
    <3>3. CASE n # 1
      <4>1. n - 1 \in DOMAIN jobs' /\ jobs'[n - 1] = i
        BY <1>0, <2>1, <3>1, <3>3
      <4> QED
        BY <4>1
    <3> QED
      BY <3>2, <3>3
  <2> QED
    BY <2>1, <2>2, <2>3 DEF PendingIsHeld
<1>2. ASSUME NEW w \in Workers,
             \/ ResolveLocal(w) \/ OpensFinite(w) \/ Downloaded(w) \/ Stat(w) \/ Join(w)
             \/ Recheck(w) \/ Encoded(w) \/ EncodeFails(w) \/ Rename(w)
      PROVE  PendingIsHeld'
  <2>1. /\ UNCHANGED <<jobs, job, prefetch>> /\ Unmarked(w)'
        /\ \A v \in Workers : v # w => at'[v] = at[v]
    BY <1>0, <1>2 DEF ResolveLocal, OpensFinite, Downloaded, Stat, Join, Recheck, StartEncode,
       Encoded, EncodeFails, Rename, Go, Unmarked
  <2> QED
    BY <2>1, StepHolds DEF Unmarked
<1>3. ASSUME NEW w \in Workers, OpensLive(w) \/ ResolveFails(w) \/ DownloadFails(w) \/ Mark(w)
      PROVE  PendingIsHeld'
  <2>1. /\ UNCHANGED <<jobs, job>> /\ at[w] # "idle" /\ ~Unmarked(w)'
        /\ \A v \in Workers : v # w => at'[v] = at[v]
    BY <1>0, <1>3 DEF OpensLive, Relay, ResolveFails, DownloadFails, Mark, Go, Unmarked
  <2>2. \E state \in {"ready", "failed", "live"} : MarkItem(w, state)
    BY <1>3 DEF OpensLive, Relay, ResolveFails, DownloadFails, Mark, Owned, InOnePlace
  <2>3. prefetch'[job[w]] # "pending" /\ \A i \in Items : i # job[w] => prefetch'[i] = prefetch[i]
    BY <1>0, <2>1, <2>2 DEF MarkItem
  <2> QED
    BY <2>1, <2>3, StepHolds DEF Unmarked
<1>4. ASSUME NEW w \in Workers, ResolveUrl(w) PROVE PendingIsHeld'
  <2>1. /\ UNCHANGED <<jobs, job>> /\ at[w] # "idle"
        /\ \A v \in Workers : v # w => at'[v] = at[v]
    BY <1>0, <1>4 DEF ResolveUrl, Relay, Go
  <2>2. \/ MarkItem(w, "live") /\ at'[w] = "idle"
        \/ prefetch' = prefetch /\ at'[w] = "open"
    BY <1>0, <1>4 DEF ResolveUrl, Relay, Go
  <2>3. CASE MarkItem(w, "live") /\ at'[w] = "idle"
    <3>1. prefetch'[job[w]] # "pending" /\ \A i \in Items : i # job[w] => prefetch'[i] = prefetch[i]
      BY <1>0, <2>1, <2>3 DEF MarkItem
    <3> QED
      BY <2>1, <2>3, <3>1, StepHolds DEF Unmarked
  <2>4. CASE prefetch' = prefetch /\ at'[w] = "open"
    BY <2>1, <2>4, StepHolds DEF Unmarked
  <2> QED
    BY <2>2, <2>3, <2>4
<1>5. ASSUME NEW w \in Workers, Leave(w) PROVE PendingIsHeld'
  <2>1. /\ UNCHANGED <<jobs, job, prefetch>>
        /\ \A v \in Workers : at'[v] = at[v] \/ at'[v] = "mark"
    BY <1>5 DEF Leave, Followers
  <2> QED
    BY <2>1 DEF Unmarked, PendingIsHeld
<1>6. ASSUME NEW w \in Workers, RemoveDownload(w) PROVE PendingIsHeld'
  <2>1. /\ UNCHANGED <<jobs, job, prefetch>> /\ ~Unmarked(w)
        /\ \A v \in Workers : v # w => at'[v] = at[v]
    BY <1>0, <1>6 DEF RemoveDownload, Go, Unmarked
  <2> QED
    BY <2>1, StepHolds DEF Unmarked
<1>7. ASSUME NEW i \in Items, NEW s \in Sources, Prefetch(i, s) PROVE PendingIsHeld'
  <2>1. /\ UNCHANGED <<at, job>>
        /\ \A k \in Items : k # i => prefetch'[k] = prefetch[k]
    BY <1>0, <1>7 DEF Prefetch
  <2>2. /\ prefetch'[i] = "pending" => \E n \in DOMAIN jobs' : jobs'[n] = i
        /\ \A n \in DOMAIN jobs : n \in DOMAIN jobs' /\ jobs'[n] = jobs[n]
    <3>1. CASE HasRoom
      <4>1. jobs' = Append(jobs, i)
        BY <1>7, <3>1 DEF Prefetch
      <4>2. Len(jobs) + 1 \in DOMAIN jobs' /\ jobs'[Len(jobs) + 1] = i
        BY <1>0, <4>1
      <4>3. \A n \in DOMAIN jobs : n \in DOMAIN jobs' /\ jobs'[n] = jobs[n]
        BY <1>0, <4>1
      <4> QED
        BY <4>2, <4>3
    <3>2. CASE ~HasRoom
      BY <1>0, <1>7, <3>2 DEF Prefetch
    <3> QED
      BY <3>1, <3>2
  <2> QED
    BY <2>1, <2>2 DEF PendingIsHeld, Unmarked
<1>8. CASE Restart
  BY <1>0, <1>8 DEF Restart, PendingIsHeld
<1>9. CASE UNCHANGED vars
  BY <1>9 DEF vars, PendingIsHeld, Unmarked
<1> QED
  BY <1>1, <1>2, <1>3, <1>4, <1>5, <1>6, <1>7, <1>8, <1>9 DEF Next, WorkerStep

LEMMA UnderWayInvariant == Spec => [](UnderWay /\ PendingIsHeld)
<1>1. Init => FlightsAreLed /\ WaitersAreLed /\ PendingIsHeld
  BY DEF Init, FlightsAreLed, WaitersAreLed, PendingIsHeld
<1>2. UnderWay /\ PendingIsHeld /\ [Next]_vars => FlightsAreLed' /\ WaitersAreLed' /\ PendingIsHeld'
  BY FlightsStep, HeldStep DEF UnderWay
<1>3. UnderWay <=> Sound /\ Owned /\ FlightsAreLed /\ WaitersAreLed
  BY DEF UnderWay
<1> QED
  BY <1>1, <1>2, <1>3, SoundInvariant, OwnedInvariant, PTL DEF Spec

(* An item that is not marked yet is in the channel or with a worker, and  *)
(* that worker is at work itself or waits for one that encodes the same    *)
(* source: none is forgotten, and no two wait for each other               *)
(* (job.go:39-112, cache.go:44-82).                                        *)
THEOREM PendingIsUnderWay ==
    Spec => [](\A i \in Items : prefetch[i] = "pending" =>
                  \/ \E n \in DOMAIN jobs : jobs[n] = i
                  \/ \E w \in Workers :
                        /\ Unmarked(w) /\ job[w] = i
                        /\ at[w] = "wait" => \E v \in Workers : Leading(v) /\ Src(v) = Src(w))
<1> DEFINE Held(i) ==
             \/ \E n \in DOMAIN jobs : jobs[n] = i
             \/ \E w \in Workers :
                   /\ Unmarked(w) /\ job[w] = i
                   /\ at[w] = "wait" => \E v \in Workers : Leading(v) /\ Src(v) = Src(w)
<1>1. ASSUME UnderWay, PendingIsHeld, NEW i \in Items, prefetch[i] = "pending"
      PROVE  Held(i)
  <2>1. \A w \in Workers : at[w] = "wait" => \E v \in Workers : Leading(v) /\ Src(v) = Src(w)
    <3> SUFFICES ASSUME NEW w \in Workers, at[w] = "wait"
                 PROVE  \E v \in Workers : Leading(v) /\ Src(v) = Src(w)
      OBVIOUS
    <3>1. Src(w) \in Sources
      BY <1>1 DEF UnderWay, Owned, Typed, Working
    <3>2. flight[Src(w)] # NoWorker
      BY <1>1 DEF UnderWay, WaitersAreLed
    <3>3. flight[Src(w)] \in Workers
      BY <1>1, <3>1, <3>2 DEF UnderWay, Owned, Typed, TypeOK
    <3> QED
      BY <1>1, <3>1, <3>2, <3>3 DEF UnderWay, FlightsAreLed
  <2> QED
    BY <1>1, <2>1 DEF PendingIsHeld
<1>2. UnderWay /\ PendingIsHeld => \A i \in Items : prefetch[i] = "pending" => Held(i)
  BY <1>1
<1> QED
  BY <1>2, UnderWayInvariant, PTL

-----------------------------------------------------------------------------
(* Then how far a worker is from being idle again.                         *)
Stage(step) ==
    CASE step = "resolve" -> 11
      [] step = "open" -> 10
      [] step = "download" -> 9
      [] step = "stat" -> 8
      [] step = "join" -> 7
      [] step \in {"wait", "recheck"} -> 6
      [] step = "encode" -> 5
      [] step = "rename" -> 4
      [] step = "leave" -> 3
      [] step = "mark" -> 2
      [] step = "remove" -> 1
      [] OTHER -> 0

(* process never goes back a step: no lookup, download or encode that      *)
(* fails, and nothing another worker does, makes a worker start its item   *)
(* again, so that it is free after at most eleven steps (job.go:39-80).    *)
THEOREM WorkersGoForward ==
    Spec => [][\A w \in Workers : at[w] # "idle" =>
                  at'[w] = at[w] \/ Stage(at'[w]) < Stage(at[w])]_vars
<1> DEFINE Forward(w) == at[w] # "idle" => at'[w] = at[w] \/ Stage(at'[w]) < Stage(at[w])
<1>1. ASSUME Typed, NEW w \in Workers, WorkerStep(w), NEW v \in Workers, v # w
      PROVE  at'[v] = at[v] \/ (at[v] = "wait" /\ at'[v] = "mark")
  BY <1>1 DEF Typed, TypeOK, WorkerStep, Take, ResolveLocal, ResolveUrl, Relay, OpensLive, OpensFinite,
     ResolveFails, Downloaded, DownloadFails, Stat, Join, Recheck, StartEncode, Encoded,
     EncodeFails, Rename, Leave, Followers, Mark, RemoveDownload, Go
<1>2. ASSUME Typed, NEW w \in Workers, WorkerStep(w)
      PROVE  \/ at[w] = "idle"
             \/ at[w] = "resolve" /\ at'[w] \in {"stat", "open", "idle"}
             \/ at[w] = "open" /\ at'[w] \in {"download", "idle"}
             \/ at[w] = "download" /\ at'[w] \in {"stat", "idle"}
             \/ at[w] = "stat" /\ at'[w] \in {"join", "mark"}
             \/ at[w] = "join" /\ at'[w] \in {"recheck", "wait"}
             \/ at[w] = "recheck" /\ at'[w] \in {"encode", "leave"}
             \/ at[w] = "encode" /\ at'[w] \in {"rename", "leave"}
             \/ at[w] = "rename" /\ at'[w] = "leave"
             \/ at[w] = "leave" /\ at'[w] = "mark"
             \/ at[w] = "mark" /\ at'[w] \in {"remove", "idle"}
             \/ at[w] = "remove" /\ at'[w] = "idle"
  BY <1>2 DEF Typed, TypeOK, WorkerStep, Take, ResolveLocal, ResolveUrl, Relay, OpensLive, OpensFinite,
     ResolveFails, Downloaded, DownloadFails, Stat, Join, Recheck, StartEncode, Encoded,
     EncodeFails, Rename, Leave, Followers, Mark, RemoveDownload, Go
<1>3. Typed /\ [Next]_vars => \A w \in Workers : Forward(w)
  <2> SUFFICES ASSUME Typed, [Next]_vars, NEW v \in Workers PROVE Forward(v)
    OBVIOUS
  <2>1. ASSUME NEW w \in Workers, WorkerStep(w) PROVE Forward(v)
    <3>1. CASE v = w
      BY <1>2, <2>1, <3>1 DEF Stage
    <3>2. CASE v # w
      BY <1>1, <2>1, <3>2 DEF Stage
    <3> QED
      BY <3>1, <3>2
  <2>2. ASSUME NEW i \in Items, NEW s \in Sources, Prefetch(i, s) PROVE Forward(v)
    BY <2>2 DEF Prefetch
  <2>3. CASE Restart
    <3>1. at'[v] = "idle" /\ at[v] \in Steps
      BY <2>3 DEF Restart, Typed, TypeOK
    <3> QED
      BY <3>1 DEF Steps, Stage
  <2>4. CASE UNCHANGED vars
    BY <2>4 DEF vars
  <2> QED
    BY <2>1, <2>2, <2>3, <2>4 DEF Next
<1> QED
  BY <1>3, TypedInvariant, PTL DEF Spec
=============================================================================
