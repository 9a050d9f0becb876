-------------------------------- MODULE Ota --------------------------------
(***************************************************************************)
(* The update manifest of src/app/routers/update.py: a bucket that says    *)
(* which version to install, a cache in memory, and the one row of         *)
(* ota_state that shall keep an older manifest from being served again.    *)
(*                                                                         *)
(* Requests run concurrently and switch at the awaits of                   *)
(* _current_manifest: the download, and each database statement.  A bucket *)
(* is configured (without one there is no guard); versions are numbers     *)
(* from 1, and 0 stands for a manifest or a row that is not there.         *)
(***************************************************************************)
EXTENDS Naturals

CONSTANTS
    Request,        \* requests that may be under way at once
    LastVersion     \* bound: versions go from 1 to LastVersion

ASSUME OtaConstants == LastVersion \in Nat \ {0}

VARIABLES
    bucket,         \* the version that latest.json names now
    maxSeen,        \* ota_state.max_seen_version; 0: no row
    cache, fresh,   \* the cached manifest, and whether its TTL still runs
    lastGood,       \* the last manifest that passed the guard
    pc,             \* the await that a request is at
    got,            \* the manifest it downloaded
    loaded,         \* max_seen_version as it loaded it
    answer,         \* history: the last answer given
    top,            \* history: the highest version of the bucket served so far
    lapsed,         \* history: requests past the guard whose verdict is out of date
    clean           \* history: no such request has acted, or that is repaired

process == <<cache, fresh, lastGood>>
requests == <<pc, got, loaded>>
verdicts == <<lapsed, clean>>
vars == <<bucket, maxSeen, process, requests, answer, top, verdicts>>

Version == 1 .. LastVersion
Manifest == 0 .. LastVersion

\* "apk": a manifest of the bucket; "env": the configured fallback; "closed":
\* the recorded maximum without anything to download; "error": a 500.
Answer == {"apk", "env", "closed", "error"} \X Manifest

TypeOK ==
    /\ bucket \in Version
    /\ maxSeen \in Manifest /\ cache \in Manifest /\ lastGood \in Manifest
    /\ fresh \in BOOLEAN
    /\ pc \in [Request -> {"idle", "fetch", "load", "insert", "commit", "publish"}]
    /\ got \in [Request -> Manifest]
    /\ loaded \in [Request -> Manifest]
    /\ answer \in Answer
    /\ top \in Manifest
    /\ lapsed \subseteq Request
    /\ clean \in BOOLEAN

Init ==
    /\ bucket \in Version
    /\ maxSeen = 0
    /\ cache = 0 /\ fresh = FALSE /\ lastGood = 0
    /\ pc = [r \in Request |-> "idle"]
    /\ got = [r \in Request |-> 0]
    /\ loaded = [r \in Request |-> 0]
    /\ answer = <<"env", 0>>
    /\ top = 0
    /\ lapsed = {} /\ clean = TRUE

Goto(r, l) == pc' = [pc EXCEPT ![r] = l]

\* A request is answered with a manifest of the bucket ...
Serve(r, v) ==
    /\ Goto(r, "idle")
    /\ answer' = <<"apk", v>>
    /\ top' = IF v > top THEN v ELSE top

\* ... or with something else.
Reply(r, kind, v) ==
    /\ Goto(r, "idle")
    /\ answer' = <<kind, v>>
    /\ UNCHANGED top

-----------------------------------------------------------------------------
(* A request.                                                              *)

CacheHit(r) ==
    /\ pc[r] = "idle" /\ cache # 0 /\ fresh
    /\ Serve(r, cache)
    /\ UNCHANGED <<bucket, maxSeen, process, got, loaded, verdicts>>

CacheMiss(r) ==
    /\ pc[r] = "idle" /\ (cache = 0 \/ ~fresh)
    /\ Goto(r, "fetch")
    /\ UNCHANGED <<bucket, maxSeen, process, got, loaded, answer, top, verdicts>>

Fetched(r) ==
    /\ pc[r] = "fetch"
    /\ got' = [got EXCEPT ![r] = bucket]
    /\ Goto(r, "load")
    /\ UNCHANGED <<bucket, maxSeen, process, loaded, answer, top, verdicts>>

\* An outage or a malformed document: the old cache, else the environment.
FetchFails(r) ==
    /\ pc[r] = "fetch"
    /\ IF cache # 0 THEN Serve(r, cache) ELSE Reply(r, "env", 0)
    /\ UNCHANGED <<bucket, maxSeen, process, got, loaded, verdicts>>

\* Mutant: whatever the row says, the manifest passes.
GuardOff(r) ==
    /\ pc[r] = "load" /\ maxSeen # 0
    /\ loaded' = [loaded EXCEPT ![r] = maxSeen]
    /\ Goto(r, "commit")
    /\ UNCHANGED <<bucket, maxSeen, process, got, answer, top, verdicts>>

\* The row is loaded and the manifest passes the guard ...
GuardPasses(r) ==
    /\ pc[r] = "load" /\ maxSeen # 0
    /\ got[r] >= maxSeen
    /\ loaded' = [loaded EXCEPT ![r] = maxSeen]
    /\ Goto(r, "commit")
    /\ UNCHANGED <<bucket, maxSeen, process, got, answer, top, verdicts>>

\* ... or it is older: fail closed.
GuardTrips(r) ==
    /\ pc[r] = "load" /\ maxSeen # 0
    /\ got[r] < maxSeen
    /\ IF lastGood # 0 THEN Serve(r, lastGood) ELSE Reply(r, "closed", maxSeen)
    /\ UNCHANGED <<bucket, maxSeen, process, got, loaded, verdicts>>

\* The very first manifest becomes the row.
NoRow(r) ==
    /\ pc[r] = "load" /\ maxSeen = 0
    /\ Goto(r, "insert")
    /\ UNCHANGED <<bucket, maxSeen, process, got, loaded, answer, top, verdicts>>

\* Mutant: the row records the next version that is acceptable.
InsertNext(r) ==
    /\ pc[r] = "insert" /\ maxSeen = 0
    /\ maxSeen' = got[r] + 1
    /\ loaded' = [loaded EXCEPT ![r] = got[r]]
    /\ Goto(r, "commit")
    /\ UNCHANGED <<bucket, process, got, answer, top, verdicts>>

InsertMax(r) ==
    /\ pc[r] = "insert" /\ maxSeen = 0
    /\ maxSeen' = got[r]
    /\ loaded' = [loaded EXCEPT ![r] = got[r]]
    /\ Goto(r, "commit")
    /\ UNCHANGED <<bucket, process, got, answer, top, verdicts>>

\* Another request inserted it first: IntegrityError.
InsertClash(r) ==
    /\ pc[r] = "insert" /\ maxSeen # 0
    /\ Reply(r, "error", 0)
    /\ UNCHANGED <<bucket, maxSeen, process, got, loaded, verdicts>>

\* Mutant: the row is not written back.
CommitNothing(r) ==
    /\ pc[r] = "commit"
    /\ Goto(r, "publish")
    /\ UNCHANGED <<bucket, maxSeen, process, got, loaded, answer, top, verdicts>>

\* The requests past the guard that would not pass it any more, or that counted
\* on a maximum which is lowered again.
Overtaken(r) == {q \in Request \ {r} :
    /\ pc[q] \in {"commit", "publish"}
    /\ got[q] < maxSeen' \/ maxSeen' < maxSeen}

\* The ORM writes the column if its value differs from the loaded one.
CommitMax(r) ==
    /\ pc[r] = "commit"
    /\ maxSeen' = IF got[r] # loaded[r] THEN got[r] ELSE maxSeen
    /\ Goto(r, "publish")
    /\ lapsed' = lapsed \cup Overtaken(r)
    /\ clean' = (clean /\ r \notin lapsed)
    /\ UNCHANGED <<bucket, process, got, loaded, answer, top>>

Publish(r) ==
    /\ pc[r] = "publish"
    /\ lastGood' = got[r]
    /\ cache' = got[r] /\ fresh' = TRUE
    /\ Serve(r, got[r])
    /\ lapsed' = lapsed \ {r}
    /\ clean' = (r \notin lapsed /\ (clean \/ got[r] >= top))
    /\ UNCHANGED <<bucket, maxSeen, got, loaded>>

-----------------------------------------------------------------------------
(* The surroundings.                                                       *)

\* The TTL of the cache ends.
Expire ==
    /\ fresh
    /\ fresh' = FALSE
    /\ UNCHANGED <<bucket, maxSeen, cache, lastGood, requests, answer, top, verdicts>>

\* A release is uploaded, or the bucket is rolled back.
SetBucket(v) ==
    /\ v # bucket
    /\ bucket' = v
    /\ UNCHANGED <<maxSeen, process, requests, answer, top, verdicts>>

\* The process dies and starts again; the row is what is left.
Restart ==
    /\ cache' = 0 /\ fresh' = FALSE /\ lastGood' = 0
    /\ pc' = [r \in Request |-> "idle"]
    /\ got' = [r \in Request |-> 0]
    /\ loaded' = [r \in Request |-> 0]
    /\ lapsed' = {}
    /\ UNCHANGED <<bucket, maxSeen, answer, top, clean>>

Handle(r) ==
    \/ CacheHit(r) \/ CacheMiss(r) \/ Fetched(r) \/ FetchFails(r)
    \/ GuardPasses(r) \/ GuardTrips(r) \/ NoRow(r)
    \/ InsertMax(r) \/ InsertClash(r) \/ CommitMax(r) \/ Publish(r)

Next ==
    \/ \E r \in Request : Handle(r)
    \/ Expire
    \/ \E v \in Version : SetBucket(v)
    \/ Restart

Spec == Init /\ [][Next]_vars

-----------------------------------------------------------------------------
(* Properties.                                                             *)

\* "highest manifest version ever served" (models.py:133): the row is at least
\* every version of the bucket that was ever served.  An upload between the
\* downloads of two requests lets the slower one, which passed the guard before the
\* newer version was recorded, write its own over it; the next request that nobody
\* overtakes and that serves no older version repairs that, over restarts too.
RecordedIsHighest == clean => top <= maxSeen

\* "fails closed on rollback" (update.py:9): no answer names an older version of
\* the bucket than one served before, across caches, outages, restarts, uploads
\* and roll-backs at any moment; with the same exception, and repaired by the same.
NoDowngrade == clean /\ answer[1] = "apk" => answer[2] = top
=============================================================================
