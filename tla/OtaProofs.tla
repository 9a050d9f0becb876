----------------------------- MODULE OtaProofs -----------------------------
(***************************************************************************)
(* The guard against older manifests, for any number of overlapping        *)
(* requests and versions, and a bucket that changes at any moment: it      *)
(* holds until an overtaken request acts, and again once that is repaired. *)
(***************************************************************************)
EXTENDS Ota, TLAPS

USE OtaConstants

\* Whoever passed the guard and was not overtaken knows the row: it was raised to
\* its own manifest at most, and is that one once the request has written.
Knows(r) ==
    /\ pc[r] = "commit" => loaded[r] <= maxSeen /\ maxSeen <= got[r]
    /\ pc[r] = "publish" => maxSeen = got[r]

Flight == \A r \in Request :
    /\ pc[r] \in {"load", "insert", "commit", "publish"} => got[r] # 0
    /\ pc[r] \in {"commit", "publish"} => maxSeen # 0
    /\ r \notin lapsed => Knows(r)

\* What the process remembers is the highest manifest that it served.
Remembered == clean => cache \in {0, top} /\ lastGood \in {0, top}

IInv == TypeOK /\ Flight /\ Remembered /\ RecordedIsHighest /\ NoDowngrade

\* A fresh deployment has served nothing.
LEMMA InitInv == Init => IInv
  <1> SUFFICES ASSUME Init PROVE IInv
    OBVIOUS
  <1>1. Version \subseteq Manifest /\ 0 \in Manifest
    BY DEF Version, Manifest
  <1>2. answer \in Answer
    BY <1>1 DEF Init, Answer
  <1>3. TypeOK
    BY <1>1, <1>2 DEF Init, TypeOK
  <1>4. Flight
    BY DEF Init, Flight, Knows
  <1> QED
    BY <1>3, <1>4 DEF Init, IInv, Remembered, RecordedIsHighest, NoDowngrade

\* Every step keeps every variable in its type.
LEMMA NextType == TypeOK /\ [Next]_vars => TypeOK'
  <1> SUFFICES ASSUME TypeOK, [Next]_vars PROVE TypeOK'
    OBVIOUS
  <1> USE DEF TypeOK, Version, Manifest, Answer, Goto, Serve, Reply, process, requests, verdicts
  <1>1. ASSUME NEW r \in Request, Handle(r) PROVE TypeOK'
    <2>1. CASE CacheHit(r)
      BY <2>1 DEF CacheHit
    <2>2. CASE CacheMiss(r) \/ Fetched(r)
      BY <2>2 DEF CacheMiss, Fetched
    <2>3. CASE FetchFails(r)
      BY <2>3 DEF FetchFails
    <2>4. CASE GuardPasses(r) \/ NoRow(r)
      BY <2>4 DEF GuardPasses, NoRow
    <2>5. CASE GuardTrips(r)
      BY <2>5 DEF GuardTrips
    <2>6. CASE InsertMax(r)
      BY <2>6 DEF InsertMax
    <2>7. CASE InsertClash(r)
      BY <2>7 DEF InsertClash
    <2>8. CASE CommitMax(r)
      BY <2>8 DEF CommitMax, Overtaken
    <2>9. CASE Publish(r)
      BY <2>9 DEF Publish
    <2> QED
      BY <1>1, <2>1, <2>2, <2>3, <2>4, <2>5, <2>6, <2>7, <2>8, <2>9 DEF Handle
  <1>2. CASE Expire
    BY <1>2 DEF Expire
  <1>3. ASSUME NEW v \in Version, SetBucket(v) PROVE TypeOK'
    BY <1>3 DEF SetBucket
  <1>4. CASE Restart
    <2>1. 0 \in Manifest
      OBVIOUS
    <2>2. answer' = answer /\ top' = top /\ maxSeen' = maxSeen /\ bucket' = bucket
      BY <1>4 DEF Restart
    <2> HIDE DEF Manifest, Answer, Version
    <2> QED
      BY <1>4, <2>1, <2>2 DEF Restart
  <1>5. CASE UNCHANGED vars
    BY <1>5 DEF vars
  <1> QED
    BY <1>1, <1>2, <1>3, <1>4, <1>5 DEF Next

\* A commit lowers the row only if it is an overtaken request's; whoever is past
\* the guard meanwhile is overtaken or still knows the row.
LEMMA CommitKeeps ==
  ASSUME IInv, NEW r \in Request, CommitMax(r)
  PROVE  (Flight /\ Remembered /\ RecordedIsHighest /\ NoDowngrade)'
  <1> USE DEF IInv, TypeOK, Version, Manifest, Goto
  <1>1. /\ pc[r] = "commit" /\ pc' = [pc EXCEPT ![r] = "publish"]
        /\ maxSeen' = IF got[r] # loaded[r] THEN got[r] ELSE maxSeen
        /\ lapsed' = lapsed \cup Overtaken(r)
        /\ UNCHANGED <<cache, lastGood, got, loaded, answer, top>>
    BY DEF CommitMax, process
  <1>0. clean' => clean /\ r \notin lapsed
    BY Zenon DEF CommitMax
  <1>2. /\ maxSeen \in Nat /\ maxSeen' \in Nat /\ maxSeen' # 0
        /\ r \notin lapsed => maxSeen <= maxSeen' /\ maxSeen' = got[r]
    BY <1>1 DEF Flight, Knows
  <1>3. ASSUME NEW q \in Request
        PROVE  /\ pc'[q] \in {"load", "insert", "commit", "publish"} => got'[q] # 0
               /\ pc'[q] \in {"commit", "publish"} => maxSeen' # 0
               /\ q \notin lapsed' => Knows(q)'
    <2>1. CASE q = r
      BY <1>1, <1>2, <2>1 DEF Flight, Knows
    <2>2. CASE q # r
      <3>1. pc'[q] = pc[q] /\ got'[q] = got[q] /\ loaded'[q] = loaded[q]
        BY <1>1, <2>2
      <3>2. /\ got[q] \in Nat /\ loaded[q] \in Nat
        OBVIOUS
      <3>3. q \notin lapsed' /\ pc[q] \in {"commit", "publish"} =>
              q \notin lapsed /\ maxSeen' <= got[q] /\ maxSeen <= maxSeen'
        BY <1>1, <1>2, <2>2, <3>2 DEF Overtaken
      <3> QED
        BY <1>2, <3>1, <3>2, <3>3 DEF Flight, Knows
    <2> QED
      BY <2>1, <2>2
  <1>4. Flight'
    BY <1>3 DEF Flight
  <1>5. (Remembered /\ NoDowngrade)'
    <2>1. /\ cache' = cache /\ lastGood' = lastGood /\ answer' = answer /\ top' = top
      BY <1>1
    <2> QED
      BY <1>0, <2>1 DEF Remembered, NoDowngrade
  <1>6. RecordedIsHighest'
    <2>1. clean => top <= maxSeen
      BY DEF RecordedIsHighest
    <2>2. top \in Nat /\ top' = top
      BY <1>1
    <2>3. clean' => top' <= maxSeen'
      BY <1>0, <1>2, <2>1, <2>2
    <2> QED
      BY <2>3 DEF RecordedIsHighest
  <1> QED
    BY <1>4, <1>5, <1>6

\* Who publishes and was not overtaken has the row behind it; if it is not older
\* than what was served, all that the process remembers is new again.
LEMMA PublishKeeps ==
  ASSUME IInv, NEW r \in Request, Publish(r)
  PROVE  (Flight /\ Remembered /\ RecordedIsHighest /\ NoDowngrade)'
  <1> USE DEF IInv, TypeOK, Version, Manifest, Goto, Serve
  <1>1. /\ pc[r] = "publish" /\ pc' = [pc EXCEPT ![r] = "idle"]
        /\ cache' = got[r] /\ lastGood' = got[r] /\ answer' = <<"apk", got[r]>>
        /\ top' = IF got[r] > top THEN got[r] ELSE top
        /\ lapsed' = lapsed \ {r}
        /\ UNCHANGED <<maxSeen, got, loaded>>
    BY DEF Publish
  <1>0. clean' => r \notin lapsed /\ (clean \/ got[r] >= top)
    BY Zenon DEF Publish
  <1>2. got[r] \in Nat /\ top \in Nat /\ maxSeen \in Nat
    OBVIOUS
  <1>3. clean' => maxSeen = got[r] /\ top' = got[r]
    <2>1. clean => top <= maxSeen
      BY DEF RecordedIsHighest
    <2>2. r \notin lapsed => maxSeen = got[r]
      BY <1>1 DEF Flight, Knows
    <2> QED
      BY <1>0, <1>1, <1>2, <2>1, <2>2
  <1>4. Flight'
    <2> SUFFICES ASSUME NEW q \in Request
                 PROVE  /\ pc'[q] \in {"load", "insert", "commit", "publish"} => got'[q] # 0
                        /\ pc'[q] \in {"commit", "publish"} => maxSeen' # 0
                        /\ q \notin lapsed' => Knows(q)'
      BY DEF Flight
    <2>1. CASE q = r
      BY <1>1, <2>1 DEF Knows
    <2>2. CASE q # r
      BY <1>1, <2>2 DEF Flight, Knows
    <2> QED
      BY <2>1, <2>2
  <1>5. (Remembered /\ RecordedIsHighest /\ NoDowngrade)'
    BY <1>1, <1>2, <1>3 DEF Remembered, RecordedIsHighest, NoDowngrade
  <1> QED
    BY <1>4, <1>5

\* Every step keeps the guard's bookkeeping together.
LEMMA NextInv == IInv /\ [Next]_vars => IInv'
  <1> SUFFICES ASSUME IInv, [Next]_vars
               PROVE (Flight /\ Remembered /\ RecordedIsHighest /\ NoDowngrade)'
    BY NextType DEF IInv
  <1> DEFINE Goal == (Flight /\ Remembered /\ RecordedIsHighest /\ NoDowngrade)'
  <1> USE DEF IInv, TypeOK, Version, Manifest, Goto, Serve, Reply, process, requests,
              Flight, Knows, Remembered, RecordedIsHighest, NoDowngrade, verdicts
  <1>1. ASSUME NEW r \in Request, Handle(r) PROVE Goal
    <2>1. CASE CacheHit(r)
      BY <2>1 DEF CacheHit
    <2>2. CASE CacheMiss(r)
      BY <2>2 DEF CacheMiss
    <2>3. CASE Fetched(r)
      BY <2>3 DEF Fetched
    <2>4. CASE FetchFails(r)
      BY <2>4 DEF FetchFails
    <2>5. CASE GuardPasses(r)
      BY <2>5 DEF GuardPasses
    <2>6. CASE GuardTrips(r)
      BY <2>6 DEF GuardTrips
    <2>7. CASE NoRow(r)
      BY <2>7 DEF NoRow
    <2>8. CASE InsertMax(r)
      BY <2>8 DEF InsertMax
    <2>9. CASE InsertClash(r)
      BY <2>9 DEF InsertClash
    <2>10. CASE CommitMax(r)
      BY <2>10, CommitKeeps
    <2>11. CASE Publish(r)
      BY <2>11, PublishKeeps
    <2> QED
      BY <1>1, <2>1, <2>2, <2>3, <2>4, <2>5, <2>6, <2>7, <2>8, <2>9, <2>10, <2>11
      DEF Handle
  <1>2. CASE Expire
    BY <1>2 DEF Expire
  <1>3. ASSUME NEW v \in Version, SetBucket(v) PROVE Goal
    BY <1>3 DEF SetBucket
  <1>4. CASE Restart
    BY <1>4 DEF Restart
  <1>5. CASE UNCHANGED vars
    BY <1>5 DEF vars
  <1> QED
    BY <1>1, <1>2, <1>3, <1>4, <1>5 DEF Next

\* Every variable of Ota keeps its type.
THEOREM TypeCorrect == Spec => []TypeOK
  <1>1. Init => TypeOK
    BY InitInv DEF IInv
  <1> QED
    BY <1>1, NextType, PTL DEF Spec

\* Whatever the outages, restarts, uploads and roll-backs, and whenever they come,
\* no answer names an older version than one served before, unless an overtaken
\* request has acted and no later one has repaired it.
THEOREM NeverDowngrades == Spec => []NoDowngrade
  <1>1. IInv => NoDowngrade
    BY DEF IInv
  <1> QED
    BY InitInv, NextInv, <1>1, PTL DEF Spec

\* The row of ota_state is the highest version served, with the same exception.
THEOREM RecordIsHighest == Spec => []RecordedIsHighest
  <1>1. IInv => RecordedIsHighest
    BY DEF IInv
  <1> QED
    BY InitInv, NextInv, <1>1, PTL DEF Spec
=============================================================================
