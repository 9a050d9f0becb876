--------------------------- MODULE PresenceProofs ---------------------------
(***************************************************************************)
(* Nobody's early return leaves an "online" row behind, for any number of  *)
(* connections.                                                            *)
(***************************************************************************)
EXTENDS Presence, TLAPS

USE PresenceConstants

IInv == TypeOK /\ OnlineIsWatched

\* An account that nobody is connected to is not shown online at the start.
LEMMA InitInv == Init => IInv
  BY DEF Init, IInv, TypeOK, Row, OnlineIsWatched

\* Every step keeps every variable in its type.
LEMMA NextType == TypeOK /\ [Next]_vars => TypeOK'
  <1> SUFFICES ASSUME TypeOK, [Next]_vars PROVE TypeOK'
    OBVIOUS
  <1> USE DEF TypeOK, Row, Goto, TaskGoto
  <1>1. ASSUME NEW s \in Sock, Run(s) PROVE TypeOK'
    <2>1. CASE UpsertLoad(s)
      BY <2>1 DEF UpsertLoad
    <2>2. CASE UpsertCommit(s)
      BY <2>2 DEF UpsertCommit
    <2>3. CASE UpsertClash(s)
      BY <2>3 DEF UpsertClash, Die
    <2>4. CASE Flushed(s)
      BY <2>4 DEF Flushed
    <2>5. CASE Leave(s)
      BY <2>5 DEF Leave
    <2>6. CASE MarkLoad(s) \/ MarkCommit(s)
      BY <2>6 DEF MarkLoad, MarkCommit
    <2> QED
      BY <1>1, <2>1, <2>2, <2>3, <2>4, <2>5, <2>6 DEF Run
  <1>2. ASSUME NEW s \in Sock, Repair(s) PROVE TypeOK'
    BY <1>2 DEF Repair, TaskCheck, TaskLoad, TaskCommit
  <1>3. ASSUME NEW s \in Sock, Connect(s) PROVE TypeOK'
    BY <1>3 DEF Connect
  <1>4. ASSUME NEW s \in Sock, ConnectFails(s) PROVE TypeOK'
    BY <1>4 DEF ConnectFails, Die
  <1>5. ASSUME NEW s \in Sock, HangUp(s) \/ Prune(s) PROVE TypeOK'
    BY <1>5 DEF HangUp, Prune
  <1>6. CASE Crash
    BY <1>6 DEF Crash
  <1>7. CASE UNCHANGED vars
    BY <1>7 DEF vars
  <1> QED
    BY <1>1, <1>2, <1>3, <1>4, <1>5, <1>6, <1>7 DEF Next

\* Whoever stops being responsible for an "online" row either made it
\* "offline" or saw that somebody else is responsible.
LEMMA NextWatched == IInv /\ [Next]_vars => OnlineIsWatched'
  <1> SUFFICES ASSUME IInv, [Next]_vars PROVE OnlineIsWatched'
    OBVIOUS
  <1> USE DEF IInv, TypeOK, Row, Goto, TaskGoto, OnlineIsWatched, Watched, Responsible
  <1>1. ASSUME NEW s \in Sock, UpsertLoad(s) PROVE OnlineIsWatched'
    BY <1>1 DEF UpsertLoad
  <1>2. ASSUME NEW s \in Sock, UpsertCommit(s) PROVE OnlineIsWatched'
    BY <1>2 DEF UpsertCommit
  <1>3. ASSUME NEW s \in Sock, UpsertClash(s) PROVE OnlineIsWatched'
    BY <1>3 DEF UpsertClash, Die
  <1>4. ASSUME NEW s \in Sock, Flushed(s) PROVE OnlineIsWatched'
    BY <1>4 DEF Flushed
  <1>5. ASSUME NEW s \in Sock, Leave(s) PROVE OnlineIsWatched'
    BY <1>5 DEF Leave
  <1>6. ASSUME NEW s \in Sock, MarkLoad(s) \/ MarkCommit(s) PROVE OnlineIsWatched'
    BY <1>6 DEF MarkLoad, MarkCommit
  <1>7. ASSUME NEW s \in Sock, Repair(s) PROVE OnlineIsWatched'
    BY <1>7 DEF Repair, TaskCheck, TaskLoad, TaskCommit
  <1>8. ASSUME NEW s \in Sock, Connect(s) PROVE OnlineIsWatched'
    BY <1>8 DEF Connect
  <1>9. ASSUME NEW s \in Sock, ConnectFails(s) PROVE OnlineIsWatched'
    BY <1>9 DEF ConnectFails, Die
  <1>10. ASSUME NEW s \in Sock, HangUp(s) PROVE OnlineIsWatched'
    BY <1>10 DEF HangUp
  <1>11. ASSUME NEW s \in Sock, Prune(s) PROVE OnlineIsWatched'
    BY <1>11 DEF Prune
  <1>12. CASE Crash
    BY <1>12 DEF Crash
  <1>13. CASE UNCHANGED vars
    BY <1>13 DEF vars
  <1> QED
    BY <1>1, <1>2, <1>3, <1>4, <1>5, <1>6, <1>7, <1>8, <1>9, <1>10, <1>11,
       <1>12, <1>13 DEF Next, Run

\* Every variable of Presence keeps its type, with any number of connections.
THEOREM TypeCorrect == Spec => []TypeOK
  <1>1. Init => TypeOK
    BY InitInv DEF IInv
  <1> QED
    BY <1>1, NextType, PTL DEF Spec

\* For every number of connections, with crashes and connections that fail
\* half-way: an "online" row is always watched, or waits for the next
\* connection to put right what a fault left behind.
THEOREM OnlineWatched == Spec => []OnlineIsWatched
  <1>1. IInv /\ [Next]_vars => IInv'
    BY NextType, NextWatched DEF IInv
  <1>2. IInv => OnlineIsWatched
    BY DEF IInv
  <1> QED
    BY InitInv, <1>1, <1>2, PTL DEF Spec
=============================================================================
