--------------------------- MODULE DoorbellProofs ---------------------------
(***************************************************************************)
(* For any number of connections, tasks and tokens: an account that a      *)
(* message did not reach does not look present to the next one, and a      *)
(* stale token takes no row with it that was there when it was read.       *)
(***************************************************************************)
EXTENDS Doorbell, TLAPS

USE DoorbellConstants

\* A task that is about to prune has the row's token, or the row is newer.
Aimed == \A t \in Task :
    pc[t] \in {"test", "prune"} => row \in {NoRow, token[t]} \/ newer[t]

\* While a push has reached nobody and nobody came, every socket that the
\* table holds is still to be written to or is about to be taken out.
Accounted == \A t \in Task :
    pc[t] = "push" /\ ~reached[t] /\ ~met[t] => online \subseteq targets[t] \cup failed[t]

IInv == TypeOK /\ Aimed /\ Accounted /\ SilentOnce

\* Nobody is connected and nothing is under way at the start.
LEMMA InitInv == Init => IInv
  <1> SUFFICES ASSUME Init PROVE IInv
    OBVIOUS
  <1>1. NoRow \in Token \cup {NoRow} /\ 1 \in Token
    BY DEF Token, DoorbellConstants
  <1>3. TypeOK
    BY <1>1 DEF Init, TypeOK
  <1>2. Aimed /\ Accounted /\ SilentOnce
    BY DEF Init, Aimed, Accounted, SilentOnce
  <1> QED
    BY <1>3, <1>2 DEF IInv

\* Every step keeps every variable in its type.
LEMMA NextType == TypeOK /\ [Next]_vars => TypeOK'
  <1> SUFFICES ASSUME TypeOK, [Next]_vars PROVE TypeOK'
    OBVIOUS
  <1> USE DEF TypeOK, Token, NoRow, Goto, Done, Fresh, stored, sockets, local, push
  <1>1. ASSUME NEW t \in Task, Tokens(t) PROVE TypeOK'
    <2>1. CASE Register(t) \/ RegisterLoad(t)
      BY <2>1 DEF Register, RegisterLoad
    <2>2. CASE RegisterStore(t)
      BY <2>2 DEF RegisterStore
    <2>3. CASE RegisterFails(t) \/ DeleteLoad(t) \/ DeleteCommit(t)
      BY <2>3 DEF RegisterFails, DeleteLoad, DeleteCommit
    <2> QED
      BY <1>1, <2>1, <2>2, <2>3 DEF Tokens
  <1>2. ASSUME NEW t \in Task, Pings(t) PROVE TypeOK'
    <2> USE DEF Loaded
    <2>1. CASE PingLoad(t)
      <3>1. creds' \in {"unread", "none", "ready"}
        BY <2>1 DEF PingLoad
      <3>2. pc' \in [Task -> {"idle", "register", "store", "delete", "ping", "post",
                              "reload", "test", "prune", "push"}]
        BY <2>1 DEF PingLoad
      <3> QED
        BY <2>1, <3>1, <3>2 DEF PingLoad
    <2>2. CASE PingAnswered(t) \/ Reload(t)
      BY <2>2 DEF PingAnswered, Reload
    <2>3. CASE PruneCommit(t)
      BY <2>3 DEF PruneCommit
    <2>4. CASE TestLoad(t)
      <3>1. creds' \in {"unread", "none", "ready"}
        BY <2>4 DEF TestLoad
      <3>2. pc' \in [Task -> {"idle", "register", "store", "delete", "ping", "post",
                              "reload", "test", "prune", "push"}]
        BY <2>4 DEF TestLoad
      <3> QED
        BY <2>4, <3>1, <3>2 DEF TestLoad
    <2>5. CASE TestAnswered(t)
      BY <2>5 DEF TestAnswered
    <2> QED
      BY <1>2, <2>1, <2>2, <2>3, <2>4, <2>5 DEF Pings
  <1>3. ASSUME NEW t \in Task, Sends(t) PROVE TypeOK'
    <2>1. CASE Ring(t) \/ Push(t)
      BY <2>1 DEF Ring, Push
    <2>2. CASE Pushed(t)
      BY <2>2 DEF Pushed
    <2>3. ASSUME NEW s \in Sock, Write(t, s) PROVE TypeOK'
      BY <2>3 DEF Write
    <2> QED
      BY <1>3, <2>1, <2>2, <2>3 DEF Sends
  <1>4. ASSUME NEW s \in Sock, Connect(s) \/ Break(s) \/ Disconnect(s) PROVE TypeOK'
    BY <1>4 DEF Connect, Break, Disconnect
  <1>5. CASE Rotate
    BY <1>5 DEF Rotate
  <1>6. CASE UNCHANGED vars
    BY <1>6 DEF vars
  <1> QED
    BY <1>1, <1>2, <1>3, <1>4, <1>5, <1>6 DEF Next

\* A token that comes to be stored makes every other task's reading an old one.
LEMMA NextAimed == TypeOK /\ Aimed /\ [Next]_vars => Aimed'
  <1> SUFFICES ASSUME TypeOK, Aimed, [Next]_vars PROVE Aimed'
    OBVIOUS
  <1> USE DEF TypeOK, Aimed, Token, NoRow, Goto, Done, Fresh, stored, sockets, local, push
  <1>1. ASSUME NEW t \in Task, Tokens(t) PROVE Aimed'
    <2>1. CASE Register(t) \/ RegisterLoad(t)
      BY <2>1 DEF Register, RegisterLoad
    <2>2. CASE RegisterStore(t)
      BY <2>2 DEF RegisterStore
    <2>3. CASE RegisterFails(t) \/ DeleteLoad(t) \/ DeleteCommit(t)
      BY <2>3 DEF RegisterFails, DeleteLoad, DeleteCommit
    <2> QED
      BY <1>1, <2>1, <2>2, <2>3 DEF Tokens
  <1>2. ASSUME NEW t \in Task, Pings(t) PROVE Aimed'
    <2>1. CASE PingLoad(t)
      BY <2>1 DEF PingLoad
    <2>2. CASE PingAnswered(t) \/ Reload(t)
      BY <2>2 DEF PingAnswered, Reload
    <2>3. CASE PruneCommit(t)
      BY <2>3 DEF PruneCommit
    <2>4. CASE TestLoad(t) \/ TestAnswered(t)
      BY <2>4 DEF TestLoad, TestAnswered
    <2> QED
      BY <1>2, <2>1, <2>2, <2>3, <2>4 DEF Pings
  <1>3. ASSUME NEW t \in Task, Sends(t) PROVE Aimed'
    BY <1>3 DEF Sends, Ring, Push, Pushed, Write
  <1>4. ASSUME NEW s \in Sock, Connect(s) \/ Break(s) \/ Disconnect(s) PROVE Aimed'
    BY <1>4 DEF Connect, Break, Disconnect
  <1>5. CASE Rotate
    BY <1>5 DEF Rotate
  <1>6. CASE UNCHANGED vars
    BY <1>6 DEF vars
  <1> QED
    BY <1>1, <1>2, <1>3, <1>4, <1>5, <1>6 DEF Next

\* A push that reached nobody leaves no socket behind.
LEMMA NextSilent == IInv /\ [Next]_vars => Accounted' /\ SilentOnce'
  <1> SUFFICES ASSUME IInv, [Next]_vars PROVE Accounted' /\ SilentOnce'
    OBVIOUS
  <1> DEFINE Goal == Accounted' /\ SilentOnce'
  <1> USE DEF IInv, TypeOK, Accounted, SilentOnce, Goto, Done, Fresh, stored, sockets,
              local, push
  <1>1. ASSUME NEW t \in Task, Tokens(t) PROVE Goal
    BY <1>1 DEF Tokens, Register, RegisterLoad, RegisterStore, RegisterFails,
                DeleteLoad, DeleteCommit
  <1>2. ASSUME NEW t \in Task, Pings(t) PROVE Goal
    BY <1>2 DEF Pings, PingLoad, PingAnswered, Reload, PruneCommit, TestLoad, TestAnswered
  <1>3. ASSUME NEW t \in Task, Sends(t) PROVE Goal
    <2>1. CASE Ring(t)
      BY <2>1 DEF Ring
    <2>2. CASE Push(t)
      BY <2>2 DEF Push
    <2>3. CASE Pushed(t)
      <3>1. silenced' => online' = {}
        BY <2>3 DEF Pushed, Pruned
      <3>2. Accounted'
        BY <2>3 DEF Pushed, Pruned
      <3> QED
        BY <3>1, <3>2
    <2>4. ASSUME NEW s \in Sock, Write(t, s) PROVE Goal
      BY <2>4 DEF Write
    <2> QED
      BY <1>3, <2>1, <2>2, <2>3, <2>4 DEF Sends
  <1>4. ASSUME NEW s \in Sock, Connect(s) PROVE Goal
    BY <1>4 DEF Connect
  <1>5. ASSUME NEW s \in Sock, Break(s) \/ Disconnect(s) PROVE Goal
    BY <1>5 DEF Break, Disconnect
  <1>6. CASE Rotate
    BY <1>6 DEF Rotate
  <1>7. CASE UNCHANGED vars
    BY <1>7 DEF vars
  <1> QED
    BY <1>1, <1>2, <1>3, <1>4, <1>5, <1>6, <1>7 DEF Next

LEMMA NextInv == IInv /\ [Next]_vars => IInv'
  BY NextType, NextAimed, NextSilent DEF IInv

\* Every variable stays in its type.
THEOREM TypeCorrect == Spec => []TypeOK
  <1>1. IInv => TypeOK
    BY DEF IInv
  <1> QED
    BY InitInv, NextInv, <1>1, PTL DEF Spec

\* Dead sockets suppress the bell for one message at most, however pushes,
\* breaks, departures and arrivals overlap.
THEOREM OneSilence == Spec => []SilentOnce
  <1>1. IInv => SilentOnce
    BY DEF IInv
  <1> QED
    BY InitInv, NextInv, <1>1, PTL DEF Spec

\* A prune deletes the row that its task rang, or one stored since.
THEOREM AimedPrunes == Spec => PruneIsAimed
  <1>1. IInv => Aimed
    BY DEF IInv
  <1>2. Aimed /\ [Next]_vars =>
          [\A t \in Task : pc[t] = "prune" /\ pc'[t] = "idle" /\ row \notin {NoRow, token[t]}
              => newer[t]]_vars
    BY DEF Aimed
  <1> QED
    BY InitInv, NextInv, <1>1, <1>2, PTL DEF Spec, PruneIsAimed
=============================================================================
