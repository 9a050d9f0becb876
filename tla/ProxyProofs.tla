----------------------------- MODULE ProxyProofs -----------------------------
(***************************************************************************)
(* No stream escapes the handler's table, and nobody is told the end of a  *)
(* stream that flows, for any number of ids, openings and frames.          *)
(***************************************************************************)
EXTENDS Proxy, TLAPS

USE ProxyConstants DEF ProxyConstants

\* The id that the handler works on, and its entry of the table.
Working ==
    /\ h \in {"guard", "dial", "tell", "drain"} => cur \in Id
    /\ h \in {"guard", "dial"} => sess[cur] = 0

HeldInv == TypeOK /\ Working /\ StreamsAreHeld

LEMMA InitHeld == Init => HeldInv
  <1> SUFFICES ASSUME Init PROVE HeldInv
    OBVIOUS
  <1>1. TypeOK
    BY DEF Init, TypeOK
  <1>2. Working /\ StreamsAreHeld
    BY DEF Init, Working, StreamsAreHeld, Alive
  <1> QED
    BY <1>1, <1>2 DEF HeldInv

\* What reading a frame does to the frames under way.
LEMMA ReadsType ==
  ASSUME TypeOK, NEW type, NEW i, Reads(type, i)
  PROVE  inbox' \in Seq(Frame)
  BY DEF TypeOK, Reads

LEMMA SendType ==
  ASSUME TypeOK, NEW f \in Frame, Send(f)
  PROVE  inbox' \in Seq(Frame)
  BY DEF TypeOK, Send

\* Dropping an entry keeps the table and the streams in their types.
LEMMA DropType ==
  ASSUME TypeOK, NEW i \in Id, Drop(i)
  PROVE  /\ sess' \in [Id -> 0 .. MaxOpen]
         /\ pump' \in [Stream -> {"none", "read", "push", "announce", "ended"}]
         /\ writer' \in [Stream -> {"none", "open", "closed"}]
         /\ served' = served /\ up' = up
  <1> USE DEF TypeOK, Drop
  <1>1. sess' \in [Id -> 0 .. MaxOpen]
    OBVIOUS
  <1>2. pump' \in [Stream -> {"none", "read", "push", "announce", "ended"}]
    OBVIOUS
  <1>3. writer' \in [Stream -> {"none", "open", "closed"}]
    OBVIOUS
  <1> QED
    BY <1>1, <1>2, <1>3

\* Every step keeps every variable in its type.
LEMMA NextType == TypeOK /\ Working /\ [Next]_vars => TypeOK'
  <1> SUFFICES ASSUME TypeOK, Working, [Next]_vars PROVE TypeOK'
    OBVIOUS
  <1> USE DEF Goto, handler, streams, client, Entry
  <1>1. ASSUME NEW i \in Id, OpenRead(i) PROVE TypeOK'
    BY <1>1, ReadsType DEF OpenRead, TypeOK
  <1>2. ASSUME NEW i \in Id, DataRead(i) PROVE TypeOK'
    BY <1>2, ReadsType DEF DataRead, TypeOK
  <1>3. ASSUME NEW i \in Id, CloseRead(i) PROVE TypeOK'
    BY <1>3, ReadsType, DropType DEF CloseRead, TypeOK
  <1>4. ASSUME NEW i \in Id, OpenDropped(i) \/ DataDropped(i) \/ CloseDropped(i)
        PROVE  TypeOK'
    BY <1>4, ReadsType DEF OpenDropped, DataDropped, CloseDropped, TypeOK
  <1>5. CASE Guard
    BY <1>5 DEF Guard, TypeOK, Working
  <1>6. CASE Dialled
    BY <1>6 DEF Dialled, TypeOK, Working, Stream
  <1>7. CASE DialFails
    BY <1>7 DEF DialFails, TypeOK, Working
  <1>8. CASE Tell
    BY <1>8 DEF Tell, TellClosed, TypeOK, Working
  <1>9. CASE Drained
    BY <1>9 DEF Drained, TypeOK
  <1>10. CASE DrainFails
    BY <1>10, DropType DEF DrainFails, TypeOK, Working
  <1>11. CASE Teardown
    BY <1>11 DEF Teardown, TypeOK
  <1>12. CASE ClientGone
    BY <1>12 DEF ClientGone, TypeOK
  <1>13. ASSUME NEW i \in Id, Client(i) PROVE TypeOK'
    <2>0. ASSUME NEW type \in {"open", "bad open", "data", "bad data", "close"},
                 Send(<<type, i>>)
          PROVE  inbox' \in Seq(Frame)
      <3>1. <<type, i>> \in Frame
        BY DEF Frame
      <3> QED
        BY <2>0, <3>1, SendType
    <2>1. CASE ClientOpen(i)
      <3>1. inbox' \in Seq(Frame)
        BY <2>0, <2>1 DEF ClientOpen
      <3>2. opens' \in [Id -> 0 .. MaxOpen]
        BY <2>1 DEF ClientOpen, TypeOK
      <3>3. closed' \in [Id -> BOOLEAN] /\ told' \in [Id -> BOOLEAN]
        BY <2>1 DEF ClientOpen, TypeOK
      <3>4. UNCHANGED <<link, h, cur, sess, served, pump, writer, up>>
        BY <2>1 DEF ClientOpen
      <3> QED
        BY <3>1, <3>2, <3>3, <3>4 DEF TypeOK
    <2>2. CASE ClientData(i) \/ ClientMalformed(i)
      <3>1. inbox' \in Seq(Frame)
        BY <2>0, <2>2 DEF ClientData, ClientMalformed
      <3> QED
        BY <2>2, <3>1 DEF ClientData, ClientMalformed, TypeOK
    <2>3. CASE ClientClose(i)
      <3>1. inbox' \in Seq(Frame)
        BY <2>0, <2>3 DEF ClientClose
      <3> QED
        BY <2>3, <3>1 DEF ClientClose, TypeOK
    <2> QED
      BY <1>13, <2>1, <2>2, <2>3 DEF Client
  <1>14. ASSUME NEW k \in Stream, Pump(k) \/ UpstreamEnds(k) PROVE TypeOK'
    <2>1. CASE PumpChunk(k) \/ PumpPushed(k) \/ PumpEnd(k)
      BY <2>1 DEF PumpChunk, PumpPushed, PumpEnd, PumpTo, TypeOK
    <2>2. CASE PumpAnnounced(k)
      BY <2>2 DEF PumpAnnounced, PumpTo, TellClosed, TypeOK
    <2>3. CASE UpstreamEnds(k)
      BY <2>3 DEF UpstreamEnds, TypeOK
    <2> QED
      BY <1>14, <2>1, <2>2, <2>3 DEF Pump
  <1>15. CASE UNCHANGED vars
    BY <1>15 DEF vars, TypeOK
  <1> QED
    BY <1>1, <1>2, <1>3, <1>4, <1>5, <1>6, <1>7, <1>8, <1>9, <1>10, <1>11, <1>12,
       <1>13, <1>14, <1>15 DEF Next, Serve, Disconnected

\* An entry is made while its id has none, and dropped with its stream.
LEMMA NextHeld == HeldInv /\ [Next]_vars => Working' /\ StreamsAreHeld'
  <1> SUFFICES ASSUME HeldInv, [Next]_vars PROVE Working' /\ StreamsAreHeld'
    OBVIOUS
  <1> DEFINE Goal == Working' /\ StreamsAreHeld'
  <1> USE DEF HeldInv, TypeOK, Working, StreamsAreHeld, Alive, Stream, Goto, Entry,
              handler, streams, client
  <1>1. ASSUME NEW i \in Id, OpenRead(i) PROVE Goal
    BY <1>1 DEF OpenRead, Unused, Reads
  <1>2. ASSUME NEW i \in Id, DataRead(i) PROVE Goal
    BY <1>2 DEF DataRead, Reads
  <1>3. ASSUME NEW i \in Id, CloseRead(i) PROVE Goal
    BY <1>3 DEF CloseRead, Reads, Drop
  <1>4. ASSUME NEW i \in Id, OpenDropped(i) \/ DataDropped(i) \/ CloseDropped(i)
        PROVE  Goal
    BY <1>4 DEF OpenDropped, DataDropped, CloseDropped, Reads
  <1>5. CASE Guard \/ DialFails \/ Tell \/ Drained
    BY <1>5 DEF Guard, DialFails, Tell, TellClosed, Drained
  <1>6. CASE Dialled
    BY <1>6 DEF Dialled
  <1>7. CASE DrainFails
    BY <1>7 DEF DrainFails, Drop
  <1>8. CASE Teardown
    BY <1>8 DEF Teardown, Entries
  <1>9. CASE ClientGone
    BY <1>9 DEF ClientGone
  <1>10. ASSUME NEW i \in Id, Client(i) PROVE Goal
    BY <1>10 DEF Client, ClientOpen, ClientData, ClientMalformed, ClientClose
  <1>11. ASSUME NEW k \in Stream, Pump(k) \/ UpstreamEnds(k) PROVE Goal
    BY <1>11 DEF Pump, PumpChunk, PumpPushed, PumpEnd, PumpAnnounced, PumpTo, UpstreamEnds
  <1>12. CASE UNCHANGED vars
    BY <1>12 DEF vars
  <1> QED
    BY <1>1, <1>2, <1>3, <1>4, <1>5, <1>6, <1>7, <1>8, <1>9, <1>10, <1>11, <1>12
    DEF Next, Serve, Disconnected

\* Every variable stays in its type, for every number of ids and openings.
THEOREM TypeCorrect == Spec => []TypeOK
  <1>1. HeldInv /\ [Next]_vars => HeldInv'
    BY NextType, NextHeld DEF HeldInv
  <1>2. HeldInv => TypeOK
    BY DEF HeldInv
  <1> QED
    BY InitHeld, <1>1, <1>2, PTL DEF Spec

\* A running pump or an open writer is always where the handler finds it.
THEOREM StreamsHeld == Spec => []StreamsAreHeld
  <1>1. HeldInv /\ [Next]_vars => HeldInv'
    BY NextType, NextHeld DEF HeldInv
  <1>2. HeldInv => StreamsAreHeld
    BY DEF HeldInv
  <1> QED
    BY InitHeld, <1>1, <1>2, PTL DEF Spec

-----------------------------------------------------------------------------
(* An id that was opened once.                                             *)

\* An opening of i is on its way; there is one at most.
Asked(i) == \E p \in DOMAIN inbox : inbox[p] = <<"open", i>>
Single(i) == \A p, q \in DOMAIN inbox :
    inbox[p] = <<"open", i>> /\ inbox[q] = <<"open", i>> => p = q

Busy(i) == h \in {"guard", "dial", "tell", "drain"} /\ cur = i

Silent(i) == \A n \in 1 .. MaxOpen : pump[<<i, n>>] \notin {"read", "push"}

\* The streams of an id are those that were served, and its entry is one.
Served ==
    /\ \A i \in Id : sess[i] <= served[i]
    /\ h = "drain" => sess[cur] # 0
    /\ \A i \in Id : \A n \in 1 .. MaxOpen : n > served[i] => pump[<<i, n>>] = "none"

Unopened(i) == opens[i] = 0 => ~Asked(i) /\ ~Busy(i) /\ served[i] = 0

\* Its opening is on its way, or is worked on, or is over: then there is one
\* stream at most.
OpenedOnce(i) == opens[i] = 1 =>
    /\ Single(i)
    /\ Asked(i) => ~Busy(i) /\ served[i] = 0 /\ ~told[i]
    /\ h \in {"guard", "dial"} /\ cur = i => served[i] = 0 /\ ~told[i]
    /\ h = "tell" /\ cur = i => Silent(i)
    /\ served[i] <= 1
    /\ told[i] => Silent(i)

IInv == HeldInv /\ Served /\ \A i \in Id : Unopened(i) /\ OpenedOnce(i)

LEMMA InitInv == Init => IInv
  <1> SUFFICES ASSUME Init PROVE IInv
    OBVIOUS
  <1>1. Served
    BY DEF Init, Served, Stream
  <1>2. \A i \in Id : Unopened(i) /\ OpenedOnce(i)
    <2> SUFFICES ASSUME NEW i \in Id PROVE Unopened(i) /\ OpenedOnce(i)
      OBVIOUS
    <2>1. DOMAIN inbox = {}
      BY DEF Init
    <2>2. ~Asked(i)
      BY <2>1 DEF Asked
    <2>3. opens[i] = 0 /\ served[i] = 0 /\ ~Busy(i)
      BY DEF Init, Busy
    <2> QED
      BY <2>2, <2>3 DEF Unopened, OpenedOnce
  <1> QED
    BY InitHeld, <1>1, <1>2 DEF IInv

\* Reading a frame makes no opening, and reading an opening takes it away.
LEMMA ReadsAsked ==
  ASSUME TypeOK, NEW type, NEW i \in Id, Reads(type, i), NEW j \in Id
  PROVE  /\ Asked(j)' => Asked(j)
         /\ Single(j) => Single(j)'
         /\ type = "open" => Asked(i)
         /\ type = "open" /\ Single(i) => ~Asked(i)'
  <1> USE DEF Reads, TypeOK
  <1>0. inbox \in Seq(Frame) /\ inbox # <<>>
    OBVIOUS
  <1>1. DOMAIN inbox = 1 .. Len(inbox) /\ Len(inbox) \in Nat \ {0}
    BY <1>0
  <1>2. /\ DOMAIN inbox' = 1 .. Len(inbox) - 1
        /\ \A p \in DOMAIN inbox' : p + 1 \in DOMAIN inbox /\ inbox'[p] = inbox[p + 1]
    <2>1. inbox' = Tail(inbox)
      OBVIOUS
    <2> QED
      BY <1>0, <1>1, <2>1
  <1>3. type = "open" => inbox[1] = <<"open", i>>
    BY <1>0, <1>1
  <1> HIDE DEF Reads, TypeOK
  <1>4. \A p \in DOMAIN inbox' : p \in Nat \ {0}
    BY <1>1, <1>2
  <1>5. Asked(j)' => Asked(j)
    BY <1>2 DEF Asked
  <1>6. Single(j) => Single(j)'
    <2> SUFFICES ASSUME Single(j), NEW p \in DOMAIN inbox', NEW q \in DOMAIN inbox',
                        inbox'[p] = <<"open", j>>, inbox'[q] = <<"open", j>>
                 PROVE  p = q
      BY DEF Single
    <2>1. p + 1 = q + 1
      BY <1>2 DEF Single
    <2> QED
      BY <2>1, <1>4
  <1>7. type = "open" => Asked(i)
    BY <1>1, <1>3 DEF Asked
  <1>8. ASSUME type = "open", Single(i), NEW p \in DOMAIN inbox', inbox'[p] = <<"open", i>>
        PROVE  FALSE
    <2>1. p + 1 = 1
      BY <1>8, <1>1, <1>2, <1>3 DEF Single
    <2> QED
      BY <2>1, <1>4
  <1> QED
    BY <1>5, <1>6, <1>7, <1>8 DEF Asked

\* A frame of the client is an opening of its own id only.
LEMMA SendAsked ==
  ASSUME TypeOK, NEW f \in Frame, Send(f), NEW j \in Id
  PROVE  /\ f # <<"open", j>> => (Asked(j)' => Asked(j)) /\ (Single(j) => Single(j)')
         /\ ~Asked(j) => Single(j)'
  <1> USE DEF Send, TypeOK
  <1>1. /\ DOMAIN inbox = 1 .. Len(inbox) /\ Len(inbox) \in Nat
        /\ DOMAIN inbox' = 1 .. Len(inbox) + 1
    OBVIOUS
  <1>2. \A p \in DOMAIN inbox' :
          \/ p \in DOMAIN inbox /\ inbox'[p] = inbox[p]
          \/ p = Len(inbox) + 1 /\ inbox'[p] = f
    BY <1>1
  <1>3. \A p, q \in DOMAIN inbox' : p = Len(inbox) + 1 /\ q = Len(inbox) + 1 => p = q
    OBVIOUS
  <1> HIDE DEF Send, TypeOK
  <1>4. f # <<"open", j>> => (Asked(j)' => Asked(j)) /\ (Single(j) => Single(j)')
    BY <1>2 DEF Asked, Single
  <1>5. ~Asked(j) => Single(j)'
    BY <1>2, <1>3 DEF Asked, Single
  <1> QED
    BY <1>4, <1>5

\* Streams are numbered as they are served.
LEMMA NextServed == HeldInv /\ Served /\ [Next]_vars => Served'
  <1> SUFFICES ASSUME HeldInv, Served, [Next]_vars PROVE Served'
    OBVIOUS
  <1> USE DEF HeldInv, TypeOK, Working, Served, Stream, Goto, Entry, handler, streams, client
  <1>1. ASSUME NEW i \in Id,
               OpenRead(i) \/ DataRead(i) \/ OpenDropped(i) \/ DataDropped(i) \/ CloseDropped(i)
        PROVE  Served'
    <2>1. sess' = sess /\ served' = served /\ pump' = pump
      BY <1>1 DEF OpenRead, DataRead, OpenDropped, DataDropped, CloseDropped
    <2>2. h' = "drain" => sess[cur'] # 0
      <3> HIDE DEF HeldInv, TypeOK, Working, Served
      <3>1. CASE DataRead(i)
        BY <3>1 DEF DataRead
      <3>2. CASE OpenRead(i)
        BY <3>2 DEF OpenRead
      <3>3. CASE OpenDropped(i) \/ DataDropped(i) \/ CloseDropped(i)
        BY <3>3 DEF OpenDropped, DataDropped, CloseDropped, Reads
      <3> QED
        BY <1>1, <3>1, <3>2, <3>3
    <2> QED
      BY <2>1, <2>2
  <1>2. ASSUME NEW i \in Id, CloseRead(i) PROVE Served'
    <2>1. h' = "loop"
      BY <1>2 DEF CloseRead, Reads
    <2>2. sess' = [sess EXCEPT ![i] = 0] /\ served' = served
      BY <1>2 DEF CloseRead, Drop
    <2>3. sess[i] # 0 /\ pump' = [pump EXCEPT ![<<i, sess[i]>>] = "ended"]
      BY <1>2 DEF CloseRead, Drop
    <2> QED
      BY <2>1, <2>2, <2>3
  <1>3. CASE Guard \/ DialFails \/ Tell \/ Drained
    BY <1>3 DEF Guard, DialFails, Tell, TellClosed, Drained
  <1>4. CASE Dialled
    BY <1>4 DEF Dialled
  <1>5. CASE DrainFails
    BY <1>5 DEF DrainFails, Drop
  <1>6. CASE Teardown
    BY <1>6 DEF Teardown, Entries
  <1>7. CASE ClientGone
    BY <1>7 DEF ClientGone
  <1>8. ASSUME NEW i \in Id, Client(i) PROVE Served'
    BY <1>8 DEF Client, ClientOpen, ClientData, ClientMalformed, ClientClose
  <1>9. ASSUME NEW k \in Stream, Pump(k) \/ UpstreamEnds(k) PROVE Served'
    <2>1. UNCHANGED <<h, cur, sess, served>>
      BY <1>9 DEF Pump, PumpChunk, PumpPushed, PumpEnd, PumpAnnounced, UpstreamEnds
    <2>2. \A l \in Stream : pump[l] = "none" => pump'[l] = "none"
      BY <1>9 DEF Pump, PumpChunk, PumpPushed, PumpEnd, PumpAnnounced, PumpTo, UpstreamEnds
    <2> QED
      BY <2>1, <2>2
  <1>10. CASE UNCHANGED vars
    BY <1>10 DEF vars
  <1> QED
    BY <1>1, <1>2, <1>3, <1>4, <1>5, <1>6, <1>7, <1>8, <1>9, <1>10
    DEF Next, Serve, Disconnected

\* What happens to an id that was opened once at most, frame by frame.
LEMMA NextOnce ==
  ASSUME IInv, [Next]_vars, NEW j \in Id
  PROVE  Unopened(j)' /\ OpenedOnce(j)'
  <1> DEFINE Goal == Unopened(j)' /\ OpenedOnce(j)'
  <1> USE DEF Unopened, OpenedOnce, Busy, Goto, Entry, handler, streams, client
  <1>0. TypeOK /\ Working /\ Served /\ Unopened(j) /\ OpenedOnce(j)
    BY DEF IInv, HeldInv
  <1>17. /\ \A n \in 1 .. MaxOpen : <<j, n>> \in Stream
        /\ opens[j] \in Nat /\ served[j] \in Nat
    BY <1>0 DEF TypeOK, Stream
  <1>1. ASSUME NEW i \in Id, OpenRead(i) PROVE Goal
    <2>1. Reads("open", i)
      BY <1>1 DEF OpenRead
    <2>2. /\ Asked(j)' => Asked(j)
          /\ Single(j) => Single(j)'
          /\ Asked(i)
          /\ Single(i) => ~Asked(i)'
      BY <1>0, <2>1, ReadsAsked
    <2> QED
      BY <1>0, <1>17, <1>1, <2>2 DEF OpenRead, Silent
  <1>2. ASSUME NEW i \in Id, DataRead(i) PROVE Goal
    <2>1. Reads("data", i)
      BY <1>2 DEF DataRead
    <2>2. (Asked(j)' => Asked(j)) /\ (Single(j) => Single(j)')
      BY <1>0, <2>1, ReadsAsked
    <2>3. served[i] # 0
      BY <1>0, <1>2 DEF DataRead, Served, TypeOK
    <2> QED
      BY <1>0, <1>17, <1>2, <2>2, <2>3 DEF DataRead, Silent
  <1>3. ASSUME NEW i \in Id, CloseRead(i) PROVE Goal
    <2>1. Reads("close", i)
      BY <1>3 DEF CloseRead
    <2>2. (Asked(j)' => Asked(j)) /\ (Single(j) => Single(j)')
      BY <1>0, <2>1, ReadsAsked
    <2>3. Silent(j) => Silent(j)'
      BY <1>0, <1>17, <1>3 DEF CloseRead, Drop, Silent, TypeOK
    <2> QED
      BY <1>0, <1>17, <1>3, <2>2, <2>3 DEF CloseRead, Drop, Reads
  <1>4. ASSUME NEW i \in Id, OpenDropped(i) \/ DataDropped(i) \/ CloseDropped(i) PROVE Goal
    <2>1. PICK type \in {"open", "bad open", "data", "bad data", "close"} : Reads(type, i)
      BY <1>4 DEF OpenDropped, DataDropped, CloseDropped
    <2>2. (Asked(j)' => Asked(j)) /\ (Single(j) => Single(j)')
      BY <1>0, <2>1, ReadsAsked
    <2>3. UNCHANGED <<handler, streams, client>>
      BY <1>4 DEF OpenDropped, DataDropped, CloseDropped
    <2> QED
      BY <1>0, <1>17, <2>2, <2>3 DEF Silent
  <1>5. ASSUME UNCHANGED inbox PROVE (Asked(j)' <=> Asked(j)) /\ (Single(j)' <=> Single(j))
    BY <1>5 DEF Asked, Single
  <1>6. CASE Guard \/ DialFails
    <2>1. served[j] = 0 => Silent(j)
      BY <1>0, <1>17 DEF Served, Silent
    <2>2. Silent(j) => Silent(j)'
      BY <1>6 DEF Guard, DialFails, Silent
    <2> QED
      BY <1>0, <1>17, <1>5, <1>6, <2>1, <2>2 DEF Guard, DialFails
  <1>7. CASE Dialled
    <2>1. Silent(j) /\ cur # j => Silent(j)'
      BY <1>0, <1>17, <1>7 DEF Dialled, Silent, TypeOK, Working
    <2>2. cur # j => served'[j] = served[j]
      BY <1>0, <1>7 DEF Dialled, TypeOK, Working
    <2>3. cur = j => served'[j] = served[j] + 1
      BY <1>0, <1>7 DEF Dialled, TypeOK, Working
    <2> QED
      BY <1>0, <1>17, <1>5, <1>7, <2>1, <2>2, <2>3 DEF Dialled
  <1>8. CASE Tell
    <2>1. told'[j] => told[j] \/ cur = j
      BY <1>0, <1>8 DEF Tell, TellClosed, TypeOK, Working
    <2>2. Silent(j) => Silent(j)'
      BY <1>8 DEF Tell, Silent
    <2> QED
      BY <1>0, <1>17, <1>5, <1>8, <2>1, <2>2 DEF Tell
  <1>9. CASE Drained
    <2>1. Silent(j) => Silent(j)'
      BY <1>9 DEF Drained, Silent
    <2> QED
      BY <1>0, <1>17, <1>5, <1>9, <2>1 DEF Drained
  <1>10. CASE DrainFails
    <2>1. Silent(j) => Silent(j)'
      BY <1>0, <1>17, <1>10 DEF DrainFails, Drop, Silent, TypeOK
    <2>2. ASSUME cur = j, served[j] <= 1 PROVE Silent(j)'
      <3>1. sess[j] = 1 /\ 1 \in 1 .. MaxOpen
        BY <1>0, <1>17, <1>10, <2>2 DEF DrainFails, TypeOK, Served
      <3>2. pump'[<<j, 1>>] = "ended"
        BY <1>0, <1>17, <1>10, <2>2, <3>1 DEF DrainFails, Drop, TypeOK
      <3>3. \A n \in 1 .. MaxOpen : n # 1 => pump[<<j, n>>] = "none"
        BY <1>0, <2>2, <1>17 DEF Served
      <3>4. \A n \in 1 .. MaxOpen : n # 1 => pump'[<<j, n>>] = "none"
        BY <1>0, <1>17, <1>10, <2>2, <3>1, <3>3 DEF DrainFails, Drop, TypeOK
      <3> QED
        BY <3>2, <3>4 DEF Silent
    <2> QED
      BY <1>0, <1>17, <1>5, <1>10, <2>1, <2>2 DEF DrainFails, Drop
  <1>11. CASE Teardown
    <2>1. Silent(j) => Silent(j)'
      BY <1>0, <1>17, <1>11 DEF Teardown, Silent, TypeOK
    <2> QED
      BY <1>0, <1>17, <1>5, <1>11, <2>1 DEF Teardown
  <1>12. CASE ClientGone
    <2>1. Silent(j) => Silent(j)'
      BY <1>12 DEF ClientGone, Silent
    <2> QED
      BY <1>0, <1>17, <1>5, <1>12, <2>1 DEF ClientGone
  <1>13. ASSUME NEW i \in Id, ClientOpen(i) PROVE Goal
    <2>0. <<"open", i>> \in Frame /\ Send(<<"open", i>>)
      BY <1>13 DEF ClientOpen, Frame
    <2>1. /\ i # j => (Asked(j)' => Asked(j)) /\ (Single(j) => Single(j)')
          /\ ~Asked(j) => Single(j)'
      BY <1>0, <2>0, SendAsked
    <2>2. Silent(j) => Silent(j)'
      BY <1>13 DEF ClientOpen, Silent
    <2> QED
      BY <1>0, <1>17, <1>13, <2>1, <2>2 DEF ClientOpen, TypeOK
  <1>14. ASSUME NEW i \in Id, ClientData(i) \/ ClientMalformed(i) \/ ClientClose(i)
         PROVE  Goal
    <2>1. PICK type \in {"bad open", "data", "bad data", "close"} : Send(<<type, i>>)
      BY <1>14 DEF ClientData, ClientMalformed, ClientClose
    <2>2. <<type, i>> \in Frame /\ <<type, i>> # <<"open", j>>
      BY DEF Frame
    <2>3. (Asked(j)' => Asked(j)) /\ (Single(j) => Single(j)')
      BY <1>0, <2>1, <2>2, SendAsked
    <2>4. Silent(j) => Silent(j)'
      BY <1>14 DEF ClientData, ClientMalformed, ClientClose, Silent
    <2> QED
      BY <1>0, <1>17, <1>14, <2>3, <2>4 DEF ClientData, ClientMalformed, ClientClose, TypeOK
  <1>15. ASSUME NEW k \in Stream, Pump(k) \/ UpstreamEnds(k) PROVE Goal
    <2>1. UNCHANGED <<inbox, h, cur, sess, served, opens>>
      BY <1>15 DEF Pump, PumpChunk, PumpPushed, PumpEnd, PumpAnnounced, UpstreamEnds
    <2>2. Silent(j) => Silent(j)'
      BY <1>0, <1>17, <1>15 DEF Pump, PumpChunk, PumpPushed, PumpEnd, PumpAnnounced,
         PumpTo, UpstreamEnds, Silent, TypeOK
    <2>3. ASSUME told'[j], ~told[j], served[j] <= 1
          PROVE  served[j] = 1 /\ Silent(j)'
      <3>1. PumpAnnounced(k)
        BY <1>15, <2>3 DEF Pump, PumpChunk, PumpPushed, PumpEnd, UpstreamEnds
      <3>2. k[1] = j /\ k[2] \in 1 .. MaxOpen /\ k = <<k[1], k[2]>>
        BY <1>0, <2>3, <3>1 DEF PumpAnnounced, TellClosed, TypeOK, Stream
      <3>3. k[2] = 1 /\ served[j] = 1
        BY <1>0, <1>17, <2>3, <3>1, <3>2 DEF PumpAnnounced, Served
      <3>4. \A n \in 1 .. MaxOpen : n # 1 => pump[<<j, n>>] = "none"
        BY <1>0, <3>3 DEF Served
      <3>5. \A n \in 1 .. MaxOpen : n # 1 => pump'[<<j, n>>] = "none"
        BY <1>0, <1>17, <3>1, <3>2, <3>3, <3>4 DEF PumpAnnounced, PumpTo, TypeOK
      <3>6. pump'[<<j, 1>>] = "ended"
        BY <1>0, <1>17, <3>1, <3>2, <3>3 DEF PumpAnnounced, PumpTo, TypeOK
      <3> QED
        BY <3>3, <3>5, <3>6 DEF Silent
    <2>4. told[j] => told'[j]
      BY <1>0, <1>15 DEF Pump, PumpChunk, PumpPushed, PumpEnd, PumpAnnounced,
         TellClosed, UpstreamEnds, TypeOK
    <2>5. told[j] \in BOOLEAN /\ told'[j] \in BOOLEAN
      BY <1>0, NextType DEF TypeOK
    <2>6. opens[j] = 1 => (h \in {"guard", "dial"} /\ cur = j => served[j] = 0)
      BY <1>0
    <2> QED
      BY <1>0, <1>17, <1>5, <2>1, <2>2, <2>3, <2>4, <2>5, <2>6
  <1>16. CASE UNCHANGED vars
    BY <1>0, <1>5, <1>16 DEF vars, Silent
  <1> QED
    BY <1>1, <1>2, <1>3, <1>4, <1>6, <1>7, <1>8, <1>9, <1>10, <1>11, <1>12, <1>13,
       <1>14, <1>15, <1>16 DEF Next, Serve, Disconnected, Client

LEMMA NextInv == IInv /\ [Next]_vars => IInv'
  BY NextType, NextHeld, NextServed, NextOnce DEF IInv, HeldInv

\* A client that opened an id once and is told that it is closed gets no more
\* data from it, whoever told it: in every state, for every number of streams.
THEOREM ToldTruly == Spec => []ToldIsTrue
  <1>1. IInv => ToldIsTrue
    BY DEF IInv, OpenedOnce, Silent, ToldIsTrue, Stream
  <1> QED
    BY InitInv, NextInv, <1>1, PTL DEF Spec
=============================================================================
