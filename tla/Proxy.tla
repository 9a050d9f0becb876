-------------------------------- MODULE Proxy --------------------------------
(***************************************************************************)
(* The browser proxy of one WebSocket connection (ws_endpoint and          *)
(* _proxy_pump of src/app/ws/relay.py): the handler, which serves the      *)
(* client's frames one at a time, and one pump per stream, which carries   *)
(* what the remote host sends.                                             *)
(*                                                                         *)
(* A stream is <<id, n>>, the n-th that was opened under that id.  A       *)
(* cancelled pump runs no more of its code.  Pushes go to every socket of  *)
(* the user; the client is taken to use an id on one of its sockets only.  *)
(***************************************************************************)
EXTENDS Naturals, Sequences

CONSTANTS
    Id,             \* stream ids of the client
    MaxOpen,        \* bound: times that an id is opened
    MaxInbox        \* bound: frames under way to the server

ASSUME ProxyConstants == MaxOpen \in Nat \ {0} /\ MaxInbox \in Nat

VARIABLES
    link,           \* "open" or "dead"
    inbox,          \* frames of the client that the handler has not read
    h, cur,         \* the await that the handler is at, the id it is about
    sess,           \* proxy_sessions: the number of the id's stream, 0 for none
    served,         \* streams opened so far under an id
    pump,           \* the await that a stream's pump is at
    writer,         \* our half of a stream's connection
    up,             \* the remote host's half
    opens, closed,  \* client: times it opened the id, properly; it has closed it
    told            \* client: it was told that the id is closed

handler == <<h, cur>>
streams == <<sess, served, pump, writer, up>>
client == <<opens, closed, told>>
vars == <<link, inbox, handler, streams, client>>

Stream == Id \X (1 .. MaxOpen)

\* A bad frame has no id, host or port that the handler takes, or no chunk.
Frame == {"open", "bad open", "data", "bad data", "close"} \X Id
Nothing == "no id"

TypeOK ==
    /\ link \in {"open", "dead"}
    /\ inbox \in Seq(Frame)
    /\ h \in {"loop", "guard", "dial", "tell", "drain", "gone"}
    /\ cur \in Id \cup {Nothing}
    /\ sess \in [Id -> 0 .. MaxOpen]
    /\ served \in [Id -> 0 .. MaxOpen]
    /\ pump \in [Stream -> {"none", "read", "push", "announce", "ended"}]
    /\ writer \in [Stream -> {"none", "open", "closed"}]
    /\ up \in [Stream -> {"none", "open", "ended"}]
    /\ opens \in [Id -> 0 .. MaxOpen]
    /\ closed \in [Id -> BOOLEAN]
    /\ told \in [Id -> BOOLEAN]

Init ==
    /\ link = "open" /\ inbox = <<>>
    /\ h = "loop" /\ cur = Nothing
    /\ sess = [i \in Id |-> 0]
    /\ served = [i \in Id |-> 0]
    /\ pump = [k \in Stream |-> "none"]
    /\ writer = [k \in Stream |-> "none"]
    /\ up = [k \in Stream |-> "none"]
    /\ opens = [i \in Id |-> 0]
    /\ closed = [i \in Id |-> FALSE]
    /\ told = [i \in Id |-> FALSE]

-----------------------------------------------------------------------------
(* The client.                                                             *)

Send(f) ==
    /\ link = "open" /\ Len(inbox) < MaxInbox
    /\ inbox' = Append(inbox, f)

ClientOpen(i) ==
    /\ opens[i] < MaxOpen
    /\ Send(<<"open", i>>)
    /\ opens' = [opens EXCEPT ![i] = @ + 1]
    /\ closed' = [closed EXCEPT ![i] = FALSE]
    /\ told' = [told EXCEPT ![i] = FALSE]
    /\ UNCHANGED <<link, handler, streams>>

ClientData(i) ==
    /\ opens[i] > 0 /\ ~closed[i]
    /\ Send(<<"data", i>>)
    /\ UNCHANGED <<link, handler, streams, client>>

ClientMalformed(i) ==
    /\ Send(<<"bad open", i>>) \/ Send(<<"bad data", i>>)
    /\ UNCHANGED <<link, handler, streams, client>>

ClientClose(i) ==
    /\ opens[i] > 0
    /\ Send(<<"close", i>>)
    /\ closed' = [closed EXCEPT ![i] = TRUE]
    /\ UNCHANGED <<link, handler, streams, opens, told>>

ClientGone ==
    /\ link = "open"
    /\ link' = "dead"
    /\ UNCHANGED <<inbox, handler, streams, client>>

\* A proxy-close reaches the client unless the connection is dead.
TellClosed(i) == told' = [told EXCEPT ![i] = @ \/ link = "open"]

-----------------------------------------------------------------------------
(* The handler.                                                            *)

Goto(l, i) == h' = l /\ cur' = i

Entry(i) == <<i, sess[i]>>

Reads(type, i) ==
    /\ h = "loop" /\ inbox # <<>> /\ Head(inbox) = <<type, i>>
    /\ inbox' = Tail(inbox)

\* Mutant: an id that is in use is opened once more.
AnyId(i) == opens[i] > 0

Unused(i) == sess[i] = 0

OpenRead(i) ==
    /\ Reads("open", i) /\ Unused(i)
    /\ Goto("guard", i)
    /\ UNCHANGED <<link, streams, client>>

\* Whoever opens an id that is in use, or asks for what is no id, host or port,
\* gets no answer.
OpenDropped(i) ==
    /\ \/ Reads("open", i) /\ ~Unused(i)
       \/ Reads("bad open", i)
    /\ UNCHANGED <<link, handler, streams, client>>

\* _proxy_target_allowed looks the host's addresses up, and allows or refuses.
Guard ==
    /\ h = "guard"
    /\ \E l \in {"dial", "tell"} : Goto(l, cur)
    /\ UNCHANGED <<link, inbox, streams, client>>

Dialled ==
    /\ h = "dial" /\ served[cur] < MaxOpen
    /\ LET k == <<cur, served[cur] + 1>>
       IN  /\ served' = [served EXCEPT ![cur] = @ + 1]
           /\ sess' = [sess EXCEPT ![cur] = served[cur] + 1]
           /\ pump' = [pump EXCEPT ![k] = "read"]
           /\ writer' = [writer EXCEPT ![k] = "open"]
           /\ up' = [up EXCEPT ![k] = "open"]
    /\ Goto("loop", Nothing)
    /\ UNCHANGED <<link, inbox, client>>

DialFails ==
    /\ h = "dial"
    /\ Goto("tell", cur)
    /\ UNCHANGED <<link, inbox, streams, client>>

\* Mutant: break in place of continue.
TellAndLeave ==
    /\ h = "tell"
    /\ TellClosed(cur)
    /\ Goto("left", Nothing)
    /\ UNCHANGED <<link, inbox, streams, opens, closed>>

Tell ==
    /\ h = "tell"
    /\ TellClosed(cur)
    /\ Goto("loop", Nothing)
    /\ UNCHANGED <<link, inbox, streams, opens, closed>>

\* An entry is dropped, its pump cancelled and its writer closed.
Drop(i) ==
    /\ sess' = [sess EXCEPT ![i] = 0]
    /\ pump' = [pump EXCEPT ![Entry(i)] = "ended"]
    /\ writer' = [writer EXCEPT ![Entry(i)] = "closed"]
    /\ UNCHANGED <<served, up>>

DataRead(i) ==
    /\ Reads("data", i) /\ sess[i] # 0
    /\ Goto("drain", i)
    /\ UNCHANGED <<link, streams, client>>

DataDropped(i) ==
    /\ \/ Reads("data", i) /\ sess[i] = 0
       \/ Reads("bad data", i)
    /\ UNCHANGED <<link, handler, streams, client>>

\* The remote host reads, or the connection breaks, or neither ever happens:
\* the wait has no limit.
Drained ==
    /\ h = "drain"
    /\ Goto("loop", Nothing)
    /\ UNCHANGED <<link, inbox, streams, client>>

DrainFails ==
    /\ h = "drain"
    /\ Drop(cur)
    /\ Goto("tell", cur)
    /\ UNCHANGED <<link, inbox, client>>

CloseRead(i) ==
    /\ Reads("close", i) /\ sess[i] # 0
    /\ Drop(i)
    /\ UNCHANGED <<link, handler, client>>

CloseDropped(i) ==
    /\ Reads("close", i) /\ sess[i] = 0
    /\ UNCHANGED <<link, handler, streams, client>>

Entries == {Entry(i) : i \in {j \in Id : sess[j] # 0}}

\* The finally block: the client is gone, or the handler is cancelled at any await.
Teardown ==
    /\ h # "gone"
    /\ pump' = [k \in Stream |-> IF k \in Entries THEN "ended" ELSE pump[k]]
    /\ writer' = [k \in Stream |-> IF k \in Entries THEN "closed" ELSE writer[k]]
    /\ sess' = [i \in Id |-> 0]
    /\ Goto("gone", Nothing)
    /\ link' = "dead"
    /\ UNCHANGED <<inbox, served, up, client>>

Disconnected == h = "loop" /\ link = "dead" /\ Teardown

-----------------------------------------------------------------------------
(* The pumps, and the remote hosts.                                        *)

PumpTo(k, l) == pump' = [pump EXCEPT ![k] = l]

PumpChunk(k) ==
    /\ pump[k] = "read" /\ up[k] = "open"
    /\ PumpTo(k, "push")
    /\ UNCHANGED <<link, inbox, handler, sess, served, writer, up, client>>

PumpPushed(k) ==
    /\ pump[k] = "push"
    /\ PumpTo(k, "read")
    /\ UNCHANGED <<link, inbox, handler, sess, served, writer, up, client>>

\* Mutant: the end of the remote host's data ends the pump without a word.
PumpSilent(k) ==
    /\ pump[k] = "read" /\ up[k] = "ended"
    /\ PumpTo(k, "ended")
    /\ UNCHANGED <<link, inbox, handler, sess, served, writer, up, client>>

PumpEnd(k) ==
    /\ pump[k] = "read" /\ up[k] = "ended"
    /\ PumpTo(k, "announce")
    /\ UNCHANGED <<link, inbox, handler, sess, served, writer, up, client>>

\* Mutant: the loop is not left at the end of the data.
PumpGoesOn(k) ==
    /\ pump[k] = "announce"
    /\ TellClosed(k[1])
    /\ PumpTo(k, "read")
    /\ UNCHANGED <<link, inbox, handler, sess, served, writer, up, opens, closed>>

\* The entry stays, and so does our half of the connection.
PumpAnnounced(k) ==
    /\ pump[k] = "announce"
    /\ TellClosed(k[1])
    /\ PumpTo(k, "ended")
    /\ UNCHANGED <<link, inbox, handler, sess, served, writer, up, opens, closed>>

UpstreamEnds(k) ==
    /\ up[k] = "open"
    /\ up' = [up EXCEPT ![k] = "ended"]
    /\ UNCHANGED <<link, inbox, handler, sess, served, pump, writer, client>>

-----------------------------------------------------------------------------

Serve ==
    \/ Guard \/ Dialled \/ DialFails \/ Tell \/ Disconnected
    \/ \E i \in Id :
         \/ OpenRead(i) \/ OpenDropped(i)
         \/ DataRead(i) \/ DataDropped(i)
         \/ CloseRead(i) \/ CloseDropped(i)

Pump(k) == PumpChunk(k) \/ PumpPushed(k) \/ PumpEnd(k) \/ PumpAnnounced(k)

Client(i) == ClientOpen(i) \/ ClientData(i) \/ ClientMalformed(i) \/ ClientClose(i)

Next ==
    \/ Serve \/ Drained \/ DrainFails \/ Teardown \/ ClientGone
    \/ \E i \in Id : Client(i)
    \/ \E k \in Stream : Pump(k) \/ UpstreamEnds(k)

Spec == Init /\ [][Next]_vars

\* The handler and the pumps run when they can: look-ups of names end, dialling has
\* a time limit (PROXY_DIAL_TIMEOUT_S), and a WebSocket takes what it is sent or is
\* closed by the server's keep-alive.  Nothing is assumed of clients and of remote
\* hosts, in particular not that a drain ever ends.
Fairness == WF_vars(Serve) /\ \A k \in Stream : WF_vars(Pump(k))

FairSpec == Spec /\ Fairness

-----------------------------------------------------------------------------
(* Properties.                                                             *)

Alive(k) == pump[k] \in {"read", "push", "announce"}

\* Nothing escapes the table: a stream whose pump runs or whose writer is open is
\* the entry under its id, where a close, a failed write or the end of the
\* connection finds it; so that "kill every upstream session with the socket"
\* (relay.py:732) leaves none behind.
StreamsAreHeld ==
    /\ \A k \in Stream : Alive(k) \/ writer[k] = "open" => sess[k[1]] = k[2]
    /\ h = "gone" => \A i \in Id : sess[i] = 0

\* A client that opened an id once and was told that its stream is closed gets no
\* more data from it: whoever tells it, pump or handler, has stopped the pump before.
ToldIsTrue ==
    \A k \in Stream : told[k[1]] /\ opens[k[1]] = 1 => pump[k] \notin {"read", "push"}

Flowing(i) == \E k \in Stream :
    k[1] = i /\ pump[k] \in {"read", "push"} /\ up[k] = "open"

Hanging(i) ==
    /\ link = "open" /\ opens[i] = 1
    /\ ~closed[i] /\ ~told[i] /\ ~Flowing(i)

\* The handler waits for ever at the drain of some stream, and i has no stream yet.
Blocked(i) == h = "drain" /\ ~ \E k \in Stream : k[1] = i /\ Alive(k)

\* "Tell the client the stream is dead (fail-closed) so it never hangs on a
\* half-open id" (relay.py:421), and "silent drops would hang the client" (:543): a
\* client that opened an id once, and properly, is served by the remote host or told
\* that it is closed, if the connection lasts.  A stream that was dialled is told of
\* its end even if the handler never leaves the drain of another one; an id whose
\* opening waits behind such a drain is not.
NobodyHangs == \A i \in Id : <>[]Blocked(i) \/ (Hanging(i) ~> ~Hanging(i))
=============================================================================
