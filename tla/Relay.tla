------------------------------- MODULE Relay -------------------------------
(***************************************************************************)
(* The message relay of src/app/ws/relay.py: one coroutine (ws_endpoint)   *)
(* per WebSocket, all running on one event loop, sharing the in-memory     *)
(* Broker and two database tables, offline_queue and pending_receipts.     *)
(*                                                                         *)
(* The event loop runs one coroutine at a time and switches only at an     *)
(* await, so an action here is what a coroutine does from one await to the *)
(* next.  A database statement takes effect in the action of its await.    *)
(* The Broker's lock is never held across an await: taking it does not     *)
(* suspend, and it is left out.  The Presence table, which no statement of *)
(* the relay reads to decide anything, is the subject of module Presence.  *)
(*                                                                         *)
(* A connection (Sock) belongs to one user.  When it is closed its client  *)
(* may open it again: a new WebSocket, a new coroutine.                    *)
(***************************************************************************)
EXTENDS Naturals, FiniteSets

CONSTANTS
    User,           \* account names
    Sock,           \* the connections that clients hold
    Owner,          \* Owner[s] is the account whose token opened s
    Msg,            \* message ids
    From, To,       \* the sender and the recipient of each message
    PeerKind,       \* kinds of receipt that recipients generate themselves
    NudgeTo,        \* users to whom live-only frames are addressed
    Ageing,         \* messages that may outlive the retention period
    FlushLimit,     \* rows listed by one flush (100 in the code)
    AckMemory,      \* entries of recently_acked (1024 in the code)
    Faults,         \* what may go wrong in this instance: see FaultKind
    Frail,          \* the connections it may happen to
    None            \* no message, no coroutine

FaultKind == {"close",      \* connections end
              "resend",     \* a client sends a message that it sent before
              "vanish",     \* a client is gone and the server does not notice yet
              "crash",      \* the process dies and restarts
              "cancel",     \* a coroutine is cancelled, or its database fails
              "connect"}    \* the same, while it still sets up its connection

ASSUME RelayConstants ==
    /\ Owner \in [Sock -> User]
    /\ From \in [Msg -> User]
    /\ To \in [Msg -> User]
    /\ PeerKind \subseteq {"read", "decrypt-failed", "decrypted"}
    /\ NudgeTo \subseteq User
    /\ Ageing \subseteq Msg
    /\ FlushLimit \in Nat \ {0}
    /\ AckMemory \in Nat \ {0}
    /\ Faults \subseteq FaultKind
    /\ Frail \subseteq Sock
    /\ None \notin Sock \cup Msg

VARIABLES
    \* the transport, as the server sees it
    link,           \* "closed", "open", "lost" (client gone, unnoticed), "dead"
    \* one coroutine per connection
    pc,             \* the await it is suspended at
    cur,            \* the frame it is working on: <<kind, message>>
    batch,          \* frames that its flush has still to push
    todo,           \* targets that its push has still to write to
    sent,           \* a write of this push succeeded
    failed,         \* targets whose write raised
    \* Broker: lost when the process dies
    online,         \* the sockets of the broker's table
    acks,           \* acks[m]: the coroutine whose event waits under (To[m], m)
    woken,          \* coroutines whose event is set
    racked,         \* recently_acked: messages whose sender is remembered
    \* the database
    queue,          \* offline_queue
    receipts,       \* pending_receipts: <<kind, message>>, addressed to From
    \* who knows the uuid of a receipt's present row
    holds,          \* <<s, r>>: coroutine s does
    named,          \* the addressee's client does
    \* the clients
    have,           \* messages stored by the recipient's device
    acked,          \* messages whose ack the relay read from their recipient
    seen,           \* receipts that reached the client of their addressee
    told,           \* messages whose "stored" reached their sender's client
    shown           \* shown[s]: frames that reached the client of s since it connected

db == <<queue, receipts>>
ids == <<holds, named>>
memory == <<online, acks, woken, racked>>
clients == <<have, acked, seen, told, shown>>
pushing == <<todo, sent, failed>>
vars == <<link, pc, cur, batch, pushing, memory, db, ids, clients>>

Kind == {"delivered"} \cup PeerKind
Receipt == Kind \X Msg
Letter == {"msg"} \X Msg
NoFrame == <<"none", None>>
Frame == Letter \cup Receipt \cup {NoFrame}

\* The user a frame is addressed to, and the sockets the broker has for a user.
Addressee(f) == IF f[1] = "msg" THEN To[f[2]] ELSE From[f[2]]
Conns(u) == {s \in online : Owner[s] = u}

\* A receipt is about a message and goes to its sender.
Tick(m) == <<"delivered", m>>

\* The awaits of ws_endpoint and of what it calls.
Point == {"off", "select", "flush", "push_flush", "rflush", "push_rflush", "recv",
          "tell", "route", "push_msg", "wait", "del_get", "del_commit",
          "pop_get", "pop_commit", "consume", "store", "reselect", "live", "push_live"}

TypeOK ==
    /\ link \in [Sock -> {"closed", "open", "lost", "dead"}]
    /\ pc \in [Sock -> Point]
    /\ cur \in [Sock -> Frame]
    /\ batch \in [Sock -> SUBSET (Letter \cup Receipt)]
    /\ todo \in [Sock -> SUBSET Sock]
    /\ sent \in [Sock -> BOOLEAN]
    /\ failed \in [Sock -> SUBSET Sock]
    /\ acks \in [Msg -> Sock \cup {None}]
    /\ shown \in [Sock -> SUBSET Frame]
    /\ online \subseteq Sock /\ woken \subseteq Sock
    /\ queue \subseteq Msg /\ racked \subseteq Msg
    /\ have \subseteq Msg /\ acked \subseteq Msg /\ told \subseteq Msg
    /\ receipts \subseteq Receipt /\ seen \subseteq Receipt /\ named \subseteq Receipt
    /\ holds \subseteq Sock \X Receipt

Init ==
    /\ link = [s \in Sock |-> "closed"]
    /\ pc = [s \in Sock |-> "off"]
    /\ cur = [s \in Sock |-> NoFrame]
    /\ batch = [s \in Sock |-> {}]
    /\ todo = [s \in Sock |-> {}]
    /\ sent = [s \in Sock |-> FALSE]
    /\ failed = [s \in Sock |-> {}]
    /\ shown = [s \in Sock |-> {}]
    /\ acks = [m \in Msg |-> None]
    /\ online = {} /\ woken = {} /\ racked = {} /\ holds = {}
    /\ queue = {} /\ receipts = {} /\ named = {}
    /\ have = {} /\ acked = {} /\ seen = {} /\ told = {}

-----------------------------------------------------------------------------
(* Moving a coroutine.                                                     *)

At(s, l) == pc[s] = l
Goto(s, l) == pc' = [pc EXCEPT ![s] = l]
Work(s, f) == cur' = [cur EXCEPT ![s] = f]

\* Back to receive_text.
Resume(s) == Goto(s, "recv") /\ Work(s, NoFrame)

\* The coroutine forgets what it knows about receipt ids.
Forget(s) == holds' = {p \in holds : p[1] # s}

\* Mutant: only the socket found first is written to.
StartPushToOne(s, u, l) ==
    /\ Goto(s, l)
    /\ todo' = [todo EXCEPT ![s] = IF Conns(u) = {} THEN {} ELSE {CHOOSE w \in Conns(u) : TRUE}]
    /\ sent' = [sent EXCEPT ![s] = FALSE]
    /\ failed' = [failed EXCEPT ![s] = {}]

\* A push takes a snapshot of the addressee's sockets.
StartPush(s, u, l) ==
    /\ Goto(s, l)
    /\ todo' = [todo EXCEPT ![s] = Conns(u)]
    /\ sent' = [sent EXCEPT ![s] = FALSE]
    /\ failed' = [failed EXCEPT ![s] = {}]

-----------------------------------------------------------------------------
(* Connecting: accept, register, presence row, flush.                      *)

\* Broker.connect.  (The presence row is written before the flush: module
\* Presence.)  A name is used again once nothing remembers the old socket.
Connect(s) ==
    /\ At(s, "off")
    /\ s \notin online
    /\ \A t \in Sock : s \notin todo[t] \cup failed[t]
    /\ link' = [link EXCEPT ![s] = "open"]
    /\ online' = online \cup {s}
    /\ Goto(s, "select")
    /\ UNCHANGED <<cur, batch, pushing, acks, woken, racked, db, ids, clients>>

\* What a query LIMITed to FlushLimit rows may list of R: everything, or that
\* many.  (created_at has a resolution of one second: any order can occur.)
Listing(R) ==
    {B \in SUBSET R : B = R \/ Cardinality(B) = FlushLimit}
        \cap {B \in SUBSET R : Cardinality(B) <= FlushLimit}

\* Mutants: rows are listed without their kind; listed rows are deleted.
FlushSelectBare(s) ==
    /\ At(s, "select")
    /\ batch' = [batch EXCEPT ![s] = {m \in queue : To[m] = Owner[s]}]
    /\ Goto(s, "flush")
    /\ UNCHANGED <<link, cur, pushing, memory, db, ids, clients>>

FlushSelectTakes(s) ==
    /\ At(s, "select")
    /\ \E B \in Listing({m \in queue : To[m] = Owner[s]}) :
         /\ batch' = [batch EXCEPT ![s] = {"msg"} \X B]
         /\ queue' = queue \ B
    /\ Goto(s, "flush")
    /\ UNCHANGED <<link, cur, pushing, memory, receipts, ids, clients>>

\* flush_queue: expired rows die, the others are listed.
FlushSelect(s) ==
    /\ At(s, "select")
    /\ \E D \in SUBSET {m \in queue \cap Ageing : To[m] = Owner[s]} :
         /\ queue' = queue \ D
         /\ \E B \in Listing({m \in queue \ D : To[m] = Owner[s]}) :
              batch' = [batch EXCEPT ![s] = {"msg"} \X B]
    /\ Goto(s, "flush")
    /\ UNCHANGED <<link, cur, pushing, memory, receipts, ids, clients>>

\* The next listed row, message or receipt, is pushed to every socket of the
\* user; with no socket left the push fails at once and the flush stops.
FlushRow(s, f, here, there) ==
    /\ At(s, here) /\ f \in batch[s]
    /\ IF Conns(Owner[s]) = {}
         THEN /\ batch' = [batch EXCEPT ![s] = {}]
              /\ UNCHANGED <<pc, cur, pushing>>
         ELSE /\ batch' = [batch EXCEPT ![s] = @ \ {f}]
              /\ Work(s, f)
              /\ StartPush(s, Owner[s], there)
    /\ UNCHANGED <<link, memory, db, ids, clients>>

FlushMessage(s, f) == FlushRow(s, f, "flush", "push_flush")
FlushReceipt(s, f) == FlushRow(s, f, "rflush", "push_rflush")

\* The second half of flush_queue: the receipts addressed to this user.
FlushSelectReceipts(s) ==
    /\ At(s, "flush") /\ batch[s] = {}
    /\ \E D \in SUBSET {r \in receipts : r[2] \in Ageing /\ From[r[2]] = Owner[s]} :
         /\ receipts' = receipts \ D
         /\ named' = named \ D
         /\ \E B \in Listing({r \in receipts \ D : From[r[2]] = Owner[s]}) :
              /\ batch' = [batch EXCEPT ![s] = B]
              /\ holds' = {p \in holds : p[2] \notin D} \cup ({s} \X B)
    /\ Goto(s, "rflush")
    /\ UNCHANGED <<link, cur, pushing, memory, queue, clients>>

FlushEnd(s) ==
    /\ At(s, "rflush") /\ batch[s] = {}
    /\ Goto(s, "recv") /\ Forget(s)
    /\ UNCHANGED <<link, cur, batch, pushing, memory, db, named, clients>>

-----------------------------------------------------------------------------
(* Broker.push, after its snapshot.                                        *)

PushPc == {"push_flush", "push_rflush", "push_msg", "push_live"}

\* The frame that s is pushing reaches the client behind w.  A client whose
\* link is lost never sees it.
Deliver(s, w) ==
    LET f == cur[s]
        mine == f # NoFrame /\ Addressee(f) = Owner[w] IN
    /\ have' = IF f \in Letter /\ mine THEN have \cup {f[2]} ELSE have
    /\ shown' = IF f = NoFrame THEN shown ELSE [shown EXCEPT ![w] = @ \cup {f}]
    /\ seen' = IF f \in Receipt /\ mine THEN seen \cup {f} ELSE seen
    /\ named' = IF f \in Receipt /\ mine /\ <<s, f>> \in holds
                  THEN named \cup {f} ELSE named

PushWrite(s, w) ==
    /\ pc[s] \in PushPc
    /\ w \in todo[s]
    /\ todo' = [todo EXCEPT ![s] = @ \ {w}]
    /\ \/ /\ link[w] = "open"
          /\ Deliver(s, w)
          /\ sent' = [sent EXCEPT ![s] = TRUE]
          /\ UNCHANGED failed
       \/ /\ link[w] = "lost"
          /\ sent' = [sent EXCEPT ![s] = TRUE]
          /\ UNCHANGED <<failed, have, seen, shown, named>>
       \/ /\ link[w] \in {"dead", "closed"}
          /\ failed' = [failed EXCEPT ![s] = @ \cup {w}]
          /\ UNCHANGED <<sent, have, seen, shown, named>>
    /\ UNCHANGED <<link, pc, cur, batch, memory, db, holds, acked, told>>

\* All targets are written: dead sockets are discarded, push returns.
PushReturns(s, l) ==
    /\ At(s, l) /\ todo[s] = {}
    /\ online' = online \ failed[s]
    /\ failed' = [failed EXCEPT ![s] = {}]
    /\ sent' = [sent EXCEPT ![s] = FALSE]
    /\ UNCHANGED <<link, todo, racked, db, named, clients>>

\* flush_queue stops at the first row that reached no socket.
FlushPushed(s, here, there) ==
    /\ PushReturns(s, here)
    /\ batch' = IF sent[s] THEN batch ELSE [batch EXCEPT ![s] = {}]
    /\ Goto(s, there) /\ Work(s, NoFrame)
    /\ UNCHANGED <<acks, woken, holds>>

MessageFlushed(s) == FlushPushed(s, "push_flush", "flush")
ReceiptFlushed(s) == FlushPushed(s, "push_rflush", "rflush")

\* Mutant: the tick is written on transmission, before any ack.
TickOnPush(s) ==
    /\ PushReturns(s, "push_msg")
    /\ sent[s]
    /\ Goto(s, "store") /\ Work(s, Tick(cur[s][2]))
    /\ UNCHANGED <<acks, batch, holds, woken>>

\* expect_ack: a fresh event is registered, over any older one.
ExpectAck(s) ==
    /\ PushReturns(s, "push_msg")
    /\ sent[s]
    /\ acks' = [acks EXCEPT ![cur[s][2]] = s]
    /\ Goto(s, "wait")
    /\ UNCHANGED <<cur, batch, holds, woken>>

\* Nobody could be reached: the row waits for the next connect.
PushFailed(s) ==
    /\ PushReturns(s, "push_msg")
    /\ ~sent[s]
    /\ Resume(s)
    /\ UNCHANGED <<batch, acks, woken, holds>>

LivePushed(s) ==
    /\ PushReturns(s, "push_live")
    /\ Resume(s) /\ Forget(s)
    /\ UNCHANGED <<batch, acks, woken>>

-----------------------------------------------------------------------------
(* Sending a message.                                                      *)

\* Mutant: a message to a user with a socket is not stored, only pushed.
SendUnstored(s, m) ==
    /\ At(s, "recv") /\ From[m] = Owner[s] /\ m \notin queue
    /\ m \notin have \/ "resend" \in Faults
    /\ queue' = IF Conns(To[m]) = {} THEN queue \cup {m} ELSE queue
    /\ Goto(s, "tell") /\ Work(s, <<"msg", m>>)
    /\ UNCHANGED <<link, batch, pushing, memory, receipts, ids, clients>>

\* INSERT first.  A client may send a message more than once: it cannot know
\* what became of it when its connection breaks.
Send(s, m) ==
    /\ At(s, "recv") /\ From[m] = Owner[s] /\ m \notin queue
    /\ m \notin have \/ "resend" \in Faults
    /\ queue' = queue \cup {m}
    /\ Goto(s, "tell") /\ Work(s, <<"msg", m>>)
    /\ UNCHANGED <<link, batch, pushing, memory, receipts, ids, clients>>

\* "stored" goes to the sender on its own socket; a failure is ignored.
TellStored(s) ==
    /\ At(s, "tell")
    /\ told' = IF link[s] = "open" THEN told \cup {cur[s][2]} ELSE told
    /\ Goto(s, "route")
    /\ UNCHANGED <<link, cur, batch, pushing, memory, db, ids,
                   have, acked, seen, shown>>

RouteOnline(s) ==
    /\ At(s, "route")
    /\ Conns(Addressee(cur[s])) # {}
    /\ StartPush(s, Addressee(cur[s]), "push_msg")
    /\ UNCHANGED <<link, cur, batch, memory, db, ids, clients>>

\* The recipient is away: a push notification (_maybe_ping) and no more.
RouteOffline(s) ==
    /\ At(s, "route")
    /\ Conns(Addressee(cur[s])) = {}
    /\ Resume(s)
    /\ UNCHANGED <<link, batch, pushing, memory, db, ids, clients>>

\* The ack came within ACK_TIMEOUT_SEC ...
Acked(s) ==
    /\ At(s, "wait") /\ s \in woken
    /\ woken' = woken \ {s}
    /\ Goto(s, "del_get")
    /\ UNCHANGED <<link, cur, batch, pushing, online, acks, racked, db, ids, clients>>

\* Mutants: the wait has no timeout; its end is taken for the ack.
WaitForever(s) ==
    /\ At(s, "wait") /\ s \in woken
    /\ woken' = woken \ {s}
    /\ Resume(s)
    /\ UNCHANGED <<link, batch, pushing, online, acks, racked, db, ids, clients>>

TimeoutDeletes(s) ==
    /\ At(s, "wait")
    /\ woken' = woken \ {s}
    /\ Goto(s, "del_get")
    /\ UNCHANGED <<link, cur, batch, pushing, online, acks, racked, db, ids, clients>>

\* ... or it did not: the row stays, and so does the event's registration.
AckTimeout(s) ==
    /\ At(s, "wait")
    /\ woken' = woken \ {s}
    /\ Resume(s)
    /\ UNCHANGED <<link, batch, pushing, online, acks, racked, db, ids, clients>>

\* _delete_msg: load the row, then delete it.
DeleteLoad(s) ==
    /\ At(s, "del_get")
    /\ IF cur[s][2] \in queue
         THEN Goto(s, "del_commit") /\ UNCHANGED cur
         ELSE Resume(s)
    /\ UNCHANGED <<link, batch, pushing, memory, db, ids, clients>>

DeleteCommit(s) ==
    /\ At(s, "del_commit")
    /\ queue' = queue \ {cur[s][2]}
    /\ Resume(s)
    /\ UNCHANGED <<link, batch, pushing, memory, receipts, ids, clients>>

-----------------------------------------------------------------------------
(* Acks of messages.                                                       *)

\* An event that nobody waits for any more is garbage.
Awaits(t, m) == At(t, "wait") /\ cur[t] = <<"msg", m>>

\* The recipient's client acks what it stored, as often as it likes: the ack
\* wakes the sender's coroutine before anything is awaited.
AckRead(s, m) ==
    /\ At(s, "recv") /\ To[m] = Owner[s] /\ m \in have
    /\ acked' = acked \cup {m}
    /\ acks' = [acks EXCEPT ![m] = None]
    /\ woken' = woken \cup {t \in Sock : t = acks[m] /\ Awaits(t, m)}
    /\ Goto(s, "pop_get") /\ Work(s, Tick(m))
    /\ UNCHANGED <<link, batch, pushing, online, racked, db, ids,
                   have, seen, told, shown>>

\* The sender's client acks a "delivered" tick without receipt_id by the plain
\* msg_id: the same frame from another user.
TickAckRead(s, m) ==
    /\ At(s, "recv") /\ From[m] = Owner[s] /\ To[m] # Owner[s]
    /\ Tick(m) \in seen
    /\ Goto(s, "pop_get") /\ Work(s, Tick(m))
    /\ UNCHANGED <<link, batch, pushing, memory, db, ids, clients>>

\* After the sender is known: a tick, unless the message was to oneself.
OweTick(s) ==
    IF From[cur[s][2]] # Owner[s] THEN Goto(s, "store") /\ UNCHANGED cur
                                  ELSE Resume(s)

\* _pop_sender loads the row and checks its recipient; without a row the
\* sender may be remembered under (username, msg_id).
PopLoad(s) ==
    /\ At(s, "pop_get")
    /\ LET m == cur[s][2] IN
         \/ /\ m \in queue /\ To[m] = Owner[s]
            /\ Goto(s, "pop_commit") /\ UNCHANGED cur
         \/ /\ ~(m \in queue /\ To[m] = Owner[s])
            /\ m \in racked /\ To[m] = Owner[s]
            /\ OweTick(s)
         \/ /\ ~(m \in queue /\ To[m] = Owner[s])
            /\ ~(m \in racked /\ To[m] = Owner[s])
            /\ Goto(s, "consume") /\ UNCHANGED cur
    /\ UNCHANGED <<link, batch, pushing, memory, db, ids, clients>>

\* remember_acked: the table is bounded, another entry makes room.
Remember(m) ==
    \/ /\ m \in racked \/ Cardinality(racked) < AckMemory
       /\ racked' = racked \cup {m}
    \/ /\ m \notin racked /\ Cardinality(racked) >= AckMemory
       /\ \E old \in racked : racked' = (racked \ {old}) \cup {m}

PopCommit(s) ==
    /\ At(s, "pop_commit")
    /\ queue' = queue \ {cur[s][2]}
    /\ Remember(cur[s][2])
    /\ OweTick(s)
    /\ UNCHANGED <<link, batch, pushing, online, acks, woken, receipts, ids, clients>>

\* Mutant: whatever is pending about the message is consumed.
ConsumeAny(s) ==
    /\ At(s, "consume")
    /\ LET R == {r \in receipts : r[2] = cur[s][2] /\ From[r[2]] = Owner[s]} IN
         /\ receipts' = receipts \ R
         /\ named' = named \ R
         /\ holds' = {p \in holds : p[2] \notin R}
    /\ Resume(s)
    /\ UNCHANGED <<link, batch, pushing, memory, queue, clients>>

\* Mutant: to_user is not compared; the ack of a message that is no longer
\* remembered consumes the tick that its sender has yet to see.
ConsumeAnyones(s) ==
    /\ At(s, "consume")
    /\ receipts' = receipts \ {cur[s]}
    /\ named' = named \ {cur[s]}
    /\ holds' = {p \in holds : p[2] # cur[s]}
    /\ Resume(s)
    /\ UNCHANGED <<link, batch, pushing, memory, queue, clients>>

\* The pending tick that this plain ack is about, if any, is consumed.
ConsumeTick(s) ==
    /\ At(s, "consume")
    /\ LET r == cur[s] IN
         IF r \in receipts /\ From[r[2]] = Owner[s]
           THEN /\ receipts' = receipts \ {r}
                /\ named' = named \ {r}
                /\ holds' = {p \in holds : p[2] # r}
           ELSE UNCHANGED <<receipts, ids>>
    /\ Resume(s)
    /\ UNCHANGED <<link, batch, pushing, memory, queue, clients>>

-----------------------------------------------------------------------------
(* Receipts: stored first, pushed second.                                  *)

\* The recipient's client reports "read", "decrypted" or "decrypt-failed".
ReceiptRead(s, k, m) ==
    /\ At(s, "recv") /\ To[m] = Owner[s] /\ m \in have
    /\ Goto(s, "store") /\ Work(s, <<k, m>>)
    /\ UNCHANGED <<link, batch, pushing, memory, db, ids, clients>>

\* _store_receipt: INSERT; UNIQUE(to_user, kind, msg_id) sends a duplicate to
\* look for the existing row.
StoreReceipt(s) ==
    /\ At(s, "store")
    /\ IF cur[s] \in receipts
         THEN Goto(s, "reselect") /\ UNCHANGED <<receipts, holds>>
         ELSE /\ receipts' = receipts \cup {cur[s]}
              /\ holds' = holds \cup {<<s, cur[s]>>}
              /\ Goto(s, "live")
    /\ UNCHANGED <<link, cur, batch, pushing, memory, queue, named, clients>>

\* The row may have been acked away meanwhile: then there is no id.
Reselect(s) ==
    /\ At(s, "reselect")
    /\ holds' = IF cur[s] \in receipts THEN holds \cup {<<s, cur[s]>>} ELSE holds
    /\ Goto(s, "live")
    /\ UNCHANGED <<link, cur, batch, pushing, memory, db, named, clients>>

LivePush(s) ==
    /\ At(s, "live")
    /\ IF Conns(Addressee(cur[s])) # {}
         THEN StartPush(s, Addressee(cur[s]), "push_live") /\ UNCHANGED <<cur, holds>>
         ELSE Resume(s) /\ Forget(s) /\ UNCHANGED pushing
    /\ UNCHANGED <<link, batch, memory, db, named, clients>>

\* An ack with the receipt_id of the present row deletes it.  (With the id of
\* a row that is gone it finds nothing.)
ReceiptAckRead(s, r) ==
    /\ At(s, "recv")
    /\ From[r[2]] = Owner[s]
    /\ r \in named
    /\ receipts' = receipts \ {r}
    /\ named' = named \ {r}
    /\ holds' = {p \in holds : p[2] # r}
    /\ UNCHANGED <<link, pc, cur, batch, pushing, memory, queue, clients>>

\* "rekey", "heal", "typing": pushed to whoever is there, never stored.
Nudge(s, u) ==
    /\ At(s, "recv")
    /\ StartPush(s, u, "push_live")
    /\ UNCHANGED <<link, cur, batch, memory, db, ids, clients>>

-----------------------------------------------------------------------------
(* The end of a connection.                                                *)

\* Everything a coroutine holds goes with it.
Drop(s) ==
    /\ link' = [link EXCEPT ![s] = "closed"]
    /\ Goto(s, "off") /\ Work(s, NoFrame)
    /\ batch' = [batch EXCEPT ![s] = {}]
    /\ todo' = [todo EXCEPT ![s] = {}]
    /\ sent' = [sent EXCEPT ![s] = FALSE]
    /\ failed' = [failed EXCEPT ![s] = {}]
    /\ woken' = woken \ {s}
    /\ shown' = [shown EXCEPT ![s] = {}]
    /\ Forget(s)

\* The finally block: Broker.disconnect.
Close(s) ==
    /\ Drop(s)
    /\ online' = online \ {s}
    /\ UNCHANGED <<acks, racked, db, named, have, acked, seen, told>>

\* receive_text raises WebSocketDisconnect, once no frame is left to read.
Disconnect(s) ==
    /\ At(s, "recv") /\ link[s] = "dead"
    /\ Close(s)

\* msg_id is the primary key: the INSERT of a row that is still queued raises
\* IntegrityError, which nothing catches.
SendAgain(s, m) ==
    /\ "resend" \in Faults
    /\ At(s, "recv") /\ From[m] = Owner[s] /\ m \in queue
    /\ Close(s)

SetupPc == {"select", "flush", "push_flush", "rflush", "push_rflush"}

\* Cancellation, or an exception of the database, inside the receive loop.
Cancelled(s) ==
    /\ "cancel" \in Faults /\ s \in Frail
    /\ pc[s] \notin SetupPc \cup {"off"}
    /\ Close(s)

\* The same before the try statement: nothing takes the socket out of online.
ConnectFails(s) ==
    /\ "connect" \in Faults /\ s \in Frail
    /\ pc[s] \in SetupPc
    /\ Drop(s)
    /\ UNCHANGED <<online, acks, racked, db, named, have, acked, seen, told>>

\* The process dies and starts again: the database is what is left.
Crash ==
    /\ "crash" \in Faults
    /\ \E s \in Sock : pc[s] # "off"
    /\ link' = [s \in Sock |-> "closed"]
    /\ pc' = [s \in Sock |-> "off"]
    /\ cur' = [s \in Sock |-> NoFrame]
    /\ batch' = [s \in Sock |-> {}]
    /\ todo' = [s \in Sock |-> {}]
    /\ sent' = [s \in Sock |-> FALSE]
    /\ failed' = [s \in Sock |-> {}]
    /\ shown' = [s \in Sock |-> {}]
    /\ acks' = [m \in Msg |-> None]
    /\ online' = {} /\ woken' = {} /\ racked' = {} /\ holds' = {}
    /\ UNCHANGED <<db, named, have, acked, seen, told>>

-----------------------------------------------------------------------------
(* The surroundings.                                                       *)

\* A client drops off the network; nobody at the server notices.
Vanish(s) ==
    /\ "vanish" \in Faults /\ s \in Frail
    /\ link[s] = "open"
    /\ link' = [link EXCEPT ![s] = "lost"]
    /\ UNCHANGED <<pc, cur, batch, pushing, memory, db, ids, clients>>

\* The client closes, or the transport gives a lost client up.
HangUp(s) ==
    /\ "close" \in Faults /\ s \in Frail
    /\ link[s] \in {"open", "lost"}
    /\ link' = [link EXCEPT ![s] = "dead"]
    /\ UNCHANGED <<pc, cur, batch, pushing, memory, db, ids, clients>>

\* sweep_expired_queues, once a day.
Sweep ==
    /\ queue \cap Ageing # {}
    /\ \E D \in SUBSET (queue \cap Ageing) : queue' = queue \ D
    /\ UNCHANGED <<link, pc, cur, batch, pushing, memory, receipts, ids, clients>>

-----------------------------------------------------------------------------

Setup(s) ==
    \/ FlushSelect(s) \/ FlushSelectReceipts(s) \/ FlushEnd(s)
    \/ \E f \in Letter : FlushMessage(s, f)
    \/ \E r \in Receipt : FlushReceipt(s, r)
    \/ MessageFlushed(s) \/ ReceiptFlushed(s)

Push(s) ==
    \/ \E w \in Sock : PushWrite(s, w)
    \/ ExpectAck(s) \/ PushFailed(s) \/ LivePushed(s)

Deliberate(s) ==
    \/ TellStored(s) \/ RouteOnline(s) \/ RouteOffline(s)
    \/ Acked(s) \/ AckTimeout(s) \/ DeleteLoad(s) \/ DeleteCommit(s)
    \/ PopLoad(s) \/ PopCommit(s) \/ ConsumeTick(s)
    \/ StoreReceipt(s) \/ Reselect(s) \/ LivePush(s)

\* What a coroutine does by itself ...
Run(s) == Setup(s) \/ Push(s) \/ Deliberate(s) \/ Disconnect(s)

\* ... and the frames it may read.
Read(s) ==
    \/ \E m \in Msg : \/ Send(s, m) \/ SendAgain(s, m)
                      \/ AckRead(s, m) \/ TickAckRead(s, m)
                      \/ \E k \in PeerKind : ReceiptRead(s, k, m)
    \/ \E r \in Receipt : ReceiptAckRead(s, r)
    \/ \E u \in NudgeTo : Nudge(s, u)

Surroundings ==
    \/ \E s \in Sock : \/ Connect(s) \/ Vanish(s) \/ HangUp(s)
                       \/ Cancelled(s) \/ ConnectFails(s)
    \/ Crash
    \/ Sweep

Next == Surroundings \/ \E s \in Sock : Run(s) \/ Read(s)

Spec == Init /\ [][Next]_vars

\* The event loop runs every coroutine that can run, wait_for included, and
\* every frame a client has written is read in its turn.  Nothing is assumed
\* of what clients decide to send, except that what reached the recipient is
\* acked in the end, on each connection, as often as it takes.
Fairness ==
    /\ \A s \in Sock : WF_vars(Run(s))
    /\ \A s \in Sock, m \in Msg : SF_vars(m \in queue /\ AckRead(s, m))

FairSpec == Spec /\ Fairness
=============================================================================
