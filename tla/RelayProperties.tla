-------------------------- MODULE RelayProperties --------------------------
(***************************************************************************)
(* What must be true of the relay: the contract of module Mailbox, and     *)
(* properties that relate the database, the broker and the clients.        *)
(***************************************************************************)
EXTENDS Relay

\* The relay is a mailbox: rows are what it stores, a device that has the
\* message has received it, "stored" and "delivered" are the two ticks.
Service == INSTANCE Mailbox WITH
    Perishable <- Ageing,
    stored <- queue,
    received <- have,
    tick1 <- told,
    tick2 <- {m \in Msg : Tick(m) \in seen}

\* Whatever fails and however the coroutines interleave, the relay's steps are
\* steps of the mailbox (relay.py:3-16, "INSERT -> push -> DELETE-on-ack").
ImplementsMailbox == Service!Spec

-----------------------------------------------------------------------------
(* Safety.                                                                 *)

\* "the sender's transport now KNOWS the row is committed" (relay.py:694): a
\* message whose sender saw "stored" is queued or has arrived.
StoredIsSafe == \A m \in told : m \in queue \cup have \cup Ageing

\* No false tick: a "delivered" receipt, stored or seen, is about a message
\* that its recipient acked and has.  Several paths write one: the deleted
\* row, the memory of recently acked rows, and acks that come twice.
TicksAreTrue ==
    /\ \A m \in Msg : Tick(m) \in receipts \cup seen => m \in acked
    /\ acked \subseteq have

\* A connection in its receive loop whose client is there has been shown
\* every row kept for its user, message or receipt, or a coroutine is about to:
\* nothing falls between the listings of the flush (rows from before) and the
\* live push (rows from after).  For users whose backlog one flush can list,
\* and coroutines that nobody cancels between their commit and their push.
InLoop(s) == pc[s] \notin SetupPc \cup {"off"}

RowsFor(u) ==
    {f \in ({"msg"} \X queue) \cup receipts : Addressee(f) = u}

AboutToShow(f, s) == \E t \in Sock :
    /\ cur[t] = f
    /\ \/ pc[t] \in {"tell", "route", "store", "reselect", "live"}
       \/ pc[t] \in PushPc /\ s \in todo[t]

NoDeliveryGap == \A s \in Sock :
    InLoop(s) /\ link[s] = "open" =>
        \A f \in RowsFor(Owner[s]) : f \in shown[s] \/ AboutToShow(f, s)

-----------------------------------------------------------------------------
(* The inductive invariant behind the safety properties (RelayProofs).     *)

\* What a coroutine is working on, by the await it is at.
Working == \A s \in Sock :
    /\ pc[s] \in {"tell", "route", "wait", "del_get", "del_commit",
                  "push_msg", "push_flush"} => cur[s] \in Letter
    /\ pc[s] \in {"pop_get", "pop_commit", "consume"} =>
         \E m \in Msg : cur[s] = Tick(m)
    /\ pc[s] \in {"store", "reselect", "live", "push_rflush"} => cur[s] \in Receipt

\* A message that anyone has in hand is queued, has arrived or is perishable.
Safe == queue \cup have \cup Ageing
LettersSafe ==
    /\ \A s \in Sock : cur[s] \in Letter => cur[s][2] \in Safe
    /\ \A s \in Sock : \A f \in batch[s] : f \in Letter => f[2] \in Safe
    /\ told \subseteq Safe

\* Whatever is about to delete a row or to report a delivery follows an ack.
AckFirst ==
    /\ acked \subseteq have
    /\ racked \subseteq acked
    /\ \A s \in Sock : s \in woken => pc[s] = "wait" /\ cur[s][2] \in acked
    /\ \A s \in Sock : pc[s] \in {"del_get", "del_commit"} => cur[s][2] \in acked
    /\ \A s \in Sock, m \in Msg : cur[s] = Tick(m) => m \in acked
    /\ \A s \in Sock, m \in Msg : Tick(m) \in batch[s] => m \in acked
    /\ \A m \in Msg : Tick(m) \in receipts \cup seen => m \in acked

\* The client that can delete a receipt's row has seen the receipt: it knows
\* the row's id, or its plain ack is the ack of a tick.
SeenFirst ==
    /\ named \subseteq seen
    /\ \A m \in Msg : Tick(m) \in receipts => From[m] # To[m]
    /\ \A s \in Sock : pc[s] = "pop_commit" => To[cur[s][2]] = Owner[s]
    /\ \A s \in Sock, m \in Msg :
         /\ cur[s] = Tick(m) /\ pc[s] \in {"store", "reselect", "live"} => From[m] # To[m]
         /\ cur[s] = Tick(m) /\ pc[s] \in {"pop_get", "pop_commit", "consume"}
              => To[m] = Owner[s] \/ Tick(m) \in seen

IInv == TypeOK /\ Working /\ LettersSafe /\ AckFirst /\ SeenFirst

-----------------------------------------------------------------------------
(* Steps that may not happen.                                              *)

\* "Rows die exclusively via the ack path" (relay.py:187), and at the end of
\* their retention: never by a push, a timeout, a fault or another user's ack.
RowsDieByAck ==
    [][\A m \in queue \ queue' : m \in acked \cup Ageing]_vars

\* "Receipt rows die only on {type:ack, receipt_id} from the addressee"
\* (relay.py:193), or on its plain ack of the tick it saw: a receipt is never
\* dropped before its addressee has it.  In particular the plain ack of a tick
\* "can never eat a pending read" (relay.py:467).
ReceiptsDieSeen ==
    [][\A r \in receipts \ receipts' : r \in seen \/ r[2] \in Ageing]_vars

-----------------------------------------------------------------------------
(* Progress, under FairSpec.                                               *)

\* A message queued for a user whose connection stays is acked off the queue.
\* The coroutine of that connection may itself wait for an ack of its own
\* message to a peer who waits in the same way: the 30 seconds of
\* ACK_TIMEOUT_SEC are what resolves this.
DrainsWhileConnected == \A s \in Sock, m \in Msg :
    (m \in queue /\ To[m] = Owner[s] /\ link[s] = "open")
        ~> (m \notin queue \/ link[s] # "open")

-----------------------------------------------------------------------------
(* What the comments promise, and the code does not keep.                  *)

\* "the sender gets a durable pending-delivered row FIRST ... the tick can no
\* longer be lost" (relay.py:454-458): once an acked message has left the
\* queue, its tick is stored, seen, or some ack's coroutine is about to store
\* it.
TickIsDurable == \A m \in acked \ (queue \cup Ageing) :
    \/ From[m] = To[m]
    \/ Tick(m) \in receipts \cup seen
    \/ \E s \in Sock : /\ cur[s] = Tick(m)
                       /\ To[m] = Owner[s]
                       /\ pc[s] \in {"pop_get", "pop_commit", "store", "reselect"}
=============================================================================
