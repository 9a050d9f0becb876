------------------------------ MODULE Presence ------------------------------
(***************************************************************************)
(* The presence row of one account: what GET /presence/{username} reports, *)
(* and how ws_endpoint, the pruning of dead sockets and their repair tasks *)
(* (_mark_offline_if_gone) of src/app/ws/relay.py maintain it.  Rows of    *)
(* different accounts, and their entries of Broker.online, share nothing.  *)
(*                                                                         *)
(* The ORM loads a row, changes the object and writes on commit the        *)
(* columns whose value differs from the loaded one: between the load and   *)
(* the commit of one coroutine the others run.                             *)
(***************************************************************************)

CONSTANTS
    Sock,           \* the account's connections; a closed one may be reopened
    FirstTime,      \* the account never connected before: it has no row
    Faults          \* subset of {"connect", "crash"}

ASSUME PresenceConstants ==
    /\ FirstTime \in BOOLEAN
    /\ Faults \subseteq {"connect", "crash"}

VARIABLES
    row,            \* "none", "online" or "offline": the committed row
    online,         \* the account's entry of Broker.online
    link,           \* link[s]: "closed", "open" or "dead" (writes to it raise)
    pc,             \* the await that the coroutine of s is at
    loaded,         \* the row as the coroutine of s loaded it
    task,           \* the await of the repair task spawned when s was pruned
    broken          \* history: a crash or a failed connection since the last
                    \* connection that reached its receive loop

vars == <<row, online, link, pc, loaded, task, broken>>

Row == {"none", "online", "offline"}

TypeOK ==
    /\ row \in Row
    /\ online \subseteq Sock
    /\ link \in [Sock -> {"closed", "open", "dead"}]
    /\ pc \in [Sock -> {"off", "load", "upsert", "flush", "loop",
                        "mark_load", "mark_commit"}]
    /\ loaded \in [Sock -> Row]
    /\ task \in [Sock -> {"idle", "check", "mark_load", "mark_commit"}]
    /\ broken \in BOOLEAN

Init ==
    /\ row = IF FirstTime THEN "none" ELSE "offline"
    /\ online = {}
    /\ link = [s \in Sock |-> "closed"]
    /\ pc = [s \in Sock |-> "off"]
    /\ loaded = [s \in Sock |-> "none"]
    /\ task = [s \in Sock |-> "idle"]
    /\ broken = FALSE

Goto(s, l) == pc' = [pc EXCEPT ![s] = l]
TaskGoto(s, l) == task' = [task EXCEPT ![s] = l]

-----------------------------------------------------------------------------
(* Coming.                                                                 *)

\* Broker.connect; then the presence row is asked for.
Connect(s) ==
    /\ pc[s] = "off" /\ s \notin online /\ task[s] = "idle"
    /\ online' = online \cup {s}
    /\ link' = [link EXCEPT ![s] = "open"]
    /\ Goto(s, "load")
    /\ UNCHANGED <<row, loaded, task, broken>>

UpsertLoad(s) ==
    /\ pc[s] = "load"
    /\ loaded' = [loaded EXCEPT ![s] = row]
    /\ Goto(s, "upsert")
    /\ UNCHANGED <<row, online, link, task, broken>>

\* Mutant: the row holds the column's value, not one of Row.
UpsertBare(s) ==
    /\ pc[s] = "upsert"
    /\ row' = "1"
    /\ Goto(s, "flush")
    /\ UNCHANGED <<online, link, loaded, task, broken>>

\* The ORM inserts a row, or updates `online` if it was loaded as false.
UpsertCommit(s) ==
    /\ pc[s] = "upsert"
    /\ ~(loaded[s] = "none" /\ row # "none")
    /\ row' = IF loaded[s] = "online" THEN row ELSE "online"
    /\ Goto(s, "flush")
    /\ UNCHANGED <<online, link, loaded, task, broken>>

\* The coroutine ends before its try statement: the transport closes the
\* connection and nothing takes the socket out of Broker.online.
Die(s) ==
    /\ Goto(s, "off")
    /\ link' = [link EXCEPT ![s] = "dead"]
    /\ UNCHANGED <<row, online, loaded, task>>

\* Another connection inserted the row meanwhile: IntegrityError.
UpsertClash(s) ==
    /\ pc[s] = "upsert" /\ loaded[s] = "none" /\ row # "none"
    /\ Die(s)
    /\ UNCHANGED broken

\* A cancellation or a failure of the database.
ConnectFails(s) ==
    /\ "connect" \in Faults
    /\ pc[s] \in {"load", "upsert", "flush"}
    /\ Die(s)
    /\ broken' = TRUE

\* flush_queue returns and the receive loop begins.
Flushed(s) ==
    /\ pc[s] = "flush"
    /\ Goto(s, "loop")
    /\ broken' = FALSE
    /\ UNCHANGED <<row, online, link, loaded, task>>

-----------------------------------------------------------------------------
(* Going.                                                                  *)

HangUp(s) ==
    /\ link[s] = "open"
    /\ link' = [link EXCEPT ![s] = "dead"]
    /\ UNCHANGED <<row, online, pc, loaded, task, broken>>

\* Mutant: the finally block leaves the row alone.
LeaveUnmarked(s) ==
    /\ pc[s] = "loop" /\ link[s] = "dead"
    /\ online' = online \ {s}
    /\ link' = [link EXCEPT ![s] = "closed"]
    /\ Goto(s, "off")
    /\ UNCHANGED <<row, loaded, task, broken>>

\* The finally block: Broker.disconnect, and at once the first test of
\* _mark_offline_if_gone.
Leave(s) ==
    /\ pc[s] = "loop" /\ link[s] = "dead"
    /\ online' = online \ {s}
    /\ link' = [link EXCEPT ![s] = "closed"]
    /\ Goto(s, IF online' = {} THEN "mark_load" ELSE "off")
    /\ UNCHANGED <<row, loaded, task, broken>>

\* The rest of _mark_offline_if_gone: it does not look at Broker.online again.
MarkLoad(s) ==
    /\ pc[s] = "mark_load"
    /\ Goto(s, IF row = "online" THEN "mark_commit" ELSE "off")
    /\ UNCHANGED <<row, online, link, loaded, task, broken>>

MarkCommit(s) ==
    /\ pc[s] = "mark_commit"
    /\ row' = "offline"
    /\ Goto(s, "off")
    /\ UNCHANGED <<online, link, loaded, task, broken>>

\* Mutant: a pruned socket's presence is not repaired.
PruneOnly(s) ==
    /\ s \in online /\ link[s] = "dead"
    /\ online' = online \ {s}
    /\ link' = [link EXCEPT ![s] = IF pc[s] = "off" THEN "closed" ELSE @]
    /\ UNCHANGED <<row, pc, loaded, task, broken>>

\* Somebody's push writes to a dead socket: Broker.discard takes it out of the
\* table and a task is to repair the row.
Prune(s) ==
    /\ s \in online /\ link[s] = "dead" /\ task[s] = "idle"
    /\ online' = online \ {s}
    /\ link' = [link EXCEPT ![s] = IF pc[s] = "off" THEN "closed" ELSE @]
    /\ TaskGoto(s, "check")
    /\ UNCHANGED <<row, pc, loaded, broken>>

TaskCheck(s) ==
    /\ task[s] = "check"
    /\ TaskGoto(s, IF online = {} THEN "mark_load" ELSE "idle")
    /\ UNCHANGED <<row, online, link, pc, loaded, broken>>

TaskLoad(s) ==
    /\ task[s] = "mark_load"
    /\ TaskGoto(s, IF row = "online" THEN "mark_commit" ELSE "idle")
    /\ UNCHANGED <<row, online, link, pc, loaded, broken>>

TaskCommit(s) ==
    /\ task[s] = "mark_commit"
    /\ row' = "offline"
    /\ TaskGoto(s, "idle")
    /\ UNCHANGED <<online, link, pc, loaded, broken>>

\* The process dies and starts again.  No row is touched at start.
Crash ==
    /\ "crash" \in Faults
    /\ \E s \in Sock : pc[s] # "off" \/ task[s] # "idle"
    /\ online' = {}
    /\ link' = [s \in Sock |-> "closed"]
    /\ pc' = [s \in Sock |-> "off"]
    /\ loaded' = [s \in Sock |-> "none"]
    /\ task' = [s \in Sock |-> "idle"]
    /\ broken' = TRUE
    /\ UNCHANGED row

-----------------------------------------------------------------------------

Run(s) ==
    \/ UpsertLoad(s) \/ UpsertCommit(s) \/ UpsertClash(s) \/ Flushed(s)
    \/ Leave(s) \/ MarkLoad(s) \/ MarkCommit(s)

Repair(s) == TaskCheck(s) \/ TaskLoad(s) \/ TaskCommit(s)

Next ==
    \/ \E s \in Sock : \/ Run(s) \/ Repair(s)
                       \/ Connect(s) \/ ConnectFails(s) \/ HangUp(s) \/ Prune(s)
    \/ Crash

Spec == Init /\ [][Next]_vars

\* Every coroutine and every task that can run does.  Nothing is assumed of
\* clients, nor that anybody pushes to this account.
Fairness == \A s \in Sock : WF_vars(Run(s)) /\ WF_vars(Repair(s))

FairSpec == Spec /\ Fairness

-----------------------------------------------------------------------------
(* Properties.                                                             *)

\* A row that says "online" is somebody's business: a socket is in the table,
\* whose end or whose pruning will flip the row, or a coroutine that will get
\* to its finally block, or a task, is on its way to do so.  Nobody's early
\* return may leave the row behind ("presence truth repair", relay.py:146),
\* however many connections come and go at once.  What a crash or a connection
\* that fails half-way leaves behind is put right by the next connection
\* ("everyone reconnects", main.py:22).
Responsible(s) ==
    \/ task[s] # "idle"
    \/ pc[s] \in {"load", "flush", "loop", "mark_load", "mark_commit"}
    \/ pc[s] = "upsert" /\ loaded[s] # "none"

Watched == online # {} \/ \E s \in Sock : Responsible(s)

OnlineIsWatched == row = "online" => Watched \/ broken

\* When the clients are gone for good the row goes offline, without anybody
\* pushing to the account.  Two things may prevent it until the next
\* connection: a fault, and a socket left in the table by a coroutine that
\* ended before its try statement, which keeps the account "connected".
Ghost == \E s \in online : pc[s] = "off"

GoneIsShown ==
    row = "online" ~>
        (row # "online" \/ broken \/ Ghost \/ \E s \in Sock : link[s] = "open")

-----------------------------------------------------------------------------
(* What the documents promise, and the code does not keep.                 *)

Settled == \A s \in Sock : pc[s] \in {"off", "loop"} /\ task[s] = "idle"

\* "Last socket disconnect: online=false" (specs/presence.md:12), and not
\* before: while a client is connected and nothing is under way, the account
\* is shown online.
ConnectedIsOnline ==
    Settled /\ (\E s \in Sock : pc[s] = "loop" /\ link[s] = "open")
        => row = "online"
=============================================================================
