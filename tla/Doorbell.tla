------------------------------ MODULE Doorbell ------------------------------
(***************************************************************************)
(* The doorbell of one account: its push token (src/app/routers/push.py),  *)
(* the ping that a message rings it with (_maybe_ping of                   *)
(* src/app/ws/relay.py, src/app/fcm.py), and the sockets that decide       *)
(* whether it rings: a dead one makes the account look present until a     *)
(* write to it fails.                                                      *)
(*                                                                         *)
(* The device's FCM tokens are numbered; a new one invalidates the others. *)
(* A row is loaded, changed as an object and written by the commit: an     *)
(* INSERT of a key that exists and an UPDATE of a row that is gone fail,   *)
(* and a DELETE deletes the row by its key, whatever it holds by then.     *)
(***************************************************************************)
EXTENDS Naturals

CONSTANTS
    Sock,           \* the account's connections
    Task,           \* requests, sends and pings that may be under way at once
    MaxToken        \* bound: tokens that the device gets

ASSUME DoorbellConstants == MaxToken \in Nat \ {0}

VARIABLES
    row,            \* push_tokens: the stored token, 0 for no row
    device,         \* the token that FCM would deliver to
    creds,          \* fcm._creds: "unread", "none" or "ready"
    online,         \* the account's entry of Broker.online
    dead,           \* sockets that a write to fails
    pc,             \* the await that a task is at
    token,          \* the token that it registers or rings
    seen,           \* register_token: the row as it was loaded
    targets,        \* Broker.push: sockets still to be written to
    failed,         \* Broker.push: sockets that a write to failed
    reached,        \* Broker.push: a write succeeded
    newer,          \* history: a token was stored since the task's last reading
    met,            \* history: a connection came since the push began
    silenced        \* history: since the last connection, a message reached no
                    \* socket and rang no bell

stored == <<row, device, creds>>
sockets == <<online, dead, silenced>>
local == <<token, seen, newer>>
push == <<targets, failed, reached, met>>
vars == <<stored, sockets, pc, local, push>>

Token == 1 .. MaxToken
NoRow == 0

TypeOK ==
    /\ row \in Token \cup {NoRow}
    /\ device \in Token
    /\ creds \in {"unread", "none", "ready"}
    /\ online \subseteq Sock /\ dead \subseteq Sock
    /\ pc \in [Task -> {"idle", "register", "store", "delete", "ping", "post", "reload",
                        "test", "prune", "push"}]
    /\ token \in [Task -> Token \cup {NoRow}]
    /\ seen \in [Task -> Token \cup {NoRow}]
    /\ targets \in [Task -> SUBSET Sock]
    /\ failed \in [Task -> SUBSET Sock]
    /\ reached \in [Task -> BOOLEAN]
    /\ newer \in [Task -> BOOLEAN]
    /\ met \in [Task -> BOOLEAN]
    /\ silenced \in BOOLEAN

Init ==
    /\ row = NoRow /\ device = 1 /\ creds = "unread"
    /\ online = {} /\ dead = {} /\ silenced = FALSE
    /\ pc = [t \in Task |-> "idle"]
    /\ token = [t \in Task |-> NoRow]
    /\ seen = [t \in Task |-> NoRow]
    /\ newer = [t \in Task |-> FALSE]
    /\ targets = [t \in Task |-> {}]
    /\ failed = [t \in Task |-> {}]
    /\ reached = [t \in Task |-> FALSE]
    /\ met = [t \in Task |-> FALSE]

Goto(t, l) == pc' = [pc EXCEPT ![t] = l]

\* The task has read the row.
Fresh(t) == newer' = [newer EXCEPT ![t] = FALSE]

\* The task ends.
Done(t) ==
    /\ Goto(t, "idle")
    /\ token' = [token EXCEPT ![t] = NoRow]
    /\ seen' = [seen EXCEPT ![t] = NoRow]

-----------------------------------------------------------------------------
(* register_token and delete_token.                                        *)

Rotate ==
    /\ device < MaxToken
    /\ device' = device + 1
    /\ UNCHANGED <<row, creds, sockets, pc, local, push>>

\* The device sends its token; it may have another by the time it is stored.
Register(t) ==
    /\ pc[t] = "idle"
    /\ token' = [token EXCEPT ![t] = device]
    /\ Goto(t, "register")
    /\ UNCHANGED <<stored, sockets, seen, newer, push>>

RegisterLoad(t) ==
    /\ pc[t] = "register"
    /\ seen' = [seen EXCEPT ![t] = row]
    /\ Goto(t, "store")
    /\ UNCHANGED <<stored, sockets, token, newer, push>>

\* An insertion, or an update of a column that differs from the loaded one.
RegisterStore(t) ==
    /\ pc[t] = "store"
    /\ (seen[t] = NoRow) <=> (row = NoRow)
    /\ row' = IF token[t] # seen[t] THEN token[t] ELSE row
    /\ newer' = [o \in Task |-> newer[o] \/ row' # row]
    /\ Done(t)
    /\ UNCHANGED <<device, creds, sockets, push>>

\* The row has come or gone meanwhile: 500; or 200, when the same token was
\* loaded a moment ago and there is nothing to write.
RegisterFails(t) ==
    /\ pc[t] = "store"
    /\ (seen[t] = NoRow) # (row = NoRow)
    /\ Done(t)
    /\ UNCHANGED <<stored, sockets, newer, push>>

DeleteLoad(t) ==
    /\ pc[t] = "idle" /\ row # NoRow
    /\ Goto(t, "delete")
    /\ UNCHANGED <<stored, sockets, local, push>>

DeleteCommit(t) ==
    /\ pc[t] = "delete"
    /\ row' = NoRow
    /\ Done(t)
    /\ UNCHANGED <<device, creds, sockets, newer, push>>

-----------------------------------------------------------------------------
(* send_ping, _maybe_ping and push_test.                                   *)

\* Mutant: a failure to read them has a value of its own.
LoadedOrFailed == IF creds = "unread" THEN {"none", "ready", "failed"} ELSE {creds}

\* The credentials are read once; without them the doorbell is off.
Loaded == IF creds = "unread" THEN {"none", "ready"} ELSE {creds}

\* What FCM's answer comes to: it knows the device's token only, and anything
\* else that goes wrong is an error.
send_ping(tok) == IF tok = device THEN {"ok", "error"} ELSE {"stale", "error"}

\* Without a token, or credentials, the task ends at once.
PingLoad(t) ==
    /\ pc[t] = "ping"
    /\ Fresh(t)
    /\ token' = [token EXCEPT ![t] = row]
    /\ IF row = NoRow THEN Goto(t, "idle") /\ UNCHANGED creds
       ELSE \E c \in Loaded : creds' = c /\ Goto(t, IF c = "none" THEN "idle" ELSE "post")
    /\ UNCHANGED <<row, device, sockets, seen, push>>

PingAnswered(t) ==
    /\ pc[t] = "post"
    /\ \E outcome \in send_ping(token[t]) :
         Goto(t, IF outcome = "stale" THEN "reload" ELSE "idle")
    /\ UNCHANGED <<stored, sockets, local, push>>

\* Mutant: whatever the row holds now is deleted.
ReloadAny(t) ==
    /\ pc[t] = "reload"
    /\ Fresh(t)
    /\ Goto(t, IF row # NoRow THEN "prune" ELSE "idle")
    /\ UNCHANGED <<stored, sockets, token, seen, push>>

\* A stale token is deleted if the row, read again, still holds it.
Reload(t) ==
    /\ pc[t] = "reload"
    /\ Fresh(t)
    /\ Goto(t, IF row # NoRow /\ row = token[t] THEN "prune" ELSE "idle")
    /\ UNCHANGED <<stored, sockets, token, seen, push>>

PruneCommit(t) ==
    /\ pc[t] = "prune"
    /\ row' = NoRow
    /\ Done(t)
    /\ UNCHANGED <<device, creds, sockets, newer, push>>

TestLoad(t) ==
    /\ pc[t] = "idle" /\ row # NoRow
    /\ Fresh(t)
    /\ token' = [token EXCEPT ![t] = row]
    /\ \E c \in Loaded :
         /\ creds' = c
         /\ Goto(t, IF c = "none" THEN "idle" ELSE "test")
    /\ UNCHANGED <<row, device, sockets, seen, push>>

\* push_test asks its session for the row again and gets the object that it has:
\* it compares the token with itself.
TestAnswered(t) ==
    /\ pc[t] = "test"
    /\ \E outcome \in send_ping(token[t]) :
         Goto(t, IF outcome = "stale" THEN "prune" ELSE "idle")
    /\ UNCHANGED <<stored, sockets, local, push>>

-----------------------------------------------------------------------------
(* Sockets, and the part of a send that decides about the bell.            *)

Connect(s) ==
    /\ s \notin online /\ \A t \in Task : s \notin targets[t] \cup failed[t]
    /\ online' = online \cup {s}
    /\ dead' = dead \ {s}
    /\ silenced' = FALSE
    /\ met' = [t \in Task |-> TRUE]
    /\ UNCHANGED <<stored, pc, local, targets, failed, reached>>

\* The connection breaks: from now on writes to it fail.
Break(s) ==
    /\ s \in online \ dead
    /\ dead' = dead \cup {s}
    /\ UNCHANGED <<stored, online, silenced, pc, local, push>>

\* Its handler notices.
Disconnect(s) ==
    /\ s \in online
    /\ online' = online \ {s}
    /\ dead' = dead \cup {s}
    /\ UNCHANGED <<stored, silenced, pc, local, push>>

\* Nobody is online: the bell rings.
Ring(t) ==
    /\ pc[t] = "idle" /\ online = {}
    /\ Goto(t, "ping")
    /\ UNCHANGED <<stored, sockets, local, push>>

\* Somebody is: the message is pushed, to the sockets of this moment.
Push(t) ==
    /\ pc[t] = "idle" /\ online # {}
    /\ Goto(t, "push")
    /\ targets' = [targets EXCEPT ![t] = online]
    /\ failed' = [failed EXCEPT ![t] = {}]
    /\ reached' = [reached EXCEPT ![t] = FALSE]
    /\ met' = [met EXCEPT ![t] = FALSE]
    /\ UNCHANGED <<stored, sockets, local>>

Write(t, s) ==
    /\ pc[t] = "push" /\ s \in targets[t]
    /\ targets' = [targets EXCEPT ![t] = @ \ {s}]
    /\ failed' = [failed EXCEPT ![t] = IF s \in dead THEN @ \cup {s} ELSE @]
    /\ reached' = [reached EXCEPT ![t] = IF s \in dead THEN @ ELSE TRUE]
    /\ UNCHANGED <<stored, sockets, pc, local, met>>

\* Mutant: sockets are pruned only if the message reached another one.
Spared(t) == IF reached[t] THEN failed[t] ELSE {}

\* The sockets that Broker.push takes out of the table when it is through.
Pruned(t) == failed[t]

Pushed(t) ==
    /\ pc[t] = "push" /\ targets[t] = {}
    /\ online' = online \ Pruned(t)
    /\ silenced' = (silenced \/ (~reached[t] /\ ~met[t]))
    /\ Goto(t, "idle")
    /\ failed' = [failed EXCEPT ![t] = {}]
    /\ UNCHANGED <<stored, dead, local, targets, reached, met>>

-----------------------------------------------------------------------------

Tokens(t) ==
    \/ Register(t) \/ RegisterLoad(t) \/ RegisterStore(t) \/ RegisterFails(t)
    \/ DeleteLoad(t) \/ DeleteCommit(t)

Pings(t) ==
    \/ PingLoad(t) \/ PingAnswered(t) \/ Reload(t) \/ PruneCommit(t)
    \/ TestLoad(t) \/ TestAnswered(t)

Sends(t) == Ring(t) \/ Push(t) \/ Pushed(t) \/ \E s \in Sock : Write(t, s)

Next ==
    \/ \E t \in Task : Tokens(t) \/ Pings(t) \/ Sends(t)
    \/ \E s \in Sock : Connect(s) \/ Break(s) \/ Disconnect(s)
    \/ Rotate

Spec == Init /\ [][Next]_vars

-----------------------------------------------------------------------------
(* Properties.                                                             *)

\* "Stale (unregistered) tokens are deleted; anything else fails silent"
\* (relay.py:292), as far as it holds: a prune deletes a row that the device had
\* not given up only if that row was stored after the task read it for the last
\* time, which in push_test is before the ping.
PruneIsAimed ==
    [][\A t \in Task : pc[t] = "prune" /\ pc'[t] = "idle" /\ row \notin {NoRow, token[t]}
          => newer[t]]_vars

\* A socket that died unnoticed makes one message stay silent, not two: when a
\* message reached nobody, the account is absent, and the next one rings, until
\* it connects again ("a lying presence ... suppresses the FCM doorbell",
\* relay.py:102).  Pushes that overlap, breaks and departures do not matter.
SilentOnce == silenced => online = {}
=============================================================================
