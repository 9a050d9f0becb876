# Visi-Server: a verification project

Visi-Server is the server of an end-to-end encrypted messenger: a FastAPI
process ("blind switchboard") that relays opaque envelopes between WebSocket
clients, queues them while their recipient is away, authenticates accounts with
OPAQUE through a Rust sidecar, keeps a ledger of public key bundles, and tells
clients about updates. A Rust crate, `core-crypto`, holds the client's
protocols.

This directory holds TLA+ modules for the parts of it whose correctness depends
on interleavings, failures and order, TLC configurations that check them on small
instances, and proofs checked by TLAPS.

## Inventory

Everything runs in one process on one asyncio event loop: coroutines switch only
at an `await`. What survives a restart is the database.

| Component | State | Operations | What makes it correct | Hard part |
|---|---|---|---|---|
| **Relay** `app/ws/relay.py` | `Broker.online`, `acks`, `recently_acked` (memory); `offline_queue`, `pending_receipts` (database); one coroutine per socket | connect + flush, send, ack, receipt, receipt ack, live-only frames, push, prune, disconnect, daily sweep | no message is lost once its sender saw "stored"; no tick without an ack; rows and receipts die only when they may; queued messages drain | a coroutine per socket, shared tables, awaits inside every handler, the ack timeout, duplicates, restarts |
| **Presence** `relay.py`, `routers/presence.py` | `presence` row per account | upsert on connect, `_mark_offline_if_gone` on disconnect and after a prune, GET | the row tells whether the account has a socket | check-then-await, ORM writes of stale objects, exceptions before the `try` |
| **OTA manifest** `routers/update.py` | `_cache`, `_last_good` (memory), `ota_state` (database), the bucket | update-check | never serve an older version than before | overlapping requests, outages, roll-backs, restarts |
| **OPAQUE** `routers/opaque.py`, `sidecar.py`, `tokens.py` | `server_setup`, `password_files`, `user_envelopes`, `login_states`, `ws_tokens` | register start/finish, login start/finish | a login state is used once; one server setup for ever; tokens only after a finished login | the sidecar call is an await between load and delete |
| **Ledger** `merkle.py`, `merkle_append`, `routers/directory.py` | `merkle_leaves`, `merkle_state`, `key_bundles.leaf_idx` | append or replace a leaf, root, proof, lookup | the stored root is the root of the leaves; every proof verifies | concurrent registrations, odd levels of the tree |
| **Doorbell** `routers/push.py`, `fcm.py`, `_maybe_ping` | `push_tokens`, the FCM credentials | register, delete, ping, test, prune stale | an absent account's bell rings; pruning spares fresh tokens | load, await FCM, delete by key; dead sockets that look alive |
| **Browser proxy** `relay.py` | `proxy_sessions` per socket, one pump task per stream | open, data, close, pump, teardown | streams end with their socket and announce their end | the pump races close, failed writes and teardown |
| **Rate limit** `security.py` | hits per bucket | check | at most 10 hits in a window | window boundary |
| **Ratchet** `core-crypto/src/signal.rs` | session: root, chains, skipped keys | init, encrypt, decrypt, encode | both sides derive the same keys; late messages open | reordering and loss across ratchet steps, limits on skipped keys |
| OPAQUE sidecar, `core-crypto` codecs | none | stateless calls into cryptographic libraries | | not modelled |
| Application shell `main.py`, `config.py`, `db.py`, `schemas.py` | configuration | start-up, the sweep's timer | | not modelled (the sweep's effect is in Relay) |

How they interact: a WebSocket's handler authenticates with a `ws_tokens` row
that the OPAQUE login wrote, registers in the Broker, writes presence, flushes
the queue, and serves frames. A handler of one user writes to the sockets of
another through `Broker.push`; a failed write prunes the socket and starts a
presence repair task; a send to an absent user starts a doorbell task that reads
and may delete a push token. The HTTP routers share only the database with it.

## Modules

| Module | What it is |
|---|---|
| `Mailbox` | abstract: what the relay promises to clients |
| `Relay` | the relay, one action per stretch between two awaits |
| `RelayProperties` | its properties, the refinement mapping to `Mailbox`, the inductive invariant |
| `RelayProofs` | theorems about it |
| `MCRelay` + `MCRelay*.cfg` | its instances for TLC |
| `Presence`, `PresenceProofs`, `MCPresence` | the presence row of one account |
| `Ota`, `OtaProofs`, `MCOta` | the update manifest and its guard |
| `Opaque`, `OpaqueProofs`, `MCOpaque` | server setup, logins, tokens, the rate limit |
| `Merkle` | the hash tree of `merkle.py`, with symbolic hashes |
| `Ledger`, `LedgerProofs`, `MCLedger` | registrations, the table of leaves, the published root, key look-ups (extends `Merkle`) |
| `Doorbell`, `DoorbellProofs`, `MCDoorbell` | the push token of one account, pings and the sockets that decide about them |
| `Proxy`, `ProxyProofs`, `MCProxy` | the browser proxy of one connection |
| `Ratchet`, `RatchetProofs`, `MCRatchet` | a session of two clients of `core-crypto` |

Operators named in the comments as mutants are variants of an action with a
plausible bug. Nothing uses them in `Next`; they serve to show that each checked
property would notice that bug.

Components that share state are in one module: the relay's tables and
coroutines, the logins and the rate limit that guards them, the token and the
sockets. The others meet only in the database or not at all. `Broker.push` and
`Broker.online` appear in `Relay`, `Presence` and `Doorbell`, each time with the
part that the module's question needs.

### Relay

State and code correspond as follows. `pc[s]` is the await at which the
coroutine of connection `s` is suspended, `cur[s]` the frame it works on,
`batch[s]` what its flush has listed and not yet pushed. `todo`, `sent` and
`failed` are the locals `targets`, `ok` and `dead` of `Broker.push`. `online`,
`acks`, `racked` are `Broker.online`, `.acks`, `.recently_acked`; `woken` holds
the coroutines whose ack event is set. `queue` and `receipts` are the two tables.
`link[s]` is the transport as the server sees it: a `lost` client is gone and
writes to it still succeed. `have`, `seen`, `told`, `shown` are what reached the
clients; `acked` is the history of acks that the relay read.

A client acks a receipt by the uuid of its row. A uuid is never reused, so only
this matters: does the client know the uuid of the *present* row? `named` says
so, and `holds` which coroutines can still tell it.

Abstractions:
- A database statement, its commit and the code after it up to the next await
  are one step. Two awaits that load and then delete are two steps
  (`DeleteLoad`/`DeleteCommit`, `PopLoad`/`PopCommit`) where something else can
  see the difference. The deletion of a receipt by its id is one.
- Rows are listed in any order (`Listing`): `created_at` counts seconds. Any row
  of a message in `Ageing` may be past its retention when a sweep looks.
- `recently_acked` evicts any entry where the code evicts the oldest.
- A push writes to its snapshot of sockets in any order (a Python set).
- Clients follow the contract in the docstring of `relay.py`: they ack what they
  have, as often as they like, and may send a message again (`"resend"`).
- `Faults` names what may go wrong in an instance and `Frail` the connections it
  may happen to; the proofs are about all of them. A crash is possible between
  any two steps.
- The doorbell and the proxy frames change none of this state; they have modules
  of their own. Token look-up reads one row.
- Time is not modelled: a wait for an ack may time out at any moment.

Fairness (`FairSpec`): a coroutine that can run does, because the event loop is
fair and `wait_for` ends; and a client that holds a connection and has a message
that is still queued acks it in the end. The second is strong fairness, because the
coroutine that reads the ack may be busy from time to time. No fairness is assumed of
connecting, sending or closing.

### Presence

One account: rows and broker entries of accounts share nothing. `row` is the
committed row, `loaded[s]` what a connection's upsert has loaded, since the ORM
writes only columns that differ from it. `task[s]` is the repair task started by
pruning `s`; a connection's name is reused when that task is done. `broken`
remembers a crash or a failed connection until the next connection that reaches
its loop. Fairness: coroutines and tasks that can run do; nobody needs to push.

### Ota

`cache`, `lastGood`, `maxSeen`, `bucket` hold version numbers, 0 for none. The bucket
changes at any moment. `fresh` may end at any moment: the time of the cache's entry is
the start of its request. `answer`, `top`, `lapsed` and `clean` are histories: a
request past the guard is `lapsed` once another one has committed a maximum that it
would not pass any more, or has lowered the one it counted on; `clean` says that no
such request has acted, or that the damage is repaired. The repair is the next request
that is not overtaken and serves no less than the highest version served. Without
`clean =>` TLC refutes both properties (see below): `update.py` has no lock there.

### Opaque

A request `r` goes through `pc[r]`: "setup", "make", "store" are the awaits of
`get_setup_b64`; "register" the sidecar's `register_start`; "start", "load",
"save" those of `login_start`; "find", "finish", "drop", "mint" those of
`login_finish`. `using`, `attempt`, `held` are its locals: the setup, the attempt
and the `LoginState` row as loaded. `setup`, `loginState`, `granted` are the tables
`server_setup`, `login_states` and `ws_tokens`; `hits` is the bucket of one address
in `security.py`. What the sidecar computes is symbolic: an attempt's number stands
for its response, its login state and its session key, and a finalization opens the
state of its own attempt only. The token is derived from the session key
(`tokens.py`), so that two finishes of one attempt mint the same row, and the second
INSERT fails. An INSERT over a row and an UPDATE of a missing row fail and take their
transaction with them (`Fail`, always possible); a DELETE goes by the key, whatever
the row holds by then.

### Ledger and Merkle

A registration is one transaction: "load" (the user's rows), "rows" (their
INSERTs or UPDATEs, flushed by the SELECT of the leaves), "leaf" (`merkle_state`
loaded, the leaf written), "commit". PostgreSQL's READ COMMITTED is modelled by
what it lets a transaction see: each statement sees what is committed, a written
row is locked until the end (`WriteUser` waits for `Listed`, `WriteLeaf` for
`IndexHeld`), a key that exists makes the INSERT fail (`UserClash`, `IndexClash`). `snap` is the list of leaves, `base` the `merkle_state` as loaded: the
ORM writes the columns that differ from it (`Merged`). `bundle[u]` numbers the
bundles of a user, and a leaf is `<<user, number>>`, injective as its hash is taken
to be. `lapsed` remembers whose list is out of date, `clean` whether the last commit
was up to date. GET /keys reads the bundle and the leaves in two steps. `Merkle`
translates `compute_root` and `merkle_proof` as recursive functions over levels
(`Levels`, and `Path` for the index that is halved); the hash of two nodes is their
pair. `Climb` is what a client does with a proof.

### Doorbell

`row` is the account's token, `device` the token that FCM would deliver to. A
task is a request to `push.py`, a ping (`_maybe_ping`), or the part of a send that
decides between the bell and a push. `online` and `dead` are the account's sockets:
a dead one counts as online until a write to it fails and `Broker.push` prunes it
(`Pushed`). `newer`, `met`, `silenced` are histories. `Loaded` and `send_ping` are
what `fcm.py` comes to: credentials are read once, and every error but "not
registered" is the same.

### Proxy

One connection: `inbox` holds the client's frames, `h` and `cur` the await of the
handler and the id it serves, `sess` is `proxy_sessions`. A stream is `<<id, n>>`;
`pump`, `writer`, `up` are its task, our half and the remote host's half of its
connection. The egress guard is a choice (addresses, ports and names are not
modelled). Frames that the handler takes for malformed are in `ClientMalformed`,
`OpenDropped` and `DataDropped`: they get no answer, and the properties about ids that
were opened mean proper openings. A cancelled pump runs no more of its code.

Fairness: the handler and the pumps run when they can; dialling has a time limit, and
name look-ups end. The end of a `drain` (`Drained`, `DrainFails`) is not among the
steps that must happen, as the code sets no time limit there (`relay.py:596`).
`NobodyHangs` holds all the same for every id whose opening the handler has come to,
and exempts those that wait behind a drain for ever (`Blocked`): without that
exemption TLC refutes it.

### Ratchet

`session` holds what the codec decodes; `sent` the envelopes under way, of which
any may arrive at any time, repeatedly or never. Keys are symbolic: a shared secret
is the set of two key pairs, a root is the sequence of all that was mixed in, from
X3DH on, and the n-th key of a chain is named after the root it was derived with. The
codec keeps `Keep` skipped keys (64 in the code), whichever the hash map lists first.
The eviction at `MAX_SKIP` = 100 within a call takes any key of the same map: since the
codec then keeps 64 at most, whatever a call with evictions may leave is among the
choices of `Saved`.

## Runs

| Run | Instance | Shows |
|---|---|---|
| `relay_faults` | one sender, one recipient, one message, "read" receipts, a flush of one row; closes, resends, cancellations, crashes | types, `StoredIsSafe`, `TicksAreTrue`, `RowsDieByAck`, `ReceiptsDieSeen`, and `Relay` implements `Mailbox` |
| `relay_devices` | two devices of the recipient, live-only frames, a message that may expire; closes, vanishing clients, connections that fail half-way | `NoDeliveryGap` |
| `relay_progress` | two users sending to each other, a connection that may close, a memory of one acked row, fairness | `ReceiptsDieSeen`, `DrainsWhileConnected` |
| `relay_tick` | one message, no faults | `TickIsDurable` is violated (finding) |
| `presence` | two connections, first connections included, failures, crashes, fairness | `OnlineIsWatched`, `GoneIsShown` |
| `presence_flip` | two connections, no faults | `ConnectedIsOnline` is violated (finding) |
| `ota` | two requests, three versions, a bucket that changes at any moment, outages, restarts | `NoDowngrade`, `RecordedIsHighest` |
| `opaque` | two requests, one account, two attempts, three instants | `OneSetup`, `EndedIsGone`, `OneTokenPerLogin`, `RateIsLimited` |
| `ledger` | two registrations or look-ups, three users, two bundles each; trees of one to nine leaves (`MaxLeaves`) | `LeavesMatchBundles`, `CleanRootIsCurrent`, `AnswerIsProved`, `TreeIsRight` |
| `doorbell` | two tasks, two sockets, two tokens | `SilentOnce`, `PruneIsAimed` |
| `proxy` | two ids, each opened twice, fairness | `StreamsAreHeld`, `ToldIsTrue`, `NobodyHangs` |
| `ratchet` | five envelopes each way, one saved key | `KeysAreOneTime`, `NoReplay`, `LatestChainOpens` |

Every passing run of a component checks its `TypeOK` as well (the relay's in
`relay_faults`).

Bounds. One message and one connection of each user already interleave every
pair of handlers of that message (send against ack, flush against push, duplicate
acks, receipt against its ack); a second device adds the snapshots of a push, and
the limit of the flush is one and exceeded by the tick and the "read" of one message. The memory of
`recently_acked` is one everywhere and exceeded where there are two messages, in
`relay_progress`: the mutant of `ReceiptsDieSeen` there (`ConsumeAnyones`) needs an
evicted entry and is not noticed with a memory of two. `Frail` keeps faults to the connections where they matter to the run. The
hazards of `Opaque`, `Ledger` and `Doorbell` are between two transactions: two
requests make every pair, a third user of the ledger makes the levels odd and
re-registration needs two bundles. In `MCOpaque.cfg` the limit of hits (three) and its
window (one) are both exceeded by time and by requests. A stream id that is opened
twice meets the remains of its first stream. Five envelopes make two chains each way
with gaps larger than what is saved.

Deadlock is checked except where the system may stop: in `presence` and
`relay_devices` a connection that fails before its `try` statement leaves its socket
in the table and its name cannot be reused; in `proxy` the connection ends for good;
in `ratchet` the envelopes are used up. Symmetry is used in runs without liveness
only.

## Findings

- **A tick can be lost without any fault** (`relay_tick`). The ack wakes the
  sender's coroutine, which may delete the row before the ack looks it up; the ack
  then takes itself for the ack of a tick. `relay.py:454-458` promises the opposite.
- **A connected account is shown offline** (`presence_flip`). The check and the
  write of `_mark_offline_if_gone` are separated by awaits, and an upsert that
  loaded the old row writes nothing.

Seen while modelling, and visible in the models; each is an escape of a property or
a variant of an instance rather than a run of its own:

- *An absent account is shown online.* Two first connections clash on the presence
  row before the `try`; the loser's socket stays in `Broker.online` (`Ghost` in
  `Presence`; without that escape TLC refutes `GoneIsShown`).
- *The recorded maximum of the OTA guard can go down*, and an older version be served
  after a newer one, when a release is uploaded between the downloads of two
  overlapping requests: the slower one has passed the guard (`update.py:99`) and writes
  its own version over the newer one (`:108`). Without `clean =>` TLC refutes
  `RecordedIsHighest` and `NoDowngrade`, against `models.py:133` and `update.py:9`.
- *One stream can block the others*: while the handler is at the drain of one stream
  (`relay.py:596`) it reads no frame, neither proxy frames nor messages, and openings
  wait for as long as that remote host pleases.
- A malformed `proxy-open` is dropped without a word (`relay.py:541`), although silent
  drops "would hang the client" (`:543`); a client that sends one has itself to blame.
- GET /keys may return a leaf that is newer than its bundle, if a registration commits
  between its two statements.
- *The published root can lack a leaf* after registrations that overlapped; GET
  /merkle/root then contradicts GET /keys until the next undisturbed registration.
- `leaf_idx` stays 0 after a first registration (`opaque.py:131`); nothing reads it.
- `push_test` compares the stale token with the object its session already holds
  (`push.py:70`), hence with itself; and every prune is a check followed by a
  DELETE by key, so that a token registered in between goes with the stale one.
- The finish or expiry of an older login attempt deletes the state of a newer one
  (`opaque.py:180`, `:194`, `:202`): that login fails and has to be repeated.
- After the remote host's end the proxy keeps the entry and its half of the
  connection; an id that is opened again before the client closed it is ignored
  without a word. `proxy_stats["ended"]` then counts the stream twice.
- `signal.rs` sends 0 for the length of the previous chain and stores no keys of it
  when the peer rotates: a late envelope of an older chain is lost, although the
  module says that it implements "the same protocol mechanics" (`signal.rs:7`). Up to
  100 keys may be skipped and 64 are saved.
- GET /keys returns no position of the leaf, which a client needs to follow the proof.

Divergences between documents and code that no run is about:
`specs/queue-shred.md` and the docstring at `relay.py:195` say 7 days where the
code (`relay.py:54`) says 30; `specs/durable-receipts.md` describes a periodic
sweep of receipts, the code sweeps them lazily on flush only; `security.py:29` speaks
of fixed windows, the code keeps a sliding log.

## Proofs

`RelayProofs` proves, for any users, connections, messages, owners, limits and
faults that satisfy `RelayConstants`: `TypeOK`, `StoredIsSafe`, `TicksAreTrue`,
`RowsDieByAck`, `ReceiptsDieSeen`, and the refinement of `Mailbox`. The argument is
one inductive invariant, `IInv`:

- `Working`: at each await the coroutine has the kind of frame in hand that the
  code there expects. Without it nothing is known about `cur[s]`.
- `LettersSafe`: what a coroutine has in hand, listed or told is queued, has
  arrived or is perishable. `StoredIsSafe` alone says nothing about a message
  between its INSERT and its push.
- `AckFirst`: whatever will delete a row or write a tick (a woken sender, the
  memory of acked rows, a listed or pending receipt) follows an ack.
- `SeenFirst`: whoever can delete a receipt has seen it.

Each part has a lemma that every step preserves it, split over the actions. The
two action properties and the refinement follow from the invariant: `StepKinds`
separates the steps that leave the queue and the clients alone from the few that
do not.

The second part of `RelayProofs` proves `NoDeliveryGap`, on the assumptions that one flush may list
all rows (`Roomy`) and that no coroutine is cancelled in its loop: both are needed, as
the code lists 100 rows at most and a sender cancelled between its commit and its push
leaves the row to the next connect. The invariant `GapInv` says of every connection
whose client is there that its socket is in the table (`Registered`), that its flush is
about its own user's rows and does not stop early (`Aimed`), and that each row kept for
its user is shown, in the hand of a coroutine that is going to push it there, or still
before its flush (`Covered`). Another device's flush is not counted on, since it may
fail half-way. `ListedWhole` is where the limit comes in.

`PresenceProofs` proves `TypeOK` and `OnlineIsWatched`, which is inductive with
it.

`OtaProofs` proves `TypeOK`, `NoDowngrade` and `RecordedIsHighest` for any number of
requests and versions, and a bucket that changes at any moment. The invariant says of
every request past the guard that was not overtaken what it knows of the row
(`Knows`): before its commit the row is between what it loaded and what it downloaded,
after it the row is what it downloaded. So its commit never lowers the row, and what
it publishes is the highest version served (`Remembered` says the same of the cache
and of the last good manifest, from which the cached answers come).

`OpaqueProofs` proves `OneSetup`, `EndedIsGone` and `OneTokenPerLogin` for any number
of users, requests and attempts. A setup in use beyond "store" is the stored one;
for the login states the invariant says that attempts are handed out in order and an
attempt's number is in one place at a time before its row is saved, so that a later
INSERT or UPDATE cannot bring an ended attempt back; a token's row exists exactly when
its attempt succeeded. For `RateIsLimited` the invariant says that the bucket is the end
of the history of admitted logins and that whatever has left it is older than the window
(`Bucket`), from which follows that `MaxHits` logins on more than a window has passed
(`Spaced`). `TypeOK` is proved from both invariants.

`LedgerProofs` proves `TypeOK`, `LeavesMatchBundles` and `CleanRootIsCurrent` for any
users, requests and bounds. The invariant: registrations that have listed the leaves
hold the lock of their user, so that they are about different users; a listing is a
prefix of the table in its names (`Prefix`), and, unless its owner is `lapsed`, the
table itself (`Exact`). From the first follows that replacing or appending a leaf keeps
the table a function of the users; from the second that the root computed from the
listing is that of the table.

The hash tree comes first in `LedgerProofs`. `ProofLeadsToRoot`: for any number of
leaves and any position, `Climb` along `merkle_proof` ends at `compute_root`.
`RootBindsLeaf`: along any list of siblings that is as long, from any other leaf, it
does not (hashes being symbols). Both rest on `TreeFacts`, which relates each node on
the way to the one above it, and on what the levels are: each has half the nodes of the
one below, rounded up (`UpFacts`), the last has one (`LevelFacts`), and those that the
proof has a sibling of are the ones before the first with one node (`TallFacts`).
`TreesAreRight` compares the root with a definition that does not build levels: a node
h levels up at position i stands over 2^h leaves, and a position past the end of its
level stands for the last one. `Widths` counts the nodes of that definition and
`LevelNodes` finds each of them in its level. `TreeCorrect` (`TreeIsRight`) follows for
every bound `MaxLeaves`.
`AnswerIsProved` follows, with an invariant that says that a bundle which get_keys holds
is not newer than the one in the directory (`ReadOld`).

Induction here is over a set: `UpTo` says that a set which holds 0 and, with each
number below n, the next one, holds all numbers up to n; it follows from `Least`, as the
order of the naturals is well founded. That a recursive function is what its recursion
says (`LevelsAre`, `PathIs`, `ClimbIs`) is such an induction over the lengths up to
which one exists.

`DoorbellProofs` proves `TypeOK`, `SilentOnce` and `PruneIsAimed`: sockets still in
the table during a push that nobody joined are its targets or failed ones, and a
token is marked newer by whoever stores it after a task's last look. `ProxyProofs` proves
`TypeOK`, `StreamsAreHeld` and `ToldIsTrue`: streams are numbered by `served`, a stream
that is not its id's entry is over, and while an id was opened once at most one of
"open" under way, in hand or served exists.

`RatchetProofs` proves `TypeOK`, `KeysAreOneTime`, `NoReplay` and `LatestChainOpens`
for any number of envelopes and of saved keys, with a one-time key or without. Bob's
session counts from the beginning, as the one that he will start with (`View`). The
invariant:

- `Leads`: whoever rotated last has made the longest root. The other has followed, with
  the same root and this chain to receive from, or is exactly one root behind, in which
  case its own last chain is the one the leader's root was made after. Roots therefore
  grow by one with each turn, odd lengths being Alice's (`Turn`), and no two chains have
  the same root.
- `Sealed`, `Named`: an envelope belongs to its sender's present chain, below the
  counter, or to one with a shorter root; a key pair names one chain, and a key one
  envelope.
- `Matched`, `SkippedRight`: the receiver's chain is the one that its `remote` names,
  not ahead of the sender; a skipped key is the one that the envelope of its name was
  sealed with.
- `Accounted`: an opened envelope is behind the chain's counter and has no key left,
  hence `NoReplay`; one that was passed over has its key, or that key was dropped.

An envelope that opens must have been sealed with the key found, and `NextChain` says
that an envelope with a root longer than the receiver's is of the sender's present
chain, one rotation ahead: so `Ratcheted` arrives at the sender's root. `OpenedFails`
is the converse for replays. Without the lengths of roots nothing says that an old
`remote` never returns.

Only model-checked: liveness (`DrainsWhileConnected`, `GoneIsShown`,
`NobodyHangs`), since the prover has no support for fairness and ENABLED here. Every
safety property that a passing run checks is proved.

## Not modelled

- Cryptographic primitives, signatures, codecs, formats, HTTP plumbing, schemas and
  configuration: stateless, or a matter of unit tests. What the sidecar answers is a
  choice.
- `auth_token` and the life of a token after the login: one read of one row.
- The paging of GET /directory, `last_seen`, envelopes (`user_envelopes` is part of
  `bundle` in `Ledger`, and what a login returns of it is not modelled).
- Several sockets of one user that share proxy stream ids; the addresses that the
  egress guard inspects.
- The database's own failures other than as an end of the request; the limit of its
  connection pool.

What is left to do: envelopes and registrations against logins under way; runs
that hold a version of the acked-tick path in which the crash between `_pop_sender`
and the tick's INSERT (`relay.py:181`, `:484`) is the only way to lose a tick.
