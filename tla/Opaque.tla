------------------------------- MODULE Opaque -------------------------------
(***************************************************************************)
(* The OPAQUE login of src/app/routers/opaque.py: the one ServerSetup,     *)
(* login_states, the tokens for the WebSocket, and the rate limit of       *)
(* src/app/security.py.  (register_finish is in module Ledger.)            *)
(*                                                                         *)
(* A request is suspended while the sidecar works and at every database    *)
(* statement.  A row is loaded, changed as an object and written by the    *)
(* commit: an INSERT of a key that exists and an UPDATE of a row that is   *)
(* gone fail, a DELETE of a row that is gone does nothing.                 *)
(*                                                                         *)
(* What the sidecar computes is opaque: a login attempt is a number, which *)
(* stands for the response, the login state and the session key that it    *)
(* made; a finalization opens the login state of its own attempt and no    *)
(* other.  A setup is named after the request that made it.                *)
(***************************************************************************)
EXTENDS Naturals, Sequences, FiniteSets

CONSTANTS
    User,           \* account names
    Req,            \* requests that may be under way at once
    MaxAttempt,     \* bound: logins started
    MaxTime,        \* bound of the clock
    StateTTL,       \* LOGIN_STATE_TTL_SEC
    Window, MaxHits,\* the rate limit: WINDOW_SEC and MAX_HITS
    None            \* no row

ASSUME OpaqueConstants ==
    /\ MaxAttempt \in Nat /\ MaxTime \in Nat /\ StateTTL \in Nat
    /\ Window \in Nat /\ MaxHits \in Nat
    /\ None \notin Req

VARIABLES
    now,            \* the clock
    setup,          \* server_setup
    loginState,     \* login_states: attempt and expiry
    granted,        \* ws_tokens: the attempts whose token is stored
    hits,           \* the bucket of the clients' address
    pc, user,       \* the await that a request is at, the account it is about
    using,          \* the setup it works with
    attempt,        \* the attempt that it started or wants to finish
    held,           \* the login state it has loaded
    attempts,       \* logins started so far
    sent,           \* <<u, a>>: the response of attempt a was sent to u's client
    answered,       \* history: the setups that responses were made with
    ended,          \* history: attempts for which a finish was answered
    successes,      \* history: successes[a] finishes of a were answered with a token
    admitted        \* history: when logins passed the rate limit, since the start

setups == <<setup, answered>>
logins == <<loginState, granted, attempts, sent, ended, successes>>
rate == <<hits, admitted>>
flight == <<pc, user, using, attempt, held>>
vars == <<now, setups, logins, rate, flight>>

Attempt == 1 .. MaxAttempt
NoState == [attempt |-> 0, expires |-> 0]
Row == [attempt : Attempt, expires : Nat]

TypeOK ==
    /\ now \in 0 .. MaxTime
    /\ setup \in Req \cup {None}
    /\ loginState \in [User -> Row \cup {NoState}]
    /\ granted \subseteq Attempt
    /\ hits \in Seq(0 .. MaxTime)
    /\ pc \in [Req -> {"idle", "setup", "make", "store", "register", "start", "load",
                       "save", "find", "finish", "mint", "drop"}]
    /\ user \in [Req -> User \cup {None}]
    /\ using \in [Req -> Req \cup {None}]
    /\ attempt \in [Req -> Attempt \cup {0}]
    /\ held \in [Req -> Row \cup {NoState}]
    /\ attempts \in Attempt \cup {0}
    /\ sent \subseteq User \X Attempt
    /\ answered \subseteq Req
    /\ ended \subseteq Attempt
    /\ successes \in [Attempt -> Nat]
    /\ admitted \in Seq(0 .. MaxTime)

Init ==
    /\ now = 0
    /\ setup = None
    /\ loginState = [u \in User |-> NoState]
    /\ granted = {}
    /\ hits = <<>> /\ admitted = <<>>
    /\ pc = [r \in Req |-> "idle"]
    /\ user = [r \in Req |-> None]
    /\ using = [r \in Req |-> None]
    /\ attempt = [r \in Req |-> 0]
    /\ held = [r \in Req |-> NoState]
    /\ attempts = 0 /\ sent = {}
    /\ answered = {} /\ ended = {} /\ successes = [a \in Attempt |-> 0]

Goto(r, l) == pc' = [pc EXCEPT ![r] = l]

\* The request is answered, or fails, and its session is dropped.
Done(r) ==
    /\ Goto(r, "idle")
    /\ user' = [user EXCEPT ![r] = None]
    /\ using' = [using EXCEPT ![r] = None]
    /\ attempt' = [attempt EXCEPT ![r] = 0]
    /\ held' = [held EXCEPT ![r] = NoState]

-----------------------------------------------------------------------------
(* check_rate_limit.                                                       *)

\* Mutant: hits at the edge of the window are forgotten.
RecentOpen == SelectSeq(hits, LAMBDA h : now - h < Window)

\* Hits leave the bucket at its front, as long as the first is older than the
\* window ...
Recent ==
    LET first == CHOOSE k \in 1 .. Len(hits) + 1 :
                     /\ \A i \in 1 .. k - 1 : now - hits[i] > Window
                     /\ k <= Len(hits) => now - hits[k] <= Window
    IN  SubSeq(hits, first, Len(hits))

\* ... and a full bucket refuses.
Admit ==
    /\ Len(Recent) < MaxHits
    /\ hits' = Append(Recent, now)
    /\ admitted' = Append(admitted, now)

Refuse ==
    /\ Len(Recent) >= MaxHits
    /\ hits' = Recent
    /\ UNCHANGED <<now, setups, logins, admitted, flight>>

-----------------------------------------------------------------------------
(* The requests arrive, and get_setup_b64.                                 *)

RegisterStart(r) ==
    /\ pc[r] = "idle"
    /\ Goto(r, "setup")
    /\ UNCHANGED <<now, setups, logins, rate, user, using, attempt, held>>

LoginStart(r, u) ==
    /\ pc[r] = "idle" /\ Admit
    /\ user' = [user EXCEPT ![r] = u]
    /\ Goto(r, "setup")
    /\ UNCHANGED <<now, setups, logins, using, attempt, held>>

\* A client that has the response of attempt a sends its finalization.
LoginFinish(r, u, a) ==
    /\ pc[r] = "idle" /\ <<u, a>> \in sent /\ Admit
    /\ user' = [user EXCEPT ![r] = u]
    /\ attempt' = [attempt EXCEPT ![r] = a]
    /\ Goto(r, "find")
    /\ UNCHANGED <<now, setups, logins, using, held>>

\* Where the request goes with its setup.
Onward(r) == IF user[r] = None THEN "register" ELSE "start"

GetSetup(r) ==
    /\ pc[r] = "setup"
    /\ using' = [using EXCEPT ![r] = setup]
    /\ Goto(r, IF setup = None THEN "make" ELSE Onward(r))
    /\ UNCHANGED <<now, setups, logins, rate, user, attempt, held>>

\* The sidecar makes a new one ...
SetupMade(r) ==
    /\ pc[r] = "make"
    /\ using' = [using EXCEPT ![r] = r]
    /\ Goto(r, "store")
    /\ UNCHANGED <<now, setups, logins, rate, user, attempt, held>>

\* Mutant: a setup that cannot be stored is used all the same.
SetupUsed(r) ==
    /\ pc[r] = "store"
    /\ setup' = IF setup = None THEN using[r] ELSE setup
    /\ Goto(r, Onward(r))
    /\ UNCHANGED <<now, answered, logins, rate, user, using, attempt, held>>

\* ... which becomes the row; if there is one by now, the INSERT fails (Fail).
SetupStored(r) ==
    /\ pc[r] = "store" /\ setup = None
    /\ setup' = using[r]
    /\ Goto(r, Onward(r))
    /\ UNCHANGED <<now, answered, logins, rate, user, using, attempt, held>>

\* register_start ends with the sidecar's response.
RegisterAnswered(r) ==
    /\ pc[r] = "register"
    /\ answered' = answered \cup {using[r]}
    /\ Done(r)
    /\ UNCHANGED <<now, setup, logins, rate>>

-----------------------------------------------------------------------------
(* login_start.                                                            *)

\* The sidecar starts an attempt; a row of the user's is loaded.
StartMade(r) ==
    /\ pc[r] = "start" /\ attempts < MaxAttempt
    /\ attempts' = attempts + 1
    /\ attempt' = [attempt EXCEPT ![r] = attempts + 1]
    /\ Goto(r, "load")
    /\ UNCHANGED <<now, setups, loginState, granted, sent, ended, successes, rate, user,
                   using, held>>

StartLoad(r) ==
    /\ pc[r] = "load"
    /\ held' = [held EXCEPT ![r] = loginState[user[r]]]
    /\ Goto(r, "save")
    /\ UNCHANGED <<now, setups, logins, rate, user, using, attempt>>

\* Mutant: the time is taken off instead of added.
ExpiryPast == StateTTL - now

Expiry == now + StateTTL

\* The row is inserted if none was loaded, else updated; when it has come or
\* gone meanwhile, the statement fails (Fail).  The expiry was computed at any
\* time since the attempt was made: it is taken as of the commit.
StartSave(r) ==
    /\ pc[r] = "save"
    /\ (held[r] = NoState) <=> (loginState[user[r]] = NoState)
    /\ loginState' = [loginState EXCEPT ![user[r]] =
         [attempt |-> attempt[r], expires |-> Expiry]]
    /\ sent' = sent \cup {<<user[r], attempt[r]>>}
    /\ answered' = answered \cup {using[r]}
    /\ Done(r)
    /\ UNCHANGED <<now, setup, granted, attempts, ended, successes, rate>>

-----------------------------------------------------------------------------
(* login_finish.                                                           *)

\* No state: 401.
FinishNoState(r) ==
    /\ pc[r] = "find" /\ loginState[user[r]] = NoState
    /\ Done(r)
    /\ UNCHANGED <<now, setups, logins, rate>>

FinishExpired(r) ==
    /\ pc[r] = "find" /\ loginState[user[r]] # NoState
    /\ loginState[user[r]].expires < now
    /\ Goto(r, "drop")
    /\ UNCHANGED <<now, setups, logins, rate, user, using, attempt, held>>

FinishFound(r) ==
    /\ pc[r] = "find" /\ loginState[user[r]] # NoState
    /\ loginState[user[r]].expires >= now
    /\ held' = [held EXCEPT ![r] = loginState[user[r]]]
    /\ Goto(r, "finish")
    /\ UNCHANGED <<now, setups, logins, rate, user, using, attempt>>

FinishAccepted(r) ==
    /\ pc[r] = "finish" /\ held[r].attempt = attempt[r]
    /\ Goto(r, "mint")
    /\ UNCHANGED <<now, setups, logins, rate, user, using, attempt, held>>

\* Mutant: a failed finalization leaves the state for the next try.
FinishKept(r) ==
    /\ pc[r] = "finish"
    /\ ended' = ended \cup {held[r].attempt}
    /\ Done(r)
    /\ UNCHANGED <<now, setups, loginState, granted, attempts, sent, successes, rate>>

\* A finalization of another attempt, or a failure of the sidecar.
FinishRejected(r) ==
    /\ pc[r] = "finish"
    /\ Goto(r, "drop")
    /\ UNCHANGED <<now, setups, logins, rate, user, using, attempt, held>>

\* The user's row is deleted, whichever attempt it is about by now: 401 or 500.
FinishDropped(r) ==
    /\ pc[r] = "drop"
    /\ loginState' = [loginState EXCEPT ![user[r]] = NoState]
    /\ ended' = IF held[r] = NoState THEN ended ELSE ended \cup {held[r].attempt}
    /\ Done(r)
    /\ UNCHANGED <<now, setups, granted, attempts, sent, successes, rate>>

\* Mutant: tokens are random, so that two of one login do not collide.
AnyToken(r) == pc[r] = "mint"

\* The token is derived from the session key: of two finishes of one attempt
\* the second finds its token there, and its transaction fails (Fail).
NewToken(r) == held[r].attempt \notin granted

\* The row is deleted and the token stored in one transaction.
FinishMinted(r) ==
    /\ pc[r] = "mint" /\ NewToken(r)
    /\ granted' = granted \cup {held[r].attempt}
    /\ loginState' = [loginState EXCEPT ![user[r]] = NoState]
    /\ successes' = [successes EXCEPT ![held[r].attempt] = @ + 1]
    /\ ended' = ended \cup {held[r].attempt}
    /\ Done(r)
    /\ UNCHANGED <<now, setups, attempts, sent, rate>>

-----------------------------------------------------------------------------

\* An error of the sidecar, of a statement (the clashes above) or of the
\* connection ends the request without an effect on the tables.
Fail(r) ==
    /\ pc[r] # "idle"
    /\ Done(r)
    /\ UNCHANGED <<now, setups, logins, rate>>

\* The process dies and starts again: the bucket is empty.
Restart ==
    /\ pc' = [r \in Req |-> "idle"]
    /\ user' = [r \in Req |-> None]
    /\ using' = [r \in Req |-> None]
    /\ attempt' = [r \in Req |-> 0]
    /\ held' = [r \in Req |-> NoState]
    /\ hits' = <<>> /\ admitted' = <<>>
    /\ UNCHANGED <<now, setups, logins>>

Tick ==
    /\ now < MaxTime
    /\ now' = now + 1
    /\ UNCHANGED <<setups, logins, rate, flight>>

Setting(r) == GetSetup(r) \/ SetupMade(r) \/ SetupStored(r) \/ RegisterAnswered(r)

Starting(r) == StartMade(r) \/ StartLoad(r) \/ StartSave(r)

Finishing(r) ==
    \/ FinishNoState(r) \/ FinishExpired(r) \/ FinishFound(r)
    \/ FinishAccepted(r) \/ FinishRejected(r) \/ FinishDropped(r) \/ FinishMinted(r)

Next ==
    \/ \E r \in Req :
         \/ RegisterStart(r) \/ Setting(r) \/ Starting(r) \/ Finishing(r) \/ Fail(r)
         \/ \E u \in User : LoginStart(r, u) \/ \E a \in Attempt : LoginFinish(r, u, a)
    \/ Refuse \/ Restart \/ Tick

Spec == Init /\ [][Next]_vars

-----------------------------------------------------------------------------
(* Properties.                                                             *)

\* However many first requests race to make the ServerSetup, every response was
\* made with the one that is stored: "run ONCE per deployment ... Losing it
\* invalidates every password file" (SPEC.md:39).
OneSetup == answered \subseteq {setup} \ {None}

\* The login state of an attempt for which a finish was answered is gone, so
\* that it cannot serve a second try ("single-use state must die even on
\* failure", opaque.py:188): no overlapping start or finish brings it back.
EndedIsGone == \A u \in User : loginState[u].attempt \notin ended

\* Two finishes of one attempt may be under way at once, both with its state in
\* hand; one of them at most gets a token.
OneTokenPerLogin == \A a \in Attempt : successes[a] <= 1

\* No window, its ends included, sees more logins pass than the limit allows
\* (security.py:43); the bucket forgets old hits and must not forget too early.
RateIsLimited ==
    \A t \in 0 .. MaxTime :
        Cardinality({i \in DOMAIN admitted : admitted[i] \in t .. t + Window}) <= MaxHits
=============================================================================
