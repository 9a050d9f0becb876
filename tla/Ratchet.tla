------------------------------- MODULE Ratchet -------------------------------
(***************************************************************************)
(* A session of two clients, of src/core-crypto/src/signal.rs: X3DH and    *)
(* the double ratchet, over a network that loses, repeats and reorders     *)
(* envelopes.                                                              *)
(*                                                                         *)
(* Cryptography is symbolic.  A key pair is <<owner, number>>, the secret  *)
(* shared by two of them is the set of both, a root is the sequence of all *)
(* that was mixed in so far, X3DH first, and the n-th key of the chain     *)
(* that was derived with a root is [of |-> root, n |-> n].  An envelope    *)
(* opens under the very key that it was sealed with.                       *)
(***************************************************************************)
EXTENDS Naturals, FiniteSets, Sequences, FiniteSetsExt, Functions

CONSTANTS
    Keep,           \* skipped keys that the codec saves (64; MAX_SKIP is more)
    OneTime,        \* Bob's bundle has a one-time key
    MaxSend         \* bound: envelopes that each of them seals

ASSUME RatchetConstants ==
    /\ Keep \in Nat /\ MaxSend \in Nat
    /\ OneTime \in BOOLEAN

VARIABLES
    session,        \* the saved session of each client, as decoded
    sent,           \* the envelopes sealed so far: any may arrive, at any time
    opened,         \* history: those that were opened
    replayed,       \* history: one was opened twice
    dropped         \* history: skipped keys that a client did not save

vars == <<session, sent, opened, replayed, dropped>>

Party == {"alice", "bob"}
Peer(p) == IF p = "alice" THEN "bob" ELSE "alice"
NoSession == [valid |-> FALSE]
Failed == [valid |-> FALSE]

DH(a, b) == {a, b}

-----------------------------------------------------------------------------
(* X3DH.                                                                   *)

Ephemeral == <<"alice", 0>>
SignedPre == <<"bob", 0>>

AliceSecret ==
    <<DH(<<"alice id", 0>>, SignedPre), DH(Ephemeral, <<"bob id", 0>>), DH(Ephemeral, SignedPre)>>
        \o IF OneTime THEN <<DH(Ephemeral, <<"bob one-time", 0>>)>> ELSE <<>>

BobSecret ==
    <<DH(SignedPre, <<"alice id", 0>>), DH(<<"bob id", 0>>, Ephemeral), DH(SignedPre, Ephemeral)>>
        \o IF OneTime THEN <<DH(<<"bob one-time", 0>>, Ephemeral)>> ELSE <<>>

Chain(root) == [of |-> root, n |-> 0]
NoChain == Chain(<<>>)
NoKeys == [k \in {} |-> NoChain]

session_init_alice ==
    [root |-> <<AliceSecret>>, send |-> Chain(<<AliceSecret>>), recv |-> NoChain,
     own |-> Ephemeral, remote |-> SignedPre, valid |-> TRUE, skipped |-> NoKeys]

session_init_bob ==
    [root |-> <<BobSecret>>, send |-> NoChain, recv |-> Chain(<<BobSecret>>),
     own |-> SignedPre, remote |-> Ephemeral, valid |-> FALSE, skipped |-> NoKeys]

Init ==
    /\ session = [p \in Party |-> IF p = "alice" THEN session_init_alice ELSE NoSession]
    /\ sent = {} /\ opened = {} /\ replayed = FALSE /\ dropped = {}

-----------------------------------------------------------------------------
(* The codec.                                                              *)

\* Mutant: all the skipped keys are saved.
SavedAll(s) == {s}

\* The codec saves so many skipped keys at most, whichever the hash map lists first.
Saved(s) ==
    LET n == Cardinality(DOMAIN s.skipped)
    IN  {[s EXCEPT !.skipped = Restrict(s.skipped, kept)] :
            kept \in kSubset(IF n <= Keep THEN n ELSE Keep, DOMAIN s.skipped)}

Save(p, s) ==
    /\ session' \in {[session EXCEPT ![p] = t] : t \in Saved(s)}
    /\ dropped' = dropped \cup
         {<<p, k>> : k \in DOMAIN s.skipped \ DOMAIN session'[p].skipped}

-----------------------------------------------------------------------------
(* session_encrypt.                                                        *)

\* Without a send chain for the root, a fresh key is mixed in and starts one.
Rotated(p, s) ==
    LET fresh == <<p, s.own[2] + 1>>
        root  == Append(s.root, DH(fresh, s.remote))
    IN  IF s.valid THEN s
        ELSE [s EXCEPT !.root = root, !.send = Chain(root), !.own = fresh, !.valid = TRUE]

\* Mutant: the state from before the message is saved.
SpentNot(s) == s

Spent(s) == [s EXCEPT !.send.n = @ + 1]

SentBy(p) == {e \in sent : e.from = p}

Encrypt(p) ==
    /\ session[p] # NoSession /\ Cardinality(SentBy(p)) < MaxSend
    /\ LET s == Rotated(p, session[p])
       IN  /\ sent' = sent \cup
                {[from |-> p, number |-> Cardinality(SentBy(p)), dh |-> s.own,
                  ctr |-> s.send.n, key |-> s.send]}
           /\ Save(p, Spent(s))
    /\ UNCHANGED <<opened, replayed>>

-----------------------------------------------------------------------------
(* session_decrypt.                                                        *)

\* Mutant: our own key is rotated with the peer's.
RatchetedBoth(s, dh) ==
    LET own  == <<s.own[1], s.own[2] + 1>>
        root == Append(s.root, DH(own, dh))
    IN  IF dh = s.remote THEN s
        ELSE [s EXCEPT !.root = root, !.recv = Chain(root), !.remote = dh, !.own = own,
                       !.valid = FALSE]

\* ratchet_recv, if the peer has rotated.
Ratcheted(s, dh) ==
    LET root == Append(s.root, DH(s.own, dh))
    IN  IF dh = s.remote THEN s
        ELSE [s EXCEPT !.root = root, !.recv = Chain(root), !.remote = dh, !.valid = FALSE]

\* The keys up to the envelope's are skipped, and kept for later.
Advanced(s, ctr) ==
    LET passed == {s.remote} \X (s.recv.n .. ctr - 1)
    IN  IF ctr <= s.recv.n THEN s
        ELSE [s EXCEPT !.recv.n = ctr,
                !.skipped = [k \in passed \cup DOMAIN s.skipped |->
                   IF k \in passed THEN [s.recv EXCEPT !.n = k[2]] ELSE s.skipped[k]]]

\* Mutant: a skipped key is looked up and not taken out.
Unused(s, k) == s

\* A skipped key serves once.
Used(s, k) == [s EXCEPT !.skipped = Restrict(@, DOMAIN @ \ {k})]

\* The session after the envelope has been opened; Failed if it does not open.
Open(s, e) ==
    LET late == <<e.dh, e.ctr>> \in DOMAIN s.skipped
        t == Advanced(Ratcheted(s, e.dh), e.ctr)
    IN  IF late THEN IF s.skipped[<<e.dh, e.ctr>>] = e.key
                     THEN Used(s, <<e.dh, e.ctr>>) ELSE Failed
        ELSE IF t.recv = e.key THEN [t EXCEPT !.recv.n = @ + 1] ELSE Failed

Decrypt(p, e) ==
    /\ e.from = Peer(p) /\ session[p] # NoSession
    /\ Open(session[p], e) # Failed
    /\ Save(p, Open(session[p], e))
    /\ opened' = opened \cup {e}
    /\ replayed' = (replayed \/ e \in opened)
    /\ UNCHANGED sent

\* An error leaves the session as it was.
DecryptFails(p, e) ==
    /\ e.from = Peer(p) /\ session[p] # NoSession
    /\ Open(session[p], e) = Failed
    /\ UNCHANGED vars

\* Bob's session starts with Alice's first envelope, which names her ephemeral key.
BobBegins ==
    /\ session["bob"] = NoSession /\ SentBy("alice") # {}
    /\ session' = [session EXCEPT !["bob"] = session_init_bob]
    /\ UNCHANGED <<sent, opened, replayed, dropped>>

Next ==
    \/ BobBegins
    \/ \E p \in Party : Encrypt(p)
    \/ \E p \in Party, e \in sent : Decrypt(p, e)
    \/ \E p \in Party, e \in sent : DecryptFails(p, e)

Spec == Init /\ [][Next]_vars

-----------------------------------------------------------------------------
(* Properties.                                                             *)

TypeOK ==
    /\ \A p \in Party : session[p] # NoSession =>
         /\ session[p].send.n \in 0 .. MaxSend /\ session[p].recv.n \in 0 .. MaxSend
         /\ session[p].own \in {p} \X (0 .. MaxSend)
         /\ session[p].remote \in {Peer(p)} \X (0 .. MaxSend)
         /\ session[p].valid \in BOOLEAN
         /\ Cardinality(DOMAIN session[p].skipped) <= Keep
    /\ \A e \in sent : e.from \in Party /\ e.ctr \in 0 .. MaxSend
    /\ opened \subseteq sent
    /\ replayed \in BOOLEAN

\* "Each message key is one-time" (signal.rs:77), on which the fixed nonces
\* rest: no two envelopes of the session, in whichever direction, have the
\* same key.
KeysAreOneTime == \A e, f \in sent : e.key = f.key => e = f

\* "Decryption failed (wrong key, replay, or tampered envelope)" (signal.rs:35):
\* an envelope that arrives again does not open again.
NoReplay == ~replayed

\* Envelopes of the peer's present chain open in whatever order they arrive,
\* whether or not this side has rotated since, unless the key was skipped and
\* did not fit into the saved session.  (Those of an older chain are lost once a
\* newer one was seen, if their keys were not skipped before.)
LatestChainOpens ==
    \A p \in Party : \A e \in sent \ opened :
        /\ e.from = Peer(p) /\ session[p] # NoSession
        /\ e.dh = session[Peer(p)].own
        /\ <<p, <<e.dh, e.ctr>>>> \notin dropped
        => Open(session[p], e) # Failed
=============================================================================
