---------------------------- MODULE RatchetProofs ----------------------------
(***************************************************************************)
(* The chains of the two clients agree, however many envelopes they send   *)
(* and however few skipped keys are saved: no key is used twice, nothing   *)
(* opens twice, and the present chain of the peer can be opened.           *)
(***************************************************************************)
EXTENDS Ratchet, FiniteSetTheorems, TLAPS

USE RatchetConstants

\* Bob's session, before it exists, is the one that he will begin with.
View(p) == IF session[p] = NoSession THEN session_init_bob ELSE session[p]

Key == Party \X Nat
Mixed == {AliceSecret} \cup SUBSET Key
ChainType == [of : Seq(Mixed), n : Nat]
Name == Key \X Nat

SessionType ==
    [root : Seq(Mixed), send : ChainType, recv : ChainType, own : Key, remote : Key,
     valid : BOOLEAN, skipped : UNION {[D -> ChainType] : D \in SUBSET Name}]

Envelope ==
    [from : Party, number : Nat, dh : Key, ctr : Nat, key : ChainType]

\* Who has rotated last has made the latest root, and made it from the root of
\* the other, who has either received it or not.
Followed(p, s, r) ==
    /\ r.root = s.root /\ r.recv.of = s.root
    /\ r.remote = s.own /\ ~r.valid

Ahead(p, s, r) ==
    /\ s.root = Append(r.root, DH(s.own, r.own))
    /\ r.send.of = r.root /\ r.valid
    /\ r.remote[2] < s.own[2]

\* Roots of length n are made by p.
Turn(p, n) == n % 2 = (IF p = "alice" THEN 1 ELSE 0)

Leads(p) ==
    LET s == View(p)
        r == View(Peer(p))
    IN  /\ s.valid /\ s.send.of = s.root
        /\ s.remote = r.own /\ s.recv.of = r.send.of
        /\ Len(s.root) = Len(r.send.of) + 1
        /\ Turn(p, Len(s.root))
        /\ Followed(p, s, r) \/ Ahead(p, s, r)

Typed ==
    /\ session["alice"] # NoSession
    /\ \A p \in Party : View(p) \in SessionType
    /\ DOMAIN session = Party
    /\ \A p \in Party : View(p).own[1] = p /\ View(p).remote[1] = Peer(p)
    /\ \A p \in Party : Len(View(p).recv.of) <= Len(View(p).root)
    /\ sent \subseteq Envelope /\ IsFiniteSet(sent)
    /\ \A e \in sent : session[e.from] # NoSession
    /\ opened \subseteq sent

\* Counters are bounded by what was sent.
Counted ==
    /\ \A p \in Party :
         /\ View(p).own[2] <= Cardinality(SentBy(p))
         /\ View(p).send.n <= Cardinality(SentBy(p))
         /\ View(p).remote[2] <= MaxSend
         /\ Cardinality(SentBy(p)) <= MaxSend
         /\ View(p).recv.n <= MaxSend
         /\ session[p] # NoSession => Cardinality(DOMAIN session[p].skipped) <= Keep
    /\ \A e \in sent : e.ctr < MaxSend
    /\ replayed = FALSE

\* What a client has sent belongs to its chains: the latest one, if it has
\* the chain's root or names its present key, or one with a shorter root.
Sealed ==
    \A e \in sent : LET s == View(e.from) IN
        /\ e.key.n = e.ctr /\ e.dh[1] = e.from /\ e.dh[2] <= s.own[2]
        /\ Len(e.key.of) <= Len(s.send.of)
        /\ Turn(e.from, Len(e.key.of))
        /\ e.dh = s.own => Len(e.key.of) = Len(s.send.of)
        /\ Len(e.key.of) = Len(s.send.of) =>
             e.dh = s.own /\ e.key.of = s.send.of /\ e.ctr < s.send.n

\* A name stands for one key, and a key for one envelope.
Named ==
    \A e, f \in sent : e.from = f.from =>
        /\ e.dh = f.dh => e.key.of = f.key.of
        /\ e.key = f.key => e = f

\* The receive chain is one of the peer's chains, the latest if both have the
\* same root or it is named by the peer's present key.
Matched ==
    \A p \in Party : LET s == View(p) r == View(Peer(p)) IN
        /\ s.recv.of = r.send.of => s.recv.n <= r.send.n
        /\ \A e \in SentBy(Peer(p)) : e.dh = s.remote <=> e.key.of = s.recv.of

\* A skipped key is the key of its name.
SkippedRight ==
    \A p \in Party : LET s == View(p) r == View(Peer(p)) IN
        \A k \in DOMAIN s.skipped :
            /\ k[1][1] = Peer(p) /\ k[1][2] <= r.own[2] /\ k[1][2] <= s.remote[2]
            /\ k[1] = r.own => s.skipped[k] = [of |-> r.send.of, n |-> k[2]]
            /\ k[1] = s.remote => k[2] < s.recv.n
            /\ Len(s.skipped[k].of) <= Len(s.recv.of)
            /\ \A e \in SentBy(Peer(p)) : <<e.dh, e.ctr>> = k => s.skipped[k] = e.key

\* What was opened has no key any more; what was not still has it, unless it was dropped.
Accounted ==
    \A p \in Party : LET s == View(p) IN
        /\ \A e \in opened \cap SentBy(Peer(p)) :
             /\ <<e.dh, e.ctr>> \notin DOMAIN s.skipped
             /\ Len(e.key.of) <= Len(s.recv.of)
             /\ e.key.of = s.recv.of => e.ctr < s.recv.n
        /\ \A e \in SentBy(Peer(p)) \ opened :
             e.dh = s.remote /\ e.ctr < s.recv.n =>
                 \/ <<e.dh, e.ctr>> \in DOMAIN s.skipped
                 \/ <<p, <<e.dh, e.ctr>>>> \in dropped

IInv ==
    /\ Typed /\ Counted /\ Sealed /\ Named /\ Matched /\ SkippedRight /\ Accounted
    /\ \E p \in Party : Leads(p)

-----------------------------------------------------------------------------
(* Sessions and their parts.                                               *)

\* Both sides come to the same secret.
LEMMA Agreed == AliceSecret = BobSecret
  <1>1. \A a, b : {a, b} = {b, a}
    OBVIOUS
  <1> QED
    BY <1>1 DEF AliceSecret, BobSecret, DH

LEMMA DHType ==
  ASSUME NEW a \in Key, NEW b \in Key
  PROVE  DH(a, b) \in Mixed /\ DH(a, b) = DH(b, a)
  BY DEF DH, Mixed

LEMMA RootType ==
  /\ <<AliceSecret>> \in Seq(Mixed) /\ Len(<<AliceSecret>>) = 1
  /\ <<>> \in Seq(Mixed) /\ Len(<<>>) = 0
  /\ <<BobSecret>> = <<AliceSecret>>
  <1>1. AliceSecret \in Mixed
    BY DEF Mixed
  <1> HIDE DEF Mixed
  <1> QED
    BY <1>1, Agreed

LEMMA AppendRoot ==
  ASSUME NEW root \in Seq(Mixed), NEW m \in Mixed
  PROVE  Append(root, m) \in Seq(Mixed) /\ Len(Append(root, m)) = Len(root) + 1
         /\ Len(root) \in Nat
  OBVIOUS

\* A session is not the mark of its absence, nor that of a failure.
LEMMA IsSession == ASSUME NEW s \in SessionType PROVE s # NoSession /\ s # Failed
  <1>1. DOMAIN s = {"root", "send", "recv", "own", "remote", "valid", "skipped"}
    BY DEF SessionType
  <1>2. DOMAIN NoSession = {"valid"} /\ Failed = NoSession
    BY DEF NoSession, Failed
  <1> QED
    BY <1>1, <1>2

LEMMA Parts ==
  ASSUME NEW s \in SessionType
  PROVE  /\ s.root \in Seq(Mixed) /\ s.send \in ChainType /\ s.recv \in ChainType
         /\ s.own \in Key /\ s.remote \in Key /\ s.valid \in BOOLEAN
         /\ DOMAIN s.skipped \subseteq Name
         /\ \A k \in DOMAIN s.skipped : s.skipped[k] \in ChainType
         /\ s.own[2] \in Nat /\ s.remote[2] \in Nat
         /\ s.send.of \in Seq(Mixed) /\ s.send.n \in Nat
         /\ s.recv.of \in Seq(Mixed) /\ s.recv.n \in Nat
         /\ Len(s.root) \in Nat /\ Len(s.send.of) \in Nat /\ Len(s.recv.of) \in Nat
  <1>1. PICK D \in SUBSET Name : s.skipped \in [D -> ChainType]
    BY DEF SessionType
  <1>2. DOMAIN s.skipped = D /\ \A k \in D : s.skipped[k] \in ChainType
    BY <1>1
  <1> HIDE DEF Mixed, Name
  <1>3. /\ s.root \in Seq(Mixed) /\ s.send \in ChainType /\ s.recv \in ChainType
        /\ s.own \in Key /\ s.remote \in Key /\ s.valid \in BOOLEAN
    BY DEF SessionType
  <1>4. s.own[2] \in Nat /\ s.remote[2] \in Nat
    BY <1>3 DEF Key
  <1>5. /\ s.send.of \in Seq(Mixed) /\ s.send.n \in Nat
        /\ s.recv.of \in Seq(Mixed) /\ s.recv.n \in Nat
    BY <1>3 DEF ChainType
  <1> QED
    BY <1>1, <1>2, <1>3, <1>4, <1>5

LEMMA EnvelopeParts ==
  ASSUME NEW e \in Envelope
  PROVE  /\ e.from \in Party /\ e.number \in Nat /\ e.dh \in Key /\ e.ctr \in Nat
         /\ e.dh[2] \in Nat /\ e.key \in ChainType
         /\ e.key.of \in Seq(Mixed) /\ e.key.n \in Nat /\ Len(e.key.of) \in Nat
         /\ <<e.dh, e.ctr>> \in Name
  BY DEF Envelope, ChainType, Key, Name

\* Chains are equal when they have the same root and the same counter.
LEMMA SameChain ==
  ASSUME NEW c \in ChainType, NEW d \in ChainType
  PROVE  /\ c = [of |-> c.of, n |-> c.n]
         /\ c = d <=> c.of = d.of /\ c.n = d.n
  BY DEF ChainType

LEMMA ChainAt ==
  ASSUME NEW c \in ChainType, NEW m \in Nat
  PROVE  /\ [c EXCEPT !.n = m] \in ChainType
         /\ [c EXCEPT !.n = m] = [of |-> c.of, n |-> m]
  BY DEF ChainType

LEMMA Peers ==
  /\ \A p \in Party : Peer(p) \in Party /\ Peer(p) # p /\ Peer(Peer(p)) = p
  /\ \A p, q \in Party : q # p => q = Peer(p)
  /\ "alice" \in Party /\ "bob" \in Party
  BY DEF Party, Peer

\* The sessions at the start are sessions.
LEMMA FirstSessions ==
  session_init_alice \in SessionType /\ session_init_bob \in SessionType
  <1>1. NoKeys \in [{} -> ChainType] /\ {} \in SUBSET Name
    BY DEF NoKeys
  <1>2. NoKeys \in UNION {[D -> ChainType] : D \in SUBSET Name}
    BY <1>1
  <1>3. Ephemeral \in Key /\ SignedPre \in Key
    BY DEF Ephemeral, SignedPre, Key, Party
  <1>4. /\ Chain(<<AliceSecret>>) \in ChainType /\ NoChain \in ChainType
        /\ Chain(<<BobSecret>>) \in ChainType
    BY RootType DEF Chain, NoChain, ChainType
  <1> QED
    BY <1>2, <1>3, <1>4, RootType DEF session_init_alice, session_init_bob, SessionType

\* What the codec saves of a session, of which only the skipped keys differ.
Kept(s, t) ==
    /\ t.root = s.root /\ t.send = s.send /\ t.recv = s.recv /\ t.own = s.own
    /\ t.remote = s.remote /\ t.valid = s.valid
    /\ DOMAIN t.skipped \subseteq DOMAIN s.skipped
    /\ \A k \in DOMAIN t.skipped : t.skipped[k] = s.skipped[k]

LEMMA SavedKept ==
  ASSUME NEW s \in SessionType, NEW t \in Saved(s)
  PROVE  t \in SessionType /\ Kept(s, t) /\ Cardinality(DOMAIN t.skipped) <= Keep
  <1> DEFINE n == Cardinality(DOMAIN s.skipped)
  <1>1. PICK kept \in kSubset(IF n <= Keep THEN n ELSE Keep, DOMAIN s.skipped) :
          t = [s EXCEPT !.skipped = Restrict(s.skipped, kept)]
    BY DEF Saved
  <1>2. kept \subseteq DOMAIN s.skipped /\ Cardinality(kept) <= Keep
    BY <1>1 DEF kSubset
  <1>3. /\ DOMAIN Restrict(s.skipped, kept) = kept
        /\ \A k \in kept : Restrict(s.skipped, kept)[k] = s.skipped[k]
        /\ Restrict(s.skipped, kept) \in [kept -> ChainType]
    BY <1>2, Parts DEF Restrict
  <1>4. Restrict(s.skipped, kept) \in UNION {[D -> ChainType] : D \in SUBSET Name}
    BY <1>2, <1>3, Parts
  <1>5. /\ t.root = s.root /\ t.send = s.send /\ t.recv = s.recv /\ t.own = s.own
        /\ t.remote = s.remote /\ t.valid = s.valid
        /\ t.skipped = Restrict(s.skipped, kept)
    BY <1>1 DEF SessionType
  <1>6. t \in SessionType
    BY <1>1, <1>4 DEF SessionType
  <1> QED
    BY <1>2, <1>3, <1>5, <1>6 DEF Kept

-----------------------------------------------------------------------------
(* The two sides.                                                          *)

LEMMA ViewType ==
  ASSUME Typed, NEW p \in Party
  PROVE  View(p) \in SessionType /\ View(Peer(p)) \in SessionType
  BY Peers DEF Typed

\* What one side knows of the other, whoever leads.
LEMMA Aligned ==
  ASSUME Typed, \E l \in Party : Leads(l), NEW p \in Party
  PROVE  LET s == View(p)
             r == View(Peer(p))
         IN  /\ s.remote = r.own => s.recv.of = r.send.of
             /\ Len(r.send.of) <= Len(s.root) => s.remote = r.own
             /\ Len(r.send.of) <= Len(s.root) + 1
             /\ Len(r.send.of) = Len(s.root) + 1 =>
                  /\ Leads(Peer(p)) /\ Ahead(Peer(p), r, s)
                  /\ r.send.of = r.root /\ s.remote # r.own
             /\ ~ s.valid => Leads(Peer(p)) /\ Followed(Peer(p), r, s)
  <1> DEFINE s == View(p)
             r == View(Peer(p))
  <1>1. s \in SessionType /\ r \in SessionType
    BY ViewType
  <1>2. /\ Len(s.root) \in Nat /\ Len(r.root) \in Nat /\ Len(r.send.of) \in Nat
        /\ s.remote[2] \in Nat /\ r.own[2] \in Nat
    BY <1>1, Parts
  <1>3. CASE Leads(p)
    BY <1>2, <1>3 DEF Leads
  <1>4. CASE Leads(Peer(p))
    <2>1. /\ r.send.of = r.root /\ r.valid
          /\ Followed(Peer(p), r, s) \/ Ahead(Peer(p), r, s)
      BY <1>4, Peers DEF Leads
    <2>2. CASE Followed(Peer(p), r, s)
      BY <1>2, <1>4, <2>1, <2>2 DEF Followed
    <2>3. CASE Ahead(Peer(p), r, s)
      <3>1. Len(r.root) = Len(s.root) + 1
        BY <1>1, <2>3, Parts, DHType, AppendRoot DEF Ahead
      <3>2. s.remote # r.own /\ s.valid
        BY <1>2, <2>3 DEF Ahead
      <3> QED
        BY <1>2, <1>4, <2>1, <2>3, <3>1, <3>2
    <2> QED
      BY <2>1, <2>2, <2>3
  <1>5. Leads(p) \/ Leads(Peer(p))
    BY Peers
  <1> QED
    BY <1>3, <1>4, <1>5

\* What two sessions share that differ in counters and skipped keys only.
Alike(s, t) ==
    /\ t.root = s.root /\ t.send.of = s.send.of /\ t.recv.of = s.recv.of
    /\ t.own = s.own /\ t.remote = s.remote /\ t.valid = s.valid

LEMMA LeadStays ==
  ASSUME NEW l \in Party, Leads(l), \A p \in Party : Alike(View(p), View(p)')
  PROVE  Leads(l)'
  <1>1. Peer(l) \in Party
    BY Peers
  <1>2. Alike(View(l), View(l)') /\ Alike(View(Peer(l)), View(Peer(l))')
    BY <1>1
  <1> QED
    BY <1>2 DEF Leads, Alike, Followed, Ahead

LEMMA SaveFacts ==
  ASSUME Typed, NEW p \in Party, session[p] # NoSession, NEW s \in SessionType, Save(p, s)
  PROVE  /\ View(p)' \in SessionType /\ Kept(s, View(p)') /\ session'[p] # NoSession
         /\ View(p)' = session'[p]
         /\ View(Peer(p))' = View(Peer(p)) /\ session'[Peer(p)] = session[Peer(p)]
         /\ DOMAIN session' = Party
         /\ dropped \subseteq dropped'
         /\ \A k \in DOMAIN s.skipped \ DOMAIN View(p)'.skipped : <<p, k>> \in dropped'
         /\ Cardinality(DOMAIN session'[p].skipped) <= Keep
  <1>1. PICK t \in Saved(s) : session' = [session EXCEPT ![p] = t]
    BY DEF Save
  <1>2. t \in SessionType /\ Kept(s, t) /\ Cardinality(DOMAIN t.skipped) <= Keep
    BY SavedKept
  <1>3. DOMAIN session = Party /\ Peer(p) \in Party /\ Peer(p) # p
    BY Peers DEF Typed
  <1>4. /\ session'[p] = t /\ session'[Peer(p)] = session[Peer(p)]
        /\ DOMAIN session' = Party
    BY <1>1, <1>3
  <1>5. t # NoSession
    BY <1>2, IsSession
  <1>6. View(p)' = t /\ View(Peer(p))' = View(Peer(p))
    BY <1>4, <1>5 DEF View
  <1>7. /\ dropped \subseteq dropped'
        /\ \A k \in DOMAIN s.skipped \ DOMAIN t.skipped : <<p, k>> \in dropped'
    BY <1>4 DEF Save
  <1> QED
    BY <1>2, <1>4, <1>5, <1>6, <1>7

-----------------------------------------------------------------------------
(* The start.                                                              *)

LEMMA InitInv == Init => IInv
  <1> SUFFICES ASSUME Init PROVE IInv
    OBVIOUS
  <1>1. session["alice"] = session_init_alice /\ session["bob"] = NoSession /\ DOMAIN session = Party
    BY DEF Init, Party
  <1>2. session_init_alice # NoSession
    BY FirstSessions, IsSession
  <1>3. View("alice") = session_init_alice /\ View("bob") = session_init_bob
    BY <1>1, <1>2 DEF View
  <1>4. sent = {} /\ opened = {} /\ replayed = FALSE
    BY DEF Init
  <1>5. \A p \in Party : SentBy(p) = {} /\ Cardinality(SentBy(p)) = 0
    BY <1>4, FS_EmptySet DEF SentBy
  <1>6. /\ session_init_alice.own = <<"alice", 0>> /\ session_init_alice.remote = <<"bob", 0>>
        /\ session_init_bob.own = <<"bob", 0>> /\ session_init_bob.remote = <<"alice", 0>>
        /\ session_init_alice.root = <<AliceSecret>> /\ session_init_bob.root = <<AliceSecret>>
        /\ session_init_alice.send = [of |-> <<AliceSecret>>, n |-> 0]
        /\ session_init_alice.recv = [of |-> <<>>, n |-> 0]
        /\ session_init_bob.send = [of |-> <<>>, n |-> 0]
        /\ session_init_bob.recv = [of |-> <<AliceSecret>>, n |-> 0]
        /\ session_init_alice.valid /\ ~ session_init_bob.valid
        /\ DOMAIN session_init_alice.skipped = {} /\ DOMAIN session_init_bob.skipped = {}
    BY RootType DEF session_init_alice, session_init_bob, Ephemeral, SignedPre, Chain, NoChain, NoKeys
  <1> DEFINE a == session_init_alice
             b == session_init_bob
  <1>7. Peer("alice") = "bob" /\ Peer("bob") = "alice"
    BY DEF Peer
  <1> HIDE DEF a, b
  <1>8. Typed
    BY <1>1, <1>2, <1>3, <1>4, <1>6, <1>7, RootType, FirstSessions, FS_EmptySet DEF Typed, Party
  <1>9. Counted
    BY <1>1, <1>2, <1>3, <1>4, <1>5, <1>6, FS_EmptySet DEF Counted, Party
  <1>10. Sealed /\ Named
    BY <1>4 DEF Sealed, Named
  <1>11. Matched
    BY <1>3, <1>5, <1>6, <1>7 DEF Matched, Party
  <1>12. SkippedRight /\ Accounted
    BY <1>3, <1>4, <1>5, <1>6, <1>7 DEF SkippedRight, Accounted, Party
  <1>13. Leads("alice")
    <2>1. /\ Len(View("alice").root) = Len(View("bob").send.of) + 1
          /\ Turn("alice", Len(View("alice").root))
      <3>1. Len(View("alice").root) = 1 /\ Len(View("bob").send.of) = 0
        BY <1>3, <1>6, RootType
      <3>2. 1 = 0 + 1 /\ 1 % 2 = 1
        OBVIOUS
      <3> QED
        BY <3>1, <3>2, Zenon DEF Turn
    <2>2. Followed("alice", View("alice"), View("bob"))
      BY <1>3, <1>6 DEF Followed
    <2>3. /\ View("alice").valid /\ View("alice").send.of = View("alice").root
          /\ View("alice").remote = View("bob").own /\ View("alice").recv.of = View("bob").send.of
      BY <1>3, <1>6
    <2> QED
      BY <1>7, <2>1, <2>2, <2>3, Zenon DEF Leads
  <1> QED
    BY <1>8, <1>9, <1>10, <1>11, <1>12, <1>13, Peers DEF IInv

-----------------------------------------------------------------------------
(* session_encrypt.                                                        *)

LEMMA RotatedNew ==
  ASSUME Typed, NEW p \in Party, ~ View(p).valid
  PROVE  LET s == View(p)
             t == Rotated(p, s)
         IN  /\ t \in SessionType
             /\ t.root = Append(s.root, DH(<<p, s.own[2] + 1>>, s.remote))
             /\ t.own = <<p, s.own[2] + 1>> /\ t.own[1] = p /\ t.own[2] = s.own[2] + 1
             /\ t.send.of = t.root /\ t.send.n = 0 /\ t.valid
             /\ Len(t.root) = Len(s.root) + 1
  <1> DEFINE s == View(p)
             t == Rotated(p, s)
  <1>1. s \in SessionType
    BY ViewType
  <1>2. <<p, s.own[2] + 1>> \in Key /\ s.remote \in Key /\ s.root \in Seq(Mixed)
    BY <1>1, Parts DEF Key
  <1> DEFINE root == Append(s.root, DH(<<p, s.own[2] + 1>>, s.remote))
  <1>3. root \in Seq(Mixed) /\ Len(root) = Len(s.root) + 1
    BY <1>2, DHType, AppendRoot
  <1>4. [of |-> root, n |-> 0] \in ChainType
    BY <1>3 DEF ChainType
  <1>5. t = [s EXCEPT !.root = root, !.send = [of |-> root, n |-> 0],
                      !.own = <<p, s.own[2] + 1>>, !.valid = TRUE]
    BY DEF Rotated, Chain
  <1> HIDE DEF root
  <1>6. t \in SessionType
    BY <1>1, <1>2, <1>3, <1>4, <1>5 DEF SessionType
  <1>7. /\ t.root = root /\ t.send = [of |-> root, n |-> 0]
        /\ t.own = <<p, s.own[2] + 1>> /\ t.valid = TRUE
    BY <1>1, <1>5 DEF SessionType
  <1> QED
    BY <1>1, <1>3, <1>6, <1>7 DEF root

LEMMA RotatedFacts ==
  ASSUME Typed, NEW p \in Party
  PROVE  LET s == View(p)
             t == Rotated(p, s)
         IN  /\ t \in SessionType /\ s \in SessionType
             /\ s.valid => t = s
  <1> DEFINE s == View(p)
             t == Rotated(p, s)
  <1>1. s \in SessionType
    BY ViewType
  <1>2. CASE s.valid
    BY <1>1, <1>2 DEF Rotated
  <1>3. CASE ~ s.valid
    BY <1>1, <1>3, RotatedNew
  <1> QED
    BY <1>2, <1>3

\* A session that may seal an envelope: its send chain is that of its key, and
\* longer than every other that it has had.
Ready(p, t) ==
    /\ t.valid /\ t.own[1] = p
    /\ Turn(p, Len(t.send.of))
    /\ \A f \in SentBy(p) :
         /\ f.dh[2] <= t.own[2] /\ Len(f.key.of) <= Len(t.send.of)
         /\ f.dh = t.own => Len(f.key.of) = Len(t.send.of)
         /\ Len(f.key.of) = Len(t.send.of) =>
              f.dh = t.own /\ f.key.of = t.send.of /\ f.ctr < t.send.n
    /\ LET r == View(Peer(p)) IN
         /\ r.remote = t.own <=> r.recv.of = t.send.of
         /\ r.recv.of = t.send.of => r.recv.n <= t.send.n
         /\ \A k \in DOMAIN r.skipped :
              /\ k[1][2] <= t.own[2]
              /\ k[1] = t.own => r.skipped[k] = [of |-> t.send.of, n |-> k[2]]

\* The two sides' roots take turns.
LEMMA Turns ==
  ASSUME NEW p \in Party, NEW m \in Nat, NEW n \in Nat, n = m + 1 \/ m = n + 1,
         Turn(Peer(p), n)
  PROVE  Turn(p, m)
  <1>1. (n % 2 = 1 => m % 2 = 0) /\ (n % 2 = 0 => m % 2 = 1)
    OBVIOUS
  <1>2. p = "alice" => Peer(p) = "bob"
    BY DEF Peer
  <1>3. p # "alice" => Peer(p) = "alice"
    BY DEF Peer
  <1>4. CASE p = "alice"
    BY <1>1, <1>2, <1>4 DEF Turn
  <1>5. CASE p # "alice"
    BY <1>1, <1>3, <1>5 DEF Turn
  <1> QED
    BY <1>4, <1>5

LEMMA Below ==
  ASSUME NEW i \in Nat, NEW j \in Nat, i <= j
  PROVE  i < j + 1 /\ i < j + 2 /\ j + 1 \in Nat
  OBVIOUS

LEMMA AtMost ==
  ASSUME NEW i \in Nat, NEW j \in Nat, NEW k \in Nat, i <= j, j <= k
  PROVE  i <= k + 1
  OBVIOUS

LEMMA Apart ==
  ASSUME NEW i \in Nat, NEW j \in Nat, i < j
  PROVE  i <= j /\ i # j
  OBVIOUS

LEMMA RotatedReady ==
  ASSUME IInv, NEW p \in Party
  PROVE  Ready(p, Rotated(p, View(p)))
  <1> DEFINE s == View(p)
             t == Rotated(p, s)
             r == View(Peer(p))
  <1>1. /\ Typed /\ Peer(p) \in Party /\ Peer(Peer(p)) = p
        /\ s \in SessionType /\ r \in SessionType /\ t \in SessionType
    BY Peers, ViewType, RotatedFacts DEF IInv
  <1>2. /\ Len(s.root) \in Nat /\ Len(s.send.of) \in Nat /\ Len(r.recv.of) \in Nat
        /\ Len(r.root) \in Nat /\ Len(t.send.of) \in Nat /\ Len(r.send.of) \in Nat
        /\ s.own[2] \in Nat /\ r.remote[2] \in Nat
        /\ s.send.of \in Seq(Mixed) /\ r.recv.of \in Seq(Mixed)
    BY <1>1, Parts
  <1>3. /\ Len(r.recv.of) <= Len(r.root) /\ s.own[1] = p
        /\ \A e \in sent : e \in Envelope
    BY <1>1 DEF Typed
  <1>4. \A k \in DOMAIN r.skipped :
          /\ k \in Name /\ k[1][2] <= s.own[2]
          /\ k[1] = s.own => r.skipped[k] = [of |-> s.send.of, n |-> k[2]]
    <2>1. DOMAIN r.skipped \subseteq Name
      BY <1>1, Parts
    <2> QED
      BY <1>1, <2>1 DEF IInv, SkippedRight
  <1>5. \A f \in SentBy(p) :
         /\ f \in Envelope
         /\ f.dh[2] <= s.own[2] /\ Len(f.key.of) <= Len(s.send.of)
         /\ f.dh = s.own => Len(f.key.of) = Len(s.send.of)
         /\ Len(f.key.of) = Len(s.send.of) =>
              f.dh = s.own /\ f.key.of = s.send.of /\ f.ctr < s.send.n
    BY <1>3 DEF IInv, Sealed, SentBy
  <1>6. r.recv.of = s.send.of => r.recv.n <= s.send.n
    BY <1>1 DEF IInv, Matched
  <1>7. CASE s.valid
    <2>1. t = s
      BY <1>1, <1>7, RotatedFacts
    <2>2. r.remote = s.own <=> r.recv.of = s.send.of
      <3>1. /\ r.remote = s.own => r.recv.of = s.send.of
            /\ Len(s.send.of) <= Len(r.root) => r.remote = s.own
        BY <1>1, Aligned DEF IInv
      <3> QED
        BY <1>2, <1>3, <3>1
    <2>3. Turn(p, Len(s.send.of))
      <3>1. CASE Leads(p)
        BY <3>1 DEF Leads
      <3>2. CASE Leads(Peer(p))
        <4>1. /\ Len(r.root) = Len(s.send.of) + 1
              /\ Turn(Peer(p), Len(r.root))
          BY <1>1, <3>2 DEF Leads
        <4> QED
          BY <1>2, <4>1, Turns
      <3> QED
        BY <3>1, <3>2, Peers DEF IInv
    <2> HIDE DEF r
    <2> QED
      BY <1>3, <1>4, <1>5, <1>6, <1>7, <2>1, <2>2, <2>3 DEF Ready, r
  <1>8. CASE ~ s.valid
    <2>1. /\ t.send.of = t.root /\ t.send.n = 0 /\ t.valid
          /\ t.own = <<p, s.own[2] + 1>> /\ Len(t.root) = Len(s.root) + 1
      BY <1>1, <1>8, RotatedNew
    <2>2. Leads(Peer(p)) /\ Followed(Peer(p), r, s)
      BY <1>1, <1>8, Aligned DEF IInv
    <2>3. /\ s.root = r.root /\ r.remote = s.own /\ r.recv.of = s.send.of
          /\ Len(r.root) = Len(s.send.of) + 1
          /\ Turn(Peer(p), Len(r.root))
      BY <1>1, <2>2 DEF Leads, Followed
    <2>4. t.send.of = t.root /\ t.send.n = 0 /\ t.own[1] = p /\ t.own[2] = s.own[2] + 1
      BY <2>1
    <2>5. Len(t.send.of) = Len(s.send.of) + 2
      BY <1>2, <2>1, <2>3, <2>4
    <2>6. Turn(p, Len(t.send.of))
      <3>1. Len(t.send.of) = Len(r.root) + 1
        BY <1>2, <2>3, <2>5
      <3> QED
        BY <1>2, <2>3, <3>1, Turns
    <2>7. r.remote # t.own /\ r.recv.of # t.send.of
      <3>1. r.remote[2] # t.own[2]
        <4>1. s.own[2] \in Nat /\ t.own[2] = s.own[2] + 1
          BY <1>2, <2>4, Zenon
        <4>2. s.own[2] # t.own[2]
          BY <4>1
        <4> QED
          BY <2>3, <4>2, Zenon
      <3>2. Len(r.recv.of) # Len(t.send.of)
        <4>1. Len(s.send.of) \in Nat /\ Len(t.send.of) = Len(s.send.of) + 2
          BY <1>2, <2>5, Zenon
        <4>2. Len(s.send.of) # Len(t.send.of)
          BY <4>1
        <4> QED
          BY <2>3, <4>2, Zenon
      <3> QED
        BY <3>1, <3>2, Zenon
    <2>8. \A k \in DOMAIN r.skipped : k[1][2] <= t.own[2] /\ k[1] # t.own
      <3>1. ASSUME NEW k \in DOMAIN r.skipped PROVE k[1][2] < t.own[2] /\ k[1][2] \in Nat
        <4>1. k[1][2] \in Nat /\ k[1][2] <= s.own[2]
          BY <1>4 DEF Name, Key
        <4>2. t.own[2] = s.own[2] + 1 /\ s.own[2] \in Nat
          BY <1>2, <2>4
        <4> QED
          BY <4>1, <4>2
      <3>2. t.own[2] \in Nat
        BY <1>2, <2>4
      <3> QED
        BY <3>1, <3>2
    <2>9. ASSUME NEW f \in SentBy(p)
          PROVE  /\ f.dh[2] <= t.own[2] /\ Len(f.key.of) <= Len(t.send.of)
                 /\ f.dh # t.own /\ Len(f.key.of) # Len(t.send.of)
      <3>1. /\ f.dh[2] \in Nat /\ Len(f.key.of) \in Nat
            /\ f.dh[2] <= s.own[2] /\ Len(f.key.of) <= Len(s.send.of)
        BY <1>5, EnvelopeParts
      <3>2. f.dh[2] < t.own[2] /\ t.own[2] \in Nat
        <4>1. f.dh[2] < s.own[2] + 1 /\ s.own[2] + 1 \in Nat
          BY <1>2, <3>1, Below
        <4> QED
          BY <2>4, <4>1, Zenon
      <3>3. Len(f.key.of) < Len(t.send.of)
        <4>0. /\ Len(f.key.of) \in Nat /\ Len(s.send.of) \in Nat
              /\ Len(f.key.of) <= Len(s.send.of)
          BY <1>2, <3>1, Zenon
        <4>1. Len(f.key.of) < Len(s.send.of) + 2
          BY <4>0, Below, Zenon
        <4> QED
          BY <2>5, <4>1, Zenon
      <3>4. f.dh[2] <= t.own[2] /\ f.dh[2] # t.own[2]
        BY <3>1, <3>2, Apart, Zenon
      <3>5. Len(t.send.of) \in Nat
        BY <1>2, <2>5
      <3>6. Len(f.key.of) <= Len(t.send.of) /\ Len(f.key.of) # Len(t.send.of)
        BY <3>1, <3>3, <3>5, Apart, Zenon
      <3> QED
        BY <3>4, <3>6, Zenon
    <2> HIDE DEF r
    <2> QED
      BY <2>1, <2>4, <2>6, <2>7, <2>8, <2>9 DEF Ready, r
  <1> QED
    BY <1>7, <1>8

\* The envelope that p seals next.
Fresh(p) ==
    LET t == Rotated(p, View(p))
    IN  [from |-> p, number |-> Cardinality(SentBy(p)), dh |-> t.own,
         ctr |-> t.send.n, key |-> t.send]

LEMMA EncryptView ==
  ASSUME IInv, NEW p \in Party, Encrypt(p)
  PROVE  LET s == View(p)
             t == Rotated(p, s)
             u == View(p)'
             e == Fresh(p)
         IN  /\ s \in SessionType /\ t \in SessionType /\ u \in SessionType /\ e \in Envelope
             /\ Ready(p, t)
             /\ e.from = p /\ e.dh = t.own /\ e.ctr = t.send.n /\ e.key = t.send
             /\ e \notin sent /\ sent' = sent \cup {e}
             /\ SentBy(p)' = SentBy(p) \cup {e}
             /\ SentBy(Peer(p))' = SentBy(Peer(p))
             /\ u.root = t.root /\ u.send.of = t.send.of /\ u.send.n = t.send.n + 1
             /\ u.own = t.own /\ u.valid = t.valid
             /\ u.recv = s.recv /\ u.remote = s.remote
             /\ DOMAIN u.skipped \subseteq DOMAIN s.skipped
             /\ \A k \in DOMAIN u.skipped : u.skipped[k] = s.skipped[k]
             /\ View(Peer(p))' = View(Peer(p)) /\ session'[Peer(p)] = session[Peer(p)]
             /\ session'[p] # NoSession /\ u = session'[p] /\ DOMAIN session' = Party
             /\ dropped \subseteq dropped'
             /\ \A k \in DOMAIN s.skipped \ DOMAIN u.skipped : <<p, k>> \in dropped'
             /\ Cardinality(DOMAIN session'[p].skipped) <= Keep
             /\ UNCHANGED <<opened, replayed>>
             /\ Cardinality(SentBy(p)) < MaxSend
             /\ IsFiniteSet(SentBy(p)) /\ Cardinality(SentBy(p)) \in Nat
             /\ Cardinality(SentBy(p)') = Cardinality(SentBy(p)) + 1
             /\ IsFiniteSet(sent')
  <1> DEFINE s == View(p)
             t == Rotated(p, s)
             u == View(p)'
             e == Fresh(p)
  <1>1. /\ Typed /\ session[p] # NoSession /\ View(p) = session[p]
        /\ Peer(p) \in Party /\ Peer(p) # p
    BY Peers DEF Encrypt, IInv, View
  <1>2. s \in SessionType /\ t \in SessionType /\ Ready(p, t)
    BY <1>1, ViewType, RotatedFacts, RotatedReady
  <1>3. t.recv = s.recv /\ t.remote = s.remote /\ t.skipped = s.skipped
    BY <1>2 DEF Rotated, SessionType
  <1>4. IsFiniteSet(SentBy(p)) /\ Cardinality(SentBy(p)) \in Nat /\ IsFiniteSet(sent)
    <2>1. SentBy(p) \subseteq sent
      BY DEF SentBy
    <2> QED
      BY <1>1, <2>1, FS_Subset, FS_CardinalityType DEF Typed
  <1>5. /\ e \in Envelope
        /\ e.from = p /\ e.dh = t.own /\ e.ctr = t.send.n /\ e.key = t.send
    <2>1. t.own \in Key /\ t.send.n \in Nat /\ t.send \in ChainType
      BY <1>2, Parts
    <2>2. e = [from |-> p, number |-> Cardinality(SentBy(p)), dh |-> t.own,
               ctr |-> t.send.n, key |-> t.send]
      BY DEF Fresh
    <2> QED
      BY <1>4, <2>1, <2>2 DEF Envelope
  <1>6. e \notin sent
    <2>1. t.send.n \in Nat
      BY <1>2, Parts
    <2>2. ASSUME e \in sent PROVE FALSE
      <3>1. e \in SentBy(p)
        BY <1>5, <2>2 DEF SentBy
      <3>2. e.ctr < t.send.n
        BY <1>2, <1>5, <3>1 DEF Ready
      <3> QED
        BY <1>5, <2>1, <3>2
    <2> QED
      BY <2>2
  <1>7. sent' = sent \cup {e}
    BY <1>1 DEF Encrypt, Fresh
  <1>8. SentBy(p)' = SentBy(p) \cup {e} /\ SentBy(Peer(p))' = SentBy(Peer(p))
    BY <1>1, <1>5, <1>7 DEF SentBy
  <1>9. e \notin SentBy(p)
    BY <1>6 DEF SentBy
  <1>10. /\ Cardinality(SentBy(p)') = Cardinality(SentBy(p)) + 1
         /\ IsFiniteSet(sent')
    BY <1>4, <1>7, <1>8, <1>9, FS_AddElement
  <1>11. /\ Save(p, Spent(t)) /\ Cardinality(SentBy(p)) < MaxSend
         /\ UNCHANGED <<opened, replayed>>
    BY <1>1 DEF Encrypt
  <1>12. /\ Spent(t) \in SessionType
         /\ Spent(t).root = t.root /\ Spent(t).send = [t.send EXCEPT !.n = @ + 1]
         /\ Spent(t).own = t.own /\ Spent(t).valid = t.valid
         /\ Spent(t).recv = t.recv /\ Spent(t).remote = t.remote
         /\ Spent(t).skipped = t.skipped
    <2>1. Spent(t) = [t EXCEPT !.send = [t.send EXCEPT !.n = @ + 1]]
      BY <1>2 DEF Spent, SessionType
    <2>2. [t.send EXCEPT !.n = @ + 1] \in ChainType
      <3>1. t.send \in ChainType /\ t.send.n + 1 \in Nat
        BY <1>2, Parts
      <3> QED
        BY <3>1, ChainAt
    <2> HIDE DEF Mixed, Name, Key
    <2> QED
      BY <1>2, <2>1, <2>2 DEF SessionType
  <1>13. /\ Spent(t).send.of = t.send.of /\ Spent(t).send.n = t.send.n + 1
    <2>1. t.send \in ChainType /\ t.send.n + 1 \in Nat
      BY <1>2, Parts
    <2> QED
      BY <1>12, <2>1, ChainAt
  <1>14. Kept(Spent(t), u)
    BY <1>1, <1>11, <1>12, SaveFacts
  <1>15. /\ u \in SessionType
         /\ View(Peer(p))' = View(Peer(p)) /\ session'[Peer(p)] = session[Peer(p)]
         /\ session'[p] # NoSession /\ u = session'[p] /\ DOMAIN session' = Party
         /\ dropped \subseteq dropped'
         /\ \A k \in DOMAIN s.skipped \ DOMAIN u.skipped : <<p, k>> \in dropped'
         /\ Cardinality(DOMAIN session'[p].skipped) <= Keep
    BY <1>1, <1>3, <1>11, <1>12, SaveFacts
  <1>16. /\ u.root = t.root /\ u.send.of = t.send.of /\ u.send.n = t.send.n + 1
         /\ u.own = t.own /\ u.valid = t.valid
         /\ u.recv = s.recv /\ u.remote = s.remote
         /\ DOMAIN u.skipped \subseteq DOMAIN s.skipped
         /\ \A k \in DOMAIN u.skipped : u.skipped[k] = s.skipped[k]
    BY <1>3, <1>12, <1>13, <1>14 DEF Kept
  <1> QED
    BY <1>2, <1>4, <1>5, <1>6, <1>7, <1>8, <1>10, <1>11, <1>15, <1>16

LEMMA EncryptLeads ==
  ASSUME IInv, NEW p \in Party, Encrypt(p)
  PROVE  \E l \in Party : Leads(l)'
  <1> DEFINE s == View(p)
             t == Rotated(p, s)
             u == View(p)'
             r == View(Peer(p))
  <1>1. /\ Typed /\ s \in SessionType /\ r \in SessionType /\ View(Peer(p))' = r
        /\ Peer(p) \in Party /\ Peer(Peer(p)) = p
    BY EncryptView, ViewType, Peers DEF IInv
  <1>2. /\ u.root = t.root /\ u.send.of = t.send.of /\ u.own = t.own /\ u.valid = t.valid
        /\ u.recv = s.recv /\ u.remote = s.remote /\ Ready(p, t)
    BY EncryptView
  <1>3. CASE s.valid
    <2>1. t = s
      BY <1>1, <1>3, RotatedFacts
    <2>2. Alike(s, u) /\ Alike(r, r)
      BY <1>2, <2>1 DEF Alike
    <2>3. \A x \in Party : Alike(View(x), View(x)')
      BY <1>1, <2>2, Peers
    <2> QED
      BY <2>3, LeadStays DEF IInv
  <1>4. CASE ~ s.valid
    <2>1. /\ t.root = Append(s.root, DH(<<p, s.own[2] + 1>>, s.remote))
          /\ t.send.of = t.root /\ t.own = <<p, s.own[2] + 1>> /\ t.valid
          /\ Len(t.root) = Len(s.root) + 1
      BY <1>1, <1>4, RotatedNew
    <2>2. Leads(Peer(p)) /\ Followed(Peer(p), r, s)
      BY <1>1, <1>4, Aligned DEF IInv
    <2>3. /\ s.root = r.root /\ s.recv.of = r.root /\ s.remote = r.own
          /\ r.valid /\ r.send.of = r.root /\ r.remote = s.own
      BY <1>1, <2>2 DEF Leads, Followed
    <2>4. s.own[2] \in Nat /\ t.own[2] = s.own[2] + 1
      BY <1>1, <2>1, Parts
    <2>5. Ahead(p, u, r)
      <3>1. r.remote[2] < u.own[2]
        BY <1>2, <2>3, <2>4
      <3> QED
        BY <1>2, <2>1, <2>3, <3>1 DEF Ahead
    <2>6. /\ u.valid /\ u.send.of = u.root /\ u.remote = r.own /\ u.recv.of = r.send.of
          /\ Len(u.root) = Len(r.send.of) + 1
          /\ Turn(p, Len(u.root))
      <3>1. Turn(p, Len(t.send.of))
        BY <1>2 DEF Ready
      <3>2. Len(t.root) = Len(r.send.of) + 1
        BY <2>1, <2>3
      <3> QED
        BY <1>2, <2>1, <2>3, <3>1, <3>2
    <2>7. Leads(p)'
      BY <1>1, <2>5, <2>6 DEF Leads
    <2> QED
      BY <2>7
  <1> QED
    BY <1>3, <1>4

LEMMA EncryptTyped ==
  ASSUME IInv, NEW p \in Party, Encrypt(p)
  PROVE  Typed' /\ Counted'
  <1> DEFINE s == View(p)
             t == Rotated(p, s)
             u == View(p)'
             r == View(Peer(p))
             e == Fresh(p)
  <1>1. /\ Typed /\ Counted
        /\ s \in SessionType /\ t \in SessionType /\ u \in SessionType /\ r \in SessionType
        /\ Peer(p) \in Party /\ Peer(Peer(p)) = p
        /\ e \in Envelope /\ View(Peer(p))' = r
    BY EncryptView, ViewType, Peers DEF IInv
  <1>2. /\ u.root = t.root /\ u.send.of = t.send.of /\ u.own = t.own
        /\ u.send.n = t.send.n + 1 /\ u.recv = s.recv /\ u.remote = s.remote
        /\ e.from = p /\ e.ctr = t.send.n
        /\ sent' = sent \cup {e} /\ IsFiniteSet(sent')
        /\ SentBy(Peer(p))' = SentBy(Peer(p))
    BY EncryptView
  <1>3. /\ DOMAIN session' = Party /\ session'[Peer(p)] = session[Peer(p)]
        /\ session'[p] # NoSession /\ u = session'[p]
        /\ Cardinality(DOMAIN session'[p].skipped) <= Keep
        /\ UNCHANGED <<opened, replayed>>
        /\ Cardinality(SentBy(p)) < MaxSend /\ Cardinality(SentBy(p)) \in Nat
        /\ Cardinality(SentBy(p)') = Cardinality(SentBy(p)) + 1
    BY EncryptView
  <1>4. /\ s.own[1] = p /\ s.own[2] \in Nat /\ s.own[2] <= Cardinality(SentBy(p))
        /\ s.send.n \in Nat /\ s.send.n <= Cardinality(SentBy(p))
        /\ Len(s.root) \in Nat /\ Len(s.recv.of) <= Len(s.root) /\ Len(s.recv.of) \in Nat
    BY <1>1, Parts DEF Typed, Counted
  <1>5. /\ t.own[1] = p /\ t.own[2] \in Nat /\ t.own[2] <= s.own[2] + 1
        /\ t.send.n \in Nat /\ t.send.n <= Cardinality(SentBy(p))
        /\ Len(t.root) \in Nat /\ Len(s.root) <= Len(t.root)
    <2>1. t.own[1] = p /\ t.own[2] \in Nat /\ t.send.n \in Nat /\ Len(t.root) \in Nat
      <3>1. Ready(p, t)
        BY EncryptView
      <3> QED
        BY <1>1, <3>1, Parts DEF Ready
    <2>2. CASE s.valid
      <3>1. t = s
        BY <1>1, <2>2, RotatedFacts
      <3> QED
        BY <1>4, <2>1, <3>1
    <2>3. CASE ~ s.valid
      <3>1. t.send.n = 0 /\ t.own[2] = s.own[2] + 1 /\ Len(t.root) = Len(s.root) + 1
        BY <1>1, <2>3, RotatedNew
      <3>2. t.own[2] <= s.own[2] + 1
        BY <2>1, <3>1
      <3>3. t.send.n <= Cardinality(SentBy(p))
        BY <1>3, <3>1
      <3>4. Len(s.root) <= Len(t.root)
        BY <1>4, <3>1
      <3> QED
        BY <2>1, <3>2, <3>3, <3>4
    <2> QED
      BY <2>2, <2>3
  <1>6. Typed'
    <2>1. session'["alice"] # NoSession
      BY <1>1, <1>3, Peers DEF Typed
    <2>2. \A x \in Party : View(x)' \in SessionType
      BY <1>1, Peers
    <2>3. \A x \in Party : View(x)'.own[1] = x /\ View(x)'.remote[1] = Peer(x)
      <3>1. u.own[1] = p /\ u.remote[1] = Peer(p)
        BY <1>1, <1>2, <1>5 DEF Typed
      <3>2. r.own[1] = Peer(p) /\ r.remote[1] = p
        BY <1>1 DEF Typed
      <3> QED
        BY <1>1, <3>1, <3>2, Peers
    <2>4. \A x \in Party : Len(View(x)'.recv.of) <= Len(View(x)'.root)
      <3>1. Len(u.recv.of) <= Len(u.root)
        BY <1>2, <1>4, <1>5
      <3>2. Len(r.recv.of) <= Len(r.root)
        BY <1>1 DEF Typed
      <3> QED
        BY <1>1, <3>1, <3>2, Peers
    <2>5. \A f \in sent' : session'[f.from] # NoSession
      <3>1. \A f \in sent : f.from \in Party /\ session[f.from] # NoSession
        BY <1>1, EnvelopeParts DEF Typed
      <3>2. \A x \in Party : session[x] # NoSession => session'[x] # NoSession
        BY <1>3, Peers
      <3> QED
        BY <1>2, <1>3, <3>1, <3>2
    <2>6. sent' \subseteq Envelope /\ opened' \subseteq sent'
      BY <1>1, <1>2, <1>3 DEF Typed
    <2> QED
      BY <1>2, <1>3, <2>1, <2>2, <2>3, <2>4, <2>5, <2>6 DEF Typed
  <1>7. Counted'
    <2> DEFINE Small(x) ==
                 /\ View(x)'.own[2] <= Cardinality(SentBy(x)')
                 /\ View(x)'.send.n <= Cardinality(SentBy(x)')
                 /\ View(x)'.remote[2] <= MaxSend
                 /\ Cardinality(SentBy(x)') <= MaxSend
                 /\ View(x)'.recv.n <= MaxSend
                 /\ session'[x] # NoSession => Cardinality(DOMAIN session'[x].skipped) <= Keep
    <2>1. Small(p)
      <3>1. /\ u.own[2] <= Cardinality(SentBy(p)') /\ u.send.n <= Cardinality(SentBy(p)')
            /\ Cardinality(SentBy(p)') <= MaxSend
        <4> DEFINE c == Cardinality(SentBy(p))
        <4>1. /\ u.own[2] = t.own[2] /\ u.send.n = t.send.n + 1
              /\ Cardinality(SentBy(p)') = c + 1 /\ c \in Nat /\ c < MaxSend
          BY <1>2, <1>3
        <4>2. /\ s.own[2] \in Nat /\ s.own[2] <= c /\ t.own[2] \in Nat
              /\ t.own[2] <= s.own[2] + 1 /\ t.send.n \in Nat /\ t.send.n <= c
          BY <1>4, <1>5
        <4> HIDE DEF c, s, t, u
        <4>3. t.own[2] <= c + 1 /\ t.send.n + 1 <= c + 1 /\ c + 1 <= MaxSend
          BY <4>1, <4>2
        <4> QED
          BY <4>1, <4>3
      <3>2. u.remote[2] <= MaxSend /\ u.recv.n <= MaxSend
        BY <1>1, <1>2 DEF Counted
      <3> QED
        BY <1>3, <3>1, <3>2
    <2>2. Small(Peer(p))
      BY <1>1, <1>2, <1>3 DEF Counted
    <2>3. \A f \in sent' : f.ctr < MaxSend
      <3>1. e.ctr < MaxSend
        BY <1>2, <1>3, <1>5
      <3> QED
        BY <1>1, <1>2, <3>1 DEF Counted
    <2>4. \A x \in Party : Small(x)
      <3> HIDE DEF Small
      <3> QED
        BY <2>1, <2>2, Peers
    <2> QED
      BY <1>1, <1>3, <2>3, <2>4 DEF Counted
  <1> QED
    BY <1>6, <1>7

LEMMA EncryptSealed ==
  ASSUME IInv, NEW p \in Party, Encrypt(p)
  PROVE  Sealed' /\ Named'
  <1> DEFINE s == View(p)
             t == Rotated(p, s)
             u == View(p)'
             e == Fresh(p)
  <1>1. /\ Typed /\ t \in SessionType /\ Peer(p) \in Party /\ p # Peer(p)
        /\ View(Peer(p))' = View(Peer(p)) /\ Ready(p, t)
    BY EncryptView, Peers DEF IInv
  <1>2. /\ e.from = p /\ e.dh = t.own /\ e.ctr = t.send.n /\ e.key = t.send
        /\ sent' = sent \cup {e}
        /\ u.send.of = t.send.of /\ u.send.n = t.send.n + 1 /\ u.own = t.own
    BY EncryptView
  <1>3. t.send.n \in Nat /\ t.own[2] \in Nat /\ Len(t.send.of) \in Nat
    BY <1>1, Parts
  <1>4. \A f \in sent : /\ f \in Envelope /\ f.ctr \in Nat
                        /\ f.key \in ChainType /\ f.from \in Party
    BY <1>1, EnvelopeParts DEF Typed
  <1> DEFINE Good(f, v) ==
        /\ f.key.n = f.ctr /\ f.dh[1] = f.from /\ f.dh[2] <= v.own[2]
        /\ Len(f.key.of) <= Len(v.send.of)
        /\ Turn(f.from, Len(f.key.of))
        /\ f.dh = v.own => Len(f.key.of) = Len(v.send.of)
        /\ Len(f.key.of) = Len(v.send.of) =>
             f.dh = v.own /\ f.key.of = v.send.of /\ f.ctr < v.send.n
  <1>5. Good(e, u)
    <2>1. t.own[1] = p /\ Turn(p, Len(t.send.of))
      BY <1>1 DEF Ready
    <2> QED
      BY <1>2, <1>3, <2>1
  <1>6. ASSUME NEW f \in SentBy(p) PROVE Good(f, u)
    <2>1. /\ f.dh[2] <= t.own[2] /\ Len(f.key.of) <= Len(t.send.of)
          /\ f.dh = t.own => Len(f.key.of) = Len(t.send.of)
          /\ Len(f.key.of) = Len(t.send.of) =>
              f.dh = t.own /\ f.key.of = t.send.of /\ f.ctr < t.send.n
      BY <1>1 DEF Ready
    <2>2. /\ f.key.n = f.ctr /\ f.dh[1] = f.from /\ f.from = p /\ f.ctr \in Nat
          /\ Turn(f.from, Len(f.key.of))
      BY <1>4 DEF IInv, Sealed, SentBy
    <2> QED
      BY <1>2, <1>3, <2>1, <2>2
  <1>7. ASSUME NEW f \in SentBy(Peer(p)) PROVE Good(f, View(Peer(p)))
    BY <1>1 DEF IInv, Sealed, SentBy
  <1>8. \A f \in sent : f \in SentBy(p) \/ f \in SentBy(Peer(p))
    BY <1>4, Peers DEF SentBy
  <1>9. Sealed'
    <2> HIDE DEF Good
    <2>1. ASSUME NEW f \in sent' PROVE Good(f, View(f.from)')
      <3>1. CASE f = e
        <4>1. f.from = p
          BY <1>2, <3>1
        <4> QED
          BY <1>5, <3>1, <4>1
      <3>2. CASE f \in SentBy(p)
        <4>1. f.from = p
          BY <3>2 DEF SentBy
        <4> QED
          BY <1>6, <3>2, <4>1
      <3>3. CASE f \in SentBy(Peer(p))
        <4>1. f.from = Peer(p)
          BY <3>3 DEF SentBy
        <4>2. View(f.from)' = View(Peer(p))
          BY <1>1, <4>1
        <4> QED
          BY <1>7, <3>3, <4>2
      <3> QED
        BY <1>2, <1>8, <3>1, <3>2, <3>3
    <2> QED
      BY <2>1 DEF Sealed, Good
  <1>10. ASSUME NEW f \in SentBy(p)
         PROVE  /\ f.dh = e.dh <=> f.key.of = e.key.of
                /\ f.key # e.key
    <2>1. /\ f.dh = t.own => Len(f.key.of) = Len(t.send.of)
          /\ Len(f.key.of) = Len(t.send.of) =>
              f.dh = t.own /\ f.key.of = t.send.of /\ f.ctr < t.send.n
      BY <1>1 DEF Ready
    <2>2. f.key.n = f.ctr /\ f.ctr \in Nat
      BY <1>4 DEF IInv, Sealed, SentBy
    <2> QED
      BY <1>2, <1>3, <2>1, <2>2
  <1>11. Named'
    <2> SUFFICES ASSUME NEW f \in sent', NEW g \in sent', f.from = g.from
                 PROVE  /\ f.dh = g.dh => f.key.of = g.key.of
                        /\ f.key = g.key => f = g
      BY DEF Named
    <2>1. CASE f \in sent /\ g \in sent
      BY <2>1 DEF IInv, Named
    <2>2. CASE f = e /\ g = e
      BY <2>2
    <2>3. CASE f = e /\ g \in sent
      <3>1. g \in SentBy(p)
        BY <1>2, <2>3 DEF SentBy
      <3> QED
        BY <1>10, <2>3, <3>1
    <2>4. CASE g = e /\ f \in sent
      <3>1. f \in SentBy(p)
        BY <1>2, <2>4 DEF SentBy
      <3> QED
        BY <1>10, <2>4, <3>1
    <2> QED
      BY <1>2, <2>1, <2>2, <2>3, <2>4
  <1> QED
    BY <1>9, <1>11

LEMMA EncryptMatched ==
  ASSUME IInv, NEW p \in Party, Encrypt(p)
  PROVE  Matched' /\ SkippedRight' /\ Accounted'
  <1> DEFINE s == View(p)
             t == Rotated(p, s)
             u == View(p)'
             e == Fresh(p)
             r == View(Peer(p))
  <1>1. /\ Typed /\ t \in SessionType /\ s \in SessionType /\ r \in SessionType
        /\ Peer(p) \in Party /\ p # Peer(p) /\ Peer(Peer(p)) = p
        /\ View(Peer(p))' = r /\ Ready(p, t)
    BY EncryptView, Peers, ViewType DEF IInv
  <1>2. /\ e.from = p /\ e.dh = t.own /\ e.ctr = t.send.n /\ e.key = t.send
        /\ e \notin sent /\ opened' = opened /\ dropped \subseteq dropped'
        /\ SentBy(p)' = SentBy(p) \cup {e} /\ SentBy(Peer(p))' = SentBy(Peer(p))
        /\ u.send.of = t.send.of /\ u.send.n = t.send.n + 1 /\ u.own = t.own
        /\ u.recv = s.recv /\ u.remote = s.remote
        /\ DOMAIN u.skipped \subseteq DOMAIN s.skipped
        /\ \A k \in DOMAIN u.skipped : u.skipped[k] = s.skipped[k]
        /\ \A k \in DOMAIN s.skipped \ DOMAIN u.skipped : <<p, k>> \in dropped'
    BY EncryptView
  <1>3. t.send.n \in Nat /\ r.recv.n \in Nat /\ t.send \in ChainType
    BY <1>1, Parts
  <1>4. opened \subseteq sent
    BY <1>1 DEF Typed
  <1>5. /\ r.remote = t.own <=> r.recv.of = t.send.of
        /\ r.recv.of = t.send.of => r.recv.n <= t.send.n
        /\ \A k \in DOMAIN r.skipped :
              /\ k[1][2] <= t.own[2]
              /\ k[1] = t.own => r.skipped[k] = [of |-> t.send.of, n |-> k[2]]
    BY <1>1 DEF Ready
  <1>6. Matched'
    <2> DEFINE M(x) == LET v == View(x)' w == View(Peer(x))' IN
        /\ v.recv.of = w.send.of => v.recv.n <= w.send.n
        /\ \A f \in SentBy(Peer(x))' : f.dh = v.remote <=> f.key.of = v.recv.of
    <2>1. M(p)
      BY <1>1, <1>2 DEF IInv, Matched
    <2>2. M(Peer(p))
      <3>1. r.recv.of = u.send.of => r.recv.n <= u.send.n
        BY <1>2, <1>3, <1>5
      <3>2. e.dh = r.remote <=> e.key.of = r.recv.of
        BY <1>2, <1>5
      <3>3. \A f \in SentBy(p) : f.dh = r.remote <=> f.key.of = r.recv.of
        BY <1>1 DEF IInv, Matched
      <3> QED
        BY <1>1, <1>2, <3>1, <3>2, <3>3
    <2> HIDE DEF M
    <2>3. \A x \in Party : M(x)
      BY <2>1, <2>2, Peers
    <2> QED
      BY <2>3 DEF Matched, M
  <1>7. SkippedRight'
    <2> DEFINE K(x) == LET v == View(x)' w == View(Peer(x))' IN
        \A k \in DOMAIN v.skipped :
            /\ k[1][1] = Peer(x) /\ k[1][2] <= w.own[2] /\ k[1][2] <= v.remote[2]
            /\ k[1] = w.own => v.skipped[k] = [of |-> w.send.of, n |-> k[2]]
            /\ k[1] = v.remote => k[2] < v.recv.n
            /\ Len(v.skipped[k].of) <= Len(v.recv.of)
            /\ \A f \in SentBy(Peer(x))' : <<f.dh, f.ctr>> = k => v.skipped[k] = f.key
    <2>1. K(p)
      <3>1. \A k \in DOMAIN s.skipped :
              /\ k[1][1] = Peer(p) /\ k[1][2] <= r.own[2] /\ k[1][2] <= s.remote[2]
              /\ k[1] = r.own => s.skipped[k] = [of |-> r.send.of, n |-> k[2]]
              /\ k[1] = s.remote => k[2] < s.recv.n
              /\ Len(s.skipped[k].of) <= Len(s.recv.of)
              /\ \A f \in SentBy(Peer(p)) : <<f.dh, f.ctr>> = k => s.skipped[k] = f.key
        BY <1>1 DEF IInv, SkippedRight
      <3> QED
        BY <1>1, <1>2, <3>1
    <2>2. K(Peer(p))
      <3>1. \A k \in DOMAIN r.skipped :
              /\ k[1][1] = p /\ k[1][2] <= r.remote[2]
              /\ k[1] = r.remote => k[2] < r.recv.n
              /\ Len(r.skipped[k].of) <= Len(r.recv.of)
              /\ \A f \in SentBy(p) : <<f.dh, f.ctr>> = k => r.skipped[k] = f.key
        <4>1. \A k \in DOMAIN r.skipped :
                /\ k[1][1] = Peer(Peer(p)) /\ k[1][2] <= r.remote[2]
                /\ k[1] = r.remote => k[2] < r.recv.n
                /\ Len(r.skipped[k].of) <= Len(r.recv.of)
                /\ \A f \in SentBy(Peer(Peer(p))) : <<f.dh, f.ctr>> = k => r.skipped[k] = f.key
          BY <1>1 DEF IInv, SkippedRight
        <4> QED
          BY <1>1, <4>1
      <3>2. ASSUME NEW k \in DOMAIN r.skipped, <<e.dh, e.ctr>> = k
            PROVE  r.skipped[k] = e.key
        <4>1. k[1] = t.own /\ k[2] = t.send.n
          BY <1>2, <3>2
        <4>2. r.skipped[k] = [of |-> t.send.of, n |-> t.send.n]
          BY <1>5, <4>1
        <4> QED
          BY <1>2, <1>3, <4>2, SameChain
      <3> QED
        BY <1>1, <1>2, <1>5, <3>1, <3>2
    <2> HIDE DEF K
    <2>3. \A x \in Party : K(x)
      BY <2>1, <2>2, Peers
    <2> QED
      BY <2>3 DEF SkippedRight, K
  <1>8. Accounted'
    <2> DEFINE O(x) == LET v == View(x)' IN
        /\ \A f \in opened' \cap SentBy(Peer(x))' :
             /\ <<f.dh, f.ctr>> \notin DOMAIN v.skipped
             /\ Len(f.key.of) <= Len(v.recv.of)
             /\ f.key.of = v.recv.of => f.ctr < v.recv.n
        /\ \A f \in SentBy(Peer(x))' \ opened' :
             f.dh = v.remote /\ f.ctr < v.recv.n =>
                 \/ <<f.dh, f.ctr>> \in DOMAIN v.skipped
                 \/ <<x, <<f.dh, f.ctr>>>> \in dropped'
    <2>1. O(p)
      <3>1. /\ \A f \in opened \cap SentBy(Peer(p)) :
                 /\ <<f.dh, f.ctr>> \notin DOMAIN s.skipped
                 /\ Len(f.key.of) <= Len(s.recv.of)
                 /\ f.key.of = s.recv.of => f.ctr < s.recv.n
            /\ \A f \in SentBy(Peer(p)) \ opened :
                 f.dh = s.remote /\ f.ctr < s.recv.n =>
                   \/ <<f.dh, f.ctr>> \in DOMAIN s.skipped
                   \/ <<p, <<f.dh, f.ctr>>>> \in dropped
        BY <1>1 DEF IInv, Accounted
      <3> QED
        BY <1>2, <3>1
    <2>2. O(Peer(p))
      <3>1. /\ \A f \in opened \cap SentBy(p) :
                 /\ <<f.dh, f.ctr>> \notin DOMAIN r.skipped
                 /\ Len(f.key.of) <= Len(r.recv.of)
                 /\ f.key.of = r.recv.of => f.ctr < r.recv.n
            /\ \A f \in SentBy(p) \ opened :
                 f.dh = r.remote /\ f.ctr < r.recv.n =>
                   \/ <<f.dh, f.ctr>> \in DOMAIN r.skipped
                   \/ <<Peer(p), <<f.dh, f.ctr>>>> \in dropped
        BY <1>1 DEF IInv, Accounted
      <3>2. opened' \cap SentBy(p)' = opened \cap SentBy(p)
        BY <1>2, <1>4
      <3>3. e.dh = r.remote => ~ (e.ctr < r.recv.n)
        BY <1>2, <1>3, <1>5
      <3> QED
        BY <1>1, <1>2, <3>1, <3>2, <3>3
    <2> HIDE DEF O
    <2>3. \A x \in Party : O(x)
      BY <2>1, <2>2, Peers
    <2> QED
      BY <2>3 DEF Accounted, O
  <1> QED
    BY <1>6, <1>7, <1>8

-----------------------------------------------------------------------------
(* session_decrypt.                                                        *)

\* The keys that are skipped on the way to counter ctr.
Passed(s, ctr) == {s.remote} \X (s.recv.n .. ctr - 1)

LEMMA AdvancedFacts ==
  ASSUME NEW s \in SessionType, NEW ctr \in Nat
  PROVE  LET t == Advanced(s, ctr)
         IN  /\ t \in SessionType
             /\ t.root = s.root /\ t.send = s.send /\ t.own = s.own
             /\ t.remote = s.remote /\ t.valid = s.valid /\ t.recv.of = s.recv.of
             /\ t.recv.n = (IF ctr <= s.recv.n THEN s.recv.n ELSE ctr)
             /\ DOMAIN t.skipped = DOMAIN s.skipped \cup Passed(s, ctr)
             /\ \A k \in Passed(s, ctr) : t.skipped[k] = [of |-> s.recv.of, n |-> k[2]]
             /\ \A k \in DOMAIN s.skipped \ Passed(s, ctr) : t.skipped[k] = s.skipped[k]
  <1> DEFINE t == Advanced(s, ctr)
             f == [k \in Passed(s, ctr) \cup DOMAIN s.skipped |->
                     IF k \in Passed(s, ctr) THEN [s.recv EXCEPT !.n = k[2]] ELSE s.skipped[k]]
  <1>1. /\ s.recv \in ChainType /\ s.recv.n \in Nat /\ s.remote \in Key
        /\ DOMAIN s.skipped \subseteq Name
        /\ \A k \in DOMAIN s.skipped : s.skipped[k] \in ChainType
    BY Parts
  <1>2. \A k \in Passed(s, ctr) : k \in Name /\ k[1] = s.remote /\ k[2] \in Nat
    BY <1>1 DEF Passed, Name
  <1>3. CASE ctr <= s.recv.n
    <2>1. Passed(s, ctr) = {}
      BY <1>1, <1>3 DEF Passed
    <2>2. t = s
      BY <1>3 DEF Advanced
    <2> QED
      BY <1>3, <2>1, <2>2
  <1>4. CASE ~ (ctr <= s.recv.n)
    <2>1. \A k \in Passed(s, ctr) :
            /\ [s.recv EXCEPT !.n = k[2]] \in ChainType
            /\ [s.recv EXCEPT !.n = k[2]] = [of |-> s.recv.of, n |-> k[2]]
      BY <1>1, <1>2, ChainAt
    <2>2. f \in [Passed(s, ctr) \cup DOMAIN s.skipped -> ChainType]
      BY <1>1, <2>1
    <2>3. Passed(s, ctr) \cup DOMAIN s.skipped \subseteq Name
      BY <1>1, <1>2
    <2>4. f \in UNION {[D -> ChainType] : D \in SUBSET Name}
      BY <2>2, <2>3
    <2>5. /\ [s.recv EXCEPT !.n = ctr] \in ChainType
          /\ [s.recv EXCEPT !.n = ctr] = [of |-> s.recv.of, n |-> ctr]
      BY <1>1, ChainAt
    <2>6. t = [s EXCEPT !.recv = [s.recv EXCEPT !.n = ctr], !.skipped = f]
      BY <1>4 DEF Advanced, Passed, SessionType
    <2> DEFINE c == [s.recv EXCEPT !.n = ctr]
    <2>7. c \in ChainType /\ c.of = s.recv.of /\ c.n = ctr
      BY <2>5
    <2>8. /\ DOMAIN f = DOMAIN s.skipped \cup Passed(s, ctr)
          /\ \A k \in Passed(s, ctr) : f[k] = [of |-> s.recv.of, n |-> k[2]]
          /\ \A k \in DOMAIN s.skipped \ Passed(s, ctr) : f[k] = s.skipped[k]
      BY <2>1
    <2>9. t = [s EXCEPT !.recv = c, !.skipped = f]
      BY <2>6
    <2> HIDE DEF f, c, t
    <2>10. /\ t \in SessionType
           /\ t.root = s.root /\ t.send = s.send /\ t.own = s.own
           /\ t.remote = s.remote /\ t.valid = s.valid /\ t.recv = c /\ t.skipped = f
      BY <2>4, <2>7, <2>9 DEF SessionType
    <2>11. t.recv.n = (IF ctr <= s.recv.n THEN s.recv.n ELSE ctr)
      BY <1>4, <2>7, <2>10
    <2> QED
      BY <2>7, <2>8, <2>10, <2>11 DEF t
  <1> QED
    BY <1>3, <1>4

LEMMA RatchetedFacts ==
  ASSUME NEW s \in SessionType, NEW dh \in Key, dh # s.remote
  PROVE  LET t == Ratcheted(s, dh)
         IN  /\ t \in SessionType
             /\ t.root = Append(s.root, DH(s.own, dh)) /\ t.recv.of = t.root /\ t.recv.n = 0
             /\ t.remote = dh /\ ~ t.valid
             /\ t.send = s.send /\ t.own = s.own /\ t.skipped = s.skipped
             /\ Len(t.root) = Len(s.root) + 1
  <1> DEFINE root == Append(s.root, DH(s.own, dh))
             c == [of |-> root, n |-> 0]
             t == Ratcheted(s, dh)
  <1>1. root \in Seq(Mixed) /\ Len(root) = Len(s.root) + 1
    BY Parts, DHType, AppendRoot
  <1>2. c \in ChainType /\ c.of = root /\ c.n = 0
    BY <1>1 DEF ChainType
  <1>3. t = [s EXCEPT !.root = root, !.recv = c, !.remote = dh, !.valid = FALSE]
    BY DEF Ratcheted, Chain
  <1> HIDE DEF root, c, t
  <1>4. /\ t \in SessionType /\ t.root = root /\ t.recv = c /\ t.remote = dh /\ t.valid = FALSE
        /\ t.send = s.send /\ t.own = s.own /\ t.skipped = s.skipped
    BY <1>1, <1>2, <1>3 DEF SessionType
  <1> QED
    BY <1>1, <1>2, <1>4 DEF root, t

\* Taking a chain's key moves its counter on.
LEMMA TakenFacts ==
  ASSUME NEW s \in SessionType
  PROVE  LET t == [s EXCEPT !.recv.n = @ + 1]
         IN  /\ t \in SessionType
             /\ t.root = s.root /\ t.send = s.send /\ t.own = s.own
             /\ t.remote = s.remote /\ t.valid = s.valid /\ t.skipped = s.skipped
             /\ t.recv.of = s.recv.of /\ t.recv.n = s.recv.n + 1
  <1> DEFINE c == [s.recv EXCEPT !.n = s.recv.n + 1]
             t == [s EXCEPT !.recv.n = @ + 1]
  <1>1. s.recv \in ChainType /\ s.recv.n + 1 \in Nat
    BY Parts
  <1>2. c \in ChainType /\ c.of = s.recv.of /\ c.n = s.recv.n + 1
    <2>1. c \in ChainType /\ c = [of |-> s.recv.of, n |-> s.recv.n + 1]
      BY <1>1, ChainAt
    <2> QED
      BY <2>1
  <1>3. t = [s EXCEPT !.recv = c]
    BY DEF SessionType
  <1> HIDE DEF c, t
  <1>4. /\ t \in SessionType /\ t.recv = c
        /\ t.root = s.root /\ t.send = s.send /\ t.own = s.own
        /\ t.remote = s.remote /\ t.valid = s.valid /\ t.skipped = s.skipped
    BY <1>2, <1>3 DEF SessionType
  <1> QED
    BY <1>2, <1>4 DEF t

LEMMA UsedFacts ==
  ASSUME NEW s \in SessionType, NEW k
  PROVE  LET t == Used(s, k)
         IN  /\ t \in SessionType
             /\ t.root = s.root /\ t.send = s.send /\ t.own = s.own
             /\ t.remote = s.remote /\ t.valid = s.valid /\ t.recv = s.recv
             /\ DOMAIN t.skipped = DOMAIN s.skipped \ {k}
             /\ \A j \in DOMAIN t.skipped : t.skipped[j] = s.skipped[j]
  <1> DEFINE f == Restrict(s.skipped, DOMAIN s.skipped \ {k})
             t == Used(s, k)
  <1>1. /\ DOMAIN s.skipped \subseteq Name
        /\ \A j \in DOMAIN s.skipped : s.skipped[j] \in ChainType
    BY Parts
  <1>2. /\ DOMAIN f = DOMAIN s.skipped \ {k}
        /\ \A j \in DOMAIN f : f[j] = s.skipped[j]
        /\ f \in [DOMAIN s.skipped \ {k} -> ChainType]
    BY <1>1 DEF Restrict
  <1>3. f \in UNION {[D -> ChainType] : D \in SUBSET Name}
    BY <1>1, <1>2
  <1>4. t = [s EXCEPT !.skipped = f]
    BY DEF Used
  <1> HIDE DEF f, t
  <1>5. /\ t \in SessionType /\ t.skipped = f
        /\ t.root = s.root /\ t.send = s.send /\ t.own = s.own
        /\ t.remote = s.remote /\ t.valid = s.valid /\ t.recv = s.recv
    BY <1>3, <1>4 DEF SessionType
  <1> QED
    BY <1>2, <1>5 DEF t

\* What the invariant says of p as a receiver, with s for its session.
Receives(p, s, open, drop) ==
    LET q == Peer(p)
        r == View(q)
    IN  /\ s.recv.of = r.send.of => s.recv.n <= r.send.n
        /\ \A f \in SentBy(q) : f.dh = s.remote <=> f.key.of = s.recv.of
        /\ \A k \in DOMAIN s.skipped :
            /\ k[1][1] = q /\ k[1][2] <= r.own[2] /\ k[1][2] <= s.remote[2]
            /\ k[1] = r.own => s.skipped[k] = [of |-> r.send.of, n |-> k[2]]
            /\ k[1] = s.remote => k[2] < s.recv.n
            /\ Len(s.skipped[k].of) <= Len(s.recv.of)
            /\ \A f \in SentBy(q) : <<f.dh, f.ctr>> = k => s.skipped[k] = f.key
        /\ \A f \in open \cap SentBy(q) :
             /\ <<f.dh, f.ctr>> \notin DOMAIN s.skipped
             /\ Len(f.key.of) <= Len(s.recv.of)
             /\ f.key.of = s.recv.of => f.ctr < s.recv.n
        /\ \A f \in SentBy(q) \ open :
             f.dh = s.remote /\ f.ctr < s.recv.n =>
                 \/ <<f.dh, f.ctr>> \in DOMAIN s.skipped
                 \/ <<p, <<f.dh, f.ctr>>>> \in drop

LEMMA AllReceive ==
  Matched /\ SkippedRight /\ Accounted
    <=> \A p \in Party : Receives(p, View(p), opened, dropped)
  BY DEF Matched, SkippedRight, Accounted, Receives

\* What is known of an envelope of the peer.
LEMMA PeerEnvelope ==
  ASSUME IInv, NEW p \in Party, NEW e \in SentBy(Peer(p))
  PROVE  LET r == View(Peer(p))
         IN  /\ e \in sent /\ e \in Envelope /\ e.from = Peer(p)
             /\ e.dh \in Key /\ e.ctr \in Nat /\ e.key \in ChainType
             /\ Len(e.key.of) \in Nat /\ e.dh[2] \in Nat
             /\ e.key = [of |-> e.key.of, n |-> e.ctr]
             /\ e.key.n = e.ctr /\ e.dh[1] = e.from /\ e.dh[2] <= r.own[2]
             /\ Len(e.key.of) <= Len(r.send.of)
             /\ e.dh = r.own => Len(e.key.of) = Len(r.send.of)
             /\ Len(e.key.of) = Len(r.send.of) =>
                  e.dh = r.own /\ e.key.of = r.send.of /\ e.ctr < r.send.n
  <1>1. e \in sent /\ e.from = Peer(p)
    BY DEF SentBy
  <1>2. e \in Envelope
    BY <1>1 DEF IInv, Typed
  <1>3. /\ e.dh \in Key /\ e.ctr \in Nat /\ e.key \in ChainType
        /\ Len(e.key.of) \in Nat /\ e.dh[2] \in Nat
    BY <1>2, EnvelopeParts
  <1>4. LET r == View(e.from)
        IN   /\ e.key.n = e.ctr /\ e.dh[1] = e.from /\ e.dh[2] <= r.own[2]
             /\ Len(e.key.of) <= Len(r.send.of)
             /\ e.dh = r.own => Len(e.key.of) = Len(r.send.of)
             /\ Len(e.key.of) = Len(r.send.of) =>
                  e.dh = r.own /\ e.key.of = r.send.of /\ e.ctr < r.send.n
    BY <1>1 DEF IInv, Sealed
  <1>5. e.key = [of |-> e.key.of, n |-> e.ctr]
    BY <1>3, <1>4, SameChain
  <1> QED
    BY <1>1, <1>2, <1>3, <1>4, <1>5

\* A name under which a key is skipped is that of one envelope.
LEMMA SameName ==
  ASSUME IInv, NEW p \in Party, NEW e \in SentBy(Peer(p)), NEW f \in SentBy(Peer(p)),
         e.dh = f.dh, e.ctr = f.ctr
  PROVE  e = f
  <1>1. e \in sent /\ f \in sent /\ e.from = f.from
    BY DEF SentBy
  <1>2. e.key.of = f.key.of
    BY <1>1 DEF IInv, Named
  <1>3. e.key = [of |-> e.key.of, n |-> e.ctr]
    BY PeerEnvelope
  <1>4. f.key = [of |-> f.key.of, n |-> f.ctr]
    BY PeerEnvelope
  <1>5. e.key = f.key
    BY <1>2, <1>3, <1>4
  <1> QED
    BY <1>1, <1>5 DEF IInv, Named

\* Whoever gets an envelope of a chain that comes after its own gets the
\* latest chain, and the peer is ahead.
LEMMA NextChain ==
  ASSUME IInv, NEW p \in Party, NEW e \in SentBy(Peer(p)), e.dh # View(p).remote,
         Len(e.key.of) > Len(View(p).root)
  PROVE  LET s == View(p)
             r == View(Peer(p))
         IN  /\ e.dh = r.own /\ e.key.of = r.send.of
             /\ Leads(Peer(p)) /\ Ahead(Peer(p), r, s) /\ r.send.of = r.root
             /\ Len(r.send.of) = Len(s.root) + 1
             /\ r.root = Append(s.root, DH(s.own, r.own))
  <1> DEFINE s == View(p)
             r == View(Peer(p))
  <1>1. /\ Typed /\ \E l \in Party : Leads(l)
        /\ s \in SessionType /\ r \in SessionType
    BY ViewType DEF IInv
  <1>2. /\ Len(s.root) \in Nat /\ Len(r.send.of) \in Nat
        /\ s.own \in Key /\ r.own \in Key
    BY <1>1, Parts
  <1>3. /\ Len(e.key.of) \in Nat /\ Len(e.key.of) <= Len(r.send.of)
        /\ Len(e.key.of) = Len(r.send.of) => e.dh = r.own /\ e.key.of = r.send.of
    BY PeerEnvelope
  <1>4. Len(r.send.of) <= Len(s.root) + 1
    BY <1>1, Aligned
  <1>5. Len(r.send.of) = Len(s.root) + 1 /\ Len(e.key.of) = Len(r.send.of)
    BY <1>2, <1>3, <1>4
  <1>6. Leads(Peer(p)) /\ Ahead(Peer(p), r, s) /\ r.send.of = r.root
    BY <1>1, <1>5, Aligned
  <1>7. r.root = Append(s.root, DH(s.own, r.own))
    BY <1>2, <1>6, DHType DEF Ahead
  <1> QED
    BY <1>3, <1>5, <1>6, <1>7

LEMMA RatchetReceives ==
  ASSUME IInv, NEW p \in Party, NEW e \in SentBy(Peer(p)), e.dh # View(p).remote,
         e.key.of = Ratcheted(View(p), e.dh).recv.of
  PROVE  Receives(p, Ratcheted(View(p), e.dh), opened, dropped)
  <1> DEFINE s == View(p)
             r == View(Peer(p))
             b == Ratcheted(s, e.dh)
             q == Peer(p)
  <1>1. /\ Typed /\ s \in SessionType /\ r \in SessionType
        /\ Receives(p, s, opened, dropped)
    BY ViewType, AllReceive DEF IInv
  <1>2. /\ Len(s.root) \in Nat /\ Len(s.recv.of) \in Nat /\ Len(r.send.of) \in Nat
        /\ s.remote[2] \in Nat /\ r.own[2] \in Nat /\ r.send.n \in Nat
        /\ Len(s.recv.of) <= Len(s.root)
        /\ DOMAIN s.skipped \subseteq Name
        /\ \A k \in DOMAIN s.skipped : Len(s.skipped[k].of) \in Nat
    <2>1. \A k \in DOMAIN s.skipped : s.skipped[k] \in ChainType
      BY <1>1, Parts
    <2>2. \A k \in DOMAIN s.skipped : Len(s.skipped[k].of) \in Nat
      BY <2>1 DEF ChainType
    <2>3. Len(s.recv.of) <= Len(s.root)
      BY <1>1 DEF Typed
    <2> QED
      BY <1>1, <2>2, <2>3, Parts
  <1>3. /\ b.recv.n = 0 /\ b.remote = e.dh /\ b.skipped = s.skipped
        /\ Len(b.recv.of) = Len(s.root) + 1
    <2>1. e.dh \in Key
      BY PeerEnvelope
    <2> QED
      BY <1>1, <2>1, RatchetedFacts
  <1>4. /\ e.dh = r.own /\ e.key.of = r.send.of /\ Ahead(q, r, s)
        /\ b.recv.of = r.send.of /\ Len(r.send.of) = Len(s.root) + 1
    BY <1>2, <1>3, NextChain
  <1>5. s.remote[2] < r.own[2] /\ s.remote # r.own
    BY <1>2, <1>4 DEF Ahead
  <1> HIDE DEF b
  <1>6. \A f \in SentBy(q) : f.dh = b.remote <=> f.key.of = b.recv.of
    BY <1>3, <1>4, PeerEnvelope
  <1>7. ASSUME NEW k \in DOMAIN b.skipped
        PROVE  /\ k[1][1] = q /\ k[1][2] <= r.own[2] /\ k[1][2] <= b.remote[2]
               /\ k[1] # r.own
               /\ Len(b.skipped[k].of) <= Len(b.recv.of)
               /\ \A f \in SentBy(q) : <<f.dh, f.ctr>> = k => b.skipped[k] = f.key
    <2>1. /\ k[1][1] = q /\ k[1][2] <= r.own[2] /\ k[1][2] <= s.remote[2]
          /\ Len(s.skipped[k].of) <= Len(s.recv.of)
          /\ \A f \in SentBy(q) : <<f.dh, f.ctr>> = k => s.skipped[k] = f.key
      BY <1>1, <1>3 DEF Receives
    <2>2. k[1][2] \in Nat /\ Len(s.skipped[k].of) \in Nat
      BY <1>2, <1>3 DEF Name, Key
    <2>3. k[1][2] < r.own[2]
      BY <1>2, <1>5, <2>1, <2>2
    <2>4. Len(s.skipped[k].of) <= Len(b.recv.of)
      <3>1. Len(s.skipped[k].of) <= Len(s.root) + 1
        BY <1>2, <2>1, <2>2, AtMost, Zenon
      <3> QED
        BY <1>3, <3>1, Zenon
    <2>5. k[1] # r.own
      BY <1>2, <2>2, <2>3
    <2>6. b.remote = r.own /\ b.skipped = s.skipped
      BY <1>3, <1>4
    <2> QED
      BY <2>1, <2>4, <2>5, <2>6
  <1>8. ASSUME NEW f \in opened \cap SentBy(q)
        PROVE  /\ <<f.dh, f.ctr>> \notin DOMAIN b.skipped
               /\ Len(f.key.of) <= Len(b.recv.of) /\ f.key.of # b.recv.of
    <2>1. /\ <<f.dh, f.ctr>> \notin DOMAIN s.skipped
          /\ Len(f.key.of) <= Len(s.recv.of) /\ Len(f.key.of) \in Nat
      BY <1>1, PeerEnvelope DEF Receives
    <2>2. /\ Len(f.key.of) <= Len(b.recv.of) /\ Len(f.key.of) # Len(b.recv.of)
      <3>1. Len(f.key.of) <= Len(s.root)
        BY <1>2, <2>1
      <3>2. Len(f.key.of) < Len(s.root) + 1 /\ Len(s.root) + 1 \in Nat
        BY <1>2, <2>1, <3>1, Below, Zenon
      <3>3. Len(f.key.of) < Len(b.recv.of) /\ Len(b.recv.of) \in Nat
        BY <1>3, <3>2, Zenon
      <3> QED
        BY <2>1, <3>3, Apart, Zenon
    <2> QED
      BY <1>3, <2>1, <2>2, Zenon
  <1>9. \A f \in SentBy(q) \ opened : ~ (f.ctr < b.recv.n)
    <2>1. \A f \in SentBy(q) : f.ctr \in Nat
      BY PeerEnvelope
    <2> QED
      BY <1>3, <2>1
  <1>10. Receives(p, b, opened, dropped)
    BY <1>2, <1>3, <1>4, <1>6, <1>7, <1>8, <1>9 DEF Receives
  <1> QED
    BY <1>10 DEF b

LEMMA LateReceives ==
  ASSUME IInv, NEW p \in Party, NEW e \in SentBy(Peer(p)),
         <<e.dh, e.ctr>> \in DOMAIN View(p).skipped,
         View(p).skipped[<<e.dh, e.ctr>>] = e.key
  PROVE  Receives(p, Used(View(p), <<e.dh, e.ctr>>), opened \cup {e}, dropped)
  <1> DEFINE s == View(p)
             r == View(Peer(p))
             q == Peer(p)
             k == <<e.dh, e.ctr>>
             o == Used(s, k)
  <1>1. /\ s \in SessionType /\ Receives(p, s, opened, dropped)
    BY ViewType, AllReceive DEF IInv
  <1>2. /\ o.recv = s.recv /\ o.remote = s.remote
        /\ DOMAIN o.skipped = DOMAIN s.skipped \ {k}
        /\ \A j \in DOMAIN o.skipped : o.skipped[j] = s.skipped[j]
    BY <1>1, UsedFacts
  <1>3. /\ Len(e.key.of) <= Len(s.recv.of)
        /\ e.key.of = s.recv.of => e.ctr < s.recv.n
    BY <1>1 DEF Receives
  <1>4. ASSUME NEW f \in SentBy(q), <<f.dh, f.ctr>> = k PROVE f = e
    BY <1>4, SameName
  <1> HIDE DEF o
  <1>5. \A f \in (opened \cup {e}) \cap SentBy(q) :
             /\ <<f.dh, f.ctr>> \notin DOMAIN o.skipped
             /\ Len(f.key.of) <= Len(o.recv.of)
             /\ f.key.of = o.recv.of => f.ctr < o.recv.n
    BY <1>1, <1>2, <1>3 DEF Receives
  <1>6. \A f \in SentBy(q) \ (opened \cup {e}) :
             f.dh = o.remote /\ f.ctr < o.recv.n =>
                 \/ <<f.dh, f.ctr>> \in DOMAIN o.skipped
                 \/ <<p, <<f.dh, f.ctr>>>> \in dropped
    BY <1>1, <1>2, <1>4 DEF Receives
  <1>7. /\ o.recv.of = r.send.of => o.recv.n <= r.send.n
        /\ \A f \in SentBy(q) : f.dh = o.remote <=> f.key.of = o.recv.of
    BY <1>1, <1>2 DEF Receives
  <1>8. \A j \in DOMAIN o.skipped :
            /\ j[1][1] = q /\ j[1][2] <= r.own[2] /\ j[1][2] <= o.remote[2]
            /\ j[1] = r.own => o.skipped[j] = [of |-> r.send.of, n |-> j[2]]
            /\ j[1] = o.remote => j[2] < o.recv.n
            /\ Len(o.skipped[j].of) <= Len(o.recv.of)
            /\ \A f \in SentBy(q) : <<f.dh, f.ctr>> = j => o.skipped[j] = f.key
    BY <1>1, <1>2 DEF Receives
  <1> HIDE DEF k
  <1> QED
    BY <1>5, <1>6, <1>7, <1>8 DEF Receives, o, k

LEMMA AdvanceReceives ==
  ASSUME IInv, NEW p \in Party, NEW e \in SentBy(Peer(p)),
         NEW b \in SessionType, Receives(p, b, opened, dropped),
         e.dh = b.remote, e.key.of = b.recv.of, b.recv.n <= e.ctr,
         <<e.dh, e.ctr>> \notin DOMAIN b.skipped,
         NEW o, o.recv.of = b.recv.of, o.recv.n = e.ctr + 1, o.remote = b.remote,
         DOMAIN o.skipped = DOMAIN b.skipped \cup Passed(b, e.ctr),
         \A k \in Passed(b, e.ctr) : o.skipped[k] = [of |-> b.recv.of, n |-> k[2]],
         \A k \in DOMAIN b.skipped \ Passed(b, e.ctr) : o.skipped[k] = b.skipped[k]
  PROVE  Receives(p, o, opened \cup {e}, dropped)
  <1> DEFINE r == View(Peer(p))
             q == Peer(p)
  <1>1. /\ e.ctr \in Nat /\ b.recv.n \in Nat /\ Len(b.recv.of) \in Nat
        /\ e.dh[1] = q /\ e.dh[2] <= r.own[2] /\ e.dh[2] \in Nat
        /\ e.dh = r.own => e.key.of = r.send.of
        /\ e.key.of = r.send.of => e.ctr < r.send.n
        /\ r.send.n \in Nat
    <2>1. b.recv.n \in Nat /\ Len(b.recv.of) \in Nat
      BY Parts
    <2>2. r \in SessionType
      BY ViewType DEF IInv
    <2>3. r.send.n \in Nat
      BY <2>2, Parts
    <2>4. /\ e.ctr \in Nat /\ e.dh[1] = q /\ e.dh[2] <= r.own[2] /\ e.dh[2] \in Nat
          /\ e.dh = r.own => Len(e.key.of) = Len(r.send.of)
          /\ Len(e.key.of) = Len(r.send.of) => e.key.of = r.send.of /\ e.ctr < r.send.n
      BY PeerEnvelope
    <2> QED
      BY <2>1, <2>3, <2>4, Zenon
  <1>2. \A f \in SentBy(q) : f.ctr \in Nat /\ f.key = [of |-> f.key.of, n |-> f.ctr]
    BY PeerEnvelope
  <1>3. \A k \in Passed(b, e.ctr) : k[1] = b.remote /\ k[2] \in Nat /\ k[2] < e.ctr
                                    /\ b.recv.n <= k[2]
    BY <1>1 DEF Passed
  <1>4. \A n \in Nat : b.recv.n <= n /\ n < e.ctr => <<b.remote, n>> \in Passed(b, e.ctr)
    BY <1>1 DEF Passed
  <1>5. /\ o.recv.of = r.send.of => o.recv.n <= r.send.n
        /\ \A f \in SentBy(q) : f.dh = o.remote <=> f.key.of = o.recv.of
    BY <1>1 DEF Receives
  <1>6. ASSUME NEW k \in Passed(b, e.ctr)
        PROVE  /\ k[1][1] = q /\ k[1][2] <= r.own[2] /\ k[1][2] <= o.remote[2]
               /\ k[1] = r.own => o.skipped[k] = [of |-> r.send.of, n |-> k[2]]
               /\ k[1] = o.remote => k[2] < o.recv.n
               /\ Len(o.skipped[k].of) <= Len(o.recv.of)
               /\ \A f \in SentBy(q) : <<f.dh, f.ctr>> = k => o.skipped[k] = f.key
    <2>1. o.skipped[k] = [of |-> b.recv.of, n |-> k[2]] /\ k[1] = e.dh
      BY <1>3
    <2>2. o.skipped[k].of = b.recv.of
      BY <2>1
    <2>3. ASSUME NEW f \in SentBy(q), <<f.dh, f.ctr>> = k PROVE o.skipped[k] = f.key
      <3>1. f.dh = b.remote /\ f.ctr = k[2]
        BY <1>3, <2>3
      <3>2. f.key.of = b.recv.of
        BY <3>1 DEF Receives
      <3> QED
        BY <1>2, <2>1, <3>1, <3>2
    <2>4. k[2] < o.recv.n
      BY <1>1, <1>3
    <2> QED
      BY <1>1, <2>1, <2>2, <2>3, <2>4
  <1>7. ASSUME NEW k \in DOMAIN b.skipped \ Passed(b, e.ctr)
        PROVE  /\ k[1][1] = q /\ k[1][2] <= r.own[2] /\ k[1][2] <= o.remote[2]
               /\ k[1] = r.own => o.skipped[k] = [of |-> r.send.of, n |-> k[2]]
               /\ k[1] = o.remote => k[2] < o.recv.n
               /\ Len(o.skipped[k].of) <= Len(o.recv.of)
               /\ \A f \in SentBy(q) : <<f.dh, f.ctr>> = k => o.skipped[k] = f.key
    <2>1. k[2] \in Nat
      BY Parts DEF Name
    <2>2. k[1] = b.remote => k[2] < b.recv.n
      BY DEF Receives
    <2>3. k[1] = o.remote => k[2] < o.recv.n
      BY <1>1, <2>1, <2>2
    <2>4. o.skipped[k] = b.skipped[k]
      OBVIOUS
    <2> QED
      BY <2>3, <2>4 DEF Receives
  <1>8. ASSUME NEW f \in (opened \cup {e}) \cap SentBy(q)
        PROVE  /\ <<f.dh, f.ctr>> \notin DOMAIN o.skipped
               /\ Len(f.key.of) <= Len(o.recv.of)
               /\ f.key.of = o.recv.of => f.ctr < o.recv.n
    <2>1. CASE f = e
      <3>1. <<e.dh, e.ctr>> \notin Passed(b, e.ctr)
        BY <1>1, <1>3
      <3> QED
        BY <1>1, <2>1, <3>1
    <2>2. CASE f \in opened
      <3>1. /\ <<f.dh, f.ctr>> \notin DOMAIN b.skipped
            /\ Len(f.key.of) <= Len(b.recv.of)
            /\ f.key.of = b.recv.of => f.ctr < b.recv.n
            /\ f.dh = b.remote => f.key.of = b.recv.of
        BY <2>2 DEF Receives
      <3>2. f.ctr \in Nat
        BY <1>2
      <3>3. <<f.dh, f.ctr>> \notin Passed(b, e.ctr)
        BY <1>1, <1>3, <3>1, <3>2
      <3>4. f.key.of = o.recv.of => f.ctr < o.recv.n
        BY <1>1, <3>1, <3>2
      <3> QED
        BY <3>1, <3>3, <3>4
    <2> QED
      BY <2>1, <2>2
  <1>9. ASSUME NEW f \in SentBy(q) \ (opened \cup {e}), f.dh = o.remote, f.ctr < o.recv.n
        PROVE  \/ <<f.dh, f.ctr>> \in DOMAIN o.skipped
               \/ <<p, <<f.dh, f.ctr>>>> \in dropped
    <2>1. f.ctr # e.ctr
      BY <1>9, SameName
    <2>2. f.ctr \in Nat /\ f.ctr < e.ctr
      <3>1. f.ctr \in Nat
        BY <1>2
      <3> QED
        BY <1>1, <1>9, <2>1, <3>1
    <2>3. CASE f.ctr < b.recv.n
      BY <1>9, <2>3 DEF Receives
    <2>4. CASE ~ (f.ctr < b.recv.n)
      BY <1>1, <1>4, <1>9, <2>2, <2>4
    <2> QED
      BY <2>3, <2>4
  <1> QED
    BY <1>5, <1>6, <1>7, <1>8, <1>9 DEF Receives

LEMMA SaveReceives ==
  ASSUME NEW p \in Party, NEW o, NEW u, Kept(o, u), NEW open, NEW drop, NEW more,
         Receives(p, o, open, drop), drop \subseteq more,
         \A k \in DOMAIN o.skipped \ DOMAIN u.skipped : <<p, k>> \in more
  PROVE  Receives(p, u, open, more)
  BY DEF Kept, Receives

\* What has been opened does not open again.
LEMMA OpenedFails ==
  ASSUME IInv, NEW p \in Party, NEW e \in opened \cap SentBy(Peer(p))
  PROVE  Open(View(p), e) = Failed
  <1> DEFINE s == View(p)
             b == Ratcheted(s, e.dh)
             t == Advanced(b, e.ctr)
  <1>1. /\ Typed /\ s \in SessionType /\ Receives(p, s, opened, dropped)
    BY ViewType, AllReceive DEF IInv
  <1>2. e.dh \in Key /\ e.ctr \in Nat /\ e.key.n = e.ctr /\ Len(e.key.of) \in Nat
    BY PeerEnvelope
  <1>3. /\ <<e.dh, e.ctr>> \notin DOMAIN s.skipped
        /\ Len(e.key.of) <= Len(s.recv.of)
        /\ e.key.of = s.recv.of => e.ctr < s.recv.n
        /\ e.dh = s.remote => e.key.of = s.recv.of
    BY <1>1 DEF Receives
  <1>4. /\ Len(s.root) \in Nat /\ Len(s.recv.of) \in Nat /\ s.recv.n \in Nat
        /\ Len(s.recv.of) <= Len(s.root)
    BY <1>1, Parts DEF Typed
  <1>5. t.recv # e.key
    <2>1. CASE e.dh = s.remote
      <3>1. b = s
        BY <2>1 DEF Ratcheted
      <3>2. Advanced(s, e.ctr).recv.n = (IF e.ctr <= s.recv.n THEN s.recv.n ELSE e.ctr)
        BY <1>1, <1>2, AdvancedFacts
      <3>3. t.recv.n # e.key.n
        BY <1>2, <1>3, <1>4, <2>1, <3>1, <3>2
      <3> QED
        BY <3>3
    <2>2. CASE e.dh # s.remote
      <3>1. b \in SessionType /\ b.recv.of = b.root /\ Len(b.root) = Len(s.root) + 1
        BY <1>1, <1>2, <2>2, RatchetedFacts
      <3>2. t.recv.of = b.recv.of
        BY <1>2, <3>1, AdvancedFacts
      <3>3. Len(t.recv.of) # Len(e.key.of)
        BY <1>2, <1>3, <1>4, <3>1, <3>2
      <3> QED
        BY <3>3
    <2> QED
      BY <2>1, <2>2
  <1> QED
    BY <1>3, <1>5 DEF Open

\* An envelope that opens: with a skipped key, or with the key of a chain that
\* was either there or is made by a ratchet step.
LEMMA OpenFacts ==
  ASSUME IInv, NEW p \in Party, NEW e \in SentBy(Peer(p)), Open(View(p), e) # Failed
  PROVE  LET s == View(p)
             k == <<e.dh, e.ctr>>
             b == Ratcheted(s, e.dh)
             o == Open(s, e)
         IN  /\ o \in SessionType /\ o.send = s.send /\ o.own = s.own
             /\ \/ /\ k \in DOMAIN s.skipped /\ s.skipped[k] = e.key /\ o = Used(s, k)
                   /\ o.root = s.root /\ o.recv = s.recv /\ o.remote = s.remote
                   /\ o.valid = s.valid
                   /\ DOMAIN o.skipped \subseteq DOMAIN s.skipped
                \/ /\ k \notin DOMAIN b.skipped /\ b \in SessionType /\ b.skipped = s.skipped
                   /\ b.remote = e.dh /\ b.recv.of = e.key.of /\ b.recv.n <= e.ctr
                   /\ o.root = b.root /\ o.valid = b.valid
                   /\ o.recv.of = b.recv.of /\ o.recv.n = e.ctr + 1 /\ o.remote = b.remote
                   /\ DOMAIN o.skipped = DOMAIN b.skipped \cup Passed(b, e.ctr)
                   /\ \A j \in Passed(b, e.ctr) : o.skipped[j] = [of |-> b.recv.of, n |-> j[2]]
                   /\ \A j \in DOMAIN b.skipped \ Passed(b, e.ctr) : o.skipped[j] = b.skipped[j]
  <1> DEFINE s == View(p)
             k == <<e.dh, e.ctr>>
             b == Ratcheted(s, e.dh)
             t == Advanced(b, e.ctr)
             o == Open(s, e)
  <1>1. s \in SessionType
    BY ViewType DEF IInv
  <1>2. e.dh \in Key /\ e.ctr \in Nat /\ e.key.n = e.ctr
    BY PeerEnvelope
  <1>3. CASE k \in DOMAIN s.skipped
    <2>1. s.skipped[k] = e.key /\ o = Used(s, k)
      BY <1>3 DEF Open
    <2>2. LET u == Used(s, k)
          IN  /\ u \in SessionType
              /\ u.root = s.root /\ u.send = s.send /\ u.own = s.own
              /\ u.remote = s.remote /\ u.valid = s.valid /\ u.recv = s.recv
              /\ DOMAIN u.skipped = DOMAIN s.skipped \ {k}
      BY <1>1, UsedFacts
    <2> QED
      BY <1>3, <2>1, <2>2
  <1>4. CASE k \notin DOMAIN s.skipped
    <2>1. t.recv = e.key /\ o = [t EXCEPT !.recv.n = @ + 1]
      BY <1>4 DEF Open
    <2>2. /\ b \in SessionType /\ b.send = s.send /\ b.own = s.own /\ b.skipped = s.skipped
          /\ b.remote = e.dh
      <3>1. CASE e.dh = s.remote
        <4>1. b = s
          BY <3>1 DEF Ratcheted
        <4> QED
          BY <1>1, <3>1, <4>1
      <3>2. CASE e.dh # s.remote
        BY <1>1, <1>2, <3>2, RatchetedFacts
      <3> QED
        BY <3>1, <3>2
    <2> HIDE DEF b
    <2>3. /\ t \in SessionType
          /\ t.root = b.root /\ t.send = b.send /\ t.own = b.own
          /\ t.remote = b.remote /\ t.valid = b.valid /\ t.recv.of = b.recv.of
          /\ t.recv.n = (IF e.ctr <= b.recv.n THEN b.recv.n ELSE e.ctr)
          /\ DOMAIN t.skipped = DOMAIN b.skipped \cup Passed(b, e.ctr)
          /\ \A j \in Passed(b, e.ctr) : t.skipped[j] = [of |-> b.recv.of, n |-> j[2]]
          /\ \A j \in DOMAIN b.skipped \ Passed(b, e.ctr) : t.skipped[j] = b.skipped[j]
      BY <1>2, <2>2, AdvancedFacts
    <2> HIDE DEF t
    <2>4. /\ o \in SessionType
          /\ o.root = t.root /\ o.send = t.send /\ o.own = t.own
          /\ o.remote = t.remote /\ o.valid = t.valid /\ o.skipped = t.skipped
          /\ o.recv.of = t.recv.of /\ o.recv.n = t.recv.n + 1
      BY <2>1, <2>3, TakenFacts
    <2>5. b.recv.n \in Nat
      BY <2>2, Parts
    <2>6. t.recv.n = e.ctr /\ b.recv.n <= e.ctr /\ b.recv.of = e.key.of
      BY <1>2, <2>1, <2>3, <2>5
    <2> QED
      BY <1>4, <2>2, <2>3, <2>4, <2>6 DEF b
  <1> QED
    BY <1>3, <1>4

\* A step of decryption, for the receiver and for the other side.
LEMMA DecryptView ==
  ASSUME IInv, NEW p \in Party, NEW e \in sent, Decrypt(p, e)
  PROVE  LET s == View(p)
             o == Open(s, e)
             u == View(p)'
             r == View(Peer(p))
         IN  /\ e \in SentBy(Peer(p)) /\ o # Failed
             /\ o \in SessionType /\ u \in SessionType /\ Kept(o, u)
             /\ View(Peer(p))' = r /\ session'[Peer(p)] = session[Peer(p)]
             /\ session'[p] # NoSession /\ u = session'[p] /\ DOMAIN session' = Party
             /\ dropped \subseteq dropped'
             /\ \A k \in DOMAIN o.skipped \ DOMAIN u.skipped : <<p, k>> \in dropped'
             /\ Cardinality(DOMAIN session'[p].skipped) <= Keep
             /\ sent' = sent /\ opened' = opened \cup {e} /\ replayed' = FALSE
             /\ \A x \in Party : SentBy(x)' = SentBy(x)
  <1>1. /\ Typed /\ Counted /\ session[p] # NoSession /\ e.from = Peer(p)
        /\ View(p) = session[p] /\ e \in SentBy(Peer(p))
    BY DEF Decrypt, IInv, View, SentBy
  <1>2. /\ Open(View(p), e) # Failed /\ Save(p, Open(View(p), e))
        /\ opened' = opened \cup {e} /\ sent' = sent
        /\ replayed' = (replayed \/ e \in opened)
    BY <1>1 DEF Decrypt
  <1>3. Open(View(p), e) \in SessionType
    BY <1>1, <1>2, OpenFacts
  <1>4. e \notin opened
    BY <1>1, <1>2, OpenedFails
  <1>5. replayed' = FALSE
    BY <1>1, <1>2, <1>4 DEF Counted
  <1>6. \A x \in Party : SentBy(x)' = SentBy(x)
    BY <1>2 DEF SentBy
  <1> QED
    BY <1>1, <1>2, <1>3, <1>5, <1>6, SaveFacts

LEMMA DecryptReceives ==
  ASSUME IInv, NEW p \in Party, NEW e \in sent, Decrypt(p, e)
  PROVE  Matched' /\ SkippedRight' /\ Accounted'
  <1> DEFINE s == View(p)
             b == Ratcheted(s, e.dh)
             o == Open(s, e)
             u == View(p)'
             q == Peer(p)
  <1>1. /\ e \in SentBy(q) /\ s \in SessionType /\ q \in Party /\ Peer(q) = p
        /\ o # Failed /\ o \in SessionType /\ Kept(o, u)
        /\ Receives(p, s, opened, dropped) /\ Receives(q, View(q), opened, dropped)
    BY DecryptView, ViewType, Peers, AllReceive DEF IInv
  <1>2. /\ View(q)' = View(q) /\ dropped \subseteq dropped'
        /\ \A k \in DOMAIN o.skipped \ DOMAIN u.skipped : <<p, k>> \in dropped'
        /\ opened' = opened \cup {e} /\ \A x \in Party : SentBy(x)' = SentBy(x)
    BY DecryptView
  <1>3. Receives(p, o, opened \cup {e}, dropped)
    <2>1. CASE <<e.dh, e.ctr>> \in DOMAIN s.skipped
      <3>1. s.skipped[<<e.dh, e.ctr>>] = e.key /\ o = Used(s, <<e.dh, e.ctr>>)
        BY <1>1, <2>1 DEF Open
      <3> QED
        BY <1>1, <2>1, <3>1, LateReceives
    <2>2. CASE <<e.dh, e.ctr>> \notin DOMAIN s.skipped
      <3>1. /\ <<e.dh, e.ctr>> \notin DOMAIN b.skipped /\ b \in SessionType
            /\ b.remote = e.dh /\ b.recv.of = e.key.of /\ b.recv.n <= e.ctr
            /\ o.recv.of = b.recv.of /\ o.recv.n = e.ctr + 1 /\ o.remote = b.remote
            /\ DOMAIN o.skipped = DOMAIN b.skipped \cup Passed(b, e.ctr)
            /\ \A j \in Passed(b, e.ctr) : o.skipped[j] = [of |-> b.recv.of, n |-> j[2]]
            /\ \A j \in DOMAIN b.skipped \ Passed(b, e.ctr) : o.skipped[j] = b.skipped[j]
        BY <1>1, <2>2, OpenFacts
      <3>2. Receives(p, b, opened, dropped)
        <4>1. CASE e.dh = s.remote
          BY <1>1, <4>1 DEF Ratcheted
        <4>2. CASE e.dh # s.remote
          BY <1>1, <3>1, <4>2, RatchetReceives
        <4> QED
          BY <4>1, <4>2
      <3> HIDE DEF b, o
      <3> QED
        BY <1>1, <3>1, <3>2, AdvanceReceives
    <2> QED
      BY <2>1, <2>2
  <1>4. Receives(p, u, opened \cup {e}, dropped')
    <2> HIDE DEF o, u
    <2> QED
      BY <1>1, <1>2, <1>3, SaveReceives
  <1>5. Receives(p, View(p), opened, dropped)'
    BY <1>1, <1>2, <1>4 DEF Receives
  <1>6. Receives(q, View(q), opened, dropped)'
    <2>1. u.send = s.send /\ u.own = s.own
      <3>1. o.send = s.send /\ o.own = s.own
        BY <1>1, OpenFacts
      <3> QED
        BY <1>1, <3>1 DEF Kept
    <2>2. opened' \cap SentBy(p) = opened \cap SentBy(p) /\ SentBy(p) \ opened' = SentBy(p) \ opened
      <3>1. e \notin SentBy(p)
        BY <1>1, Peers DEF SentBy
      <3> QED
        BY <1>2, <3>1
    <2> HIDE DEF u, s, o
    <2>3. Receives(q, View(q), opened', dropped')
      BY <1>1, <1>2, <2>2 DEF Receives
    <2> QED
      BY <1>1, <1>2, <2>1, <2>3 DEF Receives, u, s
  <1>7. \A x \in Party : Receives(x, View(x), opened, dropped)'
    BY <1>5, <1>6, Peers
  <1>8. (\A x \in Party : Receives(x, View(x), opened, dropped))'
        => Matched' /\ SkippedRight' /\ Accounted'
    BY AllReceive DEF Matched, SkippedRight, Accounted, Receives
  <1> QED
    BY <1>7, <1>8

LEMMA DecryptLeads ==
  ASSUME IInv, NEW p \in Party, NEW e \in sent, Decrypt(p, e)
  PROVE  \E l \in Party : Leads(l)'
  <1> DEFINE s == View(p)
             b == Ratcheted(s, e.dh)
             o == Open(s, e)
             u == View(p)'
             q == Peer(p)
             r == View(q)
  <1>1. /\ Typed /\ e \in SentBy(q) /\ s \in SessionType /\ r \in SessionType /\ q \in Party
        /\ Peer(q) = p /\ o # Failed /\ o \in SessionType /\ Kept(o, u) /\ View(q)' = r
    BY DecryptView, ViewType, Peers DEF IInv
  <1>2. o.send = s.send /\ o.own = s.own
    BY <1>1, OpenFacts
  <1>3. CASE Alike(s, o)
    <2>1. Alike(s, u) /\ Alike(r, r)
      BY <1>1, <1>3 DEF Alike, Kept
    <2>2. \A x \in Party : Alike(View(x), View(x)')
      BY <1>1, <2>1, Peers
    <2> QED
      BY <2>2, LeadStays DEF IInv
  <1>4. CASE <<e.dh, e.ctr>> \notin DOMAIN s.skipped /\ e.dh # s.remote
    <2>1. /\ b.recv.of = e.key.of /\ b.remote = e.dh
          /\ o.root = b.root /\ o.valid = b.valid
          /\ o.recv.of = b.recv.of /\ o.remote = b.remote
      BY <1>1, <1>4, OpenFacts
    <2>2. e.dh \in Key /\ Len(e.key.of) \in Nat
      BY <1>1, PeerEnvelope
    <2>3. /\ b.root = Append(s.root, DH(s.own, e.dh)) /\ b.recv.of = b.root
          /\ ~ b.valid /\ Len(b.root) = Len(s.root) + 1
      BY <1>1, <1>4, <2>2, RatchetedFacts
    <2>4. Len(e.key.of) > Len(s.root)
      <3>1. Len(s.root) \in Nat
        BY <1>1, Parts
      <3> QED
        BY <2>1, <2>2, <2>3, <3>1
    <2>5. /\ e.dh = r.own /\ r.root = Append(s.root, DH(s.own, r.own))
          /\ Leads(q) /\ r.send.of = r.root
      BY <1>1, <1>4, <2>4, NextChain
    <2>6. /\ u.root = r.root /\ u.recv.of = r.root /\ u.remote = r.own /\ ~ u.valid
          /\ u.send = s.send /\ u.own = s.own
      BY <1>1, <1>2, <2>1, <2>3, <2>5 DEF Kept
    <2>7. Followed(q, r, u)
      BY <2>6 DEF Followed
    <2>8. /\ r.valid /\ r.send.of = r.root /\ r.remote = u.own /\ r.recv.of = u.send.of
          /\ Len(r.root) = Len(u.send.of) + 1 /\ Turn(q, Len(r.root))
      BY <1>1, <2>5, <2>6 DEF Leads
    <2>9. Leads(q)'
      BY <1>1, <2>7, <2>8 DEF Leads
    <2> QED
      BY <1>1, <2>9
  <1>5. CASE <<e.dh, e.ctr>> \notin DOMAIN s.skipped /\ e.dh = s.remote
    <2>1. b = s
      BY <1>5 DEF Ratcheted
    <2>2. /\ o.root = b.root /\ o.valid = b.valid
          /\ o.recv.of = b.recv.of /\ o.remote = b.remote
      BY <1>1, <1>5, OpenFacts
    <2>3. Alike(s, o)
      BY <1>2, <2>1, <2>2 DEF Alike
    <2> QED
      BY <1>3, <2>3
  <1>6. CASE <<e.dh, e.ctr>> \in DOMAIN s.skipped
    <2>1. o = Used(s, <<e.dh, e.ctr>>)
      BY <1>1, <1>6 DEF Open
    <2>2. /\ o.root = s.root /\ o.recv = s.recv /\ o.remote = s.remote /\ o.valid = s.valid
      BY <1>1, <2>1, UsedFacts
    <2>3. Alike(s, o)
      BY <1>2, <2>2 DEF Alike
    <2> QED
      BY <1>3, <2>3
  <1> QED
    BY <1>4, <1>5, <1>6

LEMMA DecryptTyped ==
  ASSUME IInv, NEW p \in Party, NEW e \in sent, Decrypt(p, e)
  PROVE  Typed' /\ Counted'
  <1> DEFINE s == View(p)
             b == Ratcheted(s, e.dh)
             o == Open(s, e)
             u == View(p)'
             q == Peer(p)
             r == View(q)
  <1>1. /\ Typed /\ Counted /\ e \in SentBy(q) /\ q \in Party /\ Peer(q) = p
        /\ s \in SessionType /\ r \in SessionType /\ u \in SessionType
        /\ o # Failed /\ o \in SessionType /\ Kept(o, u) /\ View(q)' = r
    BY DecryptView, ViewType, Peers DEF IInv
  <1>2. /\ session'[q] = session[q] /\ session'[p] # NoSession /\ u = session'[p]
        /\ DOMAIN session' = Party /\ Cardinality(DOMAIN session'[p].skipped) <= Keep
        /\ sent' = sent /\ opened' = opened \cup {e} /\ replayed' = FALSE
        /\ \A x \in Party : SentBy(x)' = SentBy(x)
    BY DecryptView
  <1>3. /\ e.ctr \in Nat /\ e.dh \in Key /\ e.dh[1] = q /\ e.dh[2] <= r.own[2]
        /\ e.dh[2] \in Nat /\ e.ctr < MaxSend
    BY <1>1, PeerEnvelope DEF Counted
  <1>4. /\ s.own[1] = p /\ s.remote[1] = q /\ s.own[2] <= Cardinality(SentBy(p))
        /\ s.send.n <= Cardinality(SentBy(p)) /\ s.remote[2] <= MaxSend
        /\ s.recv.n <= MaxSend /\ Len(s.recv.of) <= Len(s.root)
        /\ r.own[2] <= Cardinality(SentBy(q)) /\ Cardinality(SentBy(q)) <= MaxSend
    BY <1>1 DEF Typed, Counted
  <1>5. r.own[2] \in Nat /\ s.recv.n \in Nat /\ Cardinality(SentBy(q)) \in Nat
    <2>1. SentBy(q) \subseteq sent
      BY DEF SentBy
    <2>2. IsFiniteSet(SentBy(q))
      BY <1>1, <2>1, FS_Subset DEF Typed
    <2> QED
      BY <1>1, <2>2, Parts, FS_CardinalityType
  <1>6. e.dh[2] <= MaxSend
    BY <1>3, <1>4, <1>5
  <1>7. /\ o.send = s.send /\ o.own = s.own /\ o.remote[1] = q /\ o.remote[2] <= MaxSend
        /\ o.recv.n <= MaxSend /\ Len(o.recv.of) <= Len(o.root)
    <2>1. o.send = s.send /\ o.own = s.own
      BY <1>1, OpenFacts
    <2>2. CASE <<e.dh, e.ctr>> \in DOMAIN s.skipped
      <3>1. o = Used(s, <<e.dh, e.ctr>>)
        BY <1>1, <2>2 DEF Open
      <3>2. o.root = s.root /\ o.recv = s.recv /\ o.remote = s.remote
        BY <1>1, <3>1, UsedFacts
      <3> QED
        BY <1>4, <2>1, <3>2
    <2>3. CASE <<e.dh, e.ctr>> \notin DOMAIN s.skipped
      <3>1. /\ o.root = b.root /\ b.remote = e.dh
            /\ o.recv.of = b.recv.of /\ o.recv.n = e.ctr + 1 /\ o.remote = b.remote
        BY <1>1, <2>3, OpenFacts
      <3>2. o.recv.n <= MaxSend
        BY <1>3, <3>1
      <3>3. Len(b.recv.of) <= Len(b.root)
        <4>1. CASE e.dh = s.remote
          BY <1>4, <4>1 DEF Ratcheted
        <4>2. CASE e.dh # s.remote
          <5>1. b.recv.of = b.root /\ Len(b.root) = Len(s.root) + 1
            BY <1>1, <1>3, <4>2, RatchetedFacts
          <5>2. Len(s.root) \in Nat
            BY <1>1, Parts
          <5> QED
            BY <5>1, <5>2
        <4> QED
          BY <4>1, <4>2
      <3> QED
        BY <1>3, <1>6, <2>1, <3>1, <3>2, <3>3
    <2> QED
      BY <2>2, <2>3
  <1>8. /\ u.own = s.own /\ u.send = s.send /\ u.remote = o.remote /\ u.recv = o.recv
        /\ u.root = o.root
    BY <1>1, <1>7 DEF Kept
  <1> HIDE DEF u, o, b
  <1>9. Typed'
    <2>1. session'["alice"] # NoSession
      BY <1>1, <1>2, Peers DEF Typed
    <2>2. \A x \in Party : View(x)' \in SessionType
      BY <1>1, Peers DEF u
    <2>3. \A x \in Party : /\ View(x)'.own[1] = x /\ View(x)'.remote[1] = Peer(x)
                           /\ Len(View(x)'.recv.of) <= Len(View(x)'.root)
      <3>1. u.own[1] = p /\ u.remote[1] = q /\ Len(u.recv.of) <= Len(u.root)
        BY <1>4, <1>7, <1>8
      <3>2. r.own[1] = q /\ r.remote[1] = p /\ Len(r.recv.of) <= Len(r.root)
        BY <1>1 DEF Typed
      <3> QED
        BY <1>1, <3>1, <3>2, Peers DEF u
    <2>4. \A f \in sent' : session'[f.from] # NoSession
      <3>1. \A f \in sent : f.from \in Party /\ session[f.from] # NoSession
        BY <1>1, EnvelopeParts DEF Typed
      <3>2. \A x \in Party : session[x] # NoSession => session'[x] # NoSession
        BY <1>2, Peers
      <3> QED
        BY <1>2, <3>1, <3>2
    <2>5. sent' \subseteq Envelope /\ opened' \subseteq sent' /\ IsFiniteSet(sent')
      BY <1>1, <1>2 DEF Typed
    <2> QED
      BY <1>2, <2>1, <2>2, <2>3, <2>4, <2>5 DEF Typed
  <1>10. Counted'
    <2> DEFINE Small(x) ==
                 /\ View(x)'.own[2] <= Cardinality(SentBy(x)')
                 /\ View(x)'.send.n <= Cardinality(SentBy(x)')
                 /\ View(x)'.remote[2] <= MaxSend
                 /\ Cardinality(SentBy(x)') <= MaxSend
                 /\ View(x)'.recv.n <= MaxSend
                 /\ session'[x] # NoSession => Cardinality(DOMAIN session'[x].skipped) <= Keep
    <2>1. Small(p)
      <3>1. Cardinality(SentBy(p)) <= MaxSend
        BY <1>1 DEF Counted
      <3> QED
        BY <1>2, <1>4, <1>7, <1>8, <3>1 DEF u
    <2>2. Small(q)
      BY <1>1, <1>2 DEF Counted
    <2>3. \A x \in Party : Small(x)
      <3> HIDE DEF Small
      <3> QED
        BY <2>1, <2>2, Peers
    <2>4. \A f \in sent' : f.ctr < MaxSend
      BY <1>1, <1>2 DEF Counted
    <2> QED
      BY <1>2, <2>3, <2>4 DEF Counted
  <1> QED
    BY <1>9, <1>10

LEMMA DecryptSealed ==
  ASSUME IInv, NEW p \in Party, NEW e \in sent, Decrypt(p, e)
  PROVE  Sealed' /\ Named'
  <1> DEFINE s == View(p)
             u == View(p)'
             o == Open(s, e)
  <1>1. e \in SentBy(Peer(p)) /\ o # Failed /\ Kept(o, u) /\ View(Peer(p))' = View(Peer(p))
        /\ sent' = sent
    BY DecryptView
  <1>2. u.own = s.own /\ u.send = s.send
    BY <1>1, OpenFacts DEF Kept
  <1>3. \A x \in Party : View(x)'.own = View(x).own /\ View(x)'.send = View(x).send
    BY <1>1, <1>2, Peers
  <1>4. \A f \in sent : f.from \in Party
    BY EnvelopeParts DEF IInv, Typed
  <1>5. Sealed'
    BY <1>1, <1>3, <1>4 DEF IInv, Sealed
  <1>6. Named'
    BY <1>1 DEF IInv, Named
  <1> QED
    BY <1>5, <1>6

-----------------------------------------------------------------------------
(* All steps.                                                              *)

LEMMA BeginsInv == ASSUME IInv, BobBegins PROVE IInv'
  <1>1. /\ session["bob"] = NoSession /\ session' = [session EXCEPT !["bob"] = session_init_bob]
        /\ sent' = sent /\ opened' = opened /\ replayed' = replayed /\ dropped' = dropped
    BY DEF BobBegins
  <1>2. /\ DOMAIN session = Party /\ session["alice"] # NoSession /\ Typed /\ Counted
    BY DEF IInv, Typed
  <1>3. session_init_bob # NoSession
    BY FirstSessions, IsSession
  <1>4. /\ session'["bob"] = session_init_bob /\ session'["alice"] = session["alice"]
        /\ DOMAIN session' = Party
    BY <1>1, <1>2 DEF Party
  <1>5. \A x \in Party : View(x)' = View(x)
    BY <1>1, <1>3, <1>4 DEF View, Party
  <1>6. \A x \in Party : SentBy(x)' = SentBy(x)
    BY <1>1 DEF SentBy
  <1>7. \A f \in sent : f.from \in Party
    BY EnvelopeParts DEF IInv, Typed
  <1>8. Cardinality(DOMAIN session_init_bob.skipped) = 0
    <2>1. DOMAIN session_init_bob.skipped = {}
      BY DEF session_init_bob, NoKeys
    <2> QED
      BY <2>1, FS_EmptySet
  <1>9. Typed'
    BY <1>1, <1>2, <1>4, <1>3, <1>5, <1>7 DEF Typed, Party
  <1>10. Counted'
    BY <1>1, <1>2, <1>4, <1>5, <1>6, <1>8 DEF Counted, Party
  <1>11. Sealed' /\ Named'
    BY <1>1, <1>5, <1>7 DEF IInv, Sealed, Named
  <1>12. Matched' /\ SkippedRight' /\ Accounted'
    <2>1. Matched'
      BY <1>5, <1>6, Peers DEF IInv, Matched
    <2>2. SkippedRight'
      BY <1>5, <1>6, Peers DEF IInv, SkippedRight
    <2>3. Accounted'
      BY <1>1, <1>5, <1>6, Peers DEF IInv, Accounted
    <2> QED
      BY <2>1, <2>2, <2>3
  <1>13. \E l \in Party : Leads(l)'
    BY <1>5, Peers DEF IInv, Leads
  <1> QED
    BY <1>9, <1>10, <1>11, <1>12, <1>13 DEF IInv

LEMMA StepInv == IInv /\ [Next]_vars => IInv'
  <1> SUFFICES ASSUME IInv, [Next]_vars PROVE IInv'
    OBVIOUS
  <1>1. CASE BobBegins
    BY <1>1, BeginsInv
  <1>2. ASSUME NEW p \in Party, Encrypt(p) PROVE IInv'
    BY <1>2, EncryptLeads, EncryptTyped, EncryptSealed, EncryptMatched DEF IInv
  <1>3. ASSUME NEW p \in Party, NEW e \in sent, Decrypt(p, e) PROVE IInv'
    BY <1>3, DecryptLeads, DecryptTyped, DecryptSealed, DecryptReceives DEF IInv
  <1>4. CASE UNCHANGED vars
    <2>1. /\ \A x \in Party : View(x)' = View(x) /\ SentBy(x)' = SentBy(x)
          /\ session' = session /\ sent' = sent /\ opened' = opened
          /\ replayed' = replayed /\ dropped' = dropped
      BY <1>4 DEF vars, View, SentBy
    <2>2. \A f \in sent : f.from \in Party
      BY EnvelopeParts DEF IInv, Typed
    <2>3. \A x \in Party : Leads(x)' <=> Leads(x)
      BY <2>1, Peers DEF Leads
    <2>4. Typed' /\ Counted'
      BY <2>1 DEF IInv, Typed, Counted
    <2>5. Sealed' /\ Named'
      BY <2>1, <2>2 DEF IInv, Sealed, Named
    <2>6. Matched'
      BY <2>1, Peers DEF IInv, Matched
    <2>7. SkippedRight'
      BY <2>1, Peers DEF IInv, SkippedRight
    <2>8. Accounted'
      <3>1. opened' = opened /\ dropped' = dropped
        BY <2>1
      <3> QED
        BY <2>1, <3>1, Peers DEF IInv, Accounted
    <2> QED
      BY <2>3, <2>4, <2>5, <2>6, <2>7, <2>8 DEF IInv
  <1>5. ASSUME NEW p \in Party, NEW e \in sent, DecryptFails(p, e) PROVE IInv'
    BY <1>4, <1>5 DEF DecryptFails
  <1> QED
    BY <1>1, <1>2, <1>3, <1>4, <1>5 DEF Next

LEMMA Invariance == Spec => []IInv
  <1>1. Init => IInv
    BY InitInv
  <1>2. IInv /\ [Next]_vars => IInv'
    BY StepInv
  <1> QED
    BY <1>1, <1>2, PTL DEF Spec

-----------------------------------------------------------------------------
(* The properties.                                                         *)

\* Counters, keys and saved keys stay in their ranges, and what was opened was
\* sent: a session that session_encrypt or session_decrypt saves has one.
THEOREM TypesCorrect == Spec => []TypeOK
  <1>1. IInv => TypeOK
    <2> SUFFICES ASSUME IInv PROVE TypeOK
      OBVIOUS
    <2>1. Typed /\ Counted /\ MaxSend \in Nat
      BY DEF IInv
    <2>2. ASSUME NEW p \in Party, session[p] # NoSession
          PROVE  /\ session[p].send.n \in 0 .. MaxSend /\ session[p].recv.n \in 0 .. MaxSend
                 /\ session[p].own \in {p} \X (0 .. MaxSend)
                 /\ session[p].remote \in {Peer(p)} \X (0 .. MaxSend)
                 /\ session[p].valid \in BOOLEAN
                 /\ Cardinality(DOMAIN session[p].skipped) <= Keep
      <3> DEFINE s == session[p]
      <3>1. s = View(p)
        BY <2>2 DEF View
      <3>2. s \in SessionType
        BY <2>1, <3>1, ViewType
      <3>3. /\ s.send.n \in Nat /\ s.recv.n \in Nat /\ s.valid \in BOOLEAN
            /\ s.own \in Key /\ s.remote \in Key /\ s.own[2] \in Nat /\ s.remote[2] \in Nat
        BY <3>2, Parts
      <3>4. Cardinality(SentBy(p)) \in Nat
        <4>1. SentBy(p) \subseteq sent
          BY DEF SentBy
        <4> QED
          BY <2>1, <4>1, FS_Subset, FS_CardinalityType DEF Typed
      <3>5. /\ s.own[2] <= Cardinality(SentBy(p)) /\ s.send.n <= Cardinality(SentBy(p))
            /\ s.remote[2] <= MaxSend /\ Cardinality(SentBy(p)) <= MaxSend
            /\ s.recv.n <= MaxSend /\ Cardinality(DOMAIN s.skipped) <= Keep
        BY <2>1, <2>2, <3>1 DEF Counted
      <3>6. s.own[1] = p /\ s.remote[1] = Peer(p)
        BY <2>1, <3>1 DEF Typed
      <3>7. s.own = <<s.own[1], s.own[2]>> /\ s.remote = <<s.remote[1], s.remote[2]>>
        BY <3>3 DEF Key
      <3>8. s.own[2] \in 0 .. MaxSend /\ s.remote[2] \in 0 .. MaxSend
        BY <2>1, <3>3, <3>4, <3>5
      <3>9. s.own \in {p} \X (0 .. MaxSend) /\ s.remote \in {Peer(p)} \X (0 .. MaxSend)
        BY <3>6, <3>7, <3>8
      <3>10. s.send.n \in 0 .. MaxSend /\ s.recv.n \in 0 .. MaxSend
        BY <2>1, <3>3, <3>4, <3>5
      <3> QED
        BY <3>3, <3>5, <3>9, <3>10
    <2>3. ASSUME NEW e \in sent PROVE e.from \in Party /\ e.ctr \in 0 .. MaxSend
      <3>1. e \in Envelope /\ e.ctr < MaxSend
        BY <2>1 DEF Typed, Counted
      <3>2. e.from \in Party /\ e.ctr \in Nat
        BY <3>1, EnvelopeParts
      <3> QED
        BY <2>1, <3>1, <3>2
    <2>4. opened \subseteq sent /\ replayed \in BOOLEAN
      BY <2>1 DEF Typed, Counted
    <2> QED
      BY <2>2, <2>3, <2>4 DEF TypeOK
  <1> QED
    BY <1>1, Invariance, PTL

\* No two envelopes of a session are sealed with the same message key, however
\* often the clients rotate: encrypt() may use its fixed nonces.
THEOREM OneKeyPerEnvelope == Spec => []KeysAreOneTime
  <1>1. IInv => KeysAreOneTime
    <2> SUFFICES ASSUME IInv, NEW e \in sent, NEW f \in sent, e.key = f.key PROVE e = f
      BY DEF KeysAreOneTime
    <2>1. e.from \in Party /\ f.from \in Party /\ Len(e.key.of) \in Nat
      BY EnvelopeParts DEF IInv, Typed
    <2>2. Turn(e.from, Len(e.key.of)) /\ Turn(f.from, Len(e.key.of))
      BY DEF IInv, Sealed
    <2>3. e.from = f.from
      <3>1. \A n : ~ (Turn("alice", n) /\ Turn("bob", n))
        <4>1. \A m : ~ (m = 1 /\ m = 0)
          OBVIOUS
        <4> QED
          BY <4>1, Zenon DEF Turn
      <3> QED
        BY <2>1, <2>2, <3>1 DEF Party
    <2> QED
      BY <2>3 DEF IInv, Named
  <1> QED
    BY <1>1, Invariance, PTL

\* An envelope that arrives again, at whatever time and after whatever loss of
\* skipped keys, fails in session_decrypt.
THEOREM ReplayFails == Spec => []NoReplay
  <1>1. IInv => NoReplay
    BY DEF IInv, Counted, NoReplay
  <1> QED
    BY <1>1, Invariance, PTL

\* A key under the name of an envelope opens it.
LEMMA LateOpens ==
  ASSUME IInv, NEW p \in Party, NEW e \in SentBy(Peer(p)),
         <<e.dh, e.ctr>> \in DOMAIN View(p).skipped
  PROVE  Open(View(p), e) # Failed
  <1> DEFINE s == View(p)
             k == <<e.dh, e.ctr>>
  <1>1. s \in SessionType /\ Typed
    BY ViewType DEF IInv
  <1>2. s.skipped[k] = e.key
    BY DEF IInv, SkippedRight
  <1>3. Used(s, k) \in SessionType
    BY <1>1, UsedFacts
  <1>4. Open(s, e) = Used(s, k)
    BY <1>2 DEF Open
  <1> QED
    BY <1>3, <1>4, IsSession

\* A receive chain that has an envelope's root, and has not passed its counter, opens it.
LEMMA AheadOpens ==
  ASSUME NEW s \in SessionType, NEW e \in Envelope,
         <<e.dh, e.ctr>> \notin DOMAIN s.skipped,
         Ratcheted(s, e.dh) \in SessionType,
         Ratcheted(s, e.dh).recv.of = e.key.of, Ratcheted(s, e.dh).recv.n <= e.ctr,
         e.key.n = e.ctr
  PROVE  Open(s, e) # Failed
  <1> DEFINE b == Ratcheted(s, e.dh)
             t == Advanced(b, e.ctr)
  <1>1. e.ctr \in Nat /\ e.key \in ChainType /\ b.recv.n \in Nat
    BY EnvelopeParts, Parts
  <1>2. t \in SessionType /\ t.recv.of = b.recv.of
        /\ t.recv.n = (IF e.ctr <= b.recv.n THEN b.recv.n ELSE e.ctr)
    <2> HIDE DEF b
    <2> QED
      BY <1>1, AdvancedFacts DEF b
  <1>3. t.recv.n = e.ctr
    BY <1>1, <1>2
  <1>4. t.recv \in ChainType
    BY <1>2, Parts
  <1>5. t.recv = e.key
    BY <1>1, <1>2, <1>3, <1>4, SameChain
  <1>6. [t EXCEPT !.recv.n = @ + 1] \in SessionType
    <2> HIDE DEF t
    <2> QED
      BY <1>2, TakenFacts
  <1>7. Open(s, e) = [t EXCEPT !.recv.n = @ + 1]
    BY <1>5 DEF Open
  <1> QED
    BY <1>6, <1>7, IsSession

\* Whatever was lost, repeated or overtaken, session_decrypt opens every
\* envelope of the peer's present chain once, unless its key was dropped.
THEOREM PresentChainOpens == Spec => []LatestChainOpens
  <1>1. IInv => LatestChainOpens
    <2> SUFFICES ASSUME IInv, NEW p \in Party, NEW e \in sent \ opened,
                        e.from = Peer(p), session[p] # NoSession,
                        e.dh = session[Peer(p)].own, <<p, <<e.dh, e.ctr>>>> \notin dropped
                 PROVE  Open(session[p], e) # Failed
      BY DEF LatestChainOpens
    <2> DEFINE s == View(p)
               r == View(Peer(p))
    <2>1. e \in SentBy(Peer(p)) /\ e \in SentBy(Peer(p)) \ opened
      BY DEF SentBy
    <2>2. /\ Typed /\ \E l \in Party : Leads(l)
          /\ s \in SessionType /\ r \in SessionType /\ s = session[p]
      BY ViewType DEF IInv, View
    <2>3. session[Peer(p)] # NoSession
      BY <2>2 DEF Typed
    <2>4. e.dh = r.own
      BY <2>3 DEF View
    <2>5. /\ e \in Envelope /\ e.key.n = e.ctr /\ e.ctr \in Nat /\ e.dh \in Key
          /\ Len(e.key.of) = Len(r.send.of) /\ e.key.of = r.send.of
      BY <2>1, <2>4, PeerEnvelope
    <2>6. CASE <<e.dh, e.ctr>> \in DOMAIN s.skipped
      BY <2>1, <2>2, <2>6, LateOpens
    <2>7. CASE <<e.dh, e.ctr>> \notin DOMAIN s.skipped /\ e.dh = s.remote
      <3>1. Ratcheted(s, e.dh) = s
        BY <2>7 DEF Ratcheted
      <3>2. e.key.of = s.recv.of
        BY <2>1, <2>7 DEF IInv, Matched
      <3>3. ~ (e.ctr < s.recv.n)
        BY <2>1, <2>7 DEF IInv, Accounted
      <3>4. s.recv.n <= e.ctr
        <4>1. s.recv.n \in Nat
          BY <2>2, Parts
        <4> QED
          BY <2>5, <3>3, <4>1
      <3> HIDE DEF s
      <3> QED
        BY <2>2, <2>5, <2>7, <3>1, <3>2, <3>4, AheadOpens
    <2>8. CASE <<e.dh, e.ctr>> \notin DOMAIN s.skipped /\ e.dh # s.remote
      <3>1. Len(r.send.of) <= Len(s.root) => s.remote = r.own
        BY <2>2, Aligned
      <3>2. Len(e.key.of) > Len(s.root)
        <4>1. Len(r.send.of) \in Nat /\ Len(s.root) \in Nat
          BY <2>2, Parts
        <4> QED
          BY <2>4, <2>5, <2>8, <3>1, <4>1
      <3>3. r.root = Append(s.root, DH(s.own, r.own)) /\ r.send.of = r.root
        BY <2>1, <2>8, <3>2, NextChain
      <3> DEFINE b == Ratcheted(s, e.dh)
      <3>4. /\ b \in SessionType /\ b.root = Append(s.root, DH(s.own, e.dh))
            /\ b.recv.of = b.root /\ b.recv.n = 0
        BY <2>2, <2>5, <2>8, RatchetedFacts
      <3>5. b.recv.of = e.key.of /\ b.recv.n <= e.ctr
        BY <2>4, <2>5, <3>3, <3>4
      <3> HIDE DEF s
      <3> QED
        BY <2>2, <2>5, <2>8, <3>4, <3>5, AheadOpens
    <2> QED
      BY <2>6, <2>7, <2>8
  <1> QED
    BY <1>1, Invariance, PTL
=============================================================================
