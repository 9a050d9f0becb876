------------------------------- MODULE Ledger -------------------------------
(***************************************************************************)
(* The ledger of public key bundles: register_finish and merkle_append of  *)
(* src/app/routers/opaque.py, and the reads of directory.py.               *)
(*                                                                         *)
(* A registration is one database transaction with several awaits.         *)
(* PostgreSQL (the database of production) runs it READ COMMITTED: it sees *)
(* what others committed before each statement; a row that it wrote is     *)
(* locked until it ends; an insertion that meets a committed row with the  *)
(* same key fails.  The session flushes the user's rows before it lists    *)
(* the leaves, so that registrations of one user come one after the other. *)
(*                                                                         *)
(* The n-th bundle that a user commits is numbered n, and its leaf is      *)
(* <<user, n>>.  password_files, key_bundles and user_envelopes get their  *)
(* rows in the same transaction and none is deleted: `bundle` is all three.*)
(***************************************************************************)
EXTENDS Merkle

CONSTANTS
    User,           \* account names
    Txn,            \* requests that may be under way at once
    MaxVersion,     \* bound: bundles that a user may commit
    MaxLeaves       \* bound: leaves of the trees that are compared with their definition

ASSUME LedgerConstants == MaxVersion \in Nat \ {0} /\ MaxLeaves \in Nat

VARIABLES
    bundle,         \* key_bundles: the number of the user's bundle, 0 for no row
    leafIdx,        \* key_bundles.leaf_idx
    rows,           \* merkle_leaves: the row of idx i is at position i + 1
    state,          \* merkle_state: size and root, or NoState
    pc,             \* the await that a request is at
    who,            \* the user it is about
    known,          \* it found the user's rows
    snap,           \* the leaves it listed
    base,           \* merkle_state as it loaded it
    read,           \* the number of the bundle that get_keys loaded
    lapsed,         \* history: registrations whose listing is out of date
    clean,          \* history: the last commit was not one of those
    answer          \* history: the last answer of get_keys

tables == <<bundle, leafIdx, rows, state>>
vars == <<tables, pc, who, known, snap, base, read, lapsed, clean, answer>>

NoState == [size |-> 0, root |-> <<"none">>]
NoAnswer == [user |-> "none"]
Nobody == "nobody"
Leaf == User \X (1 .. MaxVersion)

TypeOK ==
    /\ bundle \in [User -> 0 .. MaxVersion]
    /\ leafIdx \in [User -> Nat]
    /\ rows \in Seq(Leaf)
    /\ state.size \in Nat
    /\ pc \in [Txn -> {"idle", "load", "rows", "leaf", "commit", "keys"}]
    /\ who \in [Txn -> User \cup {Nobody}]
    /\ known \in [Txn -> BOOLEAN]
    /\ snap \in [Txn -> Seq(Leaf)]
    /\ read \in [Txn -> 0 .. MaxVersion]
    /\ lapsed \subseteq Txn
    /\ clean \in BOOLEAN

Init ==
    /\ bundle = [u \in User |-> 0]
    /\ leafIdx = [u \in User |-> 0]
    /\ rows = <<>>
    /\ state = NoState
    /\ pc = [t \in Txn |-> "idle"]
    /\ who = [t \in Txn |-> Nobody]
    /\ known = [t \in Txn |-> FALSE]
    /\ snap = [t \in Txn |-> <<>>]
    /\ base = [t \in Txn |-> NoState]
    /\ read = [t \in Txn |-> 0]
    /\ lapsed = {} /\ clean = TRUE
    /\ answer = NoAnswer

Goto(t, l) == pc' = [pc EXCEPT ![t] = l]

\* The request ends and its session is dropped.
Forget(t) ==
    /\ Goto(t, "idle")
    /\ who' = [who EXCEPT ![t] = Nobody]
    /\ known' = [known EXCEPT ![t] = FALSE]
    /\ snap' = [snap EXCEPT ![t] = <<>>]
    /\ base' = [base EXCEPT ![t] = NoState]
    /\ read' = [read EXCEPT ![t] = 0]

\* Registrations that hold the lock of their user's rows, and of their leaf.
Listed == {t \in Txn : pc[t] \in {"leaf", "commit"}}
Written == {t \in Txn : pc[t] = "commit"}

PositionIn(s, u) == {i \in DOMAIN s : s[i][1] = u}
Replaces(t) == PositionIn(snap[t], who[t]) # {}
NewLeaf(t) == <<who[t], bundle[who[t]] + 1>>

\* Mutants: the new leaf is always appended; a new leaf is the name alone.
RowsAppended(t) == Append(rows, NewLeaf(t))

RowsBare(t) == IF Replaces(t) THEN rows ELSE Append(rows, <<who[t]>>)

\* The table with the new leaf, over the user's row if the listing showed one, or
\* at the index after the listed ones (which WriteLeaf found free).
RowsWith(t) ==
    IF Replaces(t)
    THEN [i \in DOMAIN rows |-> IF i \in PositionIn(snap[t], who[t]) THEN NewLeaf(t) ELSE rows[i]]
    ELSE Append(rows, NewLeaf(t))

\* The listing with the new leaf in place, or at the end.
ListedWith(t) ==
    IF Replaces(t)
    THEN [i \in DOMAIN snap[t] |-> IF snap[t][i][1] = who[t] THEN NewLeaf(t) ELSE snap[t][i]]
    ELSE Append(snap[t], NewLeaf(t))

-----------------------------------------------------------------------------
(* register_finish.                                                        *)

\* The bundle is well formed and the sidecar accepts the upload.
Begin(t, u) ==
    /\ pc[t] = "idle"
    /\ who' = [who EXCEPT ![t] = u]
    /\ Goto(t, "load")
    /\ UNCHANGED <<tables, known, snap, base, read, lapsed, clean, answer>>

LoadUser(t) ==
    /\ pc[t] = "load"
    /\ known' = [known EXCEPT ![t] = bundle[who[t]] # 0]
    /\ Goto(t, "rows")
    /\ UNCHANGED <<tables, who, snap, base, read, lapsed, clean, answer>>

\* The user's rows are written, and the leaves listed.
WriteUser(t) ==
    /\ pc[t] = "rows"
    /\ \A o \in Listed : who[o] # who[t]
    /\ known[t] \/ bundle[who[t]] = 0
    /\ bundle[who[t]] < MaxVersion
    /\ snap' = [snap EXCEPT ![t] = rows]
    /\ Goto(t, "leaf")
    /\ UNCHANGED <<tables, who, known, base, read, lapsed, clean, answer>>

\* A registration of the same user committed its first rows meanwhile.
UserClash(t) ==
    /\ pc[t] = "rows"
    /\ \A o \in Listed : who[o] # who[t]
    /\ ~known[t] /\ bundle[who[t]] # 0
    /\ Forget(t)
    /\ UNCHANGED <<tables, lapsed, clean, answer>>

\* Another registration holds the same new index: the database makes us wait.
IndexHeld(t) == \E o \in Written : ~Replaces(o) /\ Len(snap[o]) = Len(snap[t])

\* merkle_state is loaded and the leaf written, over the user's old one or at
\* the index after the listed ones.
WriteLeaf(t) ==
    /\ pc[t] = "leaf"
    /\ Replaces(t) \/ (~IndexHeld(t) /\ Len(snap[t]) = Len(rows))
    /\ base' = [base EXCEPT ![t] = state]
    /\ Goto(t, "commit")
    /\ UNCHANGED <<tables, who, known, snap, read, lapsed, clean, answer>>

\* The index is taken: IntegrityError.
IndexClash(t) ==
    /\ pc[t] = "leaf"
    /\ ~Replaces(t) /\ ~IndexHeld(t) /\ Len(snap[t]) < Len(rows)
    /\ Forget(t)
    /\ lapsed' = lapsed \ {t}
    /\ UNCHANGED <<tables, clean, answer>>

\* Mutant: the root is computed before the new leaf is put in place.
ComputedBefore(t) ==
    [size |-> Len(ListedWith(t)), root |-> compute_root(snap[t])]

\* The root and the size of what this request listed, with its own leaf.
Computed(t) ==
    [size |-> Len(ListedWith(t)), root |-> compute_root(ListedWith(t))]

\* The ORM inserts the row (nobody else does: of two that found none, the index of
\* the first leaf stops one), or writes the columns that differ from the loaded ones.
Merged(t) ==
    IF base[t] = NoState THEN Computed(t)
    ELSE [size |-> IF Computed(t).size # base[t].size THEN Computed(t).size ELSE state.size,
          root |-> IF Computed(t).root # base[t].root THEN Computed(t).root ELSE state.root]

\* What the commits have in common: the others' listings are out of date now.
Committed(t) ==
    /\ bundle' = [bundle EXCEPT ![who[t]] = @ + 1]
    /\ rows' = RowsWith(t)
    /\ lapsed' = (lapsed \cup Listed) \ {t}
    /\ clean' = (t \notin lapsed)
    /\ Forget(t)
    /\ UNCHANGED answer

Commit(t) ==
    /\ pc[t] = "commit"
    /\ Committed(t)
    /\ state' = Merged(t)
    /\ leafIdx' = [leafIdx EXCEPT ![who[t]] =
         IF known[t] THEN (CHOOSE i \in PositionIn(rows', who[t]) : TRUE) - 1 ELSE @]

\* A failure of the database, a cancellation, the end of the process.
Abort(t) ==
    /\ pc[t] # "idle"
    /\ Forget(t)
    /\ lapsed' = lapsed \ {t}
    /\ UNCHANGED <<tables, clean, answer>>

-----------------------------------------------------------------------------
(* get_keys: the bundle, then the leaves, in two statements.               *)

ReadBundle(t, u) ==
    /\ pc[t] = "idle" /\ bundle[u] # 0
    /\ who' = [who EXCEPT ![t] = u]
    /\ read' = [read EXCEPT ![t] = bundle[u]]
    /\ Goto(t, "keys")
    /\ UNCHANGED <<tables, known, snap, base, lapsed, clean, answer>>

\* Mutant: the answer takes the newest leaf of the ledger for the user's.
ReadLastLeaf(t) ==
    /\ pc[t] = "keys" /\ PositionIn(rows, who[t]) # {}
    /\ answer' = [user |-> who[t], bundle |-> read[t], leaf |-> rows[Len(rows)],
                  position |-> Len(rows), proof |-> merkle_proof(rows, Len(rows)),
                  root |-> compute_root(rows), size |-> Len(rows)]
    /\ Forget(t)
    /\ UNCHANGED <<tables, lapsed, clean>>

ReadLeaves(t) ==
    /\ pc[t] = "keys"
    /\ \E p \in PositionIn(rows, who[t]) :
         /\ \A q \in PositionIn(rows, who[t]) : p <= q
         /\ answer' = [user |-> who[t], bundle |-> read[t], leaf |-> rows[p],
                       position |-> p, proof |-> merkle_proof(rows, p),
                       root |-> compute_root(rows), size |-> Len(rows)]
    /\ Forget(t)
    /\ UNCHANGED <<tables, lapsed, clean>>

\* GET /merkle/root.
merkle_root == IF state = NoState THEN [size |-> Len(rows), root |-> compute_root(rows)]
               ELSE state

-----------------------------------------------------------------------------

Register(t) ==
    \/ LoadUser(t) \/ WriteUser(t) \/ UserClash(t) \/ WriteLeaf(t) \/ IndexClash(t)
    \/ Commit(t)

Next == \E t \in Txn :
    \/ Register(t) \/ Abort(t) \/ ReadLeaves(t)
    \/ \E u \in User : Begin(t, u) \/ ReadBundle(t, u)

Spec == Init /\ [][Next]_vars

-----------------------------------------------------------------------------
(* Properties.                                                             *)

\* However registrations overlap and fail, the table of leaves holds exactly one
\* leaf of each registered user, that of the bundle in the directory.  No
\* constraint of the table says so ("Replace existing user's leaf position if
\* re-registering, else append", opaque.py:59).
LeavesMatchBundles ==
    /\ \A i, j \in DOMAIN rows : rows[i][1] = rows[j][1] => i = j
    /\ \A i \in DOMAIN rows : rows[i][2] = bundle[rows[i][1]]
    /\ \A u \in User : bundle[u] # 0 => PositionIn(rows, u) # {}

\* Registrations that overlap may leave a root that lacks a leaf.  The next one
\* that nobody overtakes repairs it: after its commit, GET /merkle/root gives the
\* root of the leaves, and their number.
CleanRootIsCurrent ==
    clean => merkle_root = [size |-> Len(rows), root |-> compute_root(rows)]

\* A client can follow the proof of an answer of GET /keys from the leaf of the
\* user it asked about up to the root of the same answer, whatever committed
\* between the two statements; the leaf is that of the bundle or of a newer one.
AnswerIsProved ==
    answer # NoAnswer =>
        /\ answer.leaf[1] = answer.user /\ answer.leaf[2] >= answer.bundle
        /\ Climb(answer.leaf, answer.proof, answer.position) = answer.root

\* compute_root is the root of the tree in which a missing node stands for the last
\* one of its level (merkle.py:4), and merkle_proof leads from every leaf to it: for
\* every number of leaves up to MaxLeaves.  The state does not matter to that, so
\* that TLC evaluates it only as long as the ledger is empty.
TreeIsRight ==
    rows = <<>> => \A n \in 1 .. MaxLeaves : RightTree([i \in 1 .. n |-> <<"leaf", i>>])
=============================================================================
