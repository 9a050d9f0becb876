------------------------------- MODULE Merkle -------------------------------
(***************************************************************************)
(* The hash tree of src/app/merkle.py.  Hashes are symbols: the hash of    *)
(* two nodes is the pair of them, so two roots are equal exactly when the  *)
(* trees are.  A list of leaves is a sequence; position p of it is index   *)
(* p - 1 of the code.                                                      *)
(***************************************************************************)
EXTENDS Naturals, Sequences

EmptyRoot == <<>>

\* An odd level repeats its last node ...
Padded(level) ==
    IF Len(level) % 2 = 1 THEN Append(level, level[Len(level)]) ELSE level

\* ... and neighbours are hashed together.
Up(level) ==
    LET full == Padded(level)
    IN  [i \in 1 .. Len(full) \div 2 |-> <<full[2 * i - 1], full[2 * i]>>]

\* Levels(s)[k]: the level k steps above the leaves, as long as there are two nodes.
Levels(leaves) ==
    LET L[k \in 0 .. Len(leaves)] ==
          IF k = 0 THEN leaves
          ELSE IF Len(L[k - 1]) > 1 THEN Up(L[k - 1]) ELSE L[k - 1]
    IN  L

compute_root(leaves) ==
    IF leaves = <<>> THEN EmptyRoot ELSE Levels(leaves)[Len(leaves)][1]

\* Path(p, n)[k]: the position k levels above p, for n levels (i //= 2).
Path(p, n) ==
    LET A[k \in 0 .. n] == IF k = 0 THEN p ELSE (A[k - 1] + 1) \div 2
    IN  A

\* The position of a node's neighbour (i ^ 1).
Sibling(p) == IF p % 2 = 1 THEN p + 1 ELSE p - 1

\* The levels that still have two nodes.
Tall(leaves) == {k \in 0 .. Len(leaves) : Len(Levels(leaves)[k]) > 1}

\* Mutant: the proof takes the sibling without padding the level.
ProofUnpadded(leaves, p) ==
    LET At(level, q) == IF q <= Len(level) THEN level[q] ELSE level[1]
    IN  [j \in {k + 1 : k \in Tall(leaves)} |->
            At(Levels(leaves)[j - 1], Sibling(Path(p, Len(leaves))[j - 1]))]

merkle_proof(leaves, p) ==
    LET A == Path(p, Len(leaves))
    IN  [j \in {k + 1 : k \in Tall(leaves)} |->
            Padded(Levels(leaves)[j - 1])[Sibling(A[j - 1])]]

-----------------------------------------------------------------------------
(* What the tree is for.                                                   *)

\* A client that knows a leaf, its position and the siblings on its way up
\* arrives at this root.
Climb(leaf, proof, p) ==
    LET A == Path(p, Len(proof))
        H[k \in 0 .. Len(proof)] ==
          IF k = 0 THEN leaf
          ELSE IF A[k - 1] % 2 = 1 THEN <<H[k - 1], proof[k]>> ELSE <<proof[k], H[k - 1]>>
    IN  H[Len(proof)]

\* The definition to compare with: the node h levels up at position i, where
\* a position past the end of its level stands for the last one of the level.
\* The level has one node for each 2^h leaves, the last of them for what is left.
Powers(n) ==
    LET P[h \in 0 .. n] == IF h = 0 THEN 1 ELSE 2 * P[h - 1]
    IN  P

Width(n, h) == (n + Powers(n)[h] - 1) \div Powers(n)[h]

Within(i, width) == IF i > width THEN width ELSE i

Nodes(leaves) ==
    LET n == Len(leaves)
        N[h \in 0 .. n] ==
          IF h = 0 THEN [i \in 1 .. n + 1 |-> leaves[Within(i, n)]]
          ELSE [i \in 1 .. n + 1 |->
                  LET j == Within(i, Width(n, h))
                  IN  <<N[h - 1][2 * j - 1], N[h - 1][2 * j]>>]
    IN  N

Height(n) == CHOOSE h \in 0 .. n : Width(n, h) = 1 /\ \A g \in 0 .. h - 1 : Width(n, g) > 1

\* The published root is that node's, and every position has its proof.
RightTree(leaves) ==
    /\ compute_root(leaves) = Nodes(leaves)[Height(Len(leaves))][1]
    /\ \A p \in 1 .. Len(leaves) : Climb(leaves[p], merkle_proof(leaves, p), p) = compute_root(leaves)
=============================================================================
