----------------------------- MODULE LedgerProofs -----------------------------
(***************************************************************************)
(* The hash tree, for any number of leaves: a proof leads from its leaf to *)
(* the root, and from no other leaf; the root is that of the tree whose    *)
(* missing nodes stand for the last of their level.  The ledger, for any   *)
(* number of users, requests and bundles: one leaf per user, that of its   *)
(* bundle; a commit that nobody overtook leaves the root of the leaves; an *)
(* answer of get_keys leads from the user's leaf to its root.              *)
(***************************************************************************)
EXTENDS Ledger, SequenceTheorems, WellFoundedInduction, TLAPS

-----------------------------------------------------------------------------
(* The tree.                                                               *)

\* A set of numbers has a least one.
LEMMA Least ==
  ASSUME NEW S, S \subseteq Nat, S # {}
  PROVE  \E x \in S : \A y \in S : x <= y
  <1> DEFINE R == OpToRel(<, Nat)
  <1>1. IsWellFoundedOn(R, Nat)
    BY NatLessThanWellFounded
  <1>2. ASSUME NEW x \in Nat, NEW y \in Nat, <<y, x>> \notin R PROVE ~ (y < x)
    BY <1>2 DEF OpToRel
  <1> HIDE DEF R
  <1>3. PICK x \in S : \A y \in S : <<y, x>> \notin R
    BY <1>1, WFMin
  <1>4. ASSUME NEW y \in S PROVE x <= y
    <2>1. x \in Nat /\ y \in Nat
      OBVIOUS
    <2>2. ~ (y < x)
      BY <2>1, <1>2, <1>3
    <2> QED
      BY <2>1, <2>2
  <1> QED
    BY <1>4

\* Induction over the set of the numbers for which something holds.
LEMMA UpTo ==
  ASSUME NEW n \in Nat, NEW G, 0 \in G, \A k \in 0 .. n - 1 : k \in G => k + 1 \in G
  PROVE  \A k \in 0 .. n : k \in G
  <1> DEFINE S == (0 .. n) \ G
  <1>1. ASSUME S # {} PROVE FALSE
    <2>1. PICK x \in S : \A y \in S : x <= y
      <3>1. S \subseteq Nat
        OBVIOUS
      <3> HIDE DEF S
      <3> QED
        BY <1>1, <3>1, Least
    <2>2. x \in 1 .. n
      OBVIOUS
    <2>3. x - 1 \in 0 .. n - 1 /\ x - 1 \in 0 .. n /\ ~(x <= x - 1) /\ (x - 1) + 1 = x
      BY <2>2
    <2>4. x - 1 \in G
      BY <2>1, <2>3
    <2> QED
      BY <2>3, <2>4
  <1> QED
    BY <1>1

-----------------------------------------------------------------------------
(* The levels.                                                             *)

\* The provers take the length of L[k] apart, unless it has a name.
Size(level) == Len(level)

Above(level) == IF Size(level) > 1 THEN Up(level) ELSE level

\* Levels is the function that its recursion says.
LEMMA LevelsAre ==
  ASSUME NEW s, Len(s) \in Nat
  PROVE  /\ DOMAIN Levels(s) = 0 .. Len(s)
         /\ Levels(s)[0] = s
         /\ \A k \in 0 .. Len(s) - 1 : Levels(s)[k + 1] = Above(Levels(s)[k])
  <1> DEFINE n == Len(s)
             IsUpTo(L, m) == L = [k \in 0 .. m |-> IF k = 0 THEN s ELSE Above(L[k - 1])]
             G == {m \in 0 .. n : \E L : IsUpTo(L, m)}
  <1>1. 0 \in G
    <2> DEFINE M == [k \in 0 .. 0 |-> s]
    <2>1. M = [k \in 0 .. 0 |-> IF k = 0 THEN s ELSE Above(M[k - 1])]
      OBVIOUS
    <2>2. IsUpTo(M, 0) /\ 0 \in 0 .. n
      <3> HIDE DEF M
      <3> QED
        BY <2>1
    <2> QED
      BY <2>2
  <1>2. ASSUME NEW m \in 0 .. n - 1, m \in G PROVE m + 1 \in G
    <2>1. PICK L : IsUpTo(L, m)
      BY <1>2
    <2> DEFINE M == [k \in 0 .. m + 1 |-> IF k <= m THEN L[k] ELSE Above(L[m])]
    <2>2. DOMAIN M = 0 .. m + 1 /\ M = [k \in 0 .. m + 1 |-> M[k]]
      OBVIOUS
    <2>3. ASSUME NEW k \in 0 .. m + 1
          PROVE  M[k] = IF k = 0 THEN s ELSE Above(M[k - 1])
      <3>1. CASE k <= m
        <4>1. M[k] = L[k] /\ k \in 0 .. m /\ (k # 0 => k - 1 \in 0 .. m + 1 /\ k - 1 <= m)
          BY <3>1
        <4>2. k # 0 => M[k - 1] = L[k - 1]
          BY <4>1
        <4> QED
          BY <2>1, <4>1, <4>2
      <3>2. CASE ~ (k <= m)
        <4>1. k = m + 1 /\ k # 0 /\ k - 1 = m /\ m \in 0 .. m + 1
          BY <3>2
        <4>2. M[k] = Above(L[m]) /\ M[m] = L[m]
          BY <4>1
        <4> QED
          BY <4>1, <4>2
      <3> QED
        BY <3>1, <3>2
    <2>4. IsUpTo(M, m + 1)
      <3> HIDE DEF M
      <3> QED
        BY <2>2, <2>3
    <2>5. m + 1 \in 0 .. n
      OBVIOUS
    <2> QED
      BY <2>4, <2>5
  <1>3. n \in G
    <2>1. n \in 0 .. n
      OBVIOUS
    <2> HIDE DEF G
    <2> QED
      BY <1>1, <1>2, <2>1, UpTo
  <1>4. \E L : IsUpTo(L, n)
    BY <1>3
  <1>5. Levels(s) = CHOOSE L : IsUpTo(L, n)
    BY DEF Levels, Above, Size
  <1>6. IsUpTo(Levels(s), n)
    BY <1>4, <1>5
  <1> QED
    BY <1>6

\* Path is the function that its recursion says.
LEMMA PathIs ==
  ASSUME NEW p, NEW n \in Nat
  PROVE  /\ DOMAIN Path(p, n) = 0 .. n
         /\ Path(p, n)[0] = p
         /\ \A k \in 0 .. n - 1 : Path(p, n)[k + 1] = (Path(p, n)[k] + 1) \div 2
  <1> DEFINE IsUpTo(A, m) == A = [k \in 0 .. m |-> IF k = 0 THEN p ELSE (A[k - 1] + 1) \div 2]
             G == {m \in 0 .. n : \E A : IsUpTo(A, m)}
  <1>1. 0 \in G
    <2> DEFINE M == [k \in 0 .. 0 |-> p]
    <2>1. M = [k \in 0 .. 0 |-> IF k = 0 THEN p ELSE (M[k - 1] + 1) \div 2]
      OBVIOUS
    <2>2. IsUpTo(M, 0) /\ 0 \in 0 .. n
      <3> HIDE DEF M
      <3> QED
        BY <2>1
    <2> QED
      BY <2>2
  <1>2. ASSUME NEW m \in 0 .. n - 1, m \in G PROVE m + 1 \in G
    <2>1. PICK A : IsUpTo(A, m)
      BY <1>2
    <2> DEFINE M == [k \in 0 .. m + 1 |-> IF k <= m THEN A[k] ELSE (A[m] + 1) \div 2]
    <2>2. DOMAIN M = 0 .. m + 1 /\ M = [k \in 0 .. m + 1 |-> M[k]]
      OBVIOUS
    <2>3. ASSUME NEW k \in 0 .. m + 1
          PROVE  M[k] = IF k = 0 THEN p ELSE (M[k - 1] + 1) \div 2
      <3>1. CASE k <= m
        <4>1. M[k] = A[k] /\ k \in 0 .. m /\ (k # 0 => k - 1 \in 0 .. m + 1 /\ k - 1 <= m)
          BY <3>1
        <4>2. k # 0 => M[k - 1] = A[k - 1]
          BY <4>1
        <4> QED
          BY <2>1, <4>1, <4>2
      <3>2. CASE ~ (k <= m)
        <4>1. k = m + 1 /\ k # 0 /\ k - 1 = m /\ m \in 0 .. m + 1
          BY <3>2
        <4>2. M[k] = (A[m] + 1) \div 2 /\ M[m] = A[m]
          BY <4>1
        <4> QED
          BY <4>1, <4>2
      <3> QED
        BY <3>1, <3>2
    <2>4. IsUpTo(M, m + 1)
      <3> HIDE DEF M
      <3> QED
        BY <2>2, <2>3
    <2>5. m + 1 \in 0 .. n
      OBVIOUS
    <2> QED
      BY <2>4, <2>5
  <1>3. n \in G
    <2>1. n \in 0 .. n
      OBVIOUS
    <2> HIDE DEF G
    <2> QED
      BY <1>1, <1>2, <2>1, UpTo
  <1>4. \E A : IsUpTo(A, n)
    BY <1>3
  <1>5. Path(p, n) = CHOOSE A : IsUpTo(A, n)
    BY DEF Path
  <1>6. IsUpTo(Path(p, n), n)
    BY <1>4, <1>5
  <1> QED
    BY <1>6

\* A list is a sequence, of whatever.
IsList(x) == Len(x) \in Nat /\ x = [i \in 1 .. Len(x) |-> x[i]]

LEMMA IsListOf ==
  ASSUME NEW f, NEW m \in Nat, f = [i \in 1 .. m |-> f[i]]
  PROVE  IsList(f) /\ Len(f) = m
  <1>1. f \in [1 .. m -> {f[i] : i \in 1 .. m}]
    OBVIOUS
  <1>2. f \in Seq({f[i] : i \in 1 .. m})
    BY <1>1
  <1>3. Len(f) = m
    BY <1>1, <1>2
  <1> QED
    BY <1>3 DEF IsList

LEMMA ListIsSeq ==
  ASSUME NEW x, IsList(x)
  PROVE  /\ x \in Seq({x[i] : i \in 1 .. Len(x)})
         /\ \A y : LET z == Append(x, y)
                   IN  /\ IsList(z) /\ Len(z) = Len(x) + 1 /\ z[Len(x) + 1] = y
                       /\ \A i \in 1 .. Len(x) : z[i] = x[i]
  <1> DEFINE S == {x[i] : i \in 1 .. Len(x)}
  <1>1. x \in [1 .. Len(x) -> S] /\ Len(x) \in Nat
    BY DEF IsList
  <1>2. x \in Seq(S)
    BY <1>1
  <1>3. ASSUME NEW y
        PROVE  LET z == Append(x, y)
               IN  /\ IsList(z) /\ Len(z) = Len(x) + 1 /\ z[Len(x) + 1] = y
                   /\ \A i \in 1 .. Len(x) : z[i] = x[i]
    <2> DEFINE z == Append(x, y)
    <2>1. x \in Seq(S \cup {y}) /\ y \in S \cup {y}
      <3>1. x \in [1 .. Len(x) -> S \cup {y}]
        BY <1>1
      <3> QED
        BY <1>1, <3>1
    <2>2. z \in Seq(S \cup {y}) /\ Len(z) = Len(x) + 1 /\ z[Len(x) + 1] = y
          /\ \A i \in 1 .. Len(x) : z[i] = x[i]
      <3> HIDE DEF S
      <3> QED
        BY <1>1, <2>1
    <2>3. IsList(z)
      <3> HIDE DEF S, z
      <3> QED
        BY <2>2 DEF IsList
    <2> QED
      BY <2>2, <2>3
  <1> QED
    BY <1>2, <1>3

\* A node of a level, with its neighbour, makes the node above it.
LEMMA UpFacts ==
  ASSUME NEW x, IsList(x), Len(x) > 1
  PROVE  /\ IsList(Up(x)) /\ Len(Up(x)) = (Len(x) + 1) \div 2
         /\ \A i \in 1 .. Len(x) :
              LET twin == Padded(x)[Sibling(i)]
                  over == Up(x)[(i + 1) \div 2]
              IN  /\ i % 2 = 1 => over = <<x[i], twin>>
                  /\ i % 2 # 1 => over = <<twin, x[i]>>
                  /\ (i + 1) \div 2 \in 1 .. Len(Up(x))
  <1> DEFINE full == Padded(x)
             m == (Len(x) + 1) \div 2
             f == [i \in 1 .. Len(full) \div 2 |-> <<full[2 * i - 1], full[2 * i]>>]
  <1>0. Len(x) \in Nat
    BY DEF IsList
  <1>1. Len(full) = 2 * m /\ \A i \in 1 .. Len(x) : full[i] = x[i]
    <2>1. CASE Len(x) % 2 = 1
      <3>1. full = Append(x, x[Len(x)])
        BY <2>1 DEF Padded
      <3>2. Len(full) = Len(x) + 1 /\ \A i \in 1 .. Len(x) : full[i] = x[i]
        BY <3>1, ListIsSeq
      <3> QED
        BY <1>0, <2>1, <3>2
    <2>2. CASE Len(x) % 2 # 1
      BY <1>0, <2>2 DEF Padded
    <2> QED
      BY <2>1, <2>2
  <1>2. m \in Nat /\ Len(full) \div 2 = m
    BY <1>0, <1>1
  <1>3. f = [i \in 1 .. m |-> f[i]] /\ Up(x) = f
    BY <1>2 DEF Up
  <1>4. IsList(f) /\ Len(f) = m
    <2> HIDE DEF f, m
    <2> QED
      BY <1>2, <1>3, IsListOf
  <1>6. ASSUME NEW i \in 1 .. Len(x)
        PROVE  /\ i % 2 = 1 => f[(i + 1) \div 2] = <<x[i], full[Sibling(i)]>>
               /\ i % 2 # 1 => f[(i + 1) \div 2] = <<full[Sibling(i)], x[i]>>
               /\ (i + 1) \div 2 \in 1 .. m
    <2> DEFINE j == (i + 1) \div 2
    <2>1. j \in 1 .. m /\ i \in Nat
      BY <1>0
    <2>2. f[j] = <<full[2 * j - 1], full[2 * j]>>
      BY <1>2, <2>1
    <2>3. i % 2 = 1 => 2 * j - 1 = i /\ 2 * j = i + 1 /\ Sibling(i) = i + 1
      BY <2>1 DEF Sibling
    <2>4. i % 2 # 1 => 2 * j = i /\ 2 * j - 1 = i - 1 /\ Sibling(i) = i - 1
      BY <2>1 DEF Sibling
    <2> HIDE DEF f, j
    <2> QED
      BY <1>1, <2>1, <2>2, <2>3, <2>4 DEF j
  <1> QED
    BY <1>3, <1>4, <1>6

LEMMA UpSize ==
  ASSUME NEW x, IsList(x), Size(x) > 1
  PROVE  /\ IsList(Up(x)) /\ Size(Up(x)) = (Size(x) + 1) \div 2
         /\ \A i \in 1 .. Size(x) :
              LET twin == Padded(x)[Sibling(i)]
                  over == Up(x)[(i + 1) \div 2]
              IN  /\ i % 2 = 1 => over = <<x[i], twin>>
                  /\ i % 2 # 1 => over = <<twin, x[i]>>
                  /\ (i + 1) \div 2 \in 1 .. Size(Up(x))
  BY UpFacts DEF Size

LEMMA LevelFacts ==
  ASSUME NEW s, IsList(s), s # <<>>
  PROVE  LET L == Levels(s)
             n == Len(s)
         IN  /\ n \in Nat \ {0}
             /\ \A k \in 0 .. n : /\ IsList(L[k]) /\ Size(L[k]) \in Nat /\ Size(L[k]) # 0
                                  /\ Size(L[k]) = 1 \/ Size(L[k]) <= n - k
             /\ Size(L[n]) = 1
  <1> DEFINE L == Levels(s)
             n == Len(s)
             G == {k \in 0 .. n : /\ IsList(L[k]) /\ Size(L[k]) \in Nat /\ Size(L[k]) # 0
                                  /\ Size(L[k]) = 1 \/ Size(L[k]) <= n - k}
  <1>1. n \in Nat \ {0}
    <2>1. n \in Nat /\ s = [i \in 1 .. n |-> s[i]]
      BY DEF IsList
    <2>2. CASE n = 0
      <3>1. s \in [1 .. 0 -> {}]
        BY <2>1, <2>2
      <3>2. s = <<>>
        BY <3>1
      <3> QED
        BY <3>2
    <2> QED
      BY <2>1, <2>2
  <1>2. 0 \in G
    BY <1>1, LevelsAre DEF Size
  <1>3. ASSUME NEW k \in 0 .. n - 1, k \in G PROVE k + 1 \in G
    <2>1. /\ IsList(L[k]) /\ Size(L[k]) \in Nat /\ Size(L[k]) # 0 /\ k + 1 \in 0 .. n
          /\ Size(L[k]) = 1 \/ Size(L[k]) <= n - k
      BY <1>1, <1>3
    <2>2. L[k + 1] = Above(L[k])
      BY <1>1, LevelsAre
    <2> HIDE DEF L, n
    <2>3. CASE Size(L[k]) > 1
      <3>1. L[k + 1] = Up(L[k])
        BY <2>2, <2>3 DEF Above
      <3>2. IsList(L[k + 1]) /\ Size(L[k + 1]) = (Size(L[k]) + 1) \div 2
        BY <2>1, <2>3, <3>1, UpSize
      <3>3. Size(L[k + 1]) \in Nat /\ Size(L[k + 1]) # 0 /\ Size(L[k + 1]) <= n - (k + 1)
        <4> DEFINE w == Size(L[k])
                   v == Size(L[k + 1])
        <4>1. w \in Nat /\ w > 1 /\ w <= n - k /\ v = (w + 1) \div 2
          BY <2>1, <2>3, <3>2
        <4> HIDE DEF w, v, n
        <4>2. v \in Nat /\ v > 0 /\ v <= w - 1
          BY <4>1
        <4>3. v <= n - (k + 1) /\ v # 0
          BY <4>1, <4>2, <1>1
        <4> QED
          BY <4>2, <4>3 DEF n, v
      <3> QED
        BY <2>1, <3>2, <3>3
    <2>4. CASE ~ (Size(L[k]) > 1)
      <3>1. L[k + 1] = L[k] /\ Size(L[k]) = 1
        BY <2>1, <2>2, <2>4 DEF Above
      <3> QED
        BY <2>1, <3>1
    <2> QED
      BY <2>3, <2>4
  <1>4. \A k \in 0 .. n : k \in G
    <2> HIDE DEF G
    <2> QED
      BY <1>1, <1>2, <1>3, UpTo
  <1>5. Size(L[n]) = 1
    <2>1. n \in G /\ n - n = 0
      BY <1>1, <1>4
    <2> QED
      BY <2>1
  <1> QED
    BY <1>1, <1>4, <1>5

\* The levels up to the first with one node are those with two.
LEMMA TallFacts ==
  ASSUME NEW s, IsList(s), s # <<>>
  PROVE  \E h \in 0 .. Len(s) :
           /\ \A k : k \in Tall(s) <=> k \in 0 .. h - 1
           /\ \A k \in 0 .. h - 1 : Size(Levels(s)[k]) > 1
           /\ Size(Levels(s)[h]) = 1 /\ Levels(s)[Len(s)] = Levels(s)[h]
  <1> DEFINE L == Levels(s)
             n == Len(s)
             One == {k \in 0 .. n : Size(L[k]) = 1}
  <1>1. /\ n \in Nat \ {0} /\ n \in One
        /\ \A k \in 0 .. n : Size(L[k]) \in Nat /\ Size(L[k]) # 0
    <2>1. /\ n \in Nat \ {0} /\ Size(L[n]) = 1
          /\ \A k \in 0 .. n : Size(L[k]) \in Nat /\ Size(L[k]) # 0
      BY LevelFacts
    <2>2. n \in 0 .. n
      BY <2>1
    <2> HIDE DEF L, n
    <2> QED
      BY <2>1, <2>2
  <1>2. PICK h \in One : \A k \in One : h <= k
    <2>1. One \subseteq Nat /\ One # {}
      BY <1>1
    <2> HIDE DEF One
    <2> QED
      BY <2>1, Least
  <1>3. h \in 0 .. n /\ Size(L[h]) = 1
    OBVIOUS
  <1> DEFINE G == {k \in 0 .. n : k >= h => L[k] = L[h]}
  <1>4. 0 \in G
    <2>1. 0 >= h => h = 0
      BY <1>3
    <2> QED
      BY <1>1, <2>1
  <1>5. ASSUME NEW k \in 0 .. n - 1, k \in G PROVE k + 1 \in G
    <2>1. k + 1 \in 0 .. n /\ L[k + 1] = Above(L[k])
      BY <1>1, LevelsAre
    <2> HIDE DEF L, n
    <2>2. CASE k >= h
      <3>1. L[k] = L[h] /\ L[k + 1] = L[k]
        BY <1>3, <1>5, <2>1, <2>2 DEF Above
      <3> QED
        BY <2>1, <3>1
    <2>3. CASE ~ (k >= h)
      <3>1. k + 1 >= h => k + 1 = h
        BY <1>3, <2>3
      <3> QED
        BY <2>1, <3>1
    <2> QED
      BY <2>2, <2>3
  <1>6. \A k \in 0 .. n : k \in G
    <2> HIDE DEF G
    <2> QED
      BY <1>1, <1>4, <1>5, UpTo
  <1>7. \A k \in 0 .. n : k >= h => Size(L[k]) = 1
    BY <1>3, <1>6
  <1>8. \A k \in 0 .. h - 1 : Size(L[k]) > 1 /\ k \in 0 .. n
    <2> SUFFICES ASSUME NEW k \in 0 .. h - 1 PROVE Size(L[k]) > 1 /\ k \in 0 .. n
      OBVIOUS
    <2>1. k \in 0 .. n /\ ~ (h <= k)
      BY <1>3
    <2> HIDE DEF L, n
    <2>2. k \notin One
      BY <1>2, <2>1
    <2>3. Size(L[k]) \in Nat /\ Size(L[k]) # 0 /\ Size(L[k]) # 1
      BY <1>1, <2>1, <2>2
    <2> QED
      BY <2>1, <2>3
  <1>9. L[n] = L[h]
    <2>1. n \in 0 .. n /\ n >= h
      BY <1>1, <1>3
    <2> QED
      BY <1>6, <2>1
  <1>10. \A k : k \in Tall(s) <=> k \in 0 .. h - 1
    <2> SUFFICES ASSUME NEW k \in 0 .. n PROVE Size(L[k]) > 1 <=> k \in 0 .. h - 1
      <3>1. \A k \in 0 .. h - 1 : k \in 0 .. n
        BY <1>3
      <3> QED
        BY <3>1 DEF Tall, Size
    <2> HIDE DEF L, n, One, G
    <2>1. k >= h \/ k \in 0 .. h - 1
      BY <1>3
    <2>2. k >= h => ~ (Size(L[k]) > 1) /\ k \notin 0 .. h - 1
      BY <1>3, <1>7
    <2> QED
      BY <1>8, <2>1, <2>2
  <1> QED
    BY <1>3, <1>8, <1>9, <1>10

\* The path of a position leads through the tree to the root.
LEMMA PathFacts ==
  ASSUME NEW s, IsList(s), NEW p \in 1 .. Len(s), NEW m \in Nat, NEW h \in 0 .. Len(s), h <= m,
         \A k \in 0 .. h - 1 : Size(Levels(s)[k]) > 1
  PROVE  \A k \in 0 .. h : Path(p, m)[k] \in 1 .. Size(Levels(s)[k])
                           /\ Path(p, m)[k] = Path(p, Len(s))[k]
  <1> DEFINE L == Levels(s)
             A == Path(p, m)
             B == Path(p, Len(s))
             G == {k \in 0 .. h : A[k] \in 1 .. Size(L[k]) /\ A[k] = B[k]}
  <1>0. Len(s) \in Nat /\ Len(s) # 0 /\ h \in Nat /\ s # <<>>
    BY DEF IsList
  <1>1. 0 \in G
    BY <1>0, PathIs, LevelsAre DEF Size
  <1>2. ASSUME NEW k \in 0 .. h - 1, k \in G PROVE k + 1 \in G
    <2>1. /\ k \in 0 .. m - 1 /\ k \in 0 .. Len(s) - 1 /\ k \in 0 .. Len(s) /\ k + 1 \in 0 .. h
          /\ A[k] \in 1 .. Size(L[k]) /\ A[k] = B[k]
      BY <1>0, <1>2
    <2>2. A[k + 1] = (A[k] + 1) \div 2 /\ B[k + 1] = (B[k] + 1) \div 2
      BY <1>0, <2>1, PathIs
    <2>3. IsList(L[k]) /\ Size(L[k]) > 1
      BY <1>0, <2>1, LevelFacts
    <2>4. L[k + 1] = Up(L[k])
      BY <1>0, <2>1, <2>3, LevelsAre DEF Above
    <2>5. (A[k] + 1) \div 2 \in 1 .. Size(L[k + 1])
      BY <2>1, <2>3, <2>4, UpSize
    <2> QED
      BY <2>1, <2>2, <2>5
  <1>3. \A k \in 0 .. h : k \in G
    <2> HIDE DEF G
    <2> QED
      BY <1>0, <1>1, <1>2, UpTo
  <1> QED
    BY <1>3

\* The nodes that a client comes by.
Climbed(leaf, proof, p) ==
    LET A == Path(p, Len(proof))
        H[k \in 0 .. Len(proof)] ==
          IF k = 0 THEN leaf
          ELSE IF A[k - 1] % 2 = 1 THEN <<H[k - 1], proof[k]>> ELSE <<proof[k], H[k - 1]>>
    IN  H

\* The node over x, if q is its position and y its neighbour.
Over(q, x, y) == IF q % 2 = 1 THEN <<x, y>> ELSE <<y, x>>

LEMMA ClimbIs ==
  ASSUME NEW leaf, NEW proof, NEW p, Len(proof) \in Nat
  PROVE  LET A == Path(p, Len(proof))
             H == Climbed(leaf, proof, p)
         IN  /\ Climb(leaf, proof, p) = H[Len(proof)]
             /\ H[0] = leaf
             /\ \A k \in 0 .. Len(proof) - 1 : H[k + 1] = Over(A[k], H[k], proof[k + 1])
  <1> DEFINE n == Len(proof)
             A == Path(p, n)
             C == Climbed(leaf, proof, p)
             IsUpTo(H, m) ==
               H = [k \in 0 .. m |-> IF k = 0 THEN leaf ELSE Over(A[k - 1], H[k - 1], proof[k])]
             G == {m \in 0 .. n : \E H : IsUpTo(H, m)}
  <1>1. 0 \in G
    <2> DEFINE M == [k \in 0 .. 0 |-> leaf]
    <2>1. M = [k \in 0 .. 0 |-> IF k = 0 THEN leaf ELSE Over(A[k - 1], M[k - 1], proof[k])]
      <3> HIDE DEF A
      <3> QED
        OBVIOUS
    <2>2. IsUpTo(M, 0) /\ 0 \in 0 .. n
      <3> HIDE DEF M
      <3> QED
        BY <2>1
    <2> QED
      BY <2>2
  <1>2. ASSUME NEW m \in 0 .. n - 1, m \in G PROVE m + 1 \in G
    <2>1. PICK H : IsUpTo(H, m)
      BY <1>2
    <2> DEFINE M == [k \in 0 .. m + 1 |-> IF k <= m THEN H[k] ELSE Over(A[m], H[m], proof[m + 1])]
    <2> HIDE DEF A
    <2>2. DOMAIN M = 0 .. m + 1 /\ M = [k \in 0 .. m + 1 |-> M[k]]
      OBVIOUS
    <2>3. ASSUME NEW k \in 0 .. m + 1
          PROVE  M[k] = IF k = 0 THEN leaf ELSE Over(A[k - 1], M[k - 1], proof[k])
      <3>1. CASE k <= m
        <4>1. M[k] = H[k] /\ k \in 0 .. m /\ (k # 0 => k - 1 \in 0 .. m + 1 /\ k - 1 <= m)
          BY <3>1
        <4>2. k # 0 => M[k - 1] = H[k - 1]
          BY <4>1
        <4> QED
          BY <2>1, <4>1, <4>2
      <3>2. CASE ~ (k <= m)
        <4>1. k = m + 1 /\ k # 0 /\ k - 1 = m /\ m \in 0 .. m + 1
          BY <3>2
        <4>2. M[k] = Over(A[m], H[m], proof[m + 1]) /\ M[m] = H[m]
          BY <4>1
        <4> QED
          BY <4>1, <4>2
      <3> QED
        BY <3>1, <3>2
    <2>4. IsUpTo(M, m + 1)
      <3> HIDE DEF M
      <3> QED
        BY <2>2, <2>3
    <2>5. m + 1 \in 0 .. n
      OBVIOUS
    <2> QED
      BY <2>4, <2>5
  <1>3. n \in G
    <2>1. n \in 0 .. n
      OBVIOUS
    <2> HIDE DEF G
    <2> QED
      BY <1>1, <1>2, <2>1, UpTo
  <1>4. \E H : IsUpTo(H, n)
    BY <1>3
  <1>5. C = CHOOSE H : IsUpTo(H, n)
    BY DEF Climbed, Over
  <1>6. IsUpTo(C, n)
    <2> HIDE DEF C
    <2> QED
      BY <1>4, <1>5
  <1>7. C[0] = leaf /\ \A k \in 0 .. n - 1 : C[k + 1] = Over(A[k], C[k], proof[k + 1])
    <2> HIDE DEF C, A
    <2> QED
      BY <1>6
  <1>8. Climb(leaf, proof, p) = C[n]
    BY DEF Climb, Climbed
  <1> QED
    BY <1>7, <1>8

\* What the tree and the proof of a position are, level by level.
LEMMA TreeFacts ==
  ASSUME NEW s, IsList(s), NEW p \in 1 .. Len(s)
  PROVE  LET L == Levels(s)
             proof == merkle_proof(s, p)
             h == Len(proof)
             A == Path(p, h)
         IN  /\ h \in Nat /\ L[0] = s /\ A[0] = p
             /\ compute_root(s) = L[h][A[h]]
             /\ \A k \in 0 .. h - 1 :
                  L[k + 1][A[k + 1]] = Over(A[k], L[k][A[k]], proof[k + 1])
  <1> DEFINE L == Levels(s)
             n == Len(s)
             proof == merkle_proof(s, p)
             B == Path(p, n)
  <1>1. s # <<>> /\ n \in Nat /\ n # 0
    <2>1. n \in Nat
      BY DEF IsList
    <2> QED
      BY <2>1
  <1>2. PICK h \in 0 .. n :
          /\ \A k : k \in Tall(s) <=> k \in 0 .. h - 1
          /\ \A k \in 0 .. h - 1 : Size(L[k]) > 1
          /\ Size(L[h]) = 1 /\ L[n] = L[h]
    BY <1>1, TallFacts
  <1> DEFINE A == Path(p, h)
  <1>3. h \in Nat /\ h <= n /\ L[0] = s /\ A[0] = p
    BY <1>1, <1>2, LevelsAre, PathIs
  <1>4. \A k \in 0 .. h : A[k] \in 1 .. Size(L[k]) /\ A[k] = B[k]
    <2>1. h \in Nat /\ h \in 0 .. Len(s) /\ h <= h
      BY <1>1
    <2>2. \A k \in 0 .. h - 1 : Size(Levels(s)[k]) > 1
      BY <1>2
    <2> QED
      BY <2>1, <2>2, PathFacts
  <1>5. compute_root(s) = L[h][A[h]]
    <2>1. A[h] \in 1 .. Size(L[h])
      BY <1>3, <1>4
    <2>2. A[h] = 1
      BY <1>2, <2>1
    <2> QED
      BY <1>1, <1>2, <2>2 DEF compute_root
  <1>6. /\ proof = [j \in 1 .. h |-> Padded(L[j - 1])[Sibling(B[j - 1])]]
        /\ Len(proof) = h
    <2>1. {k + 1 : k \in Tall(s)} = 1 .. h
      <3>1. \A j \in 1 .. h : j - 1 \in Tall(s) /\ (j - 1) + 1 = j
        BY <1>2, <1>3
      <3>2. \A k \in Tall(s) : k + 1 \in 1 .. h
        BY <1>2, <1>3
      <3> QED
        BY <3>1, <3>2
    <2> DEFINE f == [j \in 1 .. h |-> Padded(L[j - 1])[Sibling(B[j - 1])]]
    <2>2. proof = f
      BY <2>1 DEF merkle_proof
    <2>3. f = [j \in 1 .. h |-> f[j]]
      OBVIOUS
    <2>4. Len(f) = h
      <3> HIDE DEF f
      <3> QED
        BY <1>3, <2>3, IsListOf
    <2> QED
      BY <2>2, <2>4
  <1>7. ASSUME NEW k \in 0 .. h - 1
        PROVE  L[k + 1][A[k + 1]] = Over(A[k], L[k][A[k]], proof[k + 1])
    <2>1. k \in 0 .. h /\ k \in 0 .. n /\ k \in 0 .. n - 1 /\ k + 1 \in 1 .. h /\ (k + 1) - 1 = k
      BY <1>1, <1>3
    <2>2. proof[k + 1] = Padded(L[k])[Sibling(A[k])]
      <3>1. proof[k + 1] = Padded(L[(k + 1) - 1])[Sibling(B[(k + 1) - 1])]
        <4> HIDE DEF L, B, proof
        <4> QED
          BY <1>6, <2>1
      <3> QED
        BY <1>4, <2>1, <3>1
    <2>3. L[k + 1] = Up(L[k]) /\ IsList(L[k]) /\ Size(L[k]) > 1
      BY <1>1, <1>2, <2>1, LevelsAre, LevelFacts DEF Above
    <2>4. A[k + 1] = (A[k] + 1) \div 2 /\ A[k] \in 1 .. Size(L[k])
      BY <1>3, <1>4, <2>1, PathIs
    <2> HIDE DEF L, A, proof
    <2>5. /\ A[k] % 2 = 1 => L[k + 1][A[k + 1]] = <<L[k][A[k]], proof[k + 1]>>
          /\ A[k] % 2 # 1 => L[k + 1][A[k + 1]] = <<proof[k + 1], L[k][A[k]]>>
      BY <2>2, <2>3, <2>4, UpSize
    <2> QED
      BY <2>5 DEF Over
  <1> QED
    BY <1>3, <1>5, <1>6, <1>7

\* The proof of any leaf of any ledger leads a client to its root ...
THEOREM ProofLeadsToRoot ==
  ASSUME NEW s, IsList(s), NEW p \in 1 .. Len(s)
  PROVE  Climb(s[p], merkle_proof(s, p), p) = compute_root(s)
  <1> DEFINE L == Levels(s)
             proof == merkle_proof(s, p)
             h == Len(proof)
             A == Path(p, h)
             H == Climbed(s[p], proof, p)
             G == {k \in 0 .. h : H[k] = L[k][A[k]]}
  <1>1. /\ h \in Nat /\ L[0] = s /\ A[0] = p
        /\ compute_root(s) = L[h][A[h]]
        /\ \A k \in 0 .. h - 1 :
             L[k + 1][A[k + 1]] = Over(A[k], L[k][A[k]], proof[k + 1])
    BY TreeFacts
  <1>2. /\ Climb(s[p], proof, p) = H[h] /\ H[0] = s[p]
        /\ \A k \in 0 .. h - 1 : H[k + 1] = Over(A[k], H[k], proof[k + 1])
    <2>1. Len(proof) \in Nat
      BY <1>1
    <2> HIDE DEF proof
    <2> QED
      BY <2>1, ClimbIs
  <1> HIDE DEF L, proof, h, A, H
  <1>3. 0 \in G
    BY <1>1, <1>2
  <1>4. ASSUME NEW k \in 0 .. h - 1, k \in G PROVE k + 1 \in G
    BY <1>1, <1>2, <1>4
  <1>5. h \in G
    <2>1. h \in 0 .. h
      BY <1>1
    <2> HIDE DEF G
    <2> QED
      BY <1>1, <1>3, <1>4, <2>1, UpTo
  <1> QED
    BY <1>1, <1>2, <1>5 DEF proof

\* ... and nothing else than the leaf at that position leads there: whatever
\* siblings a client is given, as many as the tree is high.
THEOREM RootBindsLeaf ==
  ASSUME NEW s, IsList(s), NEW p \in 1 .. Len(s), NEW leaf, NEW proof,
         Len(proof) = Len(merkle_proof(s, p)), Climb(leaf, proof, p) = compute_root(s)
  PROVE  leaf = s[p]
  <1> DEFINE L == Levels(s)
             true == merkle_proof(s, p)
             h == Len(proof)
             A == Path(p, h)
             H == Climbed(leaf, proof, p)
             G == {j \in 0 .. h : H[h - j] = L[h - j][A[h - j]]}
  <1>1. /\ h \in Nat /\ L[0] = s /\ A[0] = p
        /\ compute_root(s) = L[h][A[h]]
        /\ \A k \in 0 .. h - 1 :
             L[k + 1][A[k + 1]] = Over(A[k], L[k][A[k]], true[k + 1])
    BY TreeFacts
  <1>2. /\ Climb(leaf, proof, p) = H[h] /\ H[0] = leaf
        /\ \A k \in 0 .. h - 1 : H[k + 1] = Over(A[k], H[k], proof[k + 1])
    BY <1>1, ClimbIs
  <1> HIDE DEF L, true, h, A, H
  <1>3. 0 \in G
    BY <1>1, <1>2
  <1>4. ASSUME NEW j \in 0 .. h - 1, j \in G PROVE j + 1 \in G
    <2> DEFINE k == h - (j + 1)
    <2>1. k \in 0 .. h - 1 /\ k + 1 = h - j /\ j + 1 \in 0 .. h
      BY <1>1
    <2> HIDE DEF k
    <2>2. H[k + 1] = L[k + 1][A[k + 1]]
      BY <1>4, <2>1
    <2>3. Over(A[k], H[k], proof[k + 1]) = Over(A[k], L[k][A[k]], true[k + 1])
      BY <1>1, <1>2, <2>1, <2>2
    <2>4. H[k] = L[k][A[k]]
      BY <2>3 DEF Over
    <2> QED
      BY <2>1, <2>4 DEF k
  <1>5. h \in G
    <2>1. h \in 0 .. h
      BY <1>1
    <2> HIDE DEF G
    <2> QED
      BY <1>1, <1>3, <1>4, <2>1, UpTo
  <1> QED
    BY <1>1, <1>2, <1>5

-----------------------------------------------------------------------------
(* The tree that the root stands for.                                      *)

\* Powers is the function that its recursion says.
LEMMA PowersAre ==
  ASSUME NEW n \in Nat
  PROVE  /\ Powers(n)[0] = 1
         /\ \A k \in 0 .. n - 1 : Powers(n)[k + 1] = 2 * Powers(n)[k]
  <1> DEFINE IsUpTo(P, m) == P = [k \in 0 .. m |-> IF k = 0 THEN 1 ELSE 2 * P[k - 1]]
             G == {m \in 0 .. n : \E P : IsUpTo(P, m)}
  <1>1. 0 \in G
    <2> DEFINE M == [k \in 0 .. 0 |-> 1]
    <2>1. M = [k \in 0 .. 0 |-> IF k = 0 THEN 1 ELSE 2 * M[k - 1]]
      OBVIOUS
    <2>2. IsUpTo(M, 0) /\ 0 \in 0 .. n
      <3> HIDE DEF M
      <3> QED
        BY <2>1
    <2> QED
      BY <2>2
  <1>2. ASSUME NEW m \in 0 .. n - 1, m \in G PROVE m + 1 \in G
    <2>1. PICK P : IsUpTo(P, m)
      BY <1>2
    <2> DEFINE M == [k \in 0 .. m + 1 |-> IF k <= m THEN P[k] ELSE 2 * P[m]]
    <2>2. DOMAIN M = 0 .. m + 1 /\ M = [k \in 0 .. m + 1 |-> M[k]]
      OBVIOUS
    <2>3. ASSUME NEW k \in 0 .. m + 1
          PROVE  M[k] = IF k = 0 THEN 1 ELSE 2 * M[k - 1]
      <3>1. CASE k <= m
        <4>1. M[k] = P[k] /\ k \in 0 .. m /\ (k # 0 => k - 1 \in 0 .. m + 1 /\ k - 1 <= m)
          BY <3>1
        <4>2. k # 0 => M[k - 1] = P[k - 1]
          BY <4>1
        <4> QED
          BY <2>1, <4>1, <4>2
      <3>2. CASE ~ (k <= m)
        <4>1. k = m + 1 /\ k # 0 /\ k - 1 = m /\ m \in 0 .. m + 1
          BY <3>2
        <4>2. M[k] = 2 * P[m] /\ M[m] = P[m]
          BY <4>1
        <4> QED
          BY <4>1, <4>2
      <3> QED
        BY <3>1, <3>2
    <2>4. IsUpTo(M, m + 1)
      <3> HIDE DEF M
      <3> QED
        BY <2>2, <2>3
    <2>5. m + 1 \in 0 .. n
      OBVIOUS
    <2> QED
      BY <2>4, <2>5
  <1>3. n \in G
    <2>1. n \in 0 .. n
      OBVIOUS
    <2> HIDE DEF G
    <2> QED
      BY <1>1, <1>2, <2>1, UpTo
  <1>4. \E P : IsUpTo(P, n)
    BY <1>3
  <1>5. Powers(n) = CHOOSE P : IsUpTo(P, n)
    BY DEF Powers
  <1>6. IsUpTo(Powers(n), n)
    BY <1>4, <1>5
  <1> QED
    BY <1>6

\* Half of the nodes of a level, rounded up, is as many as twice as many leaves each make.
LEMMA Half ==
  ASSUME NEW n \in Nat, n # 0, NEW m \in Nat, m # 0
  PROVE  /\ (n + 2 * m - 1) \div (2 * m) = ((n + m - 1) \div m + 1) \div 2
         /\ (n + m - 1) \div m \in Nat /\ (n + m - 1) \div m # 0
         /\ (n + m - 1) \div m <= n
  <1> DEFINE w == (n + m - 1) \div m
  <1>1. (n + 2 * m - 1) \div (2 * m) = (w + 1) \div 2
    OBVIOUS
  <1>2. /\ n + m - 1 \in Nat /\ w \in Nat
        /\ w * m <= n + m - 1 /\ n + m - 1 < w * m + m
    OBVIOUS
  <1> HIDE DEF w
  <1>3. w # 0
    BY <1>2
  <1>4. w <= n
    <2>1. ASSUME w >= n + 1 PROVE FALSE
      <3>1. (n + 1) * m <= w * m
        BY <1>2, <2>1
      <3>2. (n + 1) * m = n * m + m /\ n * m >= n
        OBVIOUS
      <3> QED
        BY <1>2, <3>1, <3>2
    <2> QED
      BY <1>2, <2>1
  <1> QED
    BY <1>1, <1>2, <1>3, <1>4 DEF w

LEMMA Widths ==
  ASSUME NEW n \in Nat, n # 0
  PROVE  /\ Width(n, 0) = n
         /\ \A h \in 0 .. n : Width(n, h) \in 1 .. n
         /\ \A h \in 0 .. n - 1 : Width(n, h + 1) = (Width(n, h) + 1) \div 2
  <1> DEFINE P == Powers(n)
             G == {h \in 0 .. n : P[h] \in Nat /\ P[h] # 0}
  <1>1. P[0] = 1 /\ \A h \in 0 .. n - 1 : P[h + 1] = 2 * P[h]
    BY PowersAre
  <1> HIDE DEF P
  <1>2. \A h \in 0 .. n : h \in G
    <2>1. 0 \in G
      BY <1>1
    <2>2. ASSUME NEW h \in 0 .. n - 1, h \in G PROVE h + 1 \in G
      BY <1>1, <2>2
    <2> HIDE DEF G
    <2> QED
      BY <2>1, <2>2, UpTo
  <1>3. Width(n, 0) = n
    BY <1>1 DEF Width, P
  <1>4. ASSUME NEW h \in 0 .. n PROVE Width(n, h) \in 1 .. n
    <2> DEFINE m == P[h]
    <2>1. m \in Nat /\ m # 0
      BY <1>2
    <2>2. Width(n, h) = (n + m - 1) \div m
      BY DEF Width, P
    <2> HIDE DEF m
    <2>3. /\ (n + m - 1) \div m \in Nat /\ (n + m - 1) \div m # 0
          /\ (n + m - 1) \div m <= n
      BY <2>1, Half
    <2> QED
      BY <2>2, <2>3
  <1>5. ASSUME NEW h \in 0 .. n - 1 PROVE Width(n, h + 1) = (Width(n, h) + 1) \div 2
    <2> DEFINE m == P[h]
    <2>1. m \in Nat /\ m # 0 /\ P[h + 1] = 2 * m
      BY <1>1, <1>2
    <2>2. Width(n, h) = (n + m - 1) \div m
      BY DEF Width, P
    <2>3. Width(n, h + 1) = (n + 2 * m - 1) \div (2 * m)
      BY <2>1 DEF Width, P
    <2> HIDE DEF m
    <2>4. (n + 2 * m - 1) \div (2 * m) = ((n + m - 1) \div m + 1) \div 2
      BY <2>1, Half
    <2> QED
      BY <2>2, <2>3, <2>4
  <1> QED
    BY <1>3, <1>4, <1>5

\* Each level is as wide as the definition says.
LEMMA LevelWidth ==
  ASSUME NEW s, IsList(s), s # <<>>
  PROVE  \A k \in 0 .. Len(s) : Size(Levels(s)[k]) = Width(Len(s), k)
  <1> DEFINE L == Levels(s)
             n == Len(s)
             G == {k \in 0 .. n : Size(L[k]) = Width(n, k)}
  <1>1. /\ n \in Nat /\ n # 0 /\ L[0] = s
        /\ \A k \in 0 .. n : IsList(L[k]) /\ Size(L[k]) \in Nat /\ Size(L[k]) # 0
        /\ \A k \in 0 .. n - 1 : L[k + 1] = Above(L[k])
    BY LevelFacts, LevelsAre
  <1>2. /\ Width(n, 0) = n
        /\ \A k \in 0 .. n - 1 : Width(n, k + 1) = (Width(n, k) + 1) \div 2
    BY <1>1, Widths
  <1>3. 0 \in G
    BY <1>1, <1>2 DEF Size
  <1> HIDE DEF L, n
  <1>4. ASSUME NEW k \in 0 .. n - 1, k \in G PROVE k + 1 \in G
    <2>1. /\ k \in 0 .. n /\ k + 1 \in 0 .. n /\ L[k + 1] = Above(L[k])
          /\ IsList(L[k]) /\ Size(L[k]) \in Nat /\ Size(L[k]) # 0
          /\ Size(L[k]) = Width(n, k)
      BY <1>1, <1>4
    <2>2. Size(L[k + 1]) = (Size(L[k]) + 1) \div 2
      <3>1. CASE Size(L[k]) > 1
        BY <2>1, <3>1, UpSize DEF Above
      <3>2. CASE ~ (Size(L[k]) > 1)
        <4>1. L[k + 1] = L[k] /\ Size(L[k]) = 1
          BY <2>1, <3>2 DEF Above
        <4> QED
          BY <4>1
      <3> QED
        BY <3>1, <3>2
    <2> QED
      BY <1>2, <2>1, <2>2
  <1>5. \A k \in 0 .. n : k \in G
    <2> HIDE DEF G
    <2> QED
      BY <1>1, <1>3, <1>4, UpTo
  <1> QED
    BY <1>5 DEF L, n

\* The height is that of the first level with one node.
LEMMA HeightIs ==
  ASSUME NEW n \in Nat, NEW h \in 0 .. n, Width(n, h) = 1,
         \A g \in 0 .. h - 1 : Width(n, g) > 1
  PROVE  Height(n) = h
  <1> DEFINE First(k) == Width(n, k) = 1 /\ \A g \in 0 .. k - 1 : Width(n, g) > 1
             k == CHOOSE k \in 0 .. n : First(k)
  <1>1. First(h)
    OBVIOUS
  <1>2. k \in 0 .. n /\ First(k) /\ Height(n) = k
    BY <1>1 DEF Height
  <1> HIDE DEF k
  <1>3. ~ (k < h) /\ ~ (h < k)
    <2>1. k < h => k \in 0 .. h - 1
      BY <1>2
    <2>2. h < k => h \in 0 .. k - 1
      BY <1>2
    <2>3. ~ (1 > 1)
      OBVIOUS
    <2> QED
      BY <1>1, <1>2, <2>1, <2>2, <2>3
  <1> QED
    BY <1>2, <1>3

\* A row of the reference tree, from the one below it.
Row(s, h, below) ==
    [i \in 1 .. Len(s) + 1 |->
        LET j == Within(i, Width(Len(s), h)) IN <<below[2 * j - 1], below[2 * j]>>]

Bottom(s) == [i \in 1 .. Len(s) + 1 |-> s[Within(i, Len(s))]]

\* Nodes is the function that its recursion says.
LEMMA NodesAre ==
  ASSUME NEW s, Len(s) \in Nat
  PROVE  /\ Nodes(s)[0] = Bottom(s)
         /\ \A k \in 0 .. Len(s) - 1 : Nodes(s)[k + 1] = Row(s, k + 1, Nodes(s)[k])
  <1> DEFINE n == Len(s)
             IsUpTo(N, m) ==
               N = [k \in 0 .. m |-> IF k = 0 THEN Bottom(s) ELSE Row(s, k, N[k - 1])]
             G == {m \in 0 .. n : \E N : IsUpTo(N, m)}
  <1>1. 0 \in G
    <2> DEFINE M == [k \in 0 .. 0 |-> Bottom(s)]
    <2>1. M = [k \in 0 .. 0 |-> IF k = 0 THEN Bottom(s) ELSE Row(s, k, M[k - 1])]
      OBVIOUS
    <2>2. IsUpTo(M, 0) /\ 0 \in 0 .. n
      <3> HIDE DEF M
      <3> QED
        BY <2>1
    <2> QED
      BY <2>2
  <1>2. ASSUME NEW m \in 0 .. n - 1, m \in G PROVE m + 1 \in G
    <2>1. PICK N : IsUpTo(N, m)
      BY <1>2
    <2> DEFINE M == [k \in 0 .. m + 1 |-> IF k <= m THEN N[k] ELSE Row(s, m + 1, N[m])]
    <2>2. DOMAIN M = 0 .. m + 1 /\ M = [k \in 0 .. m + 1 |-> M[k]]
      OBVIOUS
    <2>3. ASSUME NEW k \in 0 .. m + 1
          PROVE  M[k] = IF k = 0 THEN Bottom(s) ELSE Row(s, k, M[k - 1])
      <3>1. CASE k <= m
        <4>1. M[k] = N[k] /\ k \in 0 .. m /\ (k # 0 => k - 1 \in 0 .. m + 1 /\ k - 1 <= m)
          BY <3>1
        <4>2. k # 0 => M[k - 1] = N[k - 1]
          BY <4>1
        <4> QED
          BY <2>1, <4>1, <4>2
      <3>2. CASE ~ (k <= m)
        <4>1. k = m + 1 /\ k # 0 /\ k - 1 = m /\ m \in 0 .. m + 1
          BY <3>2
        <4>2. M[k] = Row(s, m + 1, N[m]) /\ M[m] = N[m]
          BY <4>1
        <4> QED
          BY <4>1, <4>2
      <3> QED
        BY <3>1, <3>2
    <2>4. IsUpTo(M, m + 1)
      <3> HIDE DEF M
      <3> QED
        BY <2>2, <2>3
    <2>5. m + 1 \in 0 .. n
      OBVIOUS
    <2> QED
      BY <2>4, <2>5
  <1>3. n \in G
    <2>1. n \in 0 .. n
      OBVIOUS
    <2> HIDE DEF G
    <2> QED
      BY <1>1, <1>2, <2>1, UpTo
  <1>4. \E N : IsUpTo(N, n)
    BY <1>3
  <1>5. Nodes(s) = CHOOSE N : IsUpTo(N, n)
    BY DEF Nodes, Bottom, Row
  <1>6. IsUpTo(Nodes(s), n)
    BY <1>4, <1>5
  <1> QED
    BY <1>6

\* A node above a level is over two nodes of it, the last one twice if it is odd.
LEMMA UpNode ==
  ASSUME NEW x, IsList(x), Size(x) > 1, NEW j \in 1 .. (Size(x) + 1) \div 2
  PROVE  /\ 2 * j - 1 \in 1 .. Size(x)
         /\ Up(x)[j] = <<x[2 * j - 1], x[Within(2 * j, Size(x))]>>
  <1> DEFINE w == Size(x)
  <1>0. w \in Nat /\ j \in Nat
    BY DEF IsList, Size
  <1>1. 2 * j - 1 \in 1 .. w /\ (2 * j - 1) % 2 = 1 /\ (2 * j - 1 + 1) \div 2 = j
        /\ 2 * j - 1 + 1 = 2 * j
    BY <1>0
  <1>2. Up(x)[j] = <<x[2 * j - 1], Padded(x)[2 * j]>>
    <2>1. Sibling(2 * j - 1) = 2 * j
      BY <1>1 DEF Sibling
    <2>2. LET i == 2 * j - 1
          IN  Up(x)[(i + 1) \div 2] = <<x[i], Padded(x)[Sibling(i)]>>
      BY <1>1, UpSize
    <2> QED
      BY <1>1, <2>1, <2>2
  <1>3. Padded(x)[2 * j] = x[Within(2 * j, w)]
    <2>1. CASE 2 * j > w
      <3>1. w % 2 = 1 /\ 2 * j = w + 1 /\ w \in 1 .. w
        BY <1>0, <2>1
      <3>2. Padded(x) = Append(x, x[w])
        BY <3>1 DEF Padded, Size
      <3>3. Append(x, x[w])[w + 1] = x[w]
        BY ListIsSeq DEF Size
      <3> QED
        BY <2>1, <3>1, <3>2, <3>3 DEF Within
    <2>2. CASE ~ (2 * j > w)
      <3>1. 2 * j \in 1 .. w
        BY <1>0, <2>2
      <3>2. Padded(x)[2 * j] = x[2 * j]
        <4>1. Padded(x) = x \/ Padded(x) = Append(x, x[w])
          BY DEF Padded, Size
        <4>2. Append(x, x[w])[2 * j] = x[2 * j]
          BY <3>1, ListIsSeq DEF Size
        <4> QED
          BY <4>1, <4>2
      <3> QED
        BY <2>2, <3>2 DEF Within
    <2> QED
      BY <2>1, <2>2
  <1> QED
    BY <1>1, <1>2, <1>3

\* Below the root, the reference tree holds what the levels hold.
LEMMA LevelNodes ==
  ASSUME NEW s, IsList(s), s # <<>>, NEW h \in 0 .. Len(s),
         \A k \in 0 .. h - 1 : Size(Levels(s)[k]) > 1
  PROVE  \A i \in 1 .. Len(s) + 1 :
           Nodes(s)[h][i] = Levels(s)[h][Within(i, Size(Levels(s)[h]))]
  <1> DEFINE L == Levels(s)
             N == Nodes(s)
             n == Len(s)
             Same(k) == \A i \in 1 .. n + 1 : N[k][i] = L[k][Within(i, Size(L[k]))]
             G == {k \in 0 .. h : Same(k)}
  <1>1. /\ n \in Nat /\ n # 0 /\ L[0] = s
        /\ \A k \in 0 .. n : IsList(L[k]) /\ Size(L[k]) \in Nat /\ Size(L[k]) # 0
        /\ \A k \in 0 .. n - 1 : L[k + 1] = Above(L[k])
        /\ \A k \in 0 .. n : Size(L[k]) = Width(n, k)
    BY LevelFacts, LevelsAre, LevelWidth
  <1>2. N[0] = Bottom(s) /\ \A k \in 0 .. n - 1 : N[k + 1] = Row(s, k + 1, N[k])
    BY <1>1, NodesAre
  <1>3. \A k \in 0 .. n : Width(n, k) \in 1 .. n
    BY <1>1, Widths
  <1> HIDE DEF N
  <1>4. 0 \in G
    <2>1. \A i \in 1 .. n + 1 : N[0][i] = s[Within(i, n)]
      BY <1>2 DEF Bottom
    <2> QED
      BY <1>1, <2>1 DEF Size
  <1> HIDE DEF L
  <1>5. ASSUME NEW k \in 0 .. h - 1, k \in G PROVE k + 1 \in G
    <2> DEFINE w == Size(L[k])
               v == Size(L[k + 1])
    <2>1. /\ k \in 0 .. n /\ k \in 0 .. n - 1 /\ k + 1 \in 0 .. n /\ k + 1 \in 0 .. h
          /\ w > 1 /\ w \in Nat /\ IsList(L[k]) /\ Same(k)
      BY <1>1, <1>5 DEF L
    <2>2. L[k + 1] = Up(L[k]) /\ v = (w + 1) \div 2 /\ w <= n
          /\ v = Width(n, k + 1)
      <3>1. L[k + 1] = Up(L[k])
        BY <1>1, <2>1 DEF Above
      <3>2. v = (w + 1) \div 2
        BY <2>1, <3>1, UpSize
      <3> QED
        BY <1>1, <1>3, <2>1, <3>1, <3>2
    <2>3. ASSUME NEW i \in 1 .. n + 1
          PROVE  N[k + 1][i] = L[k + 1][Within(i, v)]
      <3> DEFINE j == Within(i, v)
                 B == N[k]
      <3> HIDE DEF w, v
      <3>1. j \in 1 .. (w + 1) \div 2
        <4>1. w \in Nat /\ w > 1 /\ v = (w + 1) \div 2 /\ i \in Nat /\ i # 0
          BY <1>1, <2>1, <2>2
        <4> QED
          BY <4>1 DEF Within
      <3>2. N[k + 1][i] = <<B[2 * j - 1], B[2 * j]>>
        <4>1. N[k + 1] = Row(s, k + 1, B) /\ Len(s) = n /\ Width(n, k + 1) = v
          BY <1>2, <2>1, <2>2
        <4> HIDE DEF n, B
        <4> QED
          BY <4>1 DEF Row
      <3> HIDE DEF j
      <3>3. 2 * j - 1 \in 1 .. w /\ 2 * j - 1 \in 1 .. n + 1 /\ 2 * j \in 1 .. n + 1
        BY <1>1, <2>1, <2>2, <3>1
      <3>4. L[k + 1][j] = <<L[k][2 * j - 1], L[k][Within(2 * j, w)]>>
        BY <2>1, <2>2, <3>1, UpNode DEF w
      <3>5. Within(2 * j - 1, w) = 2 * j - 1
        BY <2>1, <3>3 DEF Within
      <3>6. B[2 * j - 1] = L[k][Within(2 * j - 1, w)] /\ B[2 * j] = L[k][Within(2 * j, w)]
        <4>1. \A m \in 1 .. n + 1 : B[m] = L[k][Within(m, w)]
          BY <2>1 DEF w
        <4> HIDE DEF n, B
        <4> QED
          BY <3>3, <4>1
      <3> HIDE DEF B
      <3> QED
        BY <3>2, <3>4, <3>5, <3>6 DEF j
    <2> QED
      BY <2>1, <2>3
  <1>6. h \in G
    <2>1. h \in Nat /\ h \in 0 .. h
      BY <1>1
    <2> HIDE DEF G
    <2> QED
      BY <1>4, <1>5, <2>1, UpTo
  <1> QED
    BY <1>6 DEF L, N

\* For every number of leaves, compute_root is the root of the tree in which a
\* missing node stands for the last of its level (merkle.py:4), and the proof of every
\* position leads to it.
THEOREM TreesAreRight ==
  ASSUME NEW s, IsList(s), s # <<>>
  PROVE  RightTree(s)
  <1> DEFINE L == Levels(s)
             n == Len(s)
  <1>1. PICK h \in 0 .. n :
          /\ \A k \in 0 .. h - 1 : Size(L[k]) > 1
          /\ Size(L[h]) = 1 /\ L[n] = L[h]
    BY TallFacts
  <1>2. n \in Nat /\ n # 0
    BY LevelFacts
  <1>3. Height(n) = h
    <2>1. \A k \in 0 .. n : Size(L[k]) = Width(n, k)
      BY LevelWidth
    <2>2. \A k \in 0 .. h - 1 : k \in 0 .. n
      BY <1>2
    <2>3. Width(n, h) = 1 /\ \A k \in 0 .. h - 1 : Width(n, k) > 1
      BY <1>1, <2>1, <2>2
    <2> HIDE DEF n
    <2> QED
      BY <1>2, <2>3, HeightIs
  <1>4. Nodes(s)[h][1] = L[h][1]
    <2>1. 1 \in 1 .. n + 1 /\ Within(1, Size(L[h])) = 1
      BY <1>1, <1>2 DEF Within
    <2>2. \A i \in 1 .. n + 1 : Nodes(s)[h][i] = L[h][Within(i, Size(L[h]))]
      BY <1>1, LevelNodes
    <2> QED
      BY <2>1, <2>2
  <1>5. compute_root(s) = Nodes(s)[Height(n)][1]
    BY <1>1, <1>3, <1>4 DEF compute_root
  <1>6. \A p \in 1 .. n : Climb(s[p], merkle_proof(s, p), p) = compute_root(s)
    BY ProofLeadsToRoot
  <1> QED
    BY <1>5, <1>6 DEF RightTree

\* So for the trees that the run compares, whatever their bound.
THEOREM TreeCorrect == Spec => []TreeIsRight
  <1>1. TreeIsRight
    <2> SUFFICES ASSUME NEW n \in 1 .. MaxLeaves
                 PROVE  RightTree([i \in 1 .. n |-> <<"leaf", i>>])
      BY Zenon DEF TreeIsRight
    <2> DEFINE s == [i \in 1 .. n |-> <<"leaf", i>>]
    <2>1. n \in Nat /\ n # 0 /\ s = [i \in 1 .. n |-> s[i]]
      OBVIOUS
    <2> HIDE DEF s
    <2>2. IsList(s) /\ Len(s) = n
      BY <2>1, IsListOf
    <2>3. s # <<>>
      BY <2>1, <2>2
    <2> QED
      BY <2>2, <2>3, TreesAreRight DEF s
  <1> QED
    BY <1>1, PTL

-----------------------------------------------------------------------------
(* Registrations.                                                          *)

USE LedgerConstants DEF LedgerConstants

Point == {"idle", "load", "rows", "leaf", "commit", "keys"}

\* Listings exclude each other per user and leave room for a bundle.
Locked ==
    /\ DOMAIN base = Txn
    /\ \A t \in Txn : pc[t] # "idle" => who[t] \in User
    /\ \A t \in Listed : bundle[who[t]] < MaxVersion
    /\ \A t, o \in Listed : who[t] = who[o] => t = o

\* A listing has the positions of the table it was taken from, and those that
\* came since are not its own user's.
Prefix(t) ==
    /\ Len(snap[t]) <= Len(rows)
    /\ \A i \in DOMAIN snap[t] : snap[t][i][1] = rows[i][1]
    /\ \A i \in DOMAIN rows : rows[i][1] = who[t] => i \in DOMAIN snap[t]

\* A listing that nobody overtook is the table, and so is merkle_state.
Exact(t) == t \notin lapsed =>
    /\ snap[t] = rows
    /\ pc[t] = "commit" => base[t] = state

IInv ==
    /\ TypeOK /\ Locked
    /\ \A t \in Listed : Prefix(t) /\ Exact(t)
    /\ LeavesMatchBundles
    /\ CleanRootIsCurrent

\* The positions of a sequence of leaves, and the leaves.
LEMMA LeafFacts ==
  ASSUME NEW s \in Seq(Leaf)
  PROVE  /\ DOMAIN s = 1 .. Len(s) /\ Len(s) \in Nat
         /\ \A i \in DOMAIN s : /\ s[i] \in Leaf /\ s[i][1] \in User
                                /\ s[i][2] \in 1 .. MaxVersion
  BY DEF Leaf

\* Ranges are equal when their lengths are.
LEMMA SameRange == ASSUME NEW m \in Nat, NEW n \in Nat, 1 .. m = 1 .. n PROVE m = n
  <1>1. m > n => m \in 1 .. m /\ m \notin 1 .. n
    OBVIOUS
  <1>2. n > m => n \in 1 .. n /\ n \notin 1 .. m
    OBVIOUS
  <1> QED
    BY <1>1, <1>2

LEMMA InitInv == Init => IInv
  <1> SUFFICES ASSUME Init PROVE IInv
    OBVIOUS
  <1>1. TypeOK
    BY DEF Init, TypeOK, NoState
  <1>2. Listed = {} /\ Locked
    BY DEF Init, Locked, Listed
  <1>3. LeavesMatchBundles
    BY DEF Init, LeavesMatchBundles
  <1>4. CleanRootIsCurrent
    BY DEF Init, CleanRootIsCurrent, merkle_root
  <1> QED
    BY <1>1, <1>2, <1>3, <1>4 DEF IInv

-----------------------------------------------------------------------------
(* The commit.                                                             *)

\* What a commit writes: the user's new leaf at its place, or after the others.
LEMMA CommitRows ==
  ASSUME IInv, NEW t \in Txn, Commit(t)
  PROVE  /\ t \in Listed /\ who[t] \in User /\ NewLeaf(t) \in Leaf
         /\ rows' = RowsWith(t) /\ rows' \in Seq(Leaf) /\ Len(rows) <= Len(rows')
         /\ \A i \in DOMAIN rows :
              rows'[i] = IF rows[i][1] = who[t] THEN NewLeaf(t) ELSE rows[i]
         /\ \A i \in DOMAIN rows' \ DOMAIN rows :
              /\ rows'[i] = NewLeaf(t) /\ i = Len(rows) + 1
              /\ PositionIn(rows, who[t]) = {}
         /\ PositionIn(rows', who[t]) # {}
         /\ PositionIn(snap[t], who[t]) = PositionIn(rows, who[t])
  <1>1. t \in Listed /\ pc[t] = "commit" /\ rows' = RowsWith(t)
    BY DEF Commit, Committed, Listed
  <1>2. who[t] \in User /\ bundle[who[t]] \in 0 .. MaxVersion /\ bundle[who[t]] < MaxVersion
    BY <1>1 DEF IInv, TypeOK, Locked
  <1>3. NewLeaf(t) \in Leaf /\ NewLeaf(t)[1] = who[t]
    BY <1>2 DEF NewLeaf, Leaf
  <1>4. rows \in Seq(Leaf) /\ snap[t] \in Seq(Leaf) /\ Prefix(t)
    BY <1>1 DEF IInv, TypeOK
  <1>5. /\ DOMAIN rows = 1 .. Len(rows) /\ Len(rows) \in Nat
        /\ DOMAIN snap[t] = 1 .. Len(snap[t]) /\ Len(snap[t]) \in Nat
        /\ \A i \in DOMAIN rows : rows[i] \in Leaf
    BY <1>4, LeafFacts
  <1>6. PositionIn(snap[t], who[t]) = PositionIn(rows, who[t])
    BY <1>4, <1>5 DEF Prefix, PositionIn
  <1>7. CASE Replaces(t)
    <2>1. rows' = [i \in 1 .. Len(rows) |-> IF rows[i][1] = who[t] THEN NewLeaf(t) ELSE rows[i]]
      BY <1>1, <1>5, <1>6, <1>7 DEF RowsWith, PositionIn
    <2>2. rows' \in Seq(Leaf) /\ Len(rows') = Len(rows) /\ DOMAIN rows' = DOMAIN rows
      <3>1. \A i \in 1 .. Len(rows) : (IF rows[i][1] = who[t] THEN NewLeaf(t) ELSE rows[i]) \in Leaf
        BY <1>3, <1>5
      <3>2. rows' \in [1 .. Len(rows) -> Leaf]
        BY <2>1, <3>1
      <3>3. rows' \in Seq(Leaf)
        BY <3>2, <1>5, SeqDef
      <3>4. DOMAIN rows' = 1 .. Len(rows)
        BY <3>2
      <3>5. Len(rows') = Len(rows)
        <4>1. Len(rows') \in Nat /\ 1 .. Len(rows') = 1 .. Len(rows)
          BY <3>3, <3>4, LenProperties
        <4> QED
          BY <4>1, <1>5, SameRange
      <3> QED
        BY <3>3, <3>4, <3>5, <1>5
    <2>3. PICK i \in DOMAIN rows : rows[i][1] = who[t]
      BY <1>6, <1>7 DEF Replaces, PositionIn
    <2>4. i \in PositionIn(rows', who[t])
      BY <2>1, <2>2, <2>3, <1>3, <1>5 DEF PositionIn
    <2>5. \A j \in DOMAIN rows : rows'[j] = IF rows[j][1] = who[t] THEN NewLeaf(t) ELSE rows[j]
      BY <2>1, <1>5
    <2>6. DOMAIN rows' \ DOMAIN rows = {} /\ Len(rows) <= Len(rows') /\ PositionIn(rows', who[t]) # {}
      BY <2>2, <2>4, <1>5
    <2> QED
      BY <1>1, <1>2, <1>3, <1>6, <2>2, <2>5, <2>6
  <1>8. CASE ~Replaces(t)
    <2>1. rows' = Append(rows, NewLeaf(t)) /\ PositionIn(rows, who[t]) = {}
      BY <1>1, <1>6, <1>8 DEF RowsWith, Replaces
    <2>2. /\ rows' \in Seq(Leaf) /\ Len(rows') = Len(rows) + 1
          /\ DOMAIN rows' = 1 .. Len(rows) + 1
          /\ \A i \in DOMAIN rows : rows'[i] = rows[i]
          /\ rows'[Len(rows) + 1] = NewLeaf(t)
      BY <2>1, <1>3, <1>4, <1>5
    <2>3. \A i \in DOMAIN rows : rows[i][1] # who[t]
      BY <2>1 DEF PositionIn
    <2>4. Len(rows) + 1 \in PositionIn(rows', who[t])
      BY <2>2, <1>3, <1>5 DEF PositionIn
    <2>5. \A i \in DOMAIN rows' \ DOMAIN rows : i = Len(rows) + 1
      BY <2>2, <1>5
    <2> QED
      BY <1>1, <1>2, <1>3, <1>5, <1>6, <2>1, <2>2, <2>3, <2>4, <2>5
  <1> QED
    BY <1>7, <1>8

\* What a commit leaves of the requests.
LEMMA CommitFlight ==
  ASSUME IInv, NEW t \in Txn, Commit(t)
  PROVE  /\ Listed' = Listed \ {t}
         /\ \A o \in Txn \ {t} : /\ pc'[o] = pc[o] /\ who'[o] = who[o]
                                 /\ snap'[o] = snap[o] /\ base'[o] = base[o]
         /\ pc'[t] = "idle" /\ lapsed' = (lapsed \cup Listed) \ {t}
         /\ bundle'[who[t]] = bundle[who[t]] + 1
         /\ \A u \in User \ {who[t]} : bundle'[u] = bundle[u]
         /\ clean' = (t \notin lapsed) /\ state' = Merged(t)
  <1> USE DEF Commit, Committed, Forget, Goto
  <1>1. /\ pc'[t] = "idle"
        /\ \A o \in Txn \ {t} : /\ pc'[o] = pc[o] /\ who'[o] = who[o]
                                /\ snap'[o] = snap[o] /\ base'[o] = base[o]
    BY DEF IInv, TypeOK
  <1>2. Listed' = Listed \ {t}
    BY <1>1 DEF Listed
  <1>3. /\ bundle'[who[t]] = bundle[who[t]] + 1
        /\ \A u \in User \ {who[t]} : bundle'[u] = bundle[u]
    BY CommitRows DEF IInv, TypeOK
  <1> QED
    BY <1>1, <1>2, <1>3

LEMMA CommitType == ASSUME IInv, NEW t \in Txn, Commit(t) PROVE TypeOK'
  <1>1. rows' \in Seq(Leaf) /\ who[t] \in User
    BY CommitRows
  <1>2. bundle' \in [User -> 0 .. MaxVersion]
    <2>1. bundle[who[t]] \in 0 .. MaxVersion /\ bundle[who[t]] < MaxVersion
      BY CommitRows DEF IInv, TypeOK, Locked
    <2>2. bundle[who[t]] + 1 \in 0 .. MaxVersion
      BY <2>1
    <2> QED
      BY <1>1, <2>2 DEF IInv, TypeOK, Commit, Committed
  <1>3. leafIdx' \in [User -> Nat]
    <2>1. \A i \in PositionIn(rows', who[t]) : i - 1 \in Nat
      BY <1>1 DEF PositionIn
    <2>2. (CHOOSE i \in PositionIn(rows', who[t]) : TRUE) \in PositionIn(rows', who[t])
      BY CommitRows
    <2> QED
      BY <1>1, <2>1, <2>2 DEF Commit, IInv, TypeOK
  <1>4. state'.size \in Nat
    <2>1. Computed(t).size \in Nat
      <3>1. snap[t] \in Seq(Leaf) /\ NewLeaf(t) \in Leaf
        BY CommitRows DEF IInv, TypeOK
      <3>2. ListedWith(t) \in Seq(Leaf)
        <4>1. CASE Replaces(t)
          BY <4>1, <3>1, LeafFacts DEF ListedWith
        <4>2. CASE ~Replaces(t)
          BY <4>2, <3>1 DEF ListedWith
        <4> QED
          BY <4>1, <4>2
      <3> QED
        BY <3>2 DEF Computed
    <2>2. state.size \in Nat /\ state' = Merged(t)
      BY CommitFlight DEF IInv, TypeOK
    <2>3. CASE base[t] = NoState
      BY <2>1, <2>2, <2>3 DEF Merged
    <2>4. CASE base[t] # NoState
      <3>1. Merged(t).size = IF Computed(t).size # base[t].size THEN Computed(t).size ELSE state.size
        BY <2>4 DEF Merged
      <3> QED
        BY <2>1, <2>2, <3>1
    <2> QED
      BY <2>3, <2>4
  <1>5. /\ pc' \in [Txn -> Point] /\ who' \in [Txn -> User \cup {Nobody}]
        /\ known' \in [Txn -> BOOLEAN] /\ snap' \in [Txn -> Seq(Leaf)]
        /\ read' \in [Txn -> 0 .. MaxVersion]
    <2>1. <<>> \in Seq(Leaf)
      OBVIOUS
    <2> QED
      BY <2>1 DEF Commit, Committed, Forget, Goto, IInv, TypeOK, Point
  <1>6. lapsed' \subseteq Txn /\ clean' \in BOOLEAN
    BY CommitFlight DEF IInv, TypeOK, Listed
  <1> QED
    BY <1>1, <1>2, <1>3, <1>4, <1>5, <1>6 DEF TypeOK, Point

LEMMA CommitLocked == ASSUME IInv, NEW t \in Txn, Commit(t) PROVE Locked'
  <1>1. \A o \in Listed' : o \in Listed /\ o # t /\ who[o] # who[t] /\ who'[o] = who[o]
    BY CommitRows, CommitFlight DEF IInv, Locked, Listed
  <1>2. \A o \in Txn : pc'[o] # "idle" => who'[o] \in User
    BY CommitFlight DEF IInv, Locked
  <1>3. \A o \in Listed' : bundle'[who'[o]] < MaxVersion
    BY <1>1, CommitFlight DEF IInv, Locked, Listed
  <1>4. DOMAIN base' = Txn
    BY DEF IInv, Locked, Commit, Committed, Forget
  <1> QED
    BY <1>1, <1>2, <1>3, <1>4 DEF IInv, Locked

\* The others' listings stay prefixes, and are known to be out of date.
LEMMA CommitListings ==
  ASSUME IInv, NEW t \in Txn, Commit(t), NEW o \in Listed'
  PROVE  Prefix(o)' /\ Exact(o)'
  <1>1. o \in Listed /\ o # t /\ who[o] # who[t] /\ o \in Txn
    BY CommitRows, CommitFlight DEF IInv, Locked, Listed
  <1>2. snap'[o] = snap[o] /\ who'[o] = who[o] /\ o \in lapsed'
    BY <1>1, CommitFlight
  <1>3. Exact(o)'
    BY <1>2 DEF Exact
  <1>4. rows \in Seq(Leaf) /\ snap[o] \in Seq(Leaf) /\ Prefix(o) /\ NewLeaf(t)[1] = who[t]
    BY <1>1 DEF IInv, TypeOK, NewLeaf
  <1>5. DOMAIN snap[o] \subseteq DOMAIN rows /\ Len(snap[o]) <= Len(rows')
    <2>1. /\ Len(snap[o]) \in Nat /\ Len(rows) \in Nat /\ Len(rows') \in Nat
          /\ DOMAIN snap[o] = 1 .. Len(snap[o]) /\ DOMAIN rows = 1 .. Len(rows)
      BY <1>4, CommitRows, LeafFacts
    <2>2. Len(snap[o]) <= Len(rows) /\ Len(rows) <= Len(rows')
      BY <1>4, CommitRows DEF Prefix
    <2> QED
      BY <2>1, <2>2
  <1>6. \A i \in DOMAIN rows : rows'[i][1] = rows[i][1]
    BY <1>4, CommitRows
  <1>7. \A i \in DOMAIN snap[o] : snap[o][i][1] = rows'[i][1]
    BY <1>4, <1>5, <1>6 DEF Prefix
  <1>8. \A i \in DOMAIN rows' : rows'[i][1] = who[o] => i \in DOMAIN snap[o]
    BY <1>1, <1>4, <1>6, CommitRows DEF Prefix
  <1> QED
    BY <1>2, <1>3, <1>5, <1>7, <1>8 DEF Prefix

LEMMA CommitLeaves == ASSUME IInv, NEW t \in Txn, Commit(t) PROVE LeavesMatchBundles'
  <1>0. /\ rows \in Seq(Leaf) /\ NewLeaf(t)[1] = who[t] /\ NewLeaf(t)[2] = bundle[who[t]] + 1
        /\ LeavesMatchBundles
    BY DEF IInv, TypeOK, NewLeaf
  <1>1. \A i \in DOMAIN rows' : i \in DOMAIN rows => rows'[i][1] = rows[i][1]
    BY <1>0, CommitRows
  <1>2. \A i, j \in DOMAIN rows' : rows'[i][1] = rows'[j][1] => i = j
    <2> SUFFICES ASSUME NEW i \in DOMAIN rows', NEW j \in DOMAIN rows', rows'[i][1] = rows'[j][1]
                 PROVE  i = j
      OBVIOUS
    <2>1. CASE i \in DOMAIN rows /\ j \in DOMAIN rows
      BY <2>1, <1>0, <1>1 DEF LeavesMatchBundles
    <2>2. CASE i \notin DOMAIN rows /\ j \notin DOMAIN rows
      BY <2>2, CommitRows
    <2>3. CASE i \in DOMAIN rows /\ j \notin DOMAIN rows
      BY <2>3, <1>0, <1>1, CommitRows DEF PositionIn
    <2>4. CASE i \notin DOMAIN rows /\ j \in DOMAIN rows
      BY <2>4, <1>0, <1>1, CommitRows DEF PositionIn
    <2> QED
      BY <2>1, <2>2, <2>3, <2>4
  <1>3. \A i \in DOMAIN rows' : rows'[i][2] = bundle'[rows'[i][1]]
    <2> SUFFICES ASSUME NEW i \in DOMAIN rows' PROVE rows'[i][2] = bundle'[rows'[i][1]]
      OBVIOUS
    <2>1. CASE i \in DOMAIN rows /\ rows[i][1] # who[t]
      <3>1. rows'[i] = rows[i] /\ rows[i][1] \in User
        BY <2>1, <1>0, CommitRows, LeafFacts
      <3> QED
        BY <2>1, <3>1, <1>0, CommitFlight DEF LeavesMatchBundles
    <2>2. CASE i \notin DOMAIN rows \/ rows[i][1] = who[t]
      <3>1. rows'[i] = NewLeaf(t)
        BY <2>2, CommitRows
      <3> QED
        BY <3>1, <1>0, CommitFlight
    <2> QED
      BY <2>1, <2>2
  <1>4. \A u \in User : bundle'[u] # 0 => PositionIn(rows', u) # {}
    <2> SUFFICES ASSUME NEW u \in User, bundle'[u] # 0 PROVE PositionIn(rows', u) # {}
      OBVIOUS
    <2>1. CASE u = who[t]
      BY <2>1, CommitRows
    <2>2. CASE u # who[t]
      <3>1. PICK i \in DOMAIN rows : rows[i][1] = u
        BY <2>2, <1>0, CommitFlight DEF LeavesMatchBundles, PositionIn
      <3>2. i \in DOMAIN rows'
        <4>1. /\ DOMAIN rows = 1 .. Len(rows) /\ DOMAIN rows' = 1 .. Len(rows')
              /\ Len(rows) \in Nat /\ Len(rows') \in Nat /\ Len(rows) <= Len(rows')
          BY <1>0, CommitRows, LeafFacts
        <4> QED
          BY <4>1, <3>1
      <3> QED
        BY <3>1, <3>2, <1>1 DEF PositionIn
    <2> QED
      BY <2>1, <2>2
  <1> QED
    BY <1>2, <1>3, <1>4 DEF LeavesMatchBundles

\* Without an overtaking commit the listing with the new leaf is the new table.
LEMMA CommitClean == ASSUME IInv, NEW t \in Txn, Commit(t) PROVE CleanRootIsCurrent'
  <1> SUFFICES ASSUME clean'
               PROVE  merkle_root' = [size |-> Len(rows'), root |-> compute_root(rows')]
    BY DEF CleanRootIsCurrent
  <1>1. t \in Listed /\ pc[t] = "commit" /\ t \notin lapsed /\ state' = Merged(t)
    BY CommitRows, CommitFlight DEF Commit
  <1>2. snap[t] = rows /\ base[t] = state
    BY <1>1 DEF IInv, Exact
  <1>3. ListedWith(t) = rows'
    BY <1>2, CommitRows DEF ListedWith, RowsWith, PositionIn
  <1>4. Computed(t) = [size |-> Len(rows'), root |-> compute_root(rows')]
    BY <1>3 DEF Computed
  <1>5. Merged(t) = Computed(t)
    <2>1. CASE base[t] = NoState
      BY <2>1 DEF Merged
    <2>2. CASE base[t] # NoState
      BY <2>2, <1>2, <1>4 DEF Merged
    <2> QED
      BY <2>1, <2>2
  <1> QED
    BY <1>1, <1>4, <1>5 DEF merkle_root

LEMMA CommitInv == ASSUME IInv, NEW t \in Txn, Commit(t) PROVE IInv'
  BY CommitType, CommitLocked, CommitListings, CommitLeaves, CommitClean DEF IInv

-----------------------------------------------------------------------------
(* The other steps leave the tables alone.                                 *)

LEMMA SameTables ==
  ASSUME LeavesMatchBundles, CleanRootIsCurrent, UNCHANGED <<tables, clean>>
  PROVE  LeavesMatchBundles' /\ CleanRootIsCurrent'
  BY DEF LeavesMatchBundles, CleanRootIsCurrent, PositionIn, merkle_root, tables

\* A request that ends takes its listing with it.
LEMMA ForgetInv ==
  ASSUME IInv, NEW t \in Txn, Forget(t), UNCHANGED <<tables, clean>>,
         lapsed' = lapsed \/ lapsed' = lapsed \ {t}
  PROVE  IInv'
  <1> USE DEF Forget, Goto, tables
  <1>1. TypeOK'
    <2>1. <<>> \in Seq(Leaf)
      OBVIOUS
    <2> QED
      BY <2>1 DEF IInv, TypeOK
  <1>2. Listed' = Listed \ {t} /\ \A o \in Txn \ {t} :
          /\ pc'[o] = pc[o] /\ who'[o] = who[o] /\ snap'[o] = snap[o] /\ base'[o] = base[o]
          /\ o \in lapsed' <=> o \in lapsed
    BY DEF IInv, TypeOK, Locked, Listed
  <1>3. Locked'
    BY <1>2 DEF IInv, TypeOK, Locked, Listed
  <1>4. \A o \in Listed' : o \in Txn \ {t} /\ o \in Listed
    BY <1>2 DEF Listed
  <1>5. \A o \in Listed' : Prefix(o)' /\ Exact(o)'
    BY <1>2, <1>4 DEF IInv, Prefix, Exact
  <1> QED
    BY <1>1, <1>3, <1>5, SameTables DEF IInv

\* Steps before a listing is taken, or of get_keys.
LEMMA UnlistedInv ==
  ASSUME IInv, NEW t \in Txn,
         LoadUser(t) \/ \E u \in User : Begin(t, u) \/ ReadBundle(t, u)
  PROVE  IInv'
  <1> USE DEF LoadUser, Begin, ReadBundle, Goto, tables
  <1>1. TypeOK'
    <2>1. CASE LoadUser(t)
      BY <2>1 DEF IInv, TypeOK
    <2>2. CASE \E u \in User : Begin(t, u)
      BY <2>2 DEF IInv, TypeOK
    <2>3. CASE \E u \in User : ReadBundle(t, u)
      BY <2>3 DEF IInv, TypeOK
    <2> QED
      BY <2>1, <2>2, <2>3
  <1>2. Listed' = Listed /\ t \notin Listed
    BY DEF IInv, TypeOK, Listed
  <1>3. \A o \in Txn \ {t} : pc'[o] = pc[o] /\ who'[o] = who[o]
    BY DEF IInv, TypeOK
  <1>4. Locked'
    <2>1. pc'[t] # "idle" => who'[t] \in User
      BY DEF IInv, TypeOK, Locked
    <2>2. \A o \in Listed' : o \in Listed /\ o # t /\ who'[o] = who[o]
      BY <1>2, <1>3 DEF Listed
    <2> QED
      BY <2>1, <2>2, <1>2, <1>3 DEF IInv, Locked
  <1>5. \A o \in Listed' : Prefix(o)' /\ Exact(o)'
    <2>1. \A o \in Listed : o \in Txn \ {t}
      BY <1>2 DEF Listed
    <2> QED
      BY <1>2, <1>3, <2>1 DEF IInv, Prefix, Exact
  <1> QED
    BY <1>1, <1>4, <1>5, SameTables DEF IInv

\* A listing is taken under the lock of the user's rows.
LEMMA WriteUserInv == ASSUME IInv, NEW t \in Txn, WriteUser(t) PROVE IInv'
  <1> USE DEF WriteUser, Goto, tables
  <1>1. TypeOK'
    BY DEF IInv, TypeOK
  <1>2. /\ Listed' = Listed \cup {t} /\ t \notin Listed
        /\ pc'[t] = "leaf" /\ snap'[t] = rows /\ who[t] \in User
        /\ \A o \in Txn \ {t} : pc'[o] = pc[o] /\ snap'[o] = snap[o]
    BY DEF IInv, TypeOK, Locked, Listed
  <1>3. Locked'
    <2>1. \A o \in Listed' : bundle[who[o]] < MaxVersion
      BY <1>2 DEF IInv, Locked
    <2>2. \A p, o \in Listed' : who[p] = who[o] => p = o
      BY <1>2 DEF IInv, Locked
    <2>3. \A o \in Txn : pc'[o] # "idle" => who[o] \in User
      BY <1>2 DEF IInv, Locked
    <2> QED
      BY <2>1, <2>2, <2>3 DEF IInv, Locked
  <1>4. Prefix(t)' /\ Exact(t)'
    <2>1. rows \in Seq(Leaf)
      BY DEF IInv, TypeOK
    <2> QED
      BY <1>2, <2>1, LeafFacts DEF Prefix, Exact
  <1>5. \A o \in Listed' : Prefix(o)' /\ Exact(o)'
    <2>1. \A o \in Listed : o \in Txn \ {t}
      BY <1>2 DEF Listed
    <2> QED
      BY <1>2, <1>4, <2>1 DEF IInv, Prefix, Exact
  <1> QED
    BY <1>1, <1>3, <1>5, SameTables DEF IInv

LEMMA WriteLeafInv == ASSUME IInv, NEW t \in Txn, WriteLeaf(t) PROVE IInv'
  <1> USE DEF WriteLeaf, Goto, tables
  <1>1. TypeOK'
    BY DEF IInv, TypeOK
  <1>2. /\ Listed' = Listed /\ base'[t] = state
        /\ \A o \in Txn \ {t} : pc'[o] = pc[o] /\ base'[o] = base[o]
    BY DEF IInv, TypeOK, Locked, Listed
  <1>3. Locked'
    BY <1>2 DEF IInv, TypeOK, Locked, Listed
  <1>4. \A o \in Listed' : Prefix(o)' /\ Exact(o)'
    <2>1. \A o \in Listed : o \in Txn
      BY DEF Listed
    <2> QED
      BY <1>2, <2>1 DEF IInv, Prefix, Exact
  <1> QED
    BY <1>1, <1>3, <1>4, SameTables DEF IInv

LEMMA NextInv == IInv /\ [Next]_vars => IInv'
  <1> SUFFICES ASSUME IInv, [Next]_vars PROVE IInv'
    OBVIOUS
  <1>1. ASSUME NEW t \in Txn,
               UserClash(t) \/ IndexClash(t) \/ Abort(t) \/ ReadLeaves(t)
        PROVE  IInv'
    BY <1>1, ForgetInv DEF UserClash, IndexClash, Abort, ReadLeaves
  <1>2. CASE UNCHANGED vars
    <2>1. TypeOK' /\ Locked'
      BY <1>2 DEF vars, tables, IInv, TypeOK, Locked, Listed
    <2>2. \A o \in Listed' : Prefix(o)' /\ Exact(o)'
      BY <1>2 DEF vars, tables, IInv, Listed, Prefix, Exact
    <2> QED
      BY <1>2, <2>1, <2>2, SameTables DEF vars, IInv
  <1> QED
    BY <1>1, <1>2, UnlistedInv, WriteUserInv, WriteLeafInv, CommitInv DEF Next, Register

\* Every variable stays in its type: in particular every leaf is one.
THEOREM TypeCorrect == Spec => []TypeOK
  <1>1. IInv => TypeOK
    BY DEF IInv
  <1> QED
    BY InitInv, NextInv, <1>1, PTL DEF Spec

\* One leaf for each registered user, that of its bundle, though no constraint
\* of the table says so: the locks of the user's other rows do.
THEOREM LeavesMatch == Spec => []LeavesMatchBundles
  <1>1. IInv => LeavesMatchBundles
    BY DEF IInv
  <1> QED
    BY InitInv, NextInv, <1>1, PTL DEF Spec

\* A registration that nobody overtakes puts the recorded root right.
THEOREM CleanRoot == Spec => []CleanRootIsCurrent
  <1>1. IInv => CleanRootIsCurrent
    BY DEF IInv
  <1> QED
    BY InitInv, NextInv, <1>1, PTL DEF Spec
-----------------------------------------------------------------------------
(* get_keys.                                                               *)

\* A bundle that get_keys has read is not newer than the one in the directory.
ReadOld == \A t \in Txn : pc[t] = "keys" => read[t] <= bundle[who[t]]

AnswerInv == IInv /\ ReadOld /\ AnswerIsProved

LEMMA SeqIsList ==
  ASSUME NEW S, NEW s \in Seq(S)
  PROVE  IsList(s)
  <1>1. Len(s) \in Nat /\ s = [i \in 1 .. Len(s) |-> s[i]]
    OBVIOUS
  <1> QED
    BY <1>1 DEF IsList

LEMMA ReadLeavesAnswers ==
  ASSUME AnswerInv, NEW t \in Txn, ReadLeaves(t)
  PROVE  AnswerIsProved'
  <1>1. PICK p \in PositionIn(rows, who[t]) :
          answer' = [user |-> who[t], bundle |-> read[t], leaf |-> rows[p],
                     position |-> p, proof |-> merkle_proof(rows, p),
                     root |-> compute_root(rows), size |-> Len(rows)]
    BY DEF ReadLeaves
  <1>2. rows \in Seq(Leaf) /\ p \in 1 .. Len(rows) /\ rows[p][1] = who[t]
    BY DEF AnswerInv, IInv, TypeOK, PositionIn
  <1>3. rows[p][2] >= read[t]
    <2>1. /\ pc[t] = "keys" /\ read[t] \in Nat /\ read[t] <= bundle[who[t]]
          /\ rows[p][2] = bundle[who[t]] /\ rows[p][2] \in Nat
      <3>1. pc[t] = "keys"
        BY DEF ReadLeaves
      <3>2. read[t] \in Nat
        BY DEF AnswerInv, IInv, TypeOK
      <3>3. p \in DOMAIN rows /\ rows[p][2] \in Nat
        BY <1>2, LeafFacts
      <3> QED
        BY <1>2, <3>1, <3>2, <3>3 DEF AnswerInv, ReadOld, IInv, LeavesMatchBundles
    <2> QED
      BY <2>1
  <1>4. Climb(rows[p], merkle_proof(rows, p), p) = compute_root(rows)
    BY <1>2, SeqIsList, ProofLeadsToRoot
  <1> QED
    BY <1>1, <1>2, <1>3, <1>4 DEF AnswerIsProved

\* Bundles only get newer, and what a request has read stays with it.
LEMMA ReadStays == AnswerInv /\ [Next]_vars => ReadOld'
  <1> SUFFICES ASSUME AnswerInv, [Next]_vars, NEW o \in Txn, pc'[o] = "keys"
               PROVE  read'[o] <= bundle'[who'[o]]
    BY DEF ReadOld
  <1>1. /\ IInv /\ TypeOK /\ ReadOld
        /\ \A t \in Txn : pc[t] # "idle" => who[t] \in User
    BY DEF AnswerInv, IInv, Locked
  <1>2. \A u \in User : bundle[u] \in Nat /\ read[o] \in Nat
    BY <1>1 DEF TypeOK
  <1>3. CASE UNCHANGED <<pc, who, read, bundle>>
    BY <1>1, <1>3 DEF ReadOld
  <1>4. ASSUME NEW t \in Txn, Commit(t) PROVE read'[o] <= bundle'[who'[o]]
    <2>1. o # t
      BY <1>1, <1>4, CommitFlight
    <2>2. pc[o] = "keys" /\ who'[o] = who[o] /\ who[o] \in User
      BY <1>1, <1>4, <2>1, CommitFlight
    <2>3. read'[o] = read[o]
      BY <1>1, <1>4, <2>1 DEF TypeOK, Commit, Committed, Forget
    <2>4. bundle'[who[o]] = bundle[who[o]] \/ bundle'[who[o]] = bundle[who[o]] + 1
      BY <1>1, <1>4, <2>2, CommitFlight
    <2>5. read[o] <= bundle[who[o]] /\ bundle[who[o]] \in Nat
      BY <1>1, <1>2, <2>2 DEF ReadOld
    <2> QED
      BY <1>2, <2>2, <2>3, <2>4, <2>5
  <1>5. ASSUME NEW t \in Txn, NEW u \in User, ReadBundle(t, u)
        PROVE  read'[o] <= bundle'[who'[o]]
    <2>1. CASE o = t
      BY <1>1, <1>2, <1>5, <2>1 DEF ReadBundle, Goto, TypeOK, tables
    <2>2. CASE o # t
      BY <1>1, <1>5, <2>2 DEF ReadBundle, Goto, TypeOK, tables, ReadOld
    <2> QED
      BY <2>1, <2>2
  <1>6. ASSUME NEW t \in Txn, NEW u \in User, Begin(t, u)
        PROVE  read'[o] <= bundle'[who'[o]]
    BY <1>1, <1>6 DEF Begin, Goto, TypeOK, tables, ReadOld
  <1>7. ASSUME NEW t \in Txn, Forget(t), bundle' = bundle
        PROVE  read'[o] <= bundle'[who'[o]]
    BY <1>1, <1>7 DEF Forget, Goto, TypeOK, ReadOld
  <1>8. ASSUME NEW t \in Txn, LoadUser(t) \/ WriteUser(t) \/ WriteLeaf(t)
        PROVE  read'[o] <= bundle'[who'[o]]
    BY <1>1, <1>8 DEF LoadUser, WriteUser, WriteLeaf, Goto, TypeOK, tables, ReadOld
  <1>9. ASSUME NEW t \in Txn, UserClash(t) \/ IndexClash(t) \/ Abort(t) \/ ReadLeaves(t)
        PROVE  Forget(t) /\ bundle' = bundle
    BY <1>9 DEF UserClash, IndexClash, Abort, ReadLeaves, tables
  <1>10. CASE UNCHANGED vars
    BY <1>3, <1>10 DEF vars, tables
  <1> QED
    BY <1>4, <1>5, <1>6, <1>7, <1>8, <1>9, <1>10 DEF Next, Register

LEMMA AnswerStep == AnswerInv /\ [Next]_vars => AnswerInv'
  <1> SUFFICES ASSUME AnswerInv, [Next]_vars PROVE AnswerInv'
    OBVIOUS
  <1>1. IInv' /\ ReadOld'
    BY NextInv, ReadStays DEF AnswerInv
  <1>2. AnswerIsProved'
    <2>1. ASSUME NEW t \in Txn, ReadLeaves(t) PROVE AnswerIsProved'
      BY <2>1, ReadLeavesAnswers
    <2>2. CASE answer' = answer
      BY <2>2 DEF AnswerInv, AnswerIsProved
    <2>3. ASSUME NEW t \in Txn, Register(t) \/ Abort(t) PROVE answer' = answer
      BY <2>3 DEF Register, LoadUser, WriteUser, UserClash, WriteLeaf, IndexClash, Commit,
                  Committed, Abort
    <2>4. ASSUME NEW t \in Txn, NEW u \in User, Begin(t, u) \/ ReadBundle(t, u)
          PROVE  answer' = answer
      BY <2>4 DEF Begin, ReadBundle
    <2>5. CASE UNCHANGED vars
      BY <2>2, <2>5 DEF vars
    <2> QED
      BY <2>1, <2>2, <2>3, <2>4, <2>5 DEF Next
  <1> QED
    BY <1>1, <1>2 DEF AnswerInv

\* Whatever commits between the two statements of get_keys, its answer holds
\* a leaf of the user it was asked about, as new as the bundle or newer, and
\* the way from there to the root that it gives.
THEOREM AnswersAreProved == Spec => []AnswerIsProved
  <1>1. Init => AnswerInv
    <2>1. Init => ReadOld /\ AnswerIsProved
      BY DEF Init, ReadOld, AnswerIsProved
    <2> QED
      BY <2>1, InitInv DEF AnswerInv
  <1>2. AnswerInv => AnswerIsProved
    BY DEF AnswerInv
  <1> QED
    BY <1>1, <1>2, AnswerStep, PTL DEF Spec
=============================================================================
