------------------------ MODULE DepositTreesProofs ------------------------
(***************************************************************************)
(* Proofs about the deposit trees, for trees of any height and blocks of   *)
(* any size.  The recursive functions of MerkleTrees are reasoned about    *)
(* with induction over a set of numbers, which follows from the            *)
(* well-foundedness of the naturals.                                       *)
(***************************************************************************)
EXTENDS DepositTrees, WellFoundedInduction, SequenceTheorems, TLAPS

-----------------------------------------------------------------------------
(* Induction and recursion *)

\* A set of numbers has a least one.
LEMMA LeastNumber ==
    ASSUME NEW T, T \subseteq Nat, T # {}
    PROVE  \E x \in T : \A y \in T : x <= y
<1> DEFINE R == OpToRel(<, Nat)
<1>1. IsWellFoundedOn(R, Nat)
  BY NatLessThanWellFounded
<1>2. \A x, y \in Nat : <<y, x>> \in R <=> y < x
  BY DEF OpToRel
<1> HIDE DEF R
<1>3. PICK x \in T : \A y \in T : ~(<<y, x>> \in R)
  BY <1>1, WFMin, Zenon
<1>4. \A y \in T : ~(y < x)
  BY <1>2, <1>3, Zenon
<1> QED
  BY <1>4

\* A set that holds 0 and with each number the next holds all.
LEMMA Induction ==
    ASSUME NEW T, 0 \in T, \A n \in Nat : n \in T => n + 1 \in T
    PROVE  \A n \in Nat : n \in T
<1> SUFFICES ASSUME Nat \ T # {} PROVE FALSE
  OBVIOUS
<1>1. PICK m \in Nat \ T : \A y \in Nat \ T : m <= y
  BY LeastNumber, Zenon
<1>2. m - 1 \in Nat /\ m - 1 \notin Nat \ T
  BY <1>1
<1> QED
  BY <1>1, <1>2

\* Two functions that start alike and agree on each number if they agree on
\* the one before agree.
LEMMA Agreement ==
    ASSUME NEW f, NEW g, NEW n \in Nat, f[0] = g[0],
           \A k \in 1..n : f[k-1] = g[k-1] => f[k] = g[k]
    PROVE  f[n] = g[n]
<1> DEFINE T == {k \in Nat : k <= n => f[k] = g[k]}
<1>1. 0 \in T
  OBVIOUS
<1>2. ASSUME NEW k \in Nat, k \in T PROVE k + 1 \in T
  <2> SUFFICES ASSUME k + 1 <= n PROVE f[k + 1] = g[k + 1]
    OBVIOUS
  <2>1. k + 1 \in 1..n /\ (k + 1) - 1 = k /\ f[k] = g[k]
    BY <1>2
  <2> QED
    BY <2>1
<1>3. n \in T
  <2> HIDE DEF T
  <2> QED
    BY <1>1, <1>2, Induction
<1> QED
  BY <1>3

\* f holds the values after each round.
Iterates(f, S, base, F) ==
    f \in [Nat -> S] /\ f[0] = base /\ \A k \in Nat : f[k + 1] = F[k][f[k]]

\* A value and one function per round give the values after each round.
LEMMA Iteration ==
    ASSUME NEW S, NEW base \in S, NEW F \in [Nat -> [S -> S]]
    PROVE  \E f : Iterates(f, S, base, F)
<1> DEFINE Is(f, n) == f[0] = base /\ \A k \in Nat : k < n => f[k + 1] = F[k][f[k]]
           T == {n \in Nat : \E f \in [Nat -> S] : Is(f, n)}
           some(n) == CHOOSE f \in [Nat -> S] : Is(f, n)
           all == [n \in Nat |-> some(n)[n]]
<1>1. 0 \in T
  <2>1. [k \in Nat |-> base] \in [Nat -> S] /\ Is([k \in Nat |-> base], 0)
    OBVIOUS
  <2> QED
    BY <2>1
<1>2. ASSUME NEW n \in Nat, n \in T PROVE n + 1 \in T
  <2>1. PICK f \in [Nat -> S] : Is(f, n)
    BY <1>2
  <2> DEFINE g == [f EXCEPT ![n + 1] = F[n][f[n]]]
  <2>2. F[n] \in [S -> S] /\ f[n] \in S
    OBVIOUS
  <2>3. g \in [Nat -> S]
    BY <2>2
  <2>4. g[0] = base
    BY <2>1
  <2>5. \A k \in Nat : k < n + 1 => g[k + 1] = F[k][g[k]]
    BY <2>1
  <2>6. Is(g, n + 1)
    BY <2>4, <2>5
  <2> HIDE DEF g, Is
  <2> QED
    BY <2>3, <2>6
<1>3. \A n \in Nat : n \in T
  <2> HIDE DEF T
  <2> QED
    BY <1>1, <1>2, Induction
<1>4. \A n \in Nat : some(n) \in [Nat -> S] /\ Is(some(n), n)
  BY <1>3
<1> HIDE DEF some
<1>5. ASSUME NEW n \in Nat PROVE some(n)[n] = some(n + 1)[n]
  <2>1. \A k \in 1..n : k - 1 \in Nat /\ k - 1 < n /\ k - 1 < n + 1 /\ k - 1 + 1 = k
    OBVIOUS
  <2>2. some(n)[0] = some(n + 1)[0]
    BY <1>4
  <2>3. ASSUME NEW k \in 1..n, some(n)[k-1] = some(n + 1)[k-1]
        PROVE  some(n)[k] = some(n + 1)[k]
    BY <1>4, <2>1, <2>3
  <2> QED
    BY <2>2, <2>3, Agreement
<1>6. all \in [Nat -> S] /\ all[0] = base
  BY <1>4
<1>7. ASSUME NEW k \in Nat PROVE all[k + 1] = F[k][all[k]]
  <2>1. some(k + 1)[k + 1] = F[k][some(k + 1)[k]]
    BY <1>4
  <2> QED
    BY <1>5, <2>1
<1> HIDE DEF all
<1> QED
  BY <1>6, <1>7 DEF Iterates

-----------------------------------------------------------------------------
(* Hashes *)

\* A node is a hash.
LEMMA NodeType ==
    ASSUME NEW l \in Hash, NEW r \in Hash
    PROVE  Node(l, r) \in Hash
<1>1. <<-1>> \in Seq(Int) /\ <<-2>> \in Seq(Int)
  OBVIOUS
<1> QED
  BY <1>1, ConcatProperties DEF Node, Hash

\* SHA256_ZERO_HASHES: each is the node of two of the one before.
LEMMA ZeroHashes ==
    /\ ZeroHash(0) = ZeroLeaf
    /\ \A n \in Nat : ZeroHash(n) \in Hash /\ ZeroHash(n + 1) = Node(ZeroHash(n), ZeroHash(n))
<1> DEFINE F == [k \in Nat |-> [h \in Hash |-> Node(h, h)]]
           Is(g, n) == g = [k \in 0..n |-> IF k = 0 THEN ZeroLeaf ELSE Node(g[k-1], g[k-1])]
           zero(n) == CHOOSE g : Is(g, n)
<1>1. F \in [Nat -> [Hash -> Hash]]
  BY NodeType
<1>2. ZeroLeaf \in Hash
  BY DEF ZeroLeaf, Hash
<1>3. \A k \in Nat, h \in Hash : F[k][h] = Node(h, h)
  OBVIOUS
<1> HIDE DEF F
<1>4. PICK f : Iterates(f, Hash, ZeroLeaf, F)
  BY <1>1, <1>2, Iteration, Zenon
<1>5. f \in [Nat -> Hash] /\ f[0] = ZeroLeaf /\ \A k \in Nat : f[k + 1] = Node(f[k], f[k])
  BY <1>3, <1>4 DEF Iterates
<1>6. ASSUME NEW n \in Nat PROVE ZeroHash(n) = f[n]
  <2> DEFINE r == [k \in 0..n |-> f[k]]
  <2>1. \A k \in 1..n : k - 1 \in Nat /\ k - 1 \in 0..n /\ k - 1 + 1 = k
    OBVIOUS
  <2>2. Is(r, n)
    BY <1>5, <2>1
  <2>3. Is(zero(n), n)
    BY <2>2
  <2>4. ZeroHash(n) = zero(n)[n]
    BY DEF ZeroHash
  <2> HIDE DEF zero
  <2>5. zero(n)[0] = f[0]
    BY <1>5, <2>3
  <2>6. \A k \in 1..n : zero(n)[k] = Node(zero(n)[k-1], zero(n)[k-1])
    BY <2>3
  <2>7. \A k \in 1..n : f[k] = Node(f[k-1], f[k-1])
    BY <1>5, <2>1
  <2> QED
    BY <2>4, <2>5, <2>6, <2>7, Agreement
<1> QED
  BY <1>5, <1>6

\* A sequence that is not empty has a first and a last element.
LEMMA NonEmpty ==
    ASSUME NEW S, NEW s \in Seq(S), s # << >>
    PROVE  /\ Len(s) \in Nat /\ Len(s) >= 1
           /\ Head(s) = s[1] /\ s[1] \in S /\ Last(s) = s[Len(s)] /\ Last(s) \in S
BY DEF Last

\* c is a followed by b.
Joins(c, a, b) ==
    /\ Len(c) = Len(a) + Len(b)
    /\ \A k \in 1..Len(a) : c[k] = a[k]
    /\ \A k \in 1..Len(b) : c[Len(a) + k] = b[k]

\* The elements of a concatenation.
LEMMA Concatenation ==
    ASSUME NEW S, NEW a \in Seq(S), NEW b \in Seq(S)
    PROVE  a \o b \in Seq(S) /\ Joins(a \o b, a, b)
<1>1. Len(a) \in Nat /\ Len(b) \in Nat
  OBVIOUS
<1>2. /\ a \o b \in Seq(S) /\ Len(a \o b) = Len(a) + Len(b)
      /\ \A k \in 1..(Len(a) + Len(b)) :
            (a \o b)[k] = IF k <= Len(a) THEN a[k] ELSE b[k - Len(a)]
  BY ConcatProperties
<1>3. ASSUME NEW k \in 1..Len(b) PROVE (a \o b)[Len(a) + k] = b[k]
  <2>1. Len(a) + k \in 1..(Len(a) + Len(b)) /\ ~(Len(a) + k <= Len(a)) /\ Len(a) + k - Len(a) = k
    BY <1>1
  <2> QED
    BY <1>2, <2>1
<1>4. ASSUME NEW k \in 1..Len(a) PROVE (a \o b)[k] = a[k]
  <2>1. k \in 1..(Len(a) + Len(b)) /\ k <= Len(a)
    BY <1>1
  <2> QED
    BY <1>2, <2>1
<1> QED
  BY <1>2, <1>3, <1>4 DEF Joins

\* A positive number other than 1 is at least 2.
LEMMA AtLeastTwo == \A n \in Nat : n >= 1 /\ n # 1 => n > 1 /\ n >= 2
OBVIOUS

\* q is half of n, rounded down.
Halved(n, q) ==
    \/ n = 2*q /\ n % 2 = 0 /\ n \div 2 = q /\ (n + 1) \div 2 = q
    \/ n = 2*q + 1 /\ n % 2 = 1 /\ n \div 2 = q /\ (n + 1) \div 2 = q + 1

\* A number is even or odd.
LEMMA Halves ==
    ASSUME NEW n \in Nat
    PROVE  Halved(n, n \div 2) /\ n \div 2 \in Nat
BY DEF Halved

-----------------------------------------------------------------------------
(* The recursive functions of MerkleTrees, one round at a time *)

\* index >>= 1: each level halves.
LEMMA Shifts ==
    ASSUME NEW i \in Nat
    PROVE  /\ Shr(i, 0) = i
           /\ \A n \in Nat : Shr(i, n) \in Nat /\ Shr(i, n + 1) = Shr(i, n) \div 2
<1> DEFINE F == [k \in Nat |-> [h \in Nat |-> h \div 2]]
           Is(g, n) == g = [k \in 0..n |-> IF k = 0 THEN i ELSE g[k-1] \div 2]
           some(n) == CHOOSE g : Is(g, n)
<1>1. F \in [Nat -> [Nat -> Nat]]
  OBVIOUS
<1>2. \A k \in Nat, h \in Nat : F[k][h] = h \div 2
  OBVIOUS
<1> HIDE DEF F
<1>3. PICK f : Iterates(f, Nat, i, F)
  BY <1>1, Iteration, Zenon
<1>4. f \in [Nat -> Nat] /\ f[0] = i /\ \A k \in Nat : f[k + 1] = f[k] \div 2
  BY <1>2, <1>3 DEF Iterates
<1>5. ASSUME NEW n \in Nat PROVE Shr(i, n) = f[n]
  <2> DEFINE r == [k \in 0..n |-> f[k]]
  <2>1. \A k \in 1..n : k - 1 \in Nat /\ k - 1 \in 0..n /\ k - 1 + 1 = k
    OBVIOUS
  <2>2. Is(r, n)
    <3>1. ASSUME NEW k \in 0..n PROVE r[k] = IF k = 0 THEN i ELSE r[k-1] \div 2
      <4>1. CASE k = 0
        BY <1>4, <4>1
      <4>2. CASE k \in 1..n
        <5>1. f[k] = f[k-1] \div 2 /\ r[k-1] = f[k-1] /\ r[k] = f[k]
          BY <1>4, <2>1, <4>2
        <5> QED
          BY <4>2, <5>1
      <4> QED
        BY <4>1, <4>2
    <3>2. r = [k \in 0..n |-> r[k]]
      OBVIOUS
    <3> HIDE DEF r
    <3> QED
      BY <3>1, <3>2
  <2>3. Is(some(n), n)
    <3> HIDE DEF r, Is
    <3> QED
      BY <2>2
  <2>4. Shr(i, n) = some(n)[n]
    BY DEF Shr
  <2> HIDE DEF some
  <2>5. some(n)[0] = f[0]
    BY <1>4, <2>3
  <2>6. \A k \in 1..n : some(n)[k] = some(n)[k-1] \div 2
    BY <2>3
  <2>7. \A k \in 1..n : f[k] = f[k-1] \div 2
    BY <1>4, <2>1
  <2> QED
    BY <2>4, <2>5, <2>6, <2>7, Agreement
<1> QED
  BY <1>4, <1>5

\* What a leaf of the full tree holds.
LeafAt(leaves, leaf_height, i) ==
    IF i < Len(leaves) THEN leaves[i + 1] ELSE ZeroHash(leaf_height)

\* The full tree by halves.
LEMMA TreeNodes ==
    ASSUME NEW leaves \in Seq(Hash), NEW lh \in Nat
    PROVE  /\ \A i \in Nat : TreeNode(leaves, lh, 0, i) = LeafAt(leaves, lh, i)
           /\ \A h \in Nat : \A i \in Nat :
                 /\ TreeNode(leaves, lh, h, i) \in Hash
                 /\ TreeNode(leaves, lh, h + 1, i)
                      = Node(TreeNode(leaves, lh, h, 2*i), TreeNode(leaves, lh, h, 2*i + 1))
<1> DEFINE S == [Nat -> Hash]
           base == [i \in Nat |-> LeafAt(leaves, lh, i)]
           F == [k \in Nat |-> [t \in S |-> [i \in Nat |-> Node(t[2*i], t[2*i + 1])]]]
           Is(g, n) == g = [h \in 0..n |-> [i \in Nat |->
                IF h > 0 THEN Node(g[h-1][2*i], g[h-1][2*i + 1])
                ELSE IF i < Len(leaves) THEN leaves[i + 1] ELSE ZeroHash(lh)]]
           some(n) == CHOOSE g : Is(g, n)
<1>1. base \in S
  <2>1. ASSUME NEW i \in Nat, i < Len(leaves) PROVE leaves[i + 1] \in Hash
    BY <2>1
  <2>2. \A i \in Nat : LeafAt(leaves, lh, i) \in Hash
    BY <2>1, ZeroHashes DEF LeafAt
  <2> QED
    BY <2>2
<1>2. F \in [Nat -> [S -> S]]
  BY NodeType
<1>3. \A k \in Nat, t \in S : F[k][t] = [i \in Nat |-> Node(t[2*i], t[2*i + 1])]
  OBVIOUS
<1> HIDE DEF F
<1>4. PICK f : Iterates(f, S, base, F)
  <2> HIDE DEF base, S
  <2> QED
    BY <1>1, <1>2, Iteration, Zenon
<1>5. /\ f \in [Nat -> S] /\ f[0] = base
      /\ \A k \in Nat : f[k + 1] = [i \in Nat |-> Node(f[k][2*i], f[k][2*i + 1])]
  BY <1>3, <1>4 DEF Iterates
<1>6. ASSUME NEW n \in Nat PROVE \A i \in Nat : TreeNode(leaves, lh, n, i) = f[n][i]
  <2> DEFINE r == [k \in 0..n |-> f[k]]
  <2>1. \A k \in 1..n : k - 1 \in Nat /\ k - 1 \in 0..n /\ k - 1 + 1 = k
    OBVIOUS
  <2>2. Is(r, n)
    <3>1. ASSUME NEW h \in 0..n
          PROVE  r[h] = [i \in Nat |->
                IF h > 0 THEN Node(r[h-1][2*i], r[h-1][2*i + 1])
                ELSE IF i < Len(leaves) THEN leaves[i + 1] ELSE ZeroHash(lh)]
      <4>1. CASE h = 0
        BY <1>5, <4>1 DEF LeafAt
      <4>2. CASE h \in 1..n
        <5>1. f[h] = [i \in Nat |-> Node(f[h-1][2*i], f[h-1][2*i + 1])]
          BY <1>5, <2>1, <4>2
        <5>2. r[h-1] = f[h-1] /\ r[h] = f[h] /\ h > 0
          BY <2>1, <4>2
        <5> HIDE DEF r
        <5> QED
          BY <5>1, <5>2, Zenon
      <4> QED
        BY <4>1, <4>2
    <3> QED
      BY <3>1
  <2>3. Is(some(n), n)
    <3> HIDE DEF r, Is
    <3> QED
      BY <2>2
  <2>4. \A i \in Nat : TreeNode(leaves, lh, n, i) = some(n)[n][i]
    BY DEF TreeNode
  <2> HIDE DEF some
  <2>5. some(n)[0] = f[0]
    BY <1>5, <2>3 DEF LeafAt
  <2>6. ASSUME NEW k \in 1..n
        PROVE  some(n)[k] = [i \in Nat |-> Node(some(n)[k-1][2*i], some(n)[k-1][2*i + 1])]
    <3>1. some(n)[k] = [i \in Nat |->
                IF k > 0 THEN Node(some(n)[k-1][2*i], some(n)[k-1][2*i + 1])
                ELSE IF i < Len(leaves) THEN leaves[i + 1] ELSE ZeroHash(lh)]
      <4>1. k \in 0..n
        OBVIOUS
      <4> QED
        BY <2>3, <4>1, Zenon
    <3>2. k > 0
      OBVIOUS
    <3> QED
      BY <3>1, <3>2, Zenon
  <2>7. \A k \in 1..n : f[k] = [i \in Nat |-> Node(f[k-1][2*i], f[k-1][2*i + 1])]
    BY <1>5, <2>1
  <2>8. \A k \in 1..n : some(n)[k-1] = f[k-1] => some(n)[k] = f[k]
    BY <2>6, <2>7
  <2>9. some(n)[n] = f[n]
    BY <2>5, <2>8, Agreement
  <2> QED
    BY <2>4, <2>9
<1>7. ASSUME NEW h \in Nat, NEW i \in Nat
      PROVE  /\ TreeNode(leaves, lh, h, i) \in Hash
             /\ TreeNode(leaves, lh, h + 1, i)
                  = Node(TreeNode(leaves, lh, h, 2*i), TreeNode(leaves, lh, h, 2*i + 1))
  <2>1. f[h] \in S /\ 2*i \in Nat /\ 2*i + 1 \in Nat /\ h + 1 \in Nat
    BY <1>5
  <2>2. f[h + 1][i] = Node(f[h][2*i], f[h][2*i + 1])
    BY <1>5
  <2> QED
    BY <1>6, <2>1, <2>2
<1>8. ASSUME NEW i \in Nat PROVE TreeNode(leaves, lh, 0, i) = LeafAt(leaves, lh, i)
  BY <1>5, <1>6
<1> QED
  BY <1>7, <1>8

\* A parent is a hash.
LEMMA ParentType ==
    ASSUME NEW v \in Hash, NEW i, NEW s \in Hash
    PROVE  Parent(v, i, s) \in Hash
BY NodeType DEF Parent

\* A path, one level at a time.
LEMMA PathNodes ==
    ASSUME NEW v \in Hash, NEW i \in Nat, NEW path \in Seq(Hash)
    PROVE  /\ PathNode(v, i, path, 0) = v
           /\ \A l \in 0..Len(path) : PathNode(v, i, path, l) \in Hash
           /\ \A l \in 0..(Len(path) - 1) :
                 PathNode(v, i, path, l + 1)
                     = Parent(PathNode(v, i, path, l), Shr(i, l), path[l + 1])
<1> DEFINE F == [k \in Nat |-> [h \in Hash |->
                    IF k < Len(path) THEN Parent(h, Shr(i, k), path[k + 1]) ELSE h]]
           Is(g, n) == g = [l \in 0..n |->
                IF l = 0 THEN v ELSE Parent(g[l-1], Shr(i, l - 1), path[l])]
           some(n) == CHOOSE g : Is(g, n)
<1>1. F \in [Nat -> [Hash -> Hash]]
  <2>1. \A k \in Nat : k < Len(path) => path[k + 1] \in Hash
    OBVIOUS
  <2> QED
    BY <2>1, ParentType
<1>2. \A k \in Nat, h \in Hash : k < Len(path) => F[k][h] = Parent(h, Shr(i, k), path[k + 1])
  OBVIOUS
<1> HIDE DEF F
<1>3. PICK f : Iterates(f, Hash, v, F)
  BY <1>1, Iteration, Zenon
<1>4. /\ f \in [Nat -> Hash] /\ f[0] = v
      /\ \A k \in Nat : k < Len(path) => f[k + 1] = Parent(f[k], Shr(i, k), path[k + 1])
  BY <1>2, <1>3 DEF Iterates
<1>5. ASSUME NEW n \in 0..Len(path) PROVE PathNode(v, i, path, n) = f[n]
  <2> DEFINE r == [k \in 0..n |-> f[k]]
  <2>1. \A k \in 1..n : k - 1 \in Nat /\ k - 1 \in 0..n /\ k - 1 + 1 = k /\ k - 1 < Len(path)
    OBVIOUS
  <2>2. Is(r, n)
    BY <1>4, <2>1
  <2>3. Is(some(n), n)
    <3> HIDE DEF r, Is
    <3> QED
      BY <2>2
  <2>4. PathNode(v, i, path, n) = some(n)[n]
    BY DEF PathNode
  <2> HIDE DEF some
  <2>5. some(n)[0] = f[0]
    BY <1>4, <2>3
  <2>6. \A k \in 1..n : some(n)[k] = Parent(some(n)[k-1], Shr(i, k - 1), path[k])
    BY <2>3
  <2>7. \A k \in 1..n : f[k] = Parent(f[k-1], Shr(i, k - 1), path[k])
    BY <1>4, <2>1
  <2> QED
    BY <2>4, <2>5, <2>6, <2>7, Agreement
<1> QED
  BY <1>4, <1>5

\* The level above has half as many nodes, rounded up.
LEMMA LevelAbove_ ==
    ASSUME NEW level \in Seq(Hash), NEW pad \in Hash
    PROVE  /\ LevelAbove(level, pad) \in Seq(Hash)
           /\ Len(LevelAbove(level, pad)) = (Len(level) + 1) \div 2
           /\ \A i \in 1..((Len(level) + 1) \div 2) :
                 LevelAbove(level, pad)[i]
                     = Node(level[2*i - 1], IF 2*i <= Len(level) THEN level[2*i] ELSE pad)
<1> DEFINE padded == IF Len(level) % 2 = 1 THEN Append(level, pad) ELSE level
           n == Len(level)
<1>1. n \in Nat
  OBVIOUS
<1>2. padded \in Seq(Hash) /\ Len(padded) = IF n % 2 = 1 THEN n + 1 ELSE n
  OBVIOUS
<1>3. Len(padded) \div 2 = (n + 1) \div 2
  <2> HIDE DEF padded, n
  <2> QED
    BY <1>1, <1>2
<1>4. ASSUME NEW i \in 1..((n + 1) \div 2)
      PROVE  /\ 2*i - 1 \in 1..n /\ 2*i \in 1..Len(padded)
             /\ 2*i <= n \/ 2*i = n + 1
  <2> HIDE DEF padded, n
  <2>1. PICK q \in Nat : Halved(n, q)
    BY <1>1, Halves
  <2>2. i \in Nat /\ 1 <= i /\ i <= (n + 1) \div 2
    BY <1>1
  <2>3. CASE n = 2*q /\ n % 2 = 0 /\ (n + 1) \div 2 = q
    BY <1>1, <1>2, <2>2, <2>3
  <2>4. CASE n = 2*q + 1 /\ n % 2 = 1 /\ (n + 1) \div 2 = q + 1
    BY <1>1, <1>2, <2>2, <2>4
  <2> QED
    BY <2>1, <2>3, <2>4 DEF Halved
<1>5. ASSUME NEW i \in 1..((n + 1) \div 2)
      PROVE  /\ padded[2*i - 1] = level[2*i - 1]
             /\ padded[2*i] = IF 2*i <= n THEN level[2*i] ELSE pad
             /\ padded[2*i - 1] \in Hash /\ padded[2*i] \in Hash
  BY <1>1, <1>2, <1>4
<1>6. LevelAbove(level, pad)
        = [i \in 1..((n + 1) \div 2) |-> Node(padded[2*i - 1], padded[2*i])]
  BY <1>3 DEF LevelAbove
<1> HIDE DEF padded
<1>7. \A i \in 1..((n + 1) \div 2) : Node(padded[2*i - 1], padded[2*i]) \in Hash
  BY <1>5, NodeType
<1>8. (n + 1) \div 2 \in Nat
  BY <1>1
<1> HIDE DEF n
<1> QED
  BY <1>1, <1>5, <1>6, <1>7, <1>8 DEF n

\* The rows of the loop of sparse_sha256_merkle_siblings.
LEMMA SparseLevels ==
    ASSUME NEW leaves \in Seq(Hash), NEW lh \in Nat
    PROVE  /\ SparseLevel(leaves, 0, lh) = leaves
           /\ \A n \in Nat :
                 /\ SparseLevel(leaves, n, lh) \in Seq(Hash)
                 /\ SparseLevel(leaves, n + 1, lh)
                      = LevelAbove(SparseLevel(leaves, n, lh), ZeroHash(lh + n))
<1> DEFINE S == Seq(Hash)
           F == [k \in Nat |-> [t \in S |-> LevelAbove(t, ZeroHash(lh + k))]]
           Is(g, n) == g = [d \in 0..n |->
               IF d = 0 THEN leaves ELSE LevelAbove(g[d-1], ZeroHash(lh + d - 1))]
           some(n) == CHOOSE g : Is(g, n)
<1>1. F \in [Nat -> [S -> S]]
  <2>1. \A k \in Nat : lh + k \in Nat /\ ZeroHash(lh + k) \in Hash
    BY ZeroHashes
  <2>2. \A k \in Nat : \A t \in S : LevelAbove(t, ZeroHash(lh + k)) \in S
    BY <2>1, LevelAbove_
  <2> QED
    BY <2>2
<1>2. \A k \in Nat, t \in S : F[k][t] = LevelAbove(t, ZeroHash(lh + k))
  OBVIOUS
<1> HIDE DEF F
<1>3. PICK f : Iterates(f, S, leaves, F)
  BY <1>1, Iteration, Zenon
<1>4. /\ f \in [Nat -> S] /\ f[0] = leaves
      /\ \A k \in Nat : f[k + 1] = LevelAbove(f[k], ZeroHash(lh + k))
  BY <1>2, <1>3 DEF Iterates
<1>5. ASSUME NEW n \in Nat PROVE SparseLevel(leaves, n, lh) = f[n]
  <2> DEFINE r == [k \in 0..n |-> f[k]]
  <2>1. \A k \in 1..n : /\ k - 1 \in Nat /\ k - 1 \in 0..n /\ k - 1 + 1 = k
                        /\ lh + (k - 1) = lh + k - 1
    OBVIOUS
  <2>2. \A k \in 1..n : f[k] = LevelAbove(f[k-1], ZeroHash(lh + k - 1))
    BY <1>4, <2>1
  <2>3. Is(r, n)
    <3>1. ASSUME NEW k \in 0..n
          PROVE  r[k] = IF k = 0 THEN leaves ELSE LevelAbove(r[k-1], ZeroHash(lh + k - 1))
      <4>1. CASE k = 0
        BY <1>4, <4>1
      <4>2. CASE k \in 1..n
        <5>1. r[k] = f[k] /\ r[k-1] = f[k-1] /\ k # 0
          BY <2>1, <4>2
        <5> HIDE DEF r
        <5> QED
          BY <2>2, <4>2, <5>1
      <4> QED
        BY <4>1, <4>2
    <3>2. r = [k \in 0..n |-> r[k]]
      OBVIOUS
    <3> HIDE DEF r
    <3> QED
      BY <3>1, <3>2, Zenon
  <2>4. Is(some(n), n)
    <3> HIDE DEF r, Is
    <3> QED
      BY <2>3
  <2>5. SparseLevel(leaves, n, lh) = some(n)[n]
    BY DEF SparseLevel
  <2> HIDE DEF some
  <2>6. some(n)[0] = f[0]
    BY <1>4, <2>4
  <2>7. \A k \in 1..n : some(n)[k] = LevelAbove(some(n)[k-1], ZeroHash(lh + k - 1))
    BY <2>4
  <2>8. \A k \in 1..n : some(n)[k-1] = f[k-1] => some(n)[k] = f[k]
    BY <2>2, <2>7
  <2>9. some(n)[n] = f[n]
    BY <2>6, <2>8, Agreement
  <2> QED
    BY <2>5, <2>9
<1>6. ASSUME NEW n \in Nat
      PROVE  /\ SparseLevel(leaves, n, lh) \in S
             /\ SparseLevel(leaves, n + 1, lh)
                  = LevelAbove(SparseLevel(leaves, n, lh), ZeroHash(lh + n))
  <2>1. n + 1 \in Nat
    OBVIOUS
  <2>2. SparseLevel(leaves, n, lh) = f[n] /\ SparseLevel(leaves, n + 1, lh) = f[n + 1]
    BY <1>5, <2>1
  <2> QED
    BY <1>4, <2>2
<1> QED
  BY <1>4, <1>5, <1>6

\* The rows of the loop of bitcoin_merkle_root.
LEMMA BitcoinLevels ==
    ASSUME NEW leaves \in Seq(Hash), leaves # << >>
    PROVE  /\ BitcoinLevel(leaves, 0) = leaves
           /\ \A n \in Nat :
                 /\ BitcoinLevel(leaves, n) \in Seq(Hash) \ {<< >>}
                 /\ BitcoinLevel(leaves, n + 1)
                      = IF Len(BitcoinLevel(leaves, n)) = 1 THEN BitcoinLevel(leaves, n)
                        ELSE LevelAbove(BitcoinLevel(leaves, n), Last(BitcoinLevel(leaves, n)))
<1> DEFINE S == Seq(Hash) \ {<< >>}
           Up(t) == IF Len(t) = 1 THEN t ELSE LevelAbove(t, Last(t))
           F == [k \in Nat |-> [t \in S |-> Up(t)]]
           Is(g, n) == g = [d \in 0..n |->
               IF d = 0 THEN leaves
               ELSE IF Len(g[d-1]) = 1 THEN g[d-1] ELSE LevelAbove(g[d-1], Last(g[d-1]))]
           some(n) == CHOOSE g : Is(g, n)
<1>1. ASSUME NEW t \in S PROVE Up(t) \in S
  <2>1. Len(t) \in Nat /\ Len(t) >= 1 /\ Last(t) \in Hash
    BY DEF Last
  <2>2. LevelAbove(t, Last(t)) \in Seq(Hash) /\ Len(LevelAbove(t, Last(t))) = (Len(t) + 1) \div 2
    BY <2>1, LevelAbove_
  <2>3. (Len(t) + 1) \div 2 > 0
    BY <2>1
  <2>4. LevelAbove(t, Last(t)) # << >>
    BY <2>2, <2>3
  <2> QED
    BY <2>2, <2>4
<1>2. F \in [Nat -> [S -> S]] /\ leaves \in S
  BY <1>1
<1>3. \A k \in Nat, t \in S : F[k][t] = Up(t)
  OBVIOUS
<1> HIDE DEF F
<1>4. PICK f : Iterates(f, S, leaves, F)
  <2> HIDE DEF S
  <2> QED
    BY <1>2, Iteration, Zenon
<1>5. f \in [Nat -> S] /\ f[0] = leaves /\ \A k \in Nat : f[k + 1] = Up(f[k])
  <2> HIDE DEF Up
  <2> QED
    BY <1>3, <1>4 DEF Iterates
<1>6. ASSUME NEW n \in Nat PROVE BitcoinLevel(leaves, n) = f[n]
  <2> DEFINE r == [k \in 0..n |-> f[k]]
  <2>1. \A k \in 1..n : k - 1 \in Nat /\ k - 1 \in 0..n /\ k - 1 + 1 = k
    OBVIOUS
  <2>2. \A k \in 1..n : f[k] = Up(f[k-1])
    <3> HIDE DEF Up
    <3> QED
      BY <1>5, <2>1
  <2>3. Is(r, n)
    <3>1. ASSUME NEW k \in 0..n PROVE r[k] = IF k = 0 THEN leaves ELSE Up(r[k-1])
      <4>1. CASE k = 0
        BY <1>5, <4>1
      <4>2. CASE k \in 1..n
        <5>1. r[k] = f[k] /\ r[k-1] = f[k-1] /\ k # 0
          BY <2>1, <4>2
        <5> HIDE DEF r, Up
        <5> QED
          BY <2>2, <4>2, <5>1
      <4> QED
        BY <4>1, <4>2
    <3>2. r = [k \in 0..n |-> r[k]]
      OBVIOUS
    <3> HIDE DEF r
    <3> QED
      BY <3>1, <3>2, Zenon
  <2>4. Is(some(n), n)
    <3> HIDE DEF r, Is
    <3> QED
      BY <2>3
  <2>5. BitcoinLevel(leaves, n) = some(n)[n]
    BY DEF BitcoinLevel
  <2> HIDE DEF some
  <2>6. some(n)[0] = f[0]
    BY <1>5, <2>4
  <2>7. ASSUME NEW k \in 1..n PROVE some(n)[k] = Up(some(n)[k-1])
    <3>1. k \in 0..n /\ k # 0
      OBVIOUS
    <3> QED
      BY <2>4, <3>1, Zenon
  <2> HIDE DEF Up
  <2>8. \A k \in 1..n : some(n)[k-1] = f[k-1] => some(n)[k] = f[k]
    BY <2>2, <2>7
  <2>9. some(n)[n] = f[n]
    BY <2>6, <2>8, Agreement
  <2> QED
    BY <2>5, <2>9
<1>7. ASSUME NEW n \in Nat
      PROVE  /\ BitcoinLevel(leaves, n) \in S
             /\ BitcoinLevel(leaves, n + 1) = Up(BitcoinLevel(leaves, n))
  <2> HIDE DEF Up, S
  <2>1. n + 1 \in Nat
    OBVIOUS
  <2>2. BitcoinLevel(leaves, n) = f[n] /\ BitcoinLevel(leaves, n + 1) = f[n + 1]
    BY <1>6, <2>1
  <2> QED
    BY <1>5, <2>2
<1>8. BitcoinLevel(leaves, 0) = leaves
  BY <1>5, <1>6
<1> QED
  BY <1>7, <1>8

-----------------------------------------------------------------------------
(* Shifts *)

\* A smaller index is not further right on any level.
LEMMA ShrMonotone ==
    ASSUME NEW a \in Nat, NEW b \in Nat, a <= b
    PROVE  \A n \in Nat : Shr(a, n) <= Shr(b, n)
<1> DEFINE T == {n \in Nat : Shr(a, n) <= Shr(b, n)}
<1>1. 0 \in T
  BY Shifts
<1>2. ASSUME NEW n \in Nat, n \in T PROVE n + 1 \in T
  <2>1. /\ Shr(a, n) \in Nat /\ Shr(b, n) \in Nat /\ Shr(a, n) <= Shr(b, n)
        /\ Shr(a, n + 1) = Shr(a, n) \div 2 /\ Shr(b, n + 1) = Shr(b, n) \div 2
    BY <1>2, Shifts
  <2> QED
    BY <2>1
<1>3. \A n \in Nat : n \in T
  <2> HIDE DEF T
  <2> QED
    BY <1>1, <1>2, Induction
<1> QED
  BY <1>3

\* The next leaf is in the same subtree or in the next one.
LEMMA ShrNext ==
    ASSUME NEW a \in Nat
    PROVE  \A n \in Nat : Shr(a + 1, n) = Shr(a, n) \/ Shr(a + 1, n) = Shr(a, n) + 1
<1> DEFINE T == {n \in Nat : Shr(a + 1, n) = Shr(a, n) \/ Shr(a + 1, n) = Shr(a, n) + 1}
<1>1. 0 \in T
  BY Shifts
<1>2. ASSUME NEW n \in Nat, n \in T PROVE n + 1 \in T
  <2>1. /\ Shr(a, n) \in Nat /\ Shr(a + 1, n) \in Nat
        /\ Shr(a + 1, n) = Shr(a, n) \/ Shr(a + 1, n) = Shr(a, n) + 1
        /\ Shr(a, n + 1) = Shr(a, n) \div 2 /\ Shr(a + 1, n + 1) = Shr(a + 1, n) \div 2
    BY <1>2, Shifts
  <2> QED
    BY <2>1
<1>3. \A n \in Nat : n \in T
  <2> HIDE DEF T
  <2> QED
    BY <1>1, <1>2, Induction
<1> QED
  BY <1>3

\* A sibling shares the parent and is another node.
LEMMA Siblings ==
    ASSUME NEW s \in Nat
    PROVE  /\ Sibling(s) \in Nat /\ Sibling(s) # s
           /\ s % 2 = 0 => s = 2 * (s \div 2) /\ Sibling(s) = 2 * (s \div 2) + 1
           /\ s % 2 # 0 => s = 2 * (s \div 2) + 1 /\ Sibling(s) = 2 * (s \div 2)
BY Halves DEF Halved, Sibling

-----------------------------------------------------------------------------
(* The full tree *)

\* Beyond the last leaf every subtree is empty.
LEMMA EmptySubtrees ==
    ASSUME NEW leaves \in Seq(Hash), NEW lh \in Nat
    PROVE  \A h \in Nat : \A i \in Nat :
              leaves = << >> \/ i > Shr(Len(leaves) - 1, h)
                  => TreeNode(leaves, lh, h, i) = ZeroHash(lh + h)
<1> DEFINE m == Len(leaves) - 1
           Beyond(h, i) == leaves = << >> \/ i > Shr(m, h)
           T == {h \in Nat : \A i \in Nat :
                    Beyond(h, i) => TreeNode(leaves, lh, h, i) = ZeroHash(lh + h)}
<1>1. leaves # << >> => m \in Nat
  OBVIOUS
<1>2. 0 \in T
  <2>1. ASSUME NEW i \in Nat, Beyond(0, i) PROVE ~(i < Len(leaves))
    <3>1. CASE leaves = << >>
      BY <3>1
    <3>2. CASE leaves # << >>
      <4>1. Shr(m, 0) = m
        BY <1>1, <3>2, Shifts
      <4> QED
        BY <1>1, <2>1, <3>2, <4>1
    <3> QED
      BY <3>1, <3>2
  <2>2. \A i \in Nat : Beyond(0, i) => TreeNode(leaves, lh, 0, i) = ZeroHash(lh)
    <3> HIDE DEF Beyond
    <3> QED
      BY <2>1, TreeNodes DEF LeafAt
  <2>3. lh + 0 = lh
    OBVIOUS
  <2> HIDE DEF Beyond
  <2> QED
    BY <2>2, <2>3
<1>3. ASSUME NEW h \in Nat, h \in T PROVE h + 1 \in T
  <2> SUFFICES ASSUME NEW i \in Nat, Beyond(h + 1, i)
               PROVE  TreeNode(leaves, lh, h + 1, i) = ZeroHash(lh + (h + 1))
    OBVIOUS
  <2>1. Beyond(h, 2*i) /\ Beyond(h, 2*i + 1)
    <3>1. CASE leaves = << >>
      BY <3>1
    <3>2. CASE leaves # << >>
      <4>1. Shr(m, h) \in Nat /\ Shr(m, h + 1) = Shr(m, h) \div 2 /\ i > Shr(m, h + 1)
        BY <1>1, <3>2, Shifts
      <4> HIDE DEF m
      <4> QED
        BY <4>1
    <3> QED
      BY <3>1, <3>2
  <2> HIDE DEF Beyond
  <2>2. /\ TreeNode(leaves, lh, h, 2*i) = ZeroHash(lh + h)
        /\ TreeNode(leaves, lh, h, 2*i + 1) = ZeroHash(lh + h)
    BY <1>3, <2>1
  <2>3. lh + h \in Nat /\ lh + (h + 1) = lh + h + 1
    OBVIOUS
  <2>4. ZeroHash(lh + (h + 1)) = Node(ZeroHash(lh + h), ZeroHash(lh + h))
    BY <2>3, ZeroHashes
  <2>5. TreeNode(leaves, lh, h + 1, i)
          = Node(TreeNode(leaves, lh, h, 2*i), TreeNode(leaves, lh, h, 2*i + 1))
    BY TreeNodes
  <2> QED
    BY <2>2, <2>4, <2>5
<1>4. \A h \in Nat : h \in T
  <2> HIDE DEF T
  <2> QED
    BY <1>2, <1>3, Induction
<1> QED
  BY <1>4

\* The siblings on a leaf's path are hashes, one per level.
LEMMA TreePathType ==
    ASSUME NEW leaves \in Seq(Hash), NEW lh \in Nat, NEW j \in Nat, NEW H \in Nat
    PROVE  /\ TreePath(leaves, lh, j, H) \in Seq(Hash)
           /\ Len(TreePath(leaves, lh, j, H)) = H
           /\ \A l \in 0..(H - 1) : TreePath(leaves, lh, j, H)[l + 1]
                                        = TreeNode(leaves, lh, l, Sibling(Shr(j, l)))
<1>1. ASSUME NEW l \in 1..H
      PROVE  TreeNode(leaves, lh, l - 1, Sibling(Shr(j, l - 1))) \in Hash
  <2>1. l - 1 \in Nat
    OBVIOUS
  <2>2. Shr(j, l - 1) \in Nat
    BY <2>1, Shifts
  <2> QED
    BY <2>1, <2>2, Siblings, TreeNodes
<1>2. TreePath(leaves, lh, j, H) \in [1..H -> Hash]
  BY <1>1 DEF TreePath
<1>3. \A l \in 0..(H - 1) : l + 1 \in 1..H /\ l + 1 - 1 = l
  OBVIOUS
<1> QED
  BY <1>2, <1>3 DEF TreePath

\* A leaf's path leads through its ancestors to the root.
LEMMA PathLeadsUp ==
    ASSUME NEW leaves \in Seq(Hash), NEW lh \in Nat, NEW j \in Nat, NEW H \in Nat
    PROVE  \A l \in 0..H :
              PathNode(TreeNode(leaves, lh, 0, j), j, TreePath(leaves, lh, j, H), l)
                  = TreeNode(leaves, lh, l, Shr(j, l))
<1> DEFINE path == TreePath(leaves, lh, j, H)
           v == TreeNode(leaves, lh, 0, j)
           T == {l \in Nat : l <= H => PathNode(v, j, path, l) = TreeNode(leaves, lh, l, Shr(j, l))}
<1>1. path \in Seq(Hash) /\ Len(path) = H /\ v \in Hash
  BY TreePathType, TreeNodes
<1>2. 0 \in T
  <2>1. PathNode(v, j, path, 0) = v /\ Shr(j, 0) = j
    <3> HIDE DEF v, path
    <3> QED
      BY <1>1, PathNodes, Shifts
  <2> QED
    BY <2>1
<1>3. ASSUME NEW l \in Nat, l \in T PROVE l + 1 \in T
  <2> SUFFICES ASSUME l + 1 <= H
               PROVE  PathNode(v, j, path, l + 1) = TreeNode(leaves, lh, l + 1, Shr(j, l + 1))
    OBVIOUS
  <2> DEFINE s == Shr(j, l)
             q == s \div 2
  <2>1. s \in Nat /\ q \in Nat /\ Shr(j, l + 1) = q
    <3>1. s \in Nat /\ Shr(j, l + 1) = q
      BY Shifts
    <3> HIDE DEF s
    <3> QED
      BY <3>1
  <2>2. path[l + 1] = TreeNode(leaves, lh, l, Sibling(s))
    <3>1. l \in 0..(H - 1)
      OBVIOUS
    <3> QED
      BY <3>1, TreePathType
  <2>3. PathNode(v, j, path, l + 1) = Parent(PathNode(v, j, path, l), s, path[l + 1])
    <3>1. l \in 0..(Len(path) - 1)
      BY <1>1
    <3> HIDE DEF v, path
    <3> QED
      BY <1>1, <3>1, PathNodes
  <2>4. PathNode(v, j, path, l) = TreeNode(leaves, lh, l, s)
    BY <1>3
  <2> HIDE DEF path, v, s
  <2>5. Parent(TreeNode(leaves, lh, l, s), s, TreeNode(leaves, lh, l, Sibling(s)))
          = Node(TreeNode(leaves, lh, l, 2*q), TreeNode(leaves, lh, l, 2*q + 1))
    <3>1. CASE s % 2 = 0
      BY <2>1, <3>1, Siblings DEF Parent
    <3>2. CASE s % 2 # 0
      BY <2>1, <3>2, Siblings DEF Parent
    <3> QED
      BY <3>1, <3>2
  <2>6. TreeNode(leaves, lh, l + 1, q)
          = Node(TreeNode(leaves, lh, l, 2*q), TreeNode(leaves, lh, l, 2*q + 1))
    BY <2>1, TreeNodes
  <2> QED
    BY <2>1, <2>2, <2>3, <2>4, <2>5, <2>6
<1>4. \A l \in Nat : l \in T
  <2> HIDE DEF T
  <2> QED
    BY <1>2, <1>3, Induction
<1> QED
  BY <1>4

\* A leaf inside the tree and its path give the root.
LEMMA PathGivesRoot ==
    ASSUME NEW leaves \in Seq(Hash), NEW lh \in Nat, NEW j \in Nat, NEW H \in Nat,
           Shr(j, H) = 0
    PROVE  PathRoot(TreeNode(leaves, lh, 0, j), j, TreePath(leaves, lh, j, H))
               = TreeRoot(leaves, H, lh)
BY PathLeadsUp, TreePathType DEF PathRoot, TreeRoot

\* A new leaf changes only its own ancestors.
LEMMA AppendIsLocal ==
    ASSUME NEW leaves \in Seq(Hash), NEW lh \in Nat, NEW v \in Hash
    PROVE  \A h \in Nat : \A i \in Nat : i # Shr(Len(leaves), h) =>
              TreeNode(Append(leaves, v), lh, h, i) = TreeNode(leaves, lh, h, i)
<1> DEFINE n == Len(leaves)
           new == Append(leaves, v)
           T == {h \in Nat : \A i \in Nat : i # Shr(n, h) =>
                    TreeNode(new, lh, h, i) = TreeNode(leaves, lh, h, i)}
<1>1. n \in Nat /\ new \in Seq(Hash)
  OBVIOUS
<1>2. 0 \in T
  <2>1. ASSUME NEW i \in Nat, i # n PROVE LeafAt(new, lh, i) = LeafAt(leaves, lh, i)
    BY <2>1 DEF LeafAt
  <2>2. Shr(n, 0) = n
    BY <1>1, Shifts
  <2> HIDE DEF new
  <2> QED
    BY <1>1, <2>1, <2>2, TreeNodes
<1>3. ASSUME NEW h \in Nat, h \in T PROVE h + 1 \in T
  <2> SUFFICES ASSUME NEW i \in Nat, i # Shr(n, h + 1)
               PROVE  TreeNode(new, lh, h + 1, i) = TreeNode(leaves, lh, h + 1, i)
    OBVIOUS
  <2> HIDE DEF n, new
  <2>1. Shr(n, h) \in Nat /\ Shr(n, h + 1) = Shr(n, h) \div 2
    BY <1>1, Shifts
  <2>2. 2*i \in Nat /\ 2*i + 1 \in Nat /\ 2*i # Shr(n, h) /\ 2*i + 1 # Shr(n, h)
    BY <2>1
  <2>3. /\ TreeNode(new, lh, h, 2*i) = TreeNode(leaves, lh, h, 2*i)
        /\ TreeNode(new, lh, h, 2*i + 1) = TreeNode(leaves, lh, h, 2*i + 1)
    BY <1>3, <2>2
  <2> HIDE DEF T
  <2>4. TreeNode(new, lh, h + 1, i) = Node(TreeNode(new, lh, h, 2*i), TreeNode(new, lh, h, 2*i + 1))
    BY <1>1, TreeNodes
  <2>5. TreeNode(leaves, lh, h + 1, i)
            = Node(TreeNode(leaves, lh, h, 2*i), TreeNode(leaves, lh, h, 2*i + 1))
    BY TreeNodes
  <2> QED
    BY <2>3, <2>4, <2>5
<1>4. \A h \in Nat : h \in T
  <2> HIDE DEF T
  <2> QED
    BY <1>2, <1>3, Induction
<1> QED
  BY <1>4

\* ... so its path is the one the empty place had.
LEMMA AppendKeepsPath ==
    ASSUME NEW leaves \in Seq(Hash), NEW lh \in Nat, NEW v \in Hash, NEW H \in Nat
    PROVE  TreePath(Append(leaves, v), lh, Len(leaves), H) = TreePath(leaves, lh, Len(leaves), H)
<1>1. ASSUME NEW l \in 1..H
      PROVE  TreeNode(Append(leaves, v), lh, l - 1, Sibling(Shr(Len(leaves), l - 1)))
                 = TreeNode(leaves, lh, l - 1, Sibling(Shr(Len(leaves), l - 1)))
  <2>1. l - 1 \in Nat /\ Len(leaves) \in Nat
    OBVIOUS
  <2>2. Shr(Len(leaves), l - 1) \in Nat
    BY <2>1, Shifts
  <2> QED
    BY <2>1, <2>2, Siblings, AppendIsLocal
<1> QED
  BY <1>1 DEF TreePath

\* The rows of the sparse algorithm are the known part of the full tree's.
LEMMA SparseRows ==
    ASSUME NEW leaves \in Seq(Hash), leaves # << >>, NEW lh \in Nat
    PROVE  \A d \in Nat :
              /\ Len(SparseLevel(leaves, d, lh)) = Shr(Len(leaves) - 1, d) + 1
              /\ \A i \in 0..Shr(Len(leaves) - 1, d) :
                    SparseLevel(leaves, d, lh)[i + 1] = TreeNode(leaves, lh, d, i)
<1> DEFINE m == Len(leaves) - 1
           row(d) == SparseLevel(leaves, d, lh)
           T == {d \in Nat : /\ Len(row(d)) = Shr(m, d) + 1
                             /\ \A i \in 0..Shr(m, d) : row(d)[i + 1] = TreeNode(leaves, lh, d, i)}
<1>1. m \in Nat /\ Len(leaves) = m + 1
  OBVIOUS
<1>2. 0 \in T
  <2>1. row(0) = leaves /\ Shr(m, 0) = m
    BY <1>1, SparseLevels, Shifts
  <2>2. \A i \in 0..m : i \in Nat /\ leaves[i + 1] = LeafAt(leaves, lh, i)
    BY <1>1 DEF LeafAt
  <2>3. \A i \in 0..m : TreeNode(leaves, lh, 0, i) = leaves[i + 1]
    BY <2>2, TreeNodes
  <2> HIDE DEF m, row
  <2> QED
    BY <1>1, <2>1, <2>3
<1>3. ASSUME NEW d \in Nat, d \in T PROVE d + 1 \in T
  <2> DEFINE s == Shr(m, d)
             q == s \div 2
             pad == ZeroHash(lh + d)
             n == Len(row(d))
  <2>1. s \in Nat /\ Shr(m, d + 1) = q
    BY <1>1, Shifts
  <2>2. row(d) \in Seq(Hash) /\ row(d + 1) = LevelAbove(row(d), pad) /\ pad \in Hash
    <3>1. lh + d \in Nat
      OBVIOUS
    <3> QED
      BY <3>1, SparseLevels, ZeroHashes
  <2>3. n = s + 1 /\ \A i \in 0..s : row(d)[i + 1] = TreeNode(leaves, lh, d, i)
    BY <1>3
  <2> HIDE DEF row, s, m
  <2>4. q \in Nat /\ (n + 1) \div 2 = q + 1
    <3> HIDE DEF n
    <3> QED
      BY <2>1, <2>3
  <2>5. /\ Len(row(d + 1)) = q + 1
        /\ \A i \in 1..(q + 1) : row(d + 1)[i]
              = Node(row(d)[2*i - 1], IF 2*i <= n THEN row(d)[2*i] ELSE pad)
    <3> HIDE DEF q, pad
    <3> QED
      BY <2>2, <2>4, LevelAbove_
  <2>6. ASSUME NEW i \in 0..q PROVE row(d + 1)[i + 1] = TreeNode(leaves, lh, d + 1, i)
    <3>1. i \in Nat /\ i + 1 \in 1..(q + 1) /\ 2*i \in 0..s /\ 2*(i + 1) - 1 = 2*i + 1
          /\ 2*(i + 1) = 2*i + 1 + 1
      BY <2>1, <2>4
    <3>2. row(d + 1)[i + 1] = Node(row(d)[2*i + 1], IF 2*i + 2 <= n THEN row(d)[2*i + 2] ELSE pad)
      <4>1. 2*(i + 1) - 1 = 2*i + 1 /\ 2*(i + 1) = 2*i + 2
        BY <3>1
      <4> HIDE DEF n, q, pad
      <4> QED
        BY <2>5, <3>1, <4>1
    <3>3. row(d)[2*i + 1] = TreeNode(leaves, lh, d, 2*i)
      BY <2>3, <3>1
    <3>4. (IF 2*i + 2 <= n THEN row(d)[2*i + 2] ELSE pad) = TreeNode(leaves, lh, d, 2*i + 1)
      <4>1. CASE 2*i + 2 <= n
        <5>1. 2*i + 1 \in 0..s /\ 2*i + 1 + 1 = 2*i + 2
          BY <2>1, <2>3, <3>1, <4>1
        <5> QED
          BY <2>3, <4>1, <5>1
      <4>2. CASE ~(2*i + 2 <= n)
        <5>1. 2*i + 1 > s /\ 2*i + 1 \in Nat
          BY <2>1, <2>3, <3>1, <4>2
        <5> QED
          BY <4>2, <5>1, EmptySubtrees DEF s, m
      <4> QED
        BY <4>1, <4>2
    <3> HIDE DEF n, q, pad
    <3> QED
      BY <3>1, <3>2, <3>3, <3>4, TreeNodes
  <2> QED
    BY <2>1, <2>5, <2>6
<1>4. \A d \in Nat : d \in T
  <2> HIDE DEF T
  <2> QED
    BY <1>2, <1>3, Induction
<1> QED
  BY <1>4

\* sparse_sha256_merkle_siblings: the path computed from the known leaves is
\* the path in the full tree.
LEMMA SparseIsTreePath ==
    ASSUME NEW leaves \in Seq(Hash), leaves # << >>, NEW lh \in Nat,
           NEW j \in Nat, NEW H \in Nat
    PROVE  sparse_sha256_merkle_siblings(leaves, j, H, lh) = TreePath(leaves, lh, j, H)
<1> DEFINE other(l) == Sibling(Shr(j, l - 1))
           row(l) == SparseLevel(leaves, l - 1, lh)
           m == Len(leaves) - 1
<1>1. m \in Nat
  OBVIOUS
<1>2. ASSUME NEW l \in 1..H
      PROVE  (IF other(l) < Len(row(l)) THEN row(l)[other(l) + 1] ELSE ZeroHash(lh + l - 1))
               = TreeNode(leaves, lh, l - 1, other(l))
  <2>1. l - 1 \in Nat /\ lh + (l - 1) = lh + l - 1
    OBVIOUS
  <2>2. Shr(j, l - 1) \in Nat /\ Shr(m, l - 1) \in Nat
    BY <1>1, <2>1, Shifts
  <2>3. other(l) \in Nat
    BY <2>2, Siblings
  <2>4. /\ Len(row(l)) = Shr(m, l - 1) + 1
        /\ \A i \in 0..Shr(m, l - 1) : row(l)[i + 1] = TreeNode(leaves, lh, l - 1, i)
    BY <2>1, SparseRows
  <2>5. other(l) > Shr(m, l - 1) => TreeNode(leaves, lh, l - 1, other(l)) = ZeroHash(lh + l - 1)
    BY <2>1, <2>3, EmptySubtrees
  <2> HIDE DEF other, row, m
  <2>6. CASE other(l) < Len(row(l))
    BY <2>2, <2>3, <2>4, <2>6
  <2>7. CASE ~(other(l) < Len(row(l)))
    BY <2>2, <2>3, <2>4, <2>5, <2>7
  <2> QED
    BY <2>6, <2>7
<1> QED
  BY <1>2 DEF sparse_sha256_merkle_siblings, TreePath

\* sequential_next_leaf_siblings: the path of the next leaf, computed from the
\* frontier alone, is its path in the full tree.
LEMMA SequentialIsTreePath ==
    ASSUME NEW leaves \in Seq(Hash), leaves # << >>, NEW lh \in Nat, NEW H \in Nat
    PROVE  sequential_next_leaf_siblings(FrontierOf(leaves, H, lh), H, lh)
               = TreePath(leaves, lh, Len(leaves), H)
<1> DEFINE f == FrontierOf(leaves, H, lh)
           m == Len(leaves) - 1
           path == TreePath(leaves, lh, m, H)
           v == TreeNode(leaves, lh, 0, m)
           next(l) == IF Bit(m, l) = 0 THEN PathNode(v, m, path, l) ELSE path[l + 1]
<1>1. m \in Nat /\ m + 1 = Len(leaves)
  OBVIOUS
<1>2. f.index = m /\ f.value = v /\ f.siblings = path
  BY DEF FrontierOf, Frontier, LastIndex
<1>3. ASSUME NEW l \in 1..H
      PROVE  (IF Bit(m + 1, l - 1) = 0 THEN ZeroHash(lh + l - 1) ELSE next(l - 1))
               = TreeNode(leaves, lh, l - 1, Sibling(Shr(m + 1, l - 1)))
  <2> DEFINE k == l - 1
             a == Shr(m, k)
             b == Shr(m + 1, k)
  <2>1. k \in Nat /\ k \in 0..H /\ k \in 0..(H - 1) /\ lh + k = lh + l - 1
    OBVIOUS
  <2>2. a \in Nat /\ b \in Nat /\ (b = a \/ b = a + 1)
    <3>1. a \in Nat
      BY <1>1, <2>1, Shifts
    <3>2. m + 1 \in Nat
      BY <1>1
    <3>3. b \in Nat
      BY <2>1, <3>2, Shifts
    <3>4. b = a \/ b = a + 1
      BY <1>1, <2>1, ShrNext
    <3> QED
      BY <3>1, <3>3, <3>4
  <2>3. PathNode(v, m, path, k) = TreeNode(leaves, lh, k, a)
    BY <1>1, <2>1, PathLeadsUp
  <2>4. path[k + 1] = TreeNode(leaves, lh, k, Sibling(a))
    <3> HIDE DEF k, m
    <3> QED
      BY <1>1, <2>1, TreePathType
  <2>5. \A i \in Nat : i > a => TreeNode(leaves, lh, k, i) = ZeroHash(lh + k)
    BY <2>1, EmptySubtrees
  <2> HIDE DEF m, k, path, v, a, b
  <2>6. CASE b % 2 = 0
    <3>1. Sibling(b) \in Nat /\ Sibling(b) > a
      BY <2>2, <2>6 DEF Sibling
    <3>2. TreeNode(leaves, lh, k, Sibling(b)) = ZeroHash(lh + l - 1)
      BY <2>1, <2>5, <3>1
    <3> QED
      BY <2>6, <3>2 DEF Bit, b, k
  <2>7. CASE b % 2 # 0 /\ a % 2 = 0
    <3>1. Sibling(b) = a
      BY <2>2, <2>7 DEF Sibling
    <3> QED
      BY <2>3, <2>7, <3>1 DEF Bit, a, b, k
  <2>8. CASE b % 2 # 0 /\ a % 2 # 0
    <3>1. Sibling(b) = Sibling(a)
      BY <2>2, <2>8 DEF Sibling
    <3> QED
      BY <2>4, <2>8, <3>1 DEF Bit, a, b, k
  <2> QED
    BY <2>6, <2>7, <2>8
<1>4. sequential_next_leaf_siblings(f, H, lh)
        = [l \in 1..H |-> IF Bit(m + 1, l - 1) = 0 THEN ZeroHash(lh + l - 1) ELSE next(l - 1)]
  <2> HIDE DEF f, m, path, v
  <2> QED
    BY <1>2 DEF sequential_next_leaf_siblings
<1>5. TreePath(leaves, lh, m + 1, H)
        = [l \in 1..H |-> TreeNode(leaves, lh, l - 1, Sibling(Shr(m + 1, l - 1)))]
  BY DEF TreePath
<1>6. sequential_next_leaf_siblings(f, H, lh) = TreePath(leaves, lh, m + 1, H)
  <2> HIDE DEF f, m, next
  <2> QED
    BY <1>3, <1>4, <1>5
<1> QED
  BY <1>1, <1>6

-----------------------------------------------------------------------------
(* Bitcoin's tree *)

\* The rounds end, after fewer rounds than there are leaves.
LEMMA BitcoinDepths ==
    ASSUME NEW leaves \in Seq(Hash), leaves # << >>
    PROVE  /\ BitcoinDepth(leaves) \in Nat
           /\ Len(BitcoinLevel(leaves, BitcoinDepth(leaves))) = 1
           /\ \A e \in 0..(BitcoinDepth(leaves) - 1) : Len(BitcoinLevel(leaves, e)) # 1
<1> DEFINE row(d) == BitcoinLevel(leaves, d)
           n == Len(leaves)
           T == {d \in Nat : Len(row(d)) = 1 \/ Len(row(d)) + d <= n}
           Ends == {d \in 0..n : Len(row(d)) = 1}
           Is(d) == Len(row(d)) = 1 /\ \A e \in 0..(d - 1) : Len(row(e)) # 1
<1>1. n \in Nat
  OBVIOUS
<1>2. ASSUME NEW d \in Nat PROVE Len(row(d)) \in Nat /\ Len(row(d)) >= 1
  <2>1. row(d) \in Seq(Hash) /\ row(d) # << >>
    BY BitcoinLevels
  <2> HIDE DEF row
  <2> QED
    BY <2>1, NonEmpty
<1>3. 0 \in T
  BY <1>1, BitcoinLevels
<1>4. ASSUME NEW d \in Nat, d \in T PROVE d + 1 \in T
  <2>1. CASE Len(row(d)) = 1
    <3>1. row(d + 1) = row(d)
      BY <2>1, BitcoinLevels
    <3> QED
      BY <2>1, <3>1
  <2>2. CASE Len(row(d)) # 1
    <3>1. row(d) \in Seq(Hash) /\ Last(row(d)) \in Hash /\ row(d + 1) = LevelAbove(row(d), Last(row(d)))
      <4>1. row(d) \in Seq(Hash) \ {<< >>}
        BY BitcoinLevels
      <4>2. Last(row(d)) \in Hash
        <5> HIDE DEF row
        <5> QED
          BY <4>1 DEF Last
      <4> QED
        BY <2>2, <4>1, <4>2, BitcoinLevels
    <3>2. Len(row(d + 1)) = (Len(row(d)) + 1) \div 2
      <4> HIDE DEF row
      <4> QED
        BY <3>1, LevelAbove_
    <3>3. Len(row(d)) + d <= n
      BY <1>4, <2>2
    <3>4. Len(row(d)) \in Nat /\ Len(row(d)) >= 2
      BY <1>2, <2>2, AtLeastTwo, Zenon
    <3> HIDE DEF row, n
    <3>5. Len(row(d + 1)) + (d + 1) <= n
      BY <1>1, <3>2, <3>3, <3>4
    <3> QED
      BY <3>5
  <2> QED
    BY <2>1, <2>2
<1>5. n \in T
  <2> HIDE DEF T, n
  <2> QED
    BY <1>1, <1>3, <1>4, Induction
<1>6. n \in Ends
  <2>1. Len(row(n)) = 1 \/ Len(row(n)) + n <= n
    BY <1>5
  <2>2. Len(row(n)) \in Nat /\ Len(row(n)) >= 1
    BY <1>1, <1>2
  <2> HIDE DEF row, n
  <2> QED
    BY <1>1, <2>1, <2>2
<1>7. PICK d \in Ends : \A e \in Ends : d <= e
  <2>1. Ends \subseteq Nat /\ Ends # {}
    BY <1>6
  <2> HIDE DEF Ends
  <2> QED
    BY <2>1, LeastNumber, Zenon
<1>8. d \in 0..n /\ Is(d)
  <2>1. d \in 0..n /\ Len(row(d)) = 1
    OBVIOUS
  <2>2. ASSUME NEW e \in 0..(d - 1) PROVE Len(row(e)) # 1
    <3>1. e \in 0..n /\ ~(d <= e)
      BY <1>1, <2>1
    <3> QED
      BY <1>7, <3>1
  <2> QED
    BY <2>1, <2>2
<1>9. BitcoinDepth(leaves) \in 0..n /\ Is(BitcoinDepth(leaves))
  <2>1. BitcoinDepth(leaves) = CHOOSE x \in 0..n : Is(x)
    BY DEF BitcoinDepth
  <2> HIDE DEF Is, n
  <2> QED
    BY <1>8, <2>1
<1> QED
  BY <1>1, <1>9

\* Below the depth, each row is the one above the last, padded with its last.
LEMMA BitcoinRows ==
    ASSUME NEW leaves \in Seq(Hash), leaves # << >>, NEW l \in Nat, l < BitcoinDepth(leaves)
    PROVE  LET row == BitcoinLevel(leaves, l)
               above == BitcoinLevel(leaves, l + 1)
           IN  /\ row \in Seq(Hash) /\ Len(row) \in Nat /\ Len(row) > 1
               /\ above \in Seq(Hash) /\ Len(above) = (Len(row) + 1) \div 2
               /\ \A i \in 1..((Len(row) + 1) \div 2) : above[i]
                     = Node(row[2*i - 1], IF 2*i <= Len(row) THEN row[2*i] ELSE Last(row))
<1> DEFINE row == BitcoinLevel(leaves, l)
           above == BitcoinLevel(leaves, l + 1)
<1>1. row \in Seq(Hash) \ {<< >>} /\ above \in Seq(Hash)
  BY BitcoinLevels
<1>2. Len(row) # 1
  <2>1. l \in 0..(BitcoinDepth(leaves) - 1)
    BY BitcoinDepths
  <2> QED
    BY <2>1, BitcoinDepths
<1>3. above = LevelAbove(row, Last(row))
  BY <1>2, BitcoinLevels
<1> HIDE DEF row, above
<1>4. Len(row) \in Nat /\ Len(row) > 1 /\ Last(row) \in Hash
  <2>1. Len(row) \in Nat /\ Len(row) >= 1 /\ Last(row) \in Hash
    BY <1>1, NonEmpty
  <2> QED
    BY <1>2, <2>1, AtLeastTwo, Zenon
<1>5. /\ Len(above) = (Len(row) + 1) \div 2
      /\ \A i \in 1..((Len(row) + 1) \div 2) : above[i]
            = Node(row[2*i - 1], IF 2*i <= Len(row) THEN row[2*i] ELSE Last(row))
  BY <1>1, <1>3, <1>4, LevelAbove_
<1> QED
  BY <1>1, <1>4, <1>5 DEF row, above

\* The path of a transaction is a hash per level.
LEMMA BitcoinPathType ==
    ASSUME NEW leaves \in Seq(Hash), leaves # << >>, NEW j \in Nat
    PROVE  /\ bitcoin_merkle_siblings(leaves, j) \in Seq(Hash)
           /\ Len(bitcoin_merkle_siblings(leaves, j)) = BitcoinDepth(leaves)
           /\ \A l \in 0..(BitcoinDepth(leaves) - 1) :
                 bitcoin_merkle_siblings(leaves, j)[l + 1]
                   = LET row == BitcoinLevel(leaves, l)
                         other == Sibling(Shr(j, l))
                     IN  IF other < Len(row) THEN row[other + 1] ELSE Last(row)
<1> DEFINE D == BitcoinDepth(leaves)
           row(l) == BitcoinLevel(leaves, l)
           other(l) == Sibling(Shr(j, l))
           at(l) == IF other(l) < Len(row(l)) THEN row(l)[other(l) + 1] ELSE Last(row(l))
<1>1. D \in Nat
  BY BitcoinDepths
<1>2. ASSUME NEW l \in Nat PROVE at(l) \in Hash
  <2>1. row(l) \in Seq(Hash) \ {<< >>}
    BY BitcoinLevels
  <2>2. Shr(j, l) \in Nat
    BY Shifts
  <2>3. other(l) \in Nat
    BY <2>2, Siblings
  <2> HIDE DEF row, other
  <2>4. Last(row(l)) \in Hash /\ Len(row(l)) \in Nat
    BY <2>1 DEF Last
  <2>5. other(l) < Len(row(l)) => row(l)[other(l) + 1] \in Hash
    BY <2>1, <2>3, <2>4
  <2> QED
    BY <2>4, <2>5
<1>3. bitcoin_merkle_siblings(leaves, j) = [l \in 1..D |-> at(l - 1)]
  BY DEF bitcoin_merkle_siblings
<1>4. \A l \in 1..D : l - 1 \in Nat
  BY <1>1
<1>5. \A l \in 0..(D - 1) : l + 1 \in 1..D /\ l + 1 - 1 = l
  BY <1>1
<1>6. [l \in 1..D |-> at(l - 1)] \in [1..D -> Hash]
  <2> HIDE DEF at, D
  <2> QED
    BY <1>2, <1>4
<1>7. /\ bitcoin_merkle_siblings(leaves, j) \in Seq(Hash)
      /\ Len(bitcoin_merkle_siblings(leaves, j)) = D
      /\ \A l \in 0..(D - 1) : bitcoin_merkle_siblings(leaves, j)[l + 1] = at(l)
  <2> HIDE DEF at, D
  <2> QED
    BY <1>1, <1>3, <1>5, <1>6
<1> QED
  BY <1>7

\* bitcoin_merkle_siblings against bitcoin_merkle_root: the path of each
\* transaction of a block leads to the block's root.
LEMMA BitcoinPathGivesRoot ==
    ASSUME NEW leaves \in Seq(Hash), NEW j \in Nat, j < Len(leaves)
    PROVE  PathRoot(leaves[j + 1], j, bitcoin_merkle_siblings(leaves, j))
               = bitcoin_merkle_root(leaves)
<1> DEFINE D == BitcoinDepth(leaves)
           row(l) == BitcoinLevel(leaves, l)
           path == bitcoin_merkle_siblings(leaves, j)
           v == leaves[j + 1]
           At(l) == Shr(j, l) < Len(row(l)) /\ PathNode(v, j, path, l) = row(l)[Shr(j, l) + 1]
           T == {l \in Nat : l <= D => At(l)}
<1>1. leaves # << >> /\ v \in Hash
  OBVIOUS
<1>2. D \in Nat /\ Len(row(D)) = 1
  BY <1>1, BitcoinDepths
<1>3. path \in Seq(Hash) /\ Len(path) = D
  BY <1>1, BitcoinPathType
<1>4. 0 \in T
  <2>1. row(0) = leaves /\ Shr(j, 0) = j
    BY <1>1, BitcoinLevels, Shifts
  <2>2. PathNode(v, j, path, 0) = v
    <3> HIDE DEF v, path
    <3> QED
      BY <1>1, <1>3, PathNodes
  <2> QED
    BY <2>1, <2>2
<1>5. ASSUME NEW l \in Nat, l \in T PROVE l + 1 \in T
  <2> SUFFICES ASSUME l + 1 <= D PROVE At(l + 1)
    OBVIOUS
  <2> DEFINE s == Shr(j, l)
             q == s \div 2
             n == Len(row(l))
  <2>1. s \in Nat /\ Shr(j, l + 1) = q
    BY Shifts
  <2>2. /\ row(l) \in Seq(Hash) /\ n \in Nat /\ n > 1 /\ Len(row(l + 1)) = (n + 1) \div 2
        /\ \A i \in 1..((n + 1) \div 2) : row(l + 1)[i]
              = Node(row(l)[2*i - 1], IF 2*i <= n THEN row(l)[2*i] ELSE Last(row(l)))
    BY <1>1, <1>2, BitcoinRows
  <2>3. path[l + 1] = IF Sibling(s) < n THEN row(l)[Sibling(s) + 1] ELSE Last(row(l))
    <3>1. l \in 0..(D - 1)
      BY <1>2
    <3> QED
      BY <1>1, <3>1, BitcoinPathType
  <2>4. PathNode(v, j, path, l + 1) = Parent(PathNode(v, j, path, l), s, path[l + 1])
    <3>1. l \in 0..(Len(path) - 1)
      BY <1>2, <1>3
    <3> HIDE DEF v, path
    <3> QED
      BY <1>1, <1>3, <3>1, PathNodes
  <2>5. s < n /\ PathNode(v, j, path, l) = row(l)[s + 1]
    BY <1>2, <1>5
  <2> HIDE DEF s, n, row, path, v, D
  <2>6. q \in Nat /\ q + 1 \in 1..((n + 1) \div 2) /\ q < (n + 1) \div 2
        /\ 2*(q + 1) - 1 = 2*q + 1 /\ 2*(q + 1) = 2*q + 2
    BY <2>1, <2>2, <2>5
  <2>7. row(l + 1)[q + 1]
          = Node(row(l)[2*q + 1], IF 2*q + 2 <= n THEN row(l)[2*q + 2] ELSE Last(row(l)))
    <3> HIDE DEF q
    <3> QED
      BY <2>2, <2>6
  <2>8. CASE s % 2 = 0
    <3>1. s = 2*q /\ Sibling(s) = 2*q + 1
      BY <2>1, <2>8, Siblings
    <3>2. (Sibling(s) < n <=> 2*q + 2 <= n) /\ Sibling(s) + 1 = 2*q + 2 /\ s + 1 = 2*q + 1
      BY <2>2, <2>6, <3>1
    <3>3. Parent(PathNode(v, j, path, l), s, path[l + 1]) = row(l + 1)[q + 1]
      <4> HIDE DEF q
      <4> QED
        BY <2>3, <2>5, <2>7, <2>8, <3>2 DEF Parent
    <3> QED
      BY <2>1, <2>2, <2>4, <2>6, <3>3
  <2>9. CASE s % 2 # 0
    <3>1. s = 2*q + 1 /\ Sibling(s) = 2*q
      BY <2>1, <2>9, Siblings
    <3>2. Sibling(s) < n /\ 2*q + 2 <= n /\ Sibling(s) + 1 = 2*q + 1 /\ s + 1 = 2*q + 2
      <4> HIDE DEF q
      <4> QED
        BY <2>2, <2>5, <2>6, <3>1
    <3>3. Parent(PathNode(v, j, path, l), s, path[l + 1]) = row(l + 1)[q + 1]
      <4> HIDE DEF q
      <4> QED
        BY <2>3, <2>5, <2>7, <2>9, <3>2 DEF Parent
    <3> QED
      BY <2>1, <2>2, <2>4, <2>6, <3>3
  <2> QED
    BY <2>8, <2>9
<1>6. D \in T
  <2> HIDE DEF T, D
  <2> QED
    BY <1>2, <1>4, <1>5, Induction
<1>7. Shr(j, D) < 1 /\ Shr(j, D) \in Nat /\ PathNode(v, j, path, D) = row(D)[Shr(j, D) + 1]
  <2>1. D <= D
    BY <1>2
  <2>2. At(D)
    BY <1>6, <2>1
  <2>3. Shr(j, D) \in Nat
    BY <1>2, Shifts
  <2> QED
    BY <1>2, <2>2, <2>3
<1>8. PathNode(v, j, path, D) = row(D)[1]
  <2> HIDE DEF row, path, v, D
  <2> QED
    BY <1>7
<1>9. row(D) \in Seq(Hash) \ {<< >>}
  BY <1>1, <1>2, BitcoinLevels
<1>10. Head(row(D)) = row(D)[1]
  <2> HIDE DEF row
  <2> QED
    BY <1>9
<1> QED
  BY <1>3, <1>8, <1>10 DEF PathRoot, bitcoin_merkle_root

\* A node is its two halves in brackets.
LEMMA NodeString ==
    ASSUME NEW l \in Hash, NEW r \in Hash
    PROVE  /\ Len(Node(l, r)) = Len(l) + Len(r) + 2
           /\ Node(l, r)[1] = -1
           /\ \A k \in 1..Len(l) : Node(l, r)[k + 1] = l[k]
           /\ \A k \in 0..(Len(r) - 1) : Node(l, r)[Len(l) + Len(r) + 1 - k] = r[Len(r) - k]
<1> DEFINE a == <<-1>> \o l
           b == a \o r
<1>1. l \in Seq(Int) /\ r \in Seq(Int) /\ Len(l) \in Nat /\ Len(r) \in Nat
  BY DEF Hash
<1>2. a \in Seq(Int) /\ Len(a) = Len(l) + 1 /\ a[1] = -1 /\ \A k \in 1..Len(l) : a[k + 1] = l[k]
  BY <1>1
<1> HIDE DEF a
<1>3. /\ b \in Seq(Int) /\ Len(b) = Len(a) + Len(r)
      /\ \A k \in 1..Len(a) : b[k] = a[k]
      /\ \A k \in 1..Len(r) : b[Len(a) + k] = r[k]
  <2>1. a \in Seq(Int) /\ r \in Seq(Int)
    BY <1>1, <1>2
  <2>2. b \in Seq(Int) /\ Joins(b, a, r)
    BY <2>1, Concatenation, Zenon
  <2> QED
    BY <2>2 DEF Joins
<1> HIDE DEF b
<1>4. Node(l, r) = b \o <<-2>>
  BY DEF Node, a, b
<1>5. Len(Node(l, r)) = Len(b) + 1 /\ \A k \in 1..Len(b) : Node(l, r)[k] = b[k]
  BY <1>3, <1>4
<1>6. Node(l, r)[1] = -1
  <2>1. 1 \in 1..Len(b) /\ 1 \in 1..Len(a)
    BY <1>1, <1>2, <1>3
  <2> QED
    BY <1>2, <1>3, <1>5, <2>1
<1>7. ASSUME NEW k \in 1..Len(l) PROVE Node(l, r)[k + 1] = l[k]
  <2>1. k + 1 \in 1..Len(b) /\ k + 1 \in 1..Len(a)
    BY <1>1, <1>2, <1>3
  <2> QED
    BY <1>2, <1>3, <1>5, <2>1
<1>8. ASSUME NEW k \in 0..(Len(r) - 1)
      PROVE  Node(l, r)[Len(l) + Len(r) + 1 - k] = r[Len(r) - k]
  <2>1. /\ Len(l) + Len(r) + 1 - k = Len(a) + (Len(r) - k)
        /\ Len(r) - k \in 1..Len(r) /\ Len(a) + (Len(r) - k) \in 1..Len(b)
    <3> DEFINE y == Len(r)
               z == Len(l)
               w == Len(b)
    <3>1. /\ y \in Nat /\ z \in Nat /\ w = z + 1 + y /\ Len(a) = z + 1
          /\ k \in Int /\ 0 <= k /\ k <= y - 1
      BY <1>1, <1>2, <1>3
    <3> HIDE DEF y, z, w
    <3>2. /\ z + y + 1 - k = (z + 1) + (y - k) /\ y - k \in 1..y
          /\ (z + 1) + (y - k) \in 1..w
      BY <3>1
    <3> QED
      BY <3>1, <3>2 DEF y, z, w
  <2> QED
    BY <1>3, <1>5, <2>1
<1> QED
  BY <1>1, <1>2, <1>3, <1>5, <1>6, <1>7, <1>8

\* A hash d levels above its leaves opens with d brackets and its first leaf,
\* and d brackets before its end it has its last leaf.
Ends(hash, d, first, final) ==
    /\ Len(hash) > d
    /\ \A k \in 1..d : hash[k] = -1
    /\ hash[d + 1] = Head(first)
    /\ hash[Len(hash) - d] = Last(final)

\* The root tells the depth, the first and the last leaf.
LEMMA RootEnds ==
    ASSUME NEW leaves \in Seq(Hash \ {<< >>}), leaves # << >>
    PROVE  Ends(bitcoin_merkle_root(leaves), BitcoinDepth(leaves), Head(leaves), Last(leaves))
<1> DEFINE D == BitcoinDepth(leaves)
           row(l) == BitcoinLevel(leaves, l)
           First(h, d) == Len(h) > d /\ (\A k \in 1..d : h[k] = -1) /\ h[d + 1] = Head(Head(leaves))
           Final(h, d) == Len(h) > d /\ h[Len(h) - d] = Last(Last(leaves))
           T == {d \in Nat : d <= D => First(row(d)[1], d) /\ Final(row(d)[Len(row(d))], d)}
<1>1. leaves \in Seq(Hash)
  OBVIOUS
<1>2. D \in Nat /\ Len(row(D)) = 1 /\ row(D) \in Seq(Hash) /\ row(D) # << >>
  BY <1>1, BitcoinDepths, BitcoinLevels
<1>3. 0 \in T
  <2>1. row(0) = leaves
    BY <1>1, BitcoinLevels
  <2>2. /\ Head(leaves) = leaves[1] /\ leaves[1] \in Hash /\ leaves[1] # << >>
        /\ Last(leaves) = leaves[Len(leaves)] /\ Last(leaves) \in Hash /\ Last(leaves) # << >>
    BY NonEmpty
  <2>3. ASSUME NEW h \in Hash, h # << >>
        PROVE  Len(h) > 0 /\ h[0 + 1] = Head(h) /\ h[Len(h) - 0] = Last(h)
    <3>1. h \in Seq(Int)
      BY DEF Hash
    <3>2. Len(h) \in Nat /\ Len(h) >= 1 /\ Head(h) = h[1] /\ Last(h) = h[Len(h)]
      BY <2>3, <3>1, NonEmpty
    <3> QED
      BY <3>2
  <2>4. First(leaves[1], 0)
    BY <2>2, <2>3
  <2>5. Final(leaves[Len(leaves)], 0)
    BY <2>2, <2>3
  <2> HIDE DEF First, Final, row
  <2> QED
    BY <2>1, <2>4, <2>5
<1>4. ASSUME NEW d \in Nat, d \in T PROVE d + 1 \in T
  <2> SUFFICES ASSUME d + 1 <= D
               PROVE  /\ First(row(d + 1)[1], d + 1)
                      /\ Final(row(d + 1)[Len(row(d + 1))], d + 1)
    OBVIOUS
  <2> DEFINE n == Len(row(d))
             right(i) == IF 2*i <= n THEN row(d)[2*i] ELSE Last(row(d))
             e == (n + 1) \div 2
  <2>1. /\ row(d) \in Seq(Hash) /\ n \in Nat /\ n > 1 /\ Len(row(d + 1)) = e
        /\ \A i \in 1..e : row(d + 1)[i] = Node(row(d)[2*i - 1], right(i))
    BY <1>1, <1>2, BitcoinRows
  <2>2. First(row(d)[1], d) /\ Final(row(d)[n], d)
    <3> HIDE DEF First, Final
    <3> QED
      BY <1>2, <1>4
  <2> HIDE DEF row, n, e
  <2>3. e \in Nat /\ 1 \in 1..e /\ e \in 1..e /\ (2*e = n \/ 2*e = n + 1) /\ 2*e - 1 \in 1..n
    BY <2>1 DEF e
  <2>4. right(1) \in Hash /\ row(d)[1] \in Hash /\ row(d + 1)[1] = Node(row(d)[1], right(1))
    <3>1. 2*1 <= n /\ 2*1 = 2 /\ 2*1 - 1 = 1 /\ 1 \in 1..n /\ 2 \in 1..n
      BY <2>1
    <3>2. row(d)[1] \in Hash /\ row(d)[2] \in Hash
      BY <2>1, <3>1 DEF n
    <3> QED
      BY <2>1, <2>3, <3>1, <3>2
  <2>5. First(row(d + 1)[1], d + 1)
    <3> DEFINE h == row(d)[1]
               g == right(1)
    <3> HIDE DEF h, g
    <3>1. h \in Hash /\ g \in Hash /\ row(d + 1)[1] = Node(h, g) /\ First(h, d)
      BY <2>2, <2>4 DEF h, g
    <3>2. Len(h) \in Nat /\ Len(g) \in Nat
      BY <3>1 DEF Hash
    <3>3. /\ Len(Node(h, g)) = Len(h) + Len(g) + 2 /\ Node(h, g)[1] = -1
          /\ \A k \in 1..Len(h) : Node(h, g)[k + 1] = h[k]
      BY <3>1, NodeString
    <3>4. Len(Node(h, g)) > d + 1
      BY <3>1, <3>2, <3>3
    <3>5. ASSUME NEW k \in 1..(d + 1) PROVE Node(h, g)[k] = -1
      <4>1. CASE k = 1
        BY <3>3, <4>1
      <4>2. CASE k # 1
        <5>1. k - 1 \in 1..d /\ k - 1 \in 1..Len(h) /\ k - 1 + 1 = k
          BY <3>1, <3>2, <4>2
        <5> QED
          BY <3>1, <3>3, <5>1
      <4> QED
        BY <4>1, <4>2
    <3>6. d + 1 \in 1..Len(h)
      BY <3>1, <3>2
    <3>7. Node(h, g)[d + 1 + 1] = Head(Head(leaves))
      BY <3>1, <3>3, <3>6
    <3> QED
      BY <3>1, <3>4, <3>5, <3>7
  <2>6. Final(row(d + 1)[Len(row(d + 1))], d + 1)
    <3> DEFINE h == row(d)[n]
               g == row(d)[2*e - 1]
    <3>1. right(e) = row(d)[n]
      <4>1. CASE 2*e = n
        BY <2>1, <4>1
      <4>2. CASE 2*e = n + 1
        <5>1. ~(2*e <= n)
          BY <2>1, <4>2
        <5> QED
          BY <5>1 DEF Last, n
      <4> QED
        BY <2>3, <4>1, <4>2
    <3>2. h \in Hash /\ g \in Hash
      BY <2>1, <2>3 DEF n
    <3>3. row(d + 1)[Len(row(d + 1))] = Node(g, h)
      <4>1. row(d + 1)[e] = Node(row(d)[2*e - 1], right(e))
        <5> HIDE DEF right
        <5> QED
          BY <2>1, <2>3
      <4> QED
        BY <2>1, <3>1, <4>1
    <3>4. Final(h, d)
      BY <2>2
    <3> HIDE DEF h, g
    <3>5. Len(h) \in Nat /\ Len(g) \in Nat
      BY <3>2 DEF Hash
    <3>6. /\ Len(Node(g, h)) = Len(g) + Len(h) + 2
          /\ \A k \in 0..(Len(h) - 1) : Node(g, h)[Len(g) + Len(h) + 1 - k] = h[Len(h) - k]
      BY <3>2, NodeString
    <3>7. d \in 0..(Len(h) - 1) /\ Len(Node(g, h)) - (d + 1) = Len(g) + Len(h) + 1 - d
      BY <3>4, <3>5, <3>6
    <3>8. Node(g, h)[Len(Node(g, h)) - (d + 1)] = Last(Last(leaves)) /\ Len(Node(g, h)) > d + 1
      BY <3>4, <3>5, <3>6, <3>7
    <3> QED
      BY <3>3, <3>8
  <2> QED
    BY <2>5, <2>6
<1>5. D \in T
  <2> HIDE DEF T, D
  <2> QED
    BY <1>2, <1>3, <1>4, Induction
<1>6. First(row(D)[1], D) /\ Final(row(D)[1], D)
  <2>1. D <= D
    BY <1>2
  <2> HIDE DEF First, Final
  <2> QED
    BY <1>2, <1>5, <2>1
<1>7. bitcoin_merkle_root(leaves) = row(D)[1]
  BY <1>2, NonEmpty DEF bitcoin_merkle_root
<1> HIDE DEF row, D
<1> QED
  BY <1>6, <1>7 DEF Ends, D

\* Two lists of hashes with the same root have the same first and last leaf,
\* when no leaf opens with a bracket.
LEMMA RootTellsEnds ==
    ASSUME NEW a \in Seq(Hash \ {<< >>}), a # << >>, Head(Head(a)) # -1,
           NEW b \in Seq(Hash \ {<< >>}), b # << >>, Head(Head(b)) # -1,
           bitcoin_merkle_root(a) = bitcoin_merkle_root(b)
    PROVE  Head(Head(a)) = Head(Head(b)) /\ Last(Last(a)) = Last(Last(b))
<1> DEFINE r == bitcoin_merkle_root(a)
           d == BitcoinDepth(a)
           e == BitcoinDepth(b)
<1>1. d \in Nat /\ e \in Nat
  BY BitcoinDepths
<1>2. Ends(r, d, Head(a), Last(a)) /\ Ends(r, e, Head(b), Last(b))
  BY RootEnds
<1> HIDE DEF r, d, e
<1>3. ~(d < e)
  <2>1. d < e => d + 1 \in 1..e
    BY <1>1
  <2> QED
    BY <1>2, <2>1 DEF Ends
<1>4. ~(e < d)
  <2>1. e < d => e + 1 \in 1..d
    BY <1>1
  <2> QED
    BY <1>2, <2>1 DEF Ends
<1>5. d = e
  BY <1>1, <1>3, <1>4
<1> QED
  BY <1>2, <1>5 DEF Ends

Output == [script : Int, value : Int]

Transaction == [id : Int, outputs : Seq(Output)]

\* A mined block has its transactions in order, with the ids of its height.
LEMMA MinedBlock ==
    ASSUME NEW height \in Nat, NEW shape \in Shapes
    PROVE  LET txs == Mined(height, shape).transactions
               n == Len(shape)
           IN  /\ shape \in Seq(Seq(Output))
               /\ n \in Nat /\ n >= 1
               /\ txs \in Seq(Transaction)
               /\ Len(txs) = n /\ txs # << >>
               /\ \A i \in 1..n : txs[i].id = 10 * height + i /\ txs[i].outputs = shape[i]
               /\ Mined(height, shape)
                    = [merkle_root |-> bitcoin_merkle_root([i \in DOMAIN txs |-> <<txs[i].id>>]),
                       transactions |-> txs]
<1> DEFINE n == Len(shape)
           tx(i) == [id |-> 10 * height + i, outputs |-> shape[i]]
           txs == [i \in DOMAIN shape |-> tx(i)]
           block == Mined(height, shape)
<1>1. shape \in Seq(Seq(Output)) /\ shape # << >>
  BY TreesAssumption DEF Output
<1>2. n \in Nat /\ n >= 1 /\ DOMAIN shape = 1..n
  BY <1>1
<1>3. \A i \in 1..n : /\ tx(i) \in Transaction
                      /\ tx(i).id = 10 * height + i /\ tx(i).outputs = shape[i]
  BY <1>1, <1>2 DEF Transaction
<1>4. /\ txs \in Seq(Transaction)
      /\ Len(txs) = n /\ \A i \in 1..n : txs[i] = tx(i)
  <2> HIDE DEF tx, n
  <2> QED
    BY <1>2, <1>3
<1>5. txs # << >>
  BY <1>2, <1>4
<1>6. block = [merkle_root |-> bitcoin_merkle_root([i \in DOMAIN txs |-> <<txs[i].id>>]),
               transactions |-> txs]
  BY DEF Mined
<1>7. block.transactions = txs
  BY <1>6
<1>8. \A i \in 1..n : txs[i].id = 10 * height + i /\ txs[i].outputs = shape[i]
  <2> HIDE DEF tx, txs
  <2> QED
    BY <1>3, <1>4
<1> HIDE DEF txs, block
<1> QED
  BY <1>1, <1>2, <1>4, <1>5, <1>6, <1>7, <1>8 DEF block

\* The hashes of a list of transactions, and the ends of the list.
LEMMA Hashes ==
    ASSUME NEW txs \in Seq(Transaction), txs # << >>
    PROVE  LET hashes == [i \in DOMAIN txs |-> <<txs[i].id>>]
           IN  /\ hashes \in Seq(Hash \ {<< >>}) /\ hashes # << >> /\ Len(hashes) = Len(txs)
               /\ Head(Head(hashes)) = txs[1].id
               /\ Last(Last(hashes)) = txs[Len(txs)].id
<1> DEFINE hash(i) == <<txs[i].id>>
           hashes == [i \in DOMAIN txs |-> hash(i)]
           n == Len(txs)
<1>1. n \in Nat /\ n >= 1 /\ DOMAIN txs = 1..n
  BY NonEmpty
<1>2. ASSUME NEW i \in 1..n PROVE txs[i].id \in Int
  <2>1. txs[i] \in Transaction
    BY <1>1
  <2> QED
    BY <2>1 DEF Transaction
<1>3. \A i \in 1..n : hash(i) \in Seq(Int) /\ hash(i) # << >> /\ Head(hash(i)) = txs[i].id
                      /\ Last(hash(i)) = txs[i].id
  BY <1>2 DEF Last
<1>4. \A i \in 1..n : hash(i) \in Hash \ {<< >>}
  BY <1>3 DEF Hash
<1> HIDE DEF hash, n
<1>5. hashes \in Seq(Hash \ {<< >>}) /\ Len(hashes) = n
  BY <1>1, <1>4
<1>6. hashes # << >> /\ hashes[1] = hash(1) /\ hashes[n] = hash(n) /\ 1 \in 1..n /\ n \in 1..n
  BY <1>1, <1>5
<1> HIDE DEF hashes
<1>7. Head(hashes) = hashes[1] /\ Last(hashes) = hashes[n]
  BY <1>5, <1>6, NonEmpty
<1>8. Head(Head(hashes)) = txs[1].id /\ Last(Last(hashes)) = txs[n].id
  BY <1>3, <1>6, <1>7
<1> QED
  BY <1>5, <1>6, <1>8 DEF hashes, n, hash

\* MatchesHeader: a mined block matches its own header.
LEMMA MinedMatches ==
    ASSUME NEW height \in Nat, NEW shape \in Shapes
    PROVE  MatchesHeader(Mined(height, shape))
<1> DEFINE block == Mined(height, shape)
           txs == block.transactions
<1>1. /\ txs # << >>
      /\ block = [merkle_root |-> bitcoin_merkle_root([i \in DOMAIN txs |-> <<txs[i].id>>]),
                  transactions |-> txs]
  BY MinedBlock
<1>2. block.merkle_root = bitcoin_merkle_root([i \in DOMAIN txs |-> <<txs[i].id>>])
  <2> HIDE DEF block
  <2> QED
    BY <1>1
<1> QED
  BY <1>1, <1>2 DEF MatchesHeader

\* The block that was mined, or with a tail of its list repeated, is a list of
\* transactions, with the same ones in it.
LEMMA AsMinedBlock ==
    ASSUME NEW height \in Nat, NEW shape \in Shapes,
           NEW b \in AsMined(Mined(height, shape))
    PROVE  /\ b.transactions \in Seq(Transaction)
           /\ ToSet(b.transactions) = ToSet(Mined(height, shape).transactions)
<1> DEFINE block == Mined(height, shape)
           txs == block.transactions
<1>1. /\ txs \in Seq(Transaction)
      /\ block = [merkle_root |-> bitcoin_merkle_root([i \in DOMAIN txs |-> <<txs[i].id>>]),
                  transactions |-> txs]
  BY MinedBlock
<1>2. ASSUME NEW s PROVE [block EXCEPT !.transactions = s].transactions = s
  <2> HIDE DEF block, txs
  <2> QED
    BY <1>1
<1>3. CASE b = block
  BY <1>1, <1>3
<1>4. CASE b # block
  <2>1. PICK k \in DOMAIN txs : b = [block EXCEPT !.transactions = txs \o SubSeq(txs, k, Len(txs))]
    BY <1>4 DEF AsMined
  <2> HIDE DEF txs, block
  <2> DEFINE n == Len(txs)
             tail == SubSeq(txs, k, Len(txs))
             s == txs \o tail
  <2>2. n \in Nat /\ k \in 1..n /\ DOMAIN txs = 1..n
    BY <1>1
  <2>3. tail \in Seq(Transaction) /\ Len(tail) = n - k + 1
        /\ \A i \in 1..(n - k + 1) : tail[i] = txs[k + i - 1]
    BY <1>1, <2>2
  <2> HIDE DEF tail, n
  <2>4. s \in Seq(Transaction) /\ Joins(s, txs, tail)
    BY <1>1, <2>3, Concatenation, Zenon
  <2>5. b.transactions = s
    BY <1>2, <2>1 DEF tail
  <2> HIDE DEF s
  <2>6. /\ Len(s) = n + Len(tail) /\ Len(tail) \in Nat
        /\ \A i \in 1..n : s[i] = txs[i]
        /\ \A i \in 1..Len(tail) : s[n + i] = tail[i]
    BY <2>3, <2>4 DEF Joins, n
  <2>7. DOMAIN s = 1..Len(s)
    BY <2>4
  <2>8. ASSUME NEW i \in DOMAIN s PROVE \E e \in DOMAIN txs : s[i] = txs[e]
    <3>1. CASE i \in 1..n
      BY <2>2, <2>6, <3>1
    <3>2. CASE i \notin 1..n
      <4>1. i - n \in 1..Len(tail) /\ n + (i - n) = i
        BY <2>2, <2>6, <2>7, <3>2
      <4>2. s[i] = tail[i - n]
        BY <2>6, <4>1
      <4>3. i - n \in 1..(n - k + 1) /\ k + (i - n) - 1 \in 1..n
        BY <2>2, <2>3, <4>1
      <4>4. tail[i - n] = txs[k + (i - n) - 1]
        BY <2>3, <4>3
      <4> QED
        BY <2>2, <4>2, <4>3, <4>4
    <3> QED
      BY <3>1, <3>2
  <2>9. ASSUME NEW i \in DOMAIN txs PROVE i \in DOMAIN s /\ s[i] = txs[i]
    BY <2>2, <2>6, <2>7
  <2>10. ToSet(s) = ToSet(txs)
    BY <2>8, <2>9 DEF ToSet
  <2> QED
    BY <2>4, <2>5, <2>10 DEF txs, block
<1> QED
  BY <1>3, <1>4

\* ... and of the answers Electrs may give, only such a block matches its header.
LEMMA OnlyAsMined ==
    ASSUME NEW height \in Nat, NEW shape \in Shapes,
           NEW answer \in Answers(Mined(height, shape)), MatchesHeader(answer)
    PROVE  answer \in AsMined(Mined(height, shape))
<1> DEFINE block == Mined(height, shape)
           txs == block.transactions
           n == Len(shape)
           hashesOf(s) == [i \in DOMAIN s |-> <<s[i].id>>]
           as(s) == [block EXCEPT !.transactions = s]
           swapped == <<txs[2], txs[1]>> \o SubSeq(txs, 3, Len(txs))
<1>1. /\ n \in Nat /\ n >= 1 /\ txs \in Seq(Transaction) /\ Len(txs) = n /\ txs # << >>
      /\ \A i \in 1..n : txs[i].id = 10 * height + i
      /\ block = [merkle_root |-> bitcoin_merkle_root(hashesOf(txs)), transactions |-> txs]
  BY MinedBlock
<1>2. \/ answer \in AsMined(block) \/ answer = as(<< >>) \/ answer = as(Front(txs))
      \/ n > 1 /\ answer = as(swapped)
  BY <1>1 DEF Answers
<1>3. ASSUME NEW s PROVE as(s).transactions = s /\ as(s).merkle_root = block.merkle_root
  <2> HIDE DEF block, txs, hashesOf
  <2> QED
    BY <1>1
<1>4. block.merkle_root = bitcoin_merkle_root(hashesOf(txs))
  <2> HIDE DEF block, txs, hashesOf
  <2> QED
    BY <1>1
<1> HIDE DEF block, n, txs, as
<1>5. \A i \in 1..n : txs[i].id \in Int /\ txs[i].id # -1
  BY <1>1
<1>6. ASSUME NEW s \in Seq(Transaction), s # << >>, answer = as(s), s[1].id # -1
      PROVE  s[1].id = txs[1].id /\ s[Len(s)].id = txs[n].id
  <2>1. answer.transactions = s /\ answer.merkle_root = bitcoin_merkle_root(hashesOf(txs))
    BY <1>3, <1>4, <1>6
  <2>2. bitcoin_merkle_root(hashesOf(s)) = bitcoin_merkle_root(hashesOf(txs))
    BY <2>1 DEF MatchesHeader
  <2>3. /\ hashesOf(s) \in Seq(Hash \ {<< >>}) /\ hashesOf(s) # << >>
        /\ Head(Head(hashesOf(s))) = s[1].id /\ Last(Last(hashesOf(s))) = s[Len(s)].id
    BY <1>6, Hashes
  <2>4. /\ hashesOf(txs) \in Seq(Hash \ {<< >>}) /\ hashesOf(txs) # << >>
        /\ Head(Head(hashesOf(txs))) = txs[1].id /\ Last(Last(hashesOf(txs))) = txs[n].id
    BY <1>1, Hashes
  <2>5. txs[1].id # -1
    BY <1>1, <1>5
  <2> HIDE DEF hashesOf
  <2>6. /\ Head(Head(hashesOf(s))) = Head(Head(hashesOf(txs)))
        /\ Last(Last(hashesOf(s))) = Last(Last(hashesOf(txs)))
    BY <1>6, <2>2, <2>3, <2>4, <2>5, RootTellsEnds
  <2> QED
    BY <2>3, <2>4, <2>6
<1>7. answer.transactions # << >>
  BY DEF MatchesHeader
<1>8. CASE answer = as(<< >>)
  BY <1>3, <1>7, <1>8
<1>9. CASE answer = as(Front(txs))
  <2> DEFINE s == Front(txs)
  <2>1. s \in Seq(Transaction) /\ Len(s) = n - 1 /\ \A i \in 1..(n - 1) : s[i] = txs[i]
    BY <1>1 DEF Front
  <2> HIDE DEF s
  <2>2. s # << >>
    BY <1>3, <1>7, <1>9 DEF s
  <2>3. /\ n - 1 >= 1 /\ 1 \in 1..(n - 1) /\ n - 1 \in 1..(n - 1)
        /\ n - 1 \in 1..n /\ n \in 1..n /\ 1 \in 1..n
    BY <1>1, <2>1, <2>2
  <2>4. s[1].id # -1 /\ s[Len(s)].id = txs[n - 1].id
    BY <1>5, <2>1, <2>3
  <2>5. s[Len(s)].id = txs[n].id
    BY <1>6, <1>9, <2>1, <2>2, <2>4 DEF s
  <2>6. 10 * height + (n - 1) = 10 * height + n
    BY <1>1, <2>3, <2>4, <2>5
  <2> QED
    BY <1>1, <2>6
<1>10. CASE n > 1 /\ answer = as(swapped)
  <2>1. 1 \in 1..n /\ 2 \in 1..n /\ txs[1] \in Transaction /\ txs[2] \in Transaction
    BY <1>1, <1>10
  <2>2. <<txs[2], txs[1]>> \in Seq(Transaction) /\ SubSeq(txs, 3, Len(txs)) \in Seq(Transaction)
    BY <1>1, <2>1
  <2>3. /\ swapped \in Seq(Transaction)
        /\ Joins(swapped, <<txs[2], txs[1]>>, SubSeq(txs, 3, Len(txs)))
    BY <2>2, Concatenation, Zenon
  <2>4. Len(SubSeq(txs, 3, Len(txs))) \in Nat /\ Len(<<txs[2], txs[1]>>) = 2
    BY <2>2
  <2>5. swapped[1] = txs[2] /\ Len(swapped) >= 2
    <3> HIDE DEF swapped
    <3> QED
      BY <2>3, <2>4 DEF Joins
  <2> HIDE DEF swapped
  <2>6. swapped # << >> /\ swapped[1].id # -1
    BY <1>5, <2>1, <2>3, <2>5
  <2>7. swapped[1].id = txs[1].id
    BY <1>6, <1>10, <2>3, <2>6
  <2>8. 10 * height + 2 = 10 * height + 1
    BY <1>1, <2>1, <2>5, <2>7
  <2> QED
    BY <2>8
<1> QED
  BY <1>2, <1>8, <1>9, <1>10 DEF block

-----------------------------------------------------------------------------
(* Sequences of sequences *)

\* A set that holds the empty sequence and with each sequence all that are one
\* longer holds all.
LEMMA SeqInduction ==
    ASSUME NEW A, NEW T, << >> \in T,
           \A s \in Seq(A) : \A a \in A : s \in T => Append(s, a) \in T
    PROVE  \A s \in Seq(A) : s \in T
<1> DEFINE N == {n \in Nat : \A s \in Seq(A) : Len(s) = n => s \in T}
<1>1. 0 \in N
  <2>1. \A s \in Seq(A) : Len(s) = 0 => s = << >>
    OBVIOUS
  <2> QED
    BY <2>1
<1>2. ASSUME NEW n \in Nat, n \in N PROVE n + 1 \in N
  <2>1. ASSUME NEW s \in Seq(A), Len(s) = n + 1 PROVE s \in T
    <3> DEFINE t == SubSeq(s, 1, n)
    <3>1. t \in Seq(A) /\ Len(t) = n /\ s[n + 1] \in A /\ s = Append(t, s[n + 1])
      BY <2>1
    <3> HIDE DEF t
    <3>2. t \in T
      BY <1>2, <3>1
    <3> QED
      BY <3>1, <3>2
  <2> QED
    BY <2>1
<1>3. \A n \in Nat : n \in N
  <2> HIDE DEF N
  <2> QED
    BY <1>1, <1>2, Induction
<1> QED
  BY <1>3

\* f holds the concatenation of the first k sequences.
Flattens(f, S, seqs) ==
    /\ f \in [Nat -> Seq(S)] /\ f[0] = << >>
    /\ \A k \in 1..Len(seqs) : f[k] = f[k-1] \o seqs[k]
    /\ FlattenSeq(seqs) = f[Len(seqs)]

\* FlattenSeq adds one sequence after the other.
LEMMA Flattening ==
    ASSUME NEW S, NEW seqs \in Seq(Seq(S))
    PROVE  \E f : Flattens(f, S, seqs)
<1> DEFINE n == Len(seqs)
           F == [k \in Nat |-> [t \in Seq(S) |-> IF k < n THEN t \o seqs[k + 1] ELSE t]]
           Is(g) == g = [i \in 1..n |-> IF i = 1 THEN seqs[i] ELSE g[i-1] \o seqs[i]]
           some == CHOOSE g : Is(g)
<1>1. n \in Nat /\ \A k \in 1..n : seqs[k] \in Seq(S)
  OBVIOUS
<1>2. F \in [Nat -> [Seq(S) -> Seq(S)]]
  <2>1. ASSUME NEW k \in Nat, k < n, NEW t \in Seq(S) PROVE t \o seqs[k + 1] \in Seq(S)
    <3>1. seqs[k + 1] \in Seq(S)
      BY <1>1, <2>1
    <3> QED
      BY <3>1, Concatenation, Zenon
  <2> HIDE DEF n
  <2> QED
    BY <2>1
<1>3. \A k \in Nat, t \in Seq(S) : k < n => F[k][t] = t \o seqs[k + 1]
  OBVIOUS
<1>4. << >> \in Seq(S)
  OBVIOUS
<1> HIDE DEF F, n
<1>5. PICK f : Iterates(f, Seq(S), << >>, F)
  BY <1>2, <1>4, Iteration, Zenon
<1>6. f \in [Nat -> Seq(S)] /\ f[0] = << >> /\ \A k \in Nat : k < n => f[k + 1] = f[k] \o seqs[k + 1]
  BY <1>3, <1>5 DEF Iterates
<1>7. ASSUME NEW k \in 1..n PROVE f[k] = f[k-1] \o seqs[k]
  <2>1. k - 1 \in Nat /\ k - 1 < n /\ k - 1 + 1 = k
    BY <1>1
  <2> QED
    BY <1>6, <2>1
<1>8. CASE n = 0
  <2>1. seqs = << >>
    BY <1>8 DEF n
  <2>2. FlattenSeq(seqs) = f[n]
    BY <1>6, <1>8, <2>1 DEF FlattenSeq, n
  <2> QED
    BY <1>6, <1>7, <2>2 DEF Flattens, n
<1>9. CASE n # 0
  <2> DEFINE r == [k \in 1..n |-> f[k]]
             g == [k \in 0..n |-> IF k = 0 THEN << >> ELSE some[k]]
  <2>1. 1 \in 1..n /\ f[1] = seqs[1]
    <3>1. 1 \in 1..n /\ 1 - 1 = 0
      BY <1>1, <1>9
    <3>2. f[1] = << >> \o seqs[1] /\ seqs[1] \in Seq(S)
      BY <1>1, <1>6, <1>7, <3>1
    <3> QED
      BY <3>1, <3>2
  <2>2. Is(r)
    <3>1. ASSUME NEW k \in 1..n PROVE r[k] = IF k = 1 THEN seqs[k] ELSE r[k-1] \o seqs[k]
      <4>1. CASE k = 1
        BY <2>1, <4>1
      <4>2. CASE k # 1
        <5>1. k - 1 \in 1..n
          BY <1>1, <4>2
        <5> QED
          BY <1>7, <4>2, <5>1
      <4> QED
        BY <4>1, <4>2
    <3>2. r = [k \in 1..n |-> r[k]]
      OBVIOUS
    <3> HIDE DEF r
    <3> QED
      BY <3>1, <3>2, Zenon
  <2>3. Is(some)
    <3> HIDE DEF r, Is
    <3> QED
      BY <2>2
  <2>4. FlattenSeq(seqs) = some[n]
    <3>1. Len(seqs) # 0
      BY <1>9 DEF n
    <3> QED
      BY <3>1 DEF FlattenSeq, n
  <2> HIDE DEF some
  <2>5. some[1] = seqs[1]
    BY <2>1, <2>3
  <2>6. ASSUME NEW k \in 1..n, k # 1 PROVE some[k] = some[k-1] \o seqs[k]
    BY <2>3, <2>6
  <2>7. g[0] = f[0]
    BY <1>1, <1>6
  <2>8. ASSUME NEW k \in 1..n, g[k-1] = f[k-1] PROVE g[k] = f[k]
    <3>1. k \in 0..n /\ k # 0 /\ k - 1 \in 0..n
      BY <1>1
    <3>2. CASE k = 1
      BY <2>1, <2>5, <3>1, <3>2
    <3>3. CASE k # 1
      <4>1. k - 1 # 0
        BY <3>3
      <4>2. g[k] = some[k] /\ g[k-1] = some[k-1]
        BY <3>1, <4>1
      <4> QED
        BY <1>7, <2>6, <2>8, <3>3, <4>2
    <3> QED
      BY <3>2, <3>3
  <2>9. g[n] = f[n]
    <3> HIDE DEF g
    <3> QED
      BY <1>1, <2>7, <2>8, Agreement
  <2>10. g[n] = some[n]
    BY <1>1, <1>9
  <2> QED
    BY <1>6, <1>7, <2>4, <2>9, <2>10 DEF Flattens, n
<1> QED
  BY <1>8, <1>9

\* FlattenSeq of a list that is one longer.
LEMMA FlattenAppend ==
    ASSUME NEW S, NEW seqs \in Seq(Seq(S)), NEW x \in Seq(S)
    PROVE  /\ FlattenSeq(seqs) \in Seq(S)
           /\ FlattenSeq(Append(seqs, x)) = FlattenSeq(seqs) \o x
<1> DEFINE n == Len(seqs)
           more == Append(seqs, x)
<1>1. /\ n \in Nat /\ more \in Seq(Seq(S)) /\ Len(more) = n + 1 /\ more[n + 1] = x
      /\ \A k \in 1..n : more[k] = seqs[k]
  OBVIOUS
<1> HIDE DEF more
<1>2. PICK f : Flattens(f, S, seqs)
  BY Flattening, Zenon
<1>3. PICK g : Flattens(g, S, more)
  BY <1>1, Flattening, Zenon
<1> HIDE DEF n
<1>4. /\ f \in [Nat -> Seq(S)] /\ f[0] = << >> /\ FlattenSeq(seqs) = f[n]
      /\ \A k \in 1..n : f[k] = f[k-1] \o seqs[k]
  BY <1>2 DEF Flattens, n
<1>5. /\ g[0] = << >> /\ FlattenSeq(more) = g[n + 1]
      /\ \A k \in 1..(n + 1) : g[k] = g[k-1] \o more[k]
  BY <1>1, <1>3 DEF Flattens
<1>6. ASSUME NEW k \in 1..n, f[k-1] = g[k-1] PROVE f[k] = g[k]
  <2>1. k \in 1..(n + 1)
    BY <1>1
  <2> QED
    BY <1>1, <1>4, <1>5, <1>6, <2>1
<1>7. f[n] = g[n]
  <2>1. n \in Nat /\ f[0] = g[0]
    BY <1>1, <1>4, <1>5
  <2> QED
    BY <1>6, <2>1, Agreement
<1>8. g[n + 1] = g[n] \o x
  <2>1. n + 1 \in 1..(n + 1) /\ (n + 1) - 1 = n
    BY <1>1
  <2>2. g[n + 1] = g[(n + 1) - 1] \o more[n + 1]
    BY <1>5, <2>1, Zenon
  <2> QED
    BY <1>1, <2>1, <2>2
<1> QED
  BY <1>1, <1>4, <1>5, <1>7, <1>8 DEF more

\* FlattenSeq of nothing.
LEMMA FlattenNothing == FlattenSeq(<< >>) = << >>
BY DEF FlattenSeq

\* FlattenSeq of one sequence.
LEMMA FlattenOne ==
    ASSUME NEW S, NEW x \in Seq(S)
    PROVE  FlattenSeq(<<x>>) = x
<1>1. << >> \in Seq(Seq(S)) /\ <<x>> = Append(<< >>, x) /\ << >> \o x = x
  OBVIOUS
<1>2. FlattenSeq(Append(<< >>, x)) = FlattenSeq(<< >>) \o x
  BY <1>1, FlattenAppend, Zenon
<1> QED
  BY <1>1, <1>2, FlattenNothing

\* FlattenSeq gives a sequence.
LEMMA FlattenType ==
    ASSUME NEW S, NEW seqs \in Seq(Seq(S))
    PROVE  FlattenSeq(seqs) \in Seq(S)
<1>1. << >> \in Seq(S)
  OBVIOUS
<1> QED
  BY <1>1, FlattenAppend, Zenon

\* FlattenSeq of a concatenation.
LEMMA FlattenConcat ==
    ASSUME NEW S, NEW a \in Seq(Seq(S)), NEW b \in Seq(Seq(S))
    PROVE  FlattenSeq(a \o b) = FlattenSeq(a) \o FlattenSeq(b)
<1> DEFINE A == Seq(S)
           T == {t \in Seq(A) : FlattenSeq(a \o t) = FlattenSeq(a) \o FlattenSeq(t)}
<1>1. FlattenSeq(a) \in Seq(S)
  BY FlattenType, Zenon
<1>2. << >> \in T
  <2>1. a \o << >> = a /\ FlattenSeq(a) \o << >> = FlattenSeq(a) /\ << >> \in Seq(A)
    BY <1>1
  <2> QED
    BY <2>1, FlattenNothing
<1>3. ASSUME NEW t \in Seq(A), NEW x \in A, t \in T PROVE Append(t, x) \in T
  <2>1. a \o t \in Seq(A) /\ Append(t, x) \in Seq(A)
    OBVIOUS
  <2>2. a \o Append(t, x) = Append(a \o t, x)
    OBVIOUS
  <2>3. FlattenSeq(Append(a \o t, x)) = FlattenSeq(a \o t) \o x
    BY <2>1, FlattenAppend, Zenon
  <2>4. FlattenSeq(Append(t, x)) = FlattenSeq(t) \o x /\ FlattenSeq(t) \in Seq(S)
    BY FlattenAppend, Zenon
  <2>5. (FlattenSeq(a) \o FlattenSeq(t)) \o x = FlattenSeq(a) \o (FlattenSeq(t) \o x)
    BY <1>1, <2>4
  <2>6. FlattenSeq(a \o t) = FlattenSeq(a) \o FlattenSeq(t)
    BY <1>3
  <2> QED
    BY <2>1, <2>2, <2>3, <2>4, <2>5, <2>6
<1>4. \A t \in Seq(A) : t \in T
  <2> HIDE DEF T, A
  <2> QED
    BY <1>2, <1>3, SeqInduction
<1> QED
  BY <1>4

\* D applied to each element of s.
MapSeq(D, s) == [k \in DOMAIN s |-> D[s[k]]]

\* m is D of s, element by element.
Maps(m, D, S, s) ==
    /\ m \in Seq(S) /\ Len(m) = Len(s)
    /\ \A k \in 1..Len(s) : m[k] = D[s[k]]

\* What MapSeq gives.
LEMMA MapType ==
    ASSUME NEW W, NEW S, NEW D \in [W -> S], NEW s \in Seq(W)
    PROVE  Maps(MapSeq(D, s), D, S, s)
BY DEF MapSeq, Maps

\* MapSeq of a sequence that is one longer.
LEMMA MapAppend ==
    ASSUME NEW W, NEW S, NEW D \in [W -> S], NEW s \in Seq(W), NEW w \in W
    PROVE  MapSeq(D, Append(s, w)) = Append(MapSeq(D, s), D[w])
<1>1. Append(s, w) \in Seq(W) /\ Len(Append(s, w)) = Len(s) + 1 /\ Len(s) \in Nat
  OBVIOUS
<1>2. /\ MapSeq(D, Append(s, w)) \in Seq(S) /\ Len(MapSeq(D, Append(s, w))) = Len(s) + 1
      /\ \A k \in 1..(Len(s) + 1) : MapSeq(D, Append(s, w))[k] = D[Append(s, w)[k]]
  <2>1. Maps(MapSeq(D, Append(s, w)), D, S, Append(s, w))
    BY <1>1, MapType
  <2> QED
    BY <1>1, <2>1 DEF Maps
<1>3. /\ MapSeq(D, s) \in Seq(S) /\ Len(MapSeq(D, s)) = Len(s)
      /\ \A k \in 1..Len(s) : MapSeq(D, s)[k] = D[s[k]]
  <2>1. Maps(MapSeq(D, s), D, S, s)
    BY MapType
  <2> QED
    BY <2>1 DEF Maps
<1>4. /\ Append(MapSeq(D, s), D[w]) \in Seq(S)
      /\ Len(Append(MapSeq(D, s), D[w])) = Len(s) + 1
      /\ \A k \in 1..Len(s) : Append(MapSeq(D, s), D[w])[k] = D[s[k]]
      /\ Append(MapSeq(D, s), D[w])[Len(s) + 1] = D[w]
  BY <1>3
<1>5. ASSUME NEW k \in 1..(Len(s) + 1)
      PROVE  MapSeq(D, Append(s, w))[k] = Append(MapSeq(D, s), D[w])[k]
  <2>1. CASE k = Len(s) + 1
    BY <1>2, <1>4, <2>1
  <2>2. CASE k \in 1..Len(s)
    BY <1>2, <1>4, <2>2
  <2>3. \A n \in Nat : k \in 1..(n + 1) => k = n + 1 \/ k \in 1..n
    OBVIOUS
  <2> QED
    BY <1>1, <2>1, <2>2, <2>3, Zenon
<1> QED
  BY <1>2, <1>4, <1>5

Splits(D, s, t) == MapSeq(D, s \o t) = MapSeq(D, s) \o MapSeq(D, t)

\* MapSeq of a concatenation.
LEMMA MapConcat ==
    ASSUME NEW W, NEW S, NEW D \in [W -> S], NEW s \in Seq(W), NEW t \in Seq(W)
    PROVE  Splits(D, s, t)
<1> DEFINE m == Len(s)
           n == Len(t)
           left == MapSeq(D, s \o t)
           right == MapSeq(D, s) \o MapSeq(D, t)
<1>1. m \in Nat /\ n \in Nat /\ s \o t \in Seq(W) /\ Joins(s \o t, s, t)
  <2>1. m \in Nat /\ n \in Nat
    OBVIOUS
  <2>2. s \o t \in Seq(W) /\ Joins(s \o t, s, t)
    BY Concatenation, Zenon
  <2> QED
    BY <2>1, <2>2
<1>2. /\ MapSeq(D, s) \in Seq(S) /\ Len(MapSeq(D, s)) = m
      /\ \A k \in 1..m : MapSeq(D, s)[k] = D[s[k]]
  <2>1. Maps(MapSeq(D, s), D, S, s)
    BY MapType
  <2> QED
    BY <2>1 DEF Maps
<1>3. /\ MapSeq(D, t) \in Seq(S) /\ Len(MapSeq(D, t)) = n
      /\ \A k \in 1..n : MapSeq(D, t)[k] = D[t[k]]
  <2>1. Maps(MapSeq(D, t), D, S, t)
    BY MapType
  <2> QED
    BY <2>1 DEF Maps
<1>4. right \in Seq(S) /\ Joins(right, MapSeq(D, s), MapSeq(D, t))
  BY <1>2, <1>3, Concatenation, Zenon
<1>5. left \in Seq(S) /\ Len(left) = Len(s \o t) /\ \A k \in 1..Len(s \o t) : left[k] = D[(s \o t)[k]]
  <2>1. Maps(left, D, S, s \o t)
    BY <1>1, MapType
  <2> QED
    BY <2>1 DEF Maps
<1> HIDE DEF m, n, left, right
<1>6. /\ Len(s \o t) = m + n /\ \A k \in 1..m : (s \o t)[k] = s[k]
      /\ \A k \in 1..n : (s \o t)[m + k] = t[k]
  BY <1>1 DEF Joins, m, n
<1>7. /\ Len(right) = m + n /\ \A k \in 1..m : right[k] = D[s[k]]
      /\ \A k \in 1..n : right[m + k] = D[t[k]]
  BY <1>2, <1>3, <1>4 DEF Joins
<1>8. ASSUME NEW k \in 1..(m + n) PROVE left[k] = right[k]
  <2>1. CASE k \in 1..m
    BY <1>5, <1>6, <1>7, <2>1
  <2>2. CASE k \notin 1..m
    <3>1. k - m \in 1..n /\ m + (k - m) = k
      BY <1>1, <2>2
    <3>2. right[m + (k - m)] = D[t[k - m]] /\ (s \o t)[m + (k - m)] = t[k - m]
      BY <1>6, <1>7, <3>1
    <3> QED
      BY <1>5, <1>6, <3>1, <3>2
  <2> QED
    BY <2>1, <2>2
<1>9. left = right
  BY <1>4, <1>5, <1>6, <1>7, <1>8
<1> QED
  BY <1>9 DEF left, right, Splits

\* D applied to each part of each element.
MapParts(D, parts) == [i \in DOMAIN parts |-> MapSeq(D, parts[i])]

\* Mapping and flattening commute.
LEMMA MapFlatten ==
    ASSUME NEW W, NEW S, NEW D \in [W -> S], NEW parts \in Seq(Seq(W))
    PROVE  MapSeq(D, FlattenSeq(parts)) = FlattenSeq(MapParts(D, parts))
<1> DEFINE A == Seq(W)
           T == {p \in Seq(A) : MapSeq(D, FlattenSeq(p)) = FlattenSeq(MapParts(D, p))}
           E == [s \in A |-> MapSeq(D, s)]
<1>1. << >> \in T
  <2>1. MapParts(D, << >>) = << >> /\ << >> \in Seq(A)
    BY DEF MapParts
  <2>2. MapSeq(D, << >>) = << >>
    BY DEF MapSeq
  <2> QED
    BY <2>1, <2>2, FlattenNothing
<1>2. E \in [A -> Seq(S)]
  BY MapType DEF Maps
<1>3. ASSUME NEW p \in Seq(A) PROVE MapParts(D, p) = MapSeq(E, p)
  <2>1. \A i \in DOMAIN p : p[i] \in A
    OBVIOUS
  <2> QED
    BY <2>1 DEF MapParts, MapSeq
<1>4. ASSUME NEW p \in Seq(A), NEW x \in A, p \in T PROVE Append(p, x) \in T
  <2>1. E[x] = MapSeq(D, x)
    OBVIOUS
  <2> HIDE DEF A, E
  <2>2. Append(p, x) \in Seq(A)
    OBVIOUS
  <2> DEFINE B == Seq(S)
  <2> HIDE DEF B
  <2>3. MapParts(D, Append(p, x)) = Append(MapParts(D, p), E[x])
    <3>1. MapParts(D, p) = MapSeq(E, p) /\ MapParts(D, Append(p, x)) = MapSeq(E, Append(p, x))
      BY <1>3, <2>2
    <3>2. E \in [A -> B]
      BY <1>2 DEF B
    <3>3. MapSeq(E, Append(p, x)) = Append(MapSeq(E, p), E[x])
      BY <3>2, MapAppend, Zenon
    <3> QED
      BY <3>1, <3>3
  <2>4. MapParts(D, p) \in Seq(Seq(S)) /\ E[x] \in Seq(S)
    <3>1. E \in [A -> B]
      BY <1>2 DEF B
    <3>2. Maps(MapSeq(E, p), E, B, p) /\ E[x] \in B
      BY <3>1, MapType
    <3> QED
      BY <1>3, <3>2 DEF B, Maps
  <2>5. FlattenSeq(Append(MapParts(D, p), E[x])) = FlattenSeq(MapParts(D, p)) \o E[x]
    BY <2>4, FlattenAppend, Zenon
  <2>6. FlattenSeq(Append(p, x)) = FlattenSeq(p) \o x /\ FlattenSeq(p) \in Seq(W) /\ x \in Seq(W)
    <3>1. p \in Seq(Seq(W)) /\ x \in Seq(W)
      BY DEF A
    <3> QED
      BY <3>1, FlattenAppend, Zenon
  <2>7. MapSeq(D, FlattenSeq(p) \o x) = MapSeq(D, FlattenSeq(p)) \o MapSeq(D, x)
    <3>1. Splits(D, FlattenSeq(p), x)
      BY <2>6, MapConcat
    <3> QED
      BY <3>1 DEF Splits
  <2>8. MapSeq(D, FlattenSeq(p)) = FlattenSeq(MapParts(D, p))
    BY <1>4
  <2> QED
    BY <2>1, <2>2, <2>3, <2>5, <2>6, <2>7, <2>8
<1>5. \A p \in Seq(A) : p \in T
  <2> HIDE DEF T, A
  <2> QED
    BY <1>1, <1>4, SeqInduction
<1> QED
  BY <1>5

\* Flattening twice, from either side.
LEMMA FlattenFlatten ==
    ASSUME NEW S, NEW parts \in Seq(Seq(Seq(S)))
    PROVE  FlattenSeq(FlattenSeq(parts)) = FlattenSeq([i \in DOMAIN parts |-> FlattenSeq(parts[i])])
<1> DEFINE A == Seq(Seq(S))
           E == [p \in A |-> FlattenSeq(p)]
           T == {t \in Seq(A) : FlattenSeq(FlattenSeq(t)) = FlattenSeq(MapSeq(E, t))}
<1>1. E \in [A -> Seq(S)]
  BY FlattenType
<1>2. << >> \in T
  <2>1. << >> \in Seq(A) /\ MapSeq(E, << >>) = << >>
    BY DEF MapSeq
  <2> QED
    BY <2>1, FlattenNothing
<1>3. ASSUME NEW t \in Seq(A), NEW x \in A, t \in T PROVE Append(t, x) \in T
  <2>1. E[x] = FlattenSeq(x)
    OBVIOUS
  <2>2. FlattenSeq(Append(t, x)) = FlattenSeq(t) \o x /\ FlattenSeq(t) \in A
    BY FlattenAppend, Zenon
  <2>3. FlattenSeq(FlattenSeq(t) \o x) = FlattenSeq(FlattenSeq(t)) \o FlattenSeq(x)
    BY <2>2, FlattenConcat, Zenon
  <2> HIDE DEF A, E
  <2>4. Append(t, x) \in Seq(A)
    OBVIOUS
  <2>5. MapSeq(E, Append(t, x)) = Append(MapSeq(E, t), E[x]) /\ MapSeq(E, t) \in Seq(Seq(S))
        /\ E[x] \in Seq(S)
    <3> DEFINE B == Seq(S)
    <3> HIDE DEF B
    <3>1. E \in [A -> B]
      BY <1>1 DEF B
    <3>2. MapSeq(E, Append(t, x)) = Append(MapSeq(E, t), E[x])
      BY <3>1, MapAppend, Zenon
    <3>3. Maps(MapSeq(E, t), E, B, t) /\ E[x] \in B
      BY <3>1, MapType
    <3> QED
      BY <3>2, <3>3 DEF B, Maps
  <2>6. FlattenSeq(Append(MapSeq(E, t), E[x])) = FlattenSeq(MapSeq(E, t)) \o E[x]
    BY <2>5, FlattenAppend, Zenon
  <2>7. FlattenSeq(FlattenSeq(t)) = FlattenSeq(MapSeq(E, t))
    BY <1>3
  <2> QED
    BY <2>1, <2>2, <2>3, <2>4, <2>5, <2>6, <2>7
<1>4. \A t \in Seq(A) : t \in T
  <2> HIDE DEF T, A
  <2> QED
    BY <1>2, <1>3, SeqInduction
<1>5. MapSeq(E, parts) = [i \in DOMAIN parts |-> FlattenSeq(parts[i])]
  <2>1. \A i \in DOMAIN parts : parts[i] \in A
    OBVIOUS
  <2> QED
    BY <2>1 DEF MapSeq
<1> QED
  BY <1>4, <1>5

\* What a flattened list holds.
LEMMA FlattenMembers ==
    ASSUME NEW S, NEW parts \in Seq(Seq(S)), NEW y
    PROVE  y \in ToSet(FlattenSeq(parts)) <=> \E i \in DOMAIN parts : y \in ToSet(parts[i])
<1> DEFINE A == Seq(S)
           In(t) == \E i \in DOMAIN t : y \in ToSet(t[i])
           T == {t \in Seq(A) : y \in ToSet(FlattenSeq(t)) <=> In(t)}
<1>1. << >> \in T
  BY FlattenNothing DEF ToSet
<1>2. ASSUME NEW a \in Seq(S), NEW b \in Seq(S)
      PROVE  y \in ToSet(a \o b) <=> y \in ToSet(a) \/ y \in ToSet(b)
  <2>1. /\ Len(a) \in Nat /\ Len(b) \in Nat /\ DOMAIN a = 1..Len(a) /\ DOMAIN b = 1..Len(b)
        /\ a \o b \in Seq(S) /\ DOMAIN (a \o b) = 1..Len(a \o b)
    OBVIOUS
  <2>2. /\ Len(a \o b) = Len(a) + Len(b) /\ \A k \in 1..Len(a) : (a \o b)[k] = a[k]
        /\ \A k \in 1..Len(b) : (a \o b)[Len(a) + k] = b[k]
    <3>1. Joins(a \o b, a, b)
      BY Concatenation, Zenon
    <3> QED
      BY <3>1 DEF Joins
  <2>3. ASSUME NEW k \in 1..(Len(a) + Len(b)), y = (a \o b)[k]
        PROVE  y \in ToSet(a) \/ y \in ToSet(b)
    <3>1. CASE k \in 1..Len(a)
      BY <2>1, <2>2, <2>3, <3>1 DEF ToSet
    <3>2. CASE k \notin 1..Len(a)
      <4>1. k - Len(a) \in 1..Len(b) /\ Len(a) + (k - Len(a)) = k
        BY <2>1, <3>2
      <4>2. y = b[k - Len(a)]
        BY <2>2, <2>3, <4>1
      <4> QED
        BY <2>1, <4>1, <4>2 DEF ToSet
    <3> QED
      BY <3>1, <3>2
  <2>4. ASSUME NEW k \in 1..Len(a), y = a[k] PROVE y \in ToSet(a \o b)
    <3>1. k \in 1..(Len(a) + Len(b)) /\ y = (a \o b)[k]
      BY <2>1, <2>2, <2>4
    <3> QED
      BY <2>1, <2>2, <3>1 DEF ToSet
  <2>5. ASSUME NEW k \in 1..Len(b), y = b[k] PROVE y \in ToSet(a \o b)
    <3>1. Len(a) + k \in 1..(Len(a) + Len(b)) /\ y = (a \o b)[Len(a) + k]
      BY <2>1, <2>2, <2>5
    <3> QED
      BY <2>1, <2>2, <3>1 DEF ToSet
  <2> QED
    BY <2>1, <2>2, <2>3, <2>4, <2>5 DEF ToSet
<1>3. ASSUME NEW t \in Seq(A), NEW x \in A, t \in T PROVE Append(t, x) \in T
  <2>1. /\ Append(t, x) \in Seq(A) /\ DOMAIN Append(t, x) = 1..(Len(t) + 1) /\ Len(t) \in Nat
        /\ DOMAIN t = 1..Len(t) /\ Append(t, x)[Len(t) + 1] = x
        /\ \A i \in 1..Len(t) : Append(t, x)[i] = t[i]
    OBVIOUS
  <2>2. In(Append(t, x)) <=> In(t) \/ y \in ToSet(x)
    <3> DEFINE u == Append(t, x)
    <3> HIDE DEF u
    <3>1. \A i \in 1..(Len(t) + 1) : i \in 1..Len(t) \/ i = Len(t) + 1
      BY <2>1
    <3>2. Len(t) + 1 \in 1..(Len(t) + 1) /\ \A i \in 1..Len(t) : i \in 1..(Len(t) + 1)
      BY <2>1
    <3>3. In(u) <=> In(t) \/ y \in ToSet(x)
      BY <2>1, <3>1, <3>2 DEF u
    <3> QED
      BY <3>3 DEF u
  <2>3. FlattenSeq(Append(t, x)) = FlattenSeq(t) \o x /\ FlattenSeq(t) \in Seq(S)
    BY FlattenAppend, Zenon
  <2>4. y \in ToSet(FlattenSeq(t) \o x) <=> y \in ToSet(FlattenSeq(t)) \/ y \in ToSet(x)
    BY <1>2, <2>3
  <2>5. y \in ToSet(FlattenSeq(t)) <=> In(t)
    BY <1>3
  <2> HIDE DEF In
  <2> QED
    BY <2>1, <2>2, <2>3, <2>4, <2>5
<1>4. \A t \in Seq(A) : t \in T
  <2> HIDE DEF T, A
  <2> QED
    BY <1>1, <1>3, SeqInduction
<1> QED
  BY <1>4

-----------------------------------------------------------------------------
(* The deposits of a block *)

\* RecipientOf finds the place of the recipient an output pays.
LEMMA Recipients ==
    ASSUME NEW out \in Output
    PROVE  /\ RecipientOf(out) = 0 <=> out.script \notin ToSet(recipient_atas)
           /\ RecipientOf(out) # 0 =>
                 /\ RecipientOf(out) \in 1..Len(recipient_atas)
                 /\ recipient_atas[RecipientOf(out)] = out.script
<1> DEFINE I == {i \in 1..Len(recipient_atas) : recipient_atas[i] = out.script}
<1>1. RecipientOf(out) = IF I # {} THEN Min(I) ELSE 0
  BY DEF RecipientOf, SelectInSeq
<1>2. Len(recipient_atas) \in Nat /\ DOMAIN recipient_atas = 1..Len(recipient_atas)
  BY TreesAssumption
<1>3. I = {} <=> out.script \notin ToSet(recipient_atas)
  BY <1>2 DEF ToSet
<1>4. ASSUME I # {} PROVE Min(I) \in I
  <2>1. I \subseteq Nat
    BY <1>2
  <2> HIDE DEF I
  <2>2. \E x \in I : \A y \in I : x <= y
    BY <1>4, <2>1, LeastNumber, Zenon
  <2> QED
    BY <2>2 DEF Min
<1>5. \A i \in I : i \in 1..Len(recipient_atas) /\ recipient_atas[i] = out.script /\ i # 0
  OBVIOUS
<1> HIDE DEF I
<1> QED
  BY <1>1, <1>3, <1>4, <1>5

\* The deposit that output j of the i-th transaction makes.
DepositAt(tx, i, j) ==
    [tx |-> tx.id, txo |-> combined_txo_index(i - 1, j - 1), out |-> j - 1,
     recipient |-> tx.outputs[j].script, amount |-> calcuate_fee(tx.outputs[j].value)]

\* ... and those of the whole transaction, as DepositsOf lists them.
TxDeposits(tx, i) ==
    FlattenSeq([j \in DOMAIN tx.outputs |->
        IF tx.outputs[j].script \notin ToSet(recipient_atas) THEN << >>
        ELSE <<DepositAt(tx, i, j)>>])

\* The same from one entry of the claim witness.
WitnessDeposits(w) ==
    [k \in DOMAIN w.deposit_outputs |->
        LET d == w.deposit_outputs[k]
        IN  [tx |-> w.transaction.id,
             txo |-> combined_txo_index(w.transaction_index, d.output_index),
             out |-> d.output_index,
             recipient |-> recipient_atas[d.public_key_index + 1],
             amount |-> calcuate_fee(w.transaction.outputs[d.output_index + 1].value)]]

\* A transaction's outputs and the deposits they make.
LEMMA OutputFacts ==
    ASSUME NEW tx \in Transaction, NEW i \in Nat, NEW j \in DOMAIN tx.outputs
    PROVE  /\ tx.outputs \in Seq(Output) /\ tx.outputs[j] \in Output /\ j \in Nat /\ j >= 1
           /\ DepositAt(tx, i, j) \in Deposit
<1>1. tx.id \in Int /\ tx.outputs \in Seq(Output)
  BY DEF Transaction
<1>2. j \in Nat /\ j >= 1 /\ tx.outputs[j] \in Output
  BY <1>1
<1>3. tx.outputs[j].script \in Int /\ tx.outputs[j].value \in Int
  BY <1>2 DEF Output
<1>4. Fee \in Nat /\ MaxOutputs \in Nat
  BY TreesAssumption
<1>5. /\ combined_txo_index(i - 1, j - 1) \in Int /\ j - 1 \in Int
      /\ calcuate_fee(tx.outputs[j].value) \in Int
  <2>1. i - 1 \in Int /\ j - 1 \in Int
    BY <1>2
  <2>2. MaxOutputs * (i - 1) \in Int
    BY <1>4, <2>1
  <2>3. MaxOutputs * (i - 1) + (j - 1) \in Int
    BY <2>1, <2>2
  <2>4. tx.outputs[j].value - Fee \in Int
    BY <1>3, <1>4
  <2> QED
    BY <2>1, <2>3, <2>4 DEF combined_txo_index, calcuate_fee
<1>6. DepositAt(tx, i, j) \in Deposit
  BY <1>1, <1>3, <1>5 DEF DepositAt, Deposit
<1> QED
  BY <1>1, <1>2, <1>6

\* deposit_outputs and evaluate_claim_witness: the entry of a transaction in
\* the witness stands for exactly its deposits, in order.
LEMMA TxDepositsAgree ==
    ASSUME NEW tx \in Transaction, NEW i \in Nat, NEW w,
           w.transaction = tx, w.transaction_index = i - 1,
           w.deposit_outputs = deposit_outputs(tx)
    PROVE  TxDeposits(tx, i) \in Seq(Deposit) /\ WitnessDeposits(w) = TxDeposits(tx, i)
<1> DEFINE J == DOMAIN tx.outputs
           r(j) == RecipientOf(tx.outputs[j])
           d(j) == [output_index |-> j - 1, public_key_index |-> r(j) - 1]
           W == {d(j) : j \in {k \in J : r(k) # 0}}
           parts == [j \in J |-> IF r(j) = 0 THEN << >> ELSE <<d(j)>>]
           E(e) == [tx |-> tx.id, txo |-> combined_txo_index(i - 1, e.output_index),
                    out |-> e.output_index,
                    recipient |-> recipient_atas[e.public_key_index + 1],
                    amount |-> calcuate_fee(tx.outputs[e.output_index + 1].value)]
           D == [e \in W |-> E(e)]
           refs == [j \in J |-> IF tx.outputs[j].script \notin ToSet(recipient_atas) THEN << >>
                                ELSE <<DepositAt(tx, i, j)>>]
<1>1. tx.outputs \in Seq(Output) /\ Len(tx.outputs) \in Nat /\ J = 1..Len(tx.outputs)
  BY DEF Transaction
<1>2. ASSUME NEW j \in J
      PROVE  /\ j \in Nat /\ tx.outputs[j] \in Output /\ DepositAt(tx, i, j) \in Deposit
             /\ r(j) = 0 <=> tx.outputs[j].script \notin ToSet(recipient_atas)
             /\ r(j) # 0 => r(j) \in Nat /\ recipient_atas[r(j)] = tx.outputs[j].script
  <2>1. j \in Nat /\ tx.outputs[j] \in Output /\ DepositAt(tx, i, j) \in Deposit
    BY OutputFacts
  <2>2. /\ r(j) = 0 <=> tx.outputs[j].script \notin ToSet(recipient_atas)
        /\ r(j) # 0 => r(j) \in 1..Len(recipient_atas) /\ recipient_atas[r(j)] = tx.outputs[j].script
    BY <2>1, Recipients
  <2>3. Len(recipient_atas) \in Nat
    BY TreesAssumption
  <2> HIDE DEF r
  <2> QED
    BY <2>1, <2>2, <2>3
<1>3. ASSUME NEW j \in J, r(j) # 0 PROVE E(d(j)) = DepositAt(tx, i, j)
  <2>1. d(j).output_index = j - 1 /\ d(j).public_key_index = r(j) - 1
    OBVIOUS
  <2> HIDE DEF d, r
  <2>2. /\ (j - 1) + 1 = j /\ (r(j) - 1) + 1 = r(j)
        /\ recipient_atas[r(j)] = tx.outputs[j].script
    BY <1>2, <1>3
  <2> QED
    BY <2>1, <2>2 DEF DepositAt
<1> HIDE DEF d, r, E
<1>4. D \in [W -> Deposit]
  <2>1. ASSUME NEW e \in W PROVE E(e) \in Deposit
    BY <1>2, <1>3
  <2> QED
    BY <2>1
<1>5. parts \in Seq(Seq(W))
  <2>1. ASSUME NEW j \in J PROVE (IF r(j) = 0 THEN << >> ELSE <<d(j)>>) \in Seq(W)
    <3>1. CASE r(j) = 0
      BY <3>1
    <3>2. CASE r(j) # 0
      <4>1. d(j) \in W
        BY <3>2
      <4> HIDE DEF W
      <4> QED
        BY <3>2, <4>1
    <3> QED
      BY <3>1, <3>2
  <2> HIDE DEF W
  <2> QED
    BY <1>1, <2>1
<1>6. deposit_outputs(tx) = FlattenSeq(parts)
  BY DEF deposit_outputs, d, r
<1>7. MapSeq(D, FlattenSeq(parts)) = FlattenSeq(MapParts(D, parts)) /\ FlattenSeq(parts) \in Seq(W)
  <2> HIDE DEF D, W, parts
  <2> QED
    BY <1>4, <1>5, MapFlatten, FlattenType
<1>8. MapParts(D, parts) = refs
  <2>1. ASSUME NEW j \in J
        PROVE  MapSeq(D, parts[j]) = IF tx.outputs[j].script \notin ToSet(recipient_atas) THEN << >>
                                     ELSE <<DepositAt(tx, i, j)>>
    <3>1. CASE r(j) = 0
      <4>1. parts[j] = << >> /\ tx.outputs[j].script \notin ToSet(recipient_atas)
        BY <1>2, <3>1
      <4> HIDE DEF parts, D
      <4> QED
        BY <4>1 DEF MapSeq
    <3>2. CASE r(j) # 0
      <4>1. parts[j] = <<d(j)>> /\ ~(tx.outputs[j].script \notin ToSet(recipient_atas)) /\ d(j) \in W
        BY <1>2, <3>2
      <4>2. D[d(j)] = DepositAt(tx, i, j)
        BY <1>3, <3>2, <4>1
      <4> HIDE DEF parts, D, W
      <4>3. MapSeq(D, <<d(j)>>) = <<D[d(j)]>>
        BY DEF MapSeq
      <4> QED
        BY <4>1, <4>2, <4>3
    <3> QED
      BY <3>1, <3>2
  <2>2. DOMAIN parts = J
    OBVIOUS
  <2> HIDE DEF parts, D
  <2> QED
    BY <2>1, <2>2 DEF MapParts
<1>9. refs \in Seq(Seq(Deposit))
  <2>1. ASSUME NEW j \in J
        PROVE  (IF tx.outputs[j].script \notin ToSet(recipient_atas) THEN << >>
                ELSE <<DepositAt(tx, i, j)>>) \in Seq(Deposit)
    <3>1. DepositAt(tx, i, j) \in Deposit
      BY <1>2
    <3> QED
      BY <3>1
  <2> QED
    BY <1>1, <2>1
<1>10. TxDeposits(tx, i) = FlattenSeq(refs)
  BY DEF TxDeposits
<1>11. TxDeposits(tx, i) \in Seq(Deposit)
  <2> HIDE DEF refs
  <2> QED
    BY <1>9, <1>10, FlattenType, Zenon
<1>12. WitnessDeposits(w) = MapSeq(D, deposit_outputs(tx))
  <2> DEFINE outs == deposit_outputs(tx)
  <2>1. outs \in Seq(W)
    BY <1>6, <1>7
  <2>2. ASSUME NEW k \in DOMAIN outs PROVE D[outs[k]] = E(outs[k])
    <3>1. outs[k] \in W
      <4> HIDE DEF outs, W
      <4> QED
        BY <2>1
    <3> HIDE DEF outs, W
    <3> QED
      BY <3>1
  <2>3. MapSeq(D, outs) = [k \in DOMAIN outs |-> E(outs[k])]
    <3> HIDE DEF outs, D
    <3> QED
      BY <2>2 DEF MapSeq
  <2>4. WitnessDeposits(w) = [k \in DOMAIN outs |-> E(outs[k])]
    <3> HIDE DEF outs
    <3>1. w.deposit_outputs = outs
      BY DEF outs
    <3> QED
      BY <3>1 DEF WitnessDeposits, E
  <2> QED
    BY <2>3, <2>4
<1> QED
  BY <1>6, <1>7, <1>8, <1>10, <1>11, <1>12

\* The entry of the i-th transaction in a block's claim witness.
WitnessAt(block, i) ==
    LET txs == block.transactions
    IN  [transaction_index |-> i - 1,
         siblings |-> bitcoin_merkle_siblings([k \in DOMAIN txs |-> <<txs[k].id>>], i - 1),
         deposit_outputs |-> deposit_outputs(txs[i]),
         transaction |-> txs[i]]

\* The part of the witness that a transaction contributes.
WitnessPart(block, i) ==
    IF deposit_outputs(block.transactions[i]) = << >> THEN << >> ELSE <<WitnessAt(block, i)>>

\* scan_manager_custody_deposits by its parts.
LEMMA Scanned ==
    ASSUME NEW block
    PROVE  scan_manager_custody_deposits(block)
               = FlattenSeq([i \in DOMAIN block.transactions |-> WitnessPart(block, i)])
BY DEF scan_manager_custody_deposits, WitnessPart, WitnessAt

\* DepositsOf by its parts.
LEMMA DepositParts ==
    ASSUME NEW block
    PROVE  DepositsOf(block)
               = FlattenSeq([i \in DOMAIN block.transactions |-> TxDeposits(block.transactions[i], i)])
BY DEF DepositsOf, TxDeposits, DepositAt

\* A transaction's place and its entry.
LEMMA WitnessFacts ==
    ASSUME NEW block, block.transactions \in Seq(Transaction), NEW i \in DOMAIN block.transactions
    PROVE  /\ i \in Nat /\ block.transactions[i] \in Transaction
           /\ TxDeposits(block.transactions[i], i) \in Seq(Deposit)
           /\ WitnessDeposits(WitnessAt(block, i)) = TxDeposits(block.transactions[i], i)
<1> DEFINE w == WitnessAt(block, i)
<1>1. i \in Nat /\ block.transactions[i] \in Transaction
  OBVIOUS
<1>2. /\ w.transaction = block.transactions[i] /\ w.transaction_index = i - 1
      /\ w.deposit_outputs = deposit_outputs(block.transactions[i])
  BY DEF WitnessAt
<1> HIDE DEF w
<1>3. /\ TxDeposits(block.transactions[i], i) \in Seq(Deposit)
      /\ WitnessDeposits(w) = TxDeposits(block.transactions[i], i)
  BY <1>1, <1>2, TxDepositsAgree
<1> QED
  BY <1>1, <1>3 DEF w

\* The witness of a block as a sequence of entries.
LEMMA ScanType ==
    ASSUME NEW block, block.transactions \in Seq(Transaction)
    PROVE  LET W == {WitnessAt(block, i) : i \in DOMAIN block.transactions}
               parts == [i \in DOMAIN block.transactions |-> WitnessPart(block, i)]
           IN  parts \in Seq(Seq(W)) /\ scan_manager_custody_deposits(block) \in Seq(W)
<1> DEFINE I == DOMAIN block.transactions
           W == {WitnessAt(block, i) : i \in I}
           parts == [i \in I |-> WitnessPart(block, i)]
<1>1. Len(block.transactions) \in Nat /\ I = 1..Len(block.transactions)
  OBVIOUS
<1>2. ASSUME NEW i \in I PROVE WitnessPart(block, i) \in Seq(W)
  <2>1. WitnessAt(block, i) \in W
    OBVIOUS
  <2> HIDE DEF W
  <2> QED
    BY <2>1 DEF WitnessPart
<1> HIDE DEF W
<1>3. parts \in Seq(Seq(W))
  BY <1>1, <1>2
<1>4. scan_manager_custody_deposits(block) = FlattenSeq(parts)
  BY Scanned
<1> HIDE DEF parts
<1>5. FlattenSeq(parts) \in Seq(W)
  BY <1>3, FlattenType, Zenon
<1> QED
  BY <1>3, <1>4, <1>5 DEF W, parts

\* scan_manager_custody_deposits and evaluate_claim_witness: the witness of a
\* block stands for exactly the deposits of the block, in order.
LEMMA BlockDeposits ==
    ASSUME NEW block, block.transactions \in Seq(Transaction), NEW witness,
           witness.deposit_transactions = scan_manager_custody_deposits(block)
    PROVE  Deposits(witness) = DepositsOf(block) /\ DepositsOf(block) \in Seq(Deposit)
<1> DEFINE I == DOMAIN block.transactions
           W == {WitnessAt(block, i) : i \in I}
           parts == [i \in I |-> WitnessPart(block, i)]
           D == [w \in W |-> WitnessDeposits(w)]
           refs == [i \in I |-> TxDeposits(block.transactions[i], i)]
<1>1. Len(block.transactions) \in Nat /\ I = 1..Len(block.transactions)
  OBVIOUS
<1>2. parts \in Seq(Seq(W)) /\ scan_manager_custody_deposits(block) \in Seq(W)
  BY ScanType
<1>3. scan_manager_custody_deposits(block) = FlattenSeq(parts)
  BY Scanned
<1>4. D \in [W -> Seq(Deposit)]
  <2>1. ASSUME NEW w \in W PROVE WitnessDeposits(w) \in Seq(Deposit)
    BY WitnessFacts
  <2> HIDE DEF W
  <2> QED
    BY <2>1
<1>5. Deposits(witness) = FlattenSeq(MapSeq(D, scan_manager_custody_deposits(block)))
  <2> DEFINE scan == scan_manager_custody_deposits(block)
  <2>1. Deposits(witness) = FlattenSeq([k \in DOMAIN scan |-> WitnessDeposits(scan[k])])
    <3> HIDE DEF scan
    <3>1. witness.deposit_transactions = scan
      BY DEF scan
    <3> QED
      BY <3>1 DEF Deposits, WitnessDeposits
  <2>2. ASSUME NEW k \in DOMAIN scan PROVE D[scan[k]] = WitnessDeposits(scan[k])
    <3> HIDE DEF W, scan
    <3>1. scan[k] \in W
      BY <1>2 DEF scan
    <3> QED
      BY <3>1
  <2>3. MapSeq(D, scan) = [k \in DOMAIN scan |-> WitnessDeposits(scan[k])]
    <3> HIDE DEF D, scan
    <3> QED
      BY <2>2 DEF MapSeq
  <2> QED
    BY <2>1, <2>3
<1>6. MapSeq(D, FlattenSeq(parts)) = FlattenSeq(MapParts(D, parts))
  <2> DEFINE S == Seq(Deposit)
  <2> HIDE DEF S, D, W, parts
  <2>1. D \in [W -> S]
    BY <1>4 DEF S
  <2> QED
    BY <1>2, <2>1, MapFlatten, Zenon
<1>7. ASSUME NEW i \in I PROVE MapParts(D, parts)[i] \in Seq(Seq(Deposit))
                               /\ FlattenSeq(MapParts(D, parts)[i]) = refs[i]
  <2>1. MapParts(D, parts)[i] = MapSeq(D, WitnessPart(block, i))
    BY DEF MapParts
  <2>2. refs[i] \in Seq(Deposit) /\ WitnessDeposits(WitnessAt(block, i)) = refs[i]
    BY WitnessFacts
  <2>3. D[WitnessAt(block, i)] = WitnessDeposits(WitnessAt(block, i))
    OBVIOUS
  <2> HIDE DEF D, refs
  <2>4. CASE deposit_outputs(block.transactions[i]) = << >>
    <3>1. WitnessPart(block, i) = << >> /\ MapSeq(D, << >>) = << >>
      BY <2>4 DEF WitnessPart, MapSeq
    <3>2. refs[i] = << >>
      <4> DEFINE w == WitnessAt(block, i)
      <4>1. w.deposit_outputs = << >>
        BY <2>4 DEF WitnessAt
      <4> HIDE DEF w
      <4>2. WitnessDeposits(w) = << >>
        BY <4>1 DEF WitnessDeposits
      <4> QED
        BY <2>2, <4>2 DEF w
    <3>3. << >> \in Seq(Seq(Deposit))
      OBVIOUS
    <3> QED
      BY <2>1, <3>1, <3>2, <3>3, FlattenNothing
  <2>5. CASE deposit_outputs(block.transactions[i]) # << >>
    <3>1. WitnessPart(block, i) = <<WitnessAt(block, i)>>
      BY <2>5 DEF WitnessPart
    <3> DEFINE w == WitnessAt(block, i)
    <3> HIDE DEF w
    <3>2. MapSeq(D, <<w>>) = <<D[w]>>
      BY DEF MapSeq
    <3>3. D[w] = refs[i]
      BY <2>2, <2>3 DEF w
    <3>4. FlattenSeq(<<refs[i]>>) = refs[i] /\ <<refs[i]>> \in Seq(Seq(Deposit))
      BY <2>2, FlattenOne
    <3> QED
      BY <2>1, <3>1, <3>2, <3>3, <3>4 DEF w
  <2> QED
    BY <2>4, <2>5
<1>8. DOMAIN MapParts(D, parts) = I
  BY DEF MapParts
<1>9. FlattenSeq(FlattenSeq(MapParts(D, parts))) = FlattenSeq(refs)
  <2> DEFINE m == MapParts(D, parts)
  <2>1. DOMAIN m = I /\ m = [i \in I |-> m[i]]
    BY <1>8 DEF MapParts
  <2> HIDE DEF m
  <2>2. \A i \in I : m[i] \in Seq(Seq(Deposit)) /\ FlattenSeq(m[i]) = refs[i]
    BY <1>7 DEF m
  <2>3. m \in Seq(Seq(Seq(Deposit)))
    <3> DEFINE B == Seq(Seq(Deposit))
               n == Len(block.transactions)
    <3> HIDE DEF B, n
    <3>1. n \in Nat /\ I = 1..n /\ \A i \in I : m[i] \in B
      BY <1>1, <2>2 DEF B, n
    <3> HIDE DEF I
    <3>2. m = [i \in 1..n |-> m[i]] /\ \A i \in 1..n : m[i] \in B
      BY <2>1, <3>1
    <3>3. m \in Seq(B)
      BY <3>1, <3>2
    <3> QED
      BY <3>3 DEF B
  <2>4. FlattenSeq(FlattenSeq(m)) = FlattenSeq([i \in DOMAIN m |-> FlattenSeq(m[i])])
    BY <2>3, FlattenFlatten, Zenon
  <2>5. [i \in DOMAIN m |-> FlattenSeq(m[i])] = refs
    BY <2>1, <2>2
  <2> QED
    BY <2>4, <2>5 DEF m
<1>10. DepositsOf(block) = FlattenSeq(refs)
  BY DepositParts
<1>11. refs \in Seq(Seq(Deposit))
  BY <1>1, WitnessFacts
<1>12. FlattenSeq(refs) \in Seq(Deposit)
  <2> HIDE DEF refs
  <2> QED
    BY <1>11, FlattenType, Zenon
<1> QED
  BY <1>3, <1>5, <1>6, <1>9, <1>10, <1>12

-----------------------------------------------------------------------------
(* Frontiers *)

\* Index 0 stays 0.
LEMMA ShrZero == \A n \in Nat : Shr(0, n) = 0
<1> DEFINE T == {n \in Nat : Shr(0, n) = 0}
<1>1. 0 \in T
  BY Shifts
<1>2. ASSUME NEW n \in Nat, n \in T PROVE n + 1 \in T
  <2>1. Shr(0, n + 1) = Shr(0, n) \div 2 /\ n + 1 \in Nat
    BY Shifts
  <2>2. 0 \div 2 = 0
    OBVIOUS
  <2> QED
    BY <1>2, <2>1, <2>2
<1>3. \A n \in Nat : n \in T
  <2> HIDE DEF T
  <2> QED
    BY <1>1, <1>2, Induction
<1> QED
  BY <1>3

\* The last index is an index, below the number of leaves if there are any.
LEMMA LastIndexes ==
    ASSUME NEW leaves \in Seq(Hash)
    PROVE  /\ LastIndex(leaves) \in Nat
           /\ leaves # << >> => /\ LastIndex(leaves) = Len(leaves) - 1
                                /\ LastIndex(leaves) + 1 = Len(leaves)
                                /\ Len(leaves) \in Nat /\ Len(leaves) >= 1
BY DEF LastIndex

\* frontier_root: the frontier of a tree leads to the tree's root, if the tree
\* has a place for its last leaf.
LEMMA FrontierRoots ==
    ASSUME NEW leaves \in Seq(Hash), NEW H \in Nat, NEW lh \in Nat,
           Shr(LastIndex(leaves), H) = 0
    PROVE  /\ FrontierFits(FrontierOf(leaves, H, lh), H)
           /\ frontier_root(FrontierOf(leaves, H, lh)) = TreeRoot(leaves, H, lh)
<1> DEFINE j == LastIndex(leaves)
           f == FrontierOf(leaves, H, lh)
<1>1. f.index = j /\ f.value = TreeNode(leaves, lh, 0, j) /\ f.siblings = TreePath(leaves, lh, j, H)
  BY DEF FrontierOf, Frontier
<1> HIDE DEF f
<1>2. j \in Nat
  BY LastIndexes
<1>3. Shr(j, H) = 0
  OBVIOUS
<1> HIDE DEF j
<1>4. Len(TreePath(leaves, lh, j, H)) = H
  BY <1>2, TreePathType
<1>5. PathRoot(TreeNode(leaves, lh, 0, j), j, TreePath(leaves, lh, j, H)) = TreeRoot(leaves, H, lh)
  BY <1>2, <1>3, PathGivesRoot
<1>6. FrontierFits(f, H) /\ frontier_root(f) = TreeRoot(leaves, H, lh)
  BY <1>1, <1>3, <1>4, <1>5 DEF FrontierFits, frontier_root
<1> QED
  BY <1>6 DEF f

\* The frontier computed from a history is the one of the full tree.
LEMMA HistoryFrontiers ==
    ASSUME NEW leaves \in Seq(Hash), leaves # << >>, NEW H \in Nat, NEW lh \in Nat
    PROVE  HistoryFrontier(leaves, H, lh) = FrontierOf(leaves, H, lh)
<1>1. LastIndex(leaves) = Len(leaves) - 1 /\ Len(leaves) - 1 \in Nat
  BY LastIndexes
<1>2. Last(leaves) = TreeNode(leaves, lh, 0, Len(leaves) - 1)
  <2>1. TreeNode(leaves, lh, 0, Len(leaves) - 1) = LeafAt(leaves, lh, Len(leaves) - 1)
    BY <1>1, TreeNodes
  <2>2. Last(leaves) = leaves[Len(leaves)]
    BY NonEmpty
  <2>3. LeafAt(leaves, lh, Len(leaves) - 1) = leaves[Len(leaves)]
    BY <1>1 DEF LeafAt
  <2> QED
    BY <2>1, <2>2, <2>3
<1>3. sparse_sha256_merkle_siblings(leaves, Len(leaves) - 1, H, lh)
          = TreePath(leaves, lh, Len(leaves) - 1, H)
  BY <1>1, SparseIsTreePath
<1> QED
  BY <1>1, <1>2, <1>3 DEF HistoryFrontier, FrontierOf

\* The frontier computed from the last frontier alone is the one of the full
\* tree with the new leaf.
LEMMA NextFrontiers ==
    ASSUME NEW leaves \in Seq(Hash), leaves # << >>, NEW v \in Hash, NEW H \in Nat, NEW lh \in Nat
    PROVE  Frontier(Len(leaves), v,
                    sequential_next_leaf_siblings(FrontierOf(leaves, H, lh), H, lh))
               = FrontierOf(Append(leaves, v), H, lh)
<1> DEFINE more == Append(leaves, v)
<1>1. /\ more \in Seq(Hash) /\ more # << >> /\ Len(leaves) \in Nat /\ Len(more) = Len(leaves) + 1
      /\ more[Len(leaves) + 1] = v
  OBVIOUS
<1>2. sequential_next_leaf_siblings(FrontierOf(leaves, H, lh), H, lh)
          = TreePath(leaves, lh, Len(leaves), H)
  BY SequentialIsTreePath
<1>3. TreePath(more, lh, Len(leaves), H) = TreePath(leaves, lh, Len(leaves), H)
  BY AppendKeepsPath
<1> HIDE DEF more
<1>4. LastIndex(more) = Len(leaves)
  BY <1>1 DEF LastIndex
<1>5. TreeNode(more, lh, 0, Len(leaves)) = v
  <2>1. TreeNode(more, lh, 0, Len(leaves)) = LeafAt(more, lh, Len(leaves))
    BY <1>1, TreeNodes
  <2>2. LeafAt(more, lh, Len(leaves)) = v
    BY <1>1 DEF LeafAt
  <2> QED
    BY <2>1, <2>2
<1>6. FrontierOf(more, H, lh) = Frontier(Len(leaves), v, TreePath(leaves, lh, Len(leaves), H))
  BY <1>3, <1>4, <1>5 DEF FrontierOf
<1> QED
  BY <1>2, <1>6 DEF more

\* A tree of empty leaves has the hashes of empty subtrees in every place.
LEMMA ZeroTree ==
    ASSUME NEW leaves \in Seq(Hash), NEW lh \in Nat,
           \A i \in 1..Len(leaves) : leaves[i] = ZeroHash(lh)
    PROVE  \A h \in Nat : \A i \in Nat : TreeNode(leaves, lh, h, i) = ZeroHash(lh + h)
<1> DEFINE T == {h \in Nat : \A i \in Nat : TreeNode(leaves, lh, h, i) = ZeroHash(lh + h)}
<1>1. 0 \in T
  <2>1. ASSUME NEW i \in Nat PROVE TreeNode(leaves, lh, 0, i) = ZeroHash(lh + 0)
    <3>1. TreeNode(leaves, lh, 0, i) = LeafAt(leaves, lh, i)
      BY TreeNodes
    <3>2. LeafAt(leaves, lh, i) = ZeroHash(lh)
      BY DEF LeafAt
    <3>3. lh + 0 = lh
      OBVIOUS
    <3> QED
      BY <3>1, <3>2, <3>3
  <2> QED
    BY <2>1
<1>2. ASSUME NEW h \in Nat, h \in T PROVE h + 1 \in T
  <2>1. ASSUME NEW i \in Nat PROVE TreeNode(leaves, lh, h + 1, i) = ZeroHash(lh + (h + 1))
    <3>1. TreeNode(leaves, lh, h + 1, i)
              = Node(TreeNode(leaves, lh, h, 2*i), TreeNode(leaves, lh, h, 2*i + 1))
      BY TreeNodes
    <3>2. 2*i \in Nat /\ 2*i + 1 \in Nat /\ lh + h \in Nat /\ (lh + h) + 1 = lh + (h + 1)
      OBVIOUS
    <3>3. /\ TreeNode(leaves, lh, h, 2*i) = ZeroHash(lh + h)
          /\ TreeNode(leaves, lh, h, 2*i + 1) = ZeroHash(lh + h)
      BY <1>2, <3>2
    <3>4. ZeroHash((lh + h) + 1) = Node(ZeroHash(lh + h), ZeroHash(lh + h))
      BY <3>2, ZeroHashes
    <3> QED
      BY <3>1, <3>2, <3>3, <3>4
  <2> QED
    BY <2>1
<1>3. \A h \in Nat : h \in T
  <2> HIDE DEF T
  <2> QED
    BY <1>1, <1>2, Induction
<1> QED
  BY <1>3

\* initialize_checkpoint: the frontiers written there are those of the empty
\* trees, whatever number of empty leaves they have.
LEMMA ZeroFrontiers ==
    ASSUME NEW leaves \in Seq(Hash), NEW lh \in Nat, NEW H \in Nat,
           \A i \in 1..Len(leaves) : leaves[i] = ZeroHash(lh)
    PROVE  FrontierOf(leaves, H, lh)
               = Frontier(LastIndex(leaves), ZeroHash(lh), [l \in 1..H |-> ZeroHash(lh + l - 1)])
<1> DEFINE j == LastIndex(leaves)
<1>1. j \in Nat
  BY LastIndexes
<1> HIDE DEF j
<1>2. TreeNode(leaves, lh, 0, j) = ZeroHash(lh)
  <2>1. TreeNode(leaves, lh, 0, j) = ZeroHash(lh + 0) /\ lh + 0 = lh
    BY <1>1, ZeroTree
  <2> QED
    BY <2>1
<1>3. ASSUME NEW l \in 1..H
      PROVE  TreeNode(leaves, lh, l - 1, Sibling(Shr(j, l - 1))) = ZeroHash(lh + l - 1)
  <2>1. l - 1 \in Nat /\ lh + (l - 1) = lh + l - 1
    OBVIOUS
  <2>2. Sibling(Shr(j, l - 1)) \in Nat
    BY <1>1, <2>1, Shifts, Siblings
  <2>3. TreeNode(leaves, lh, l - 1, Sibling(Shr(j, l - 1))) = ZeroHash(lh + (l - 1))
    BY <2>1, <2>2, ZeroTree
  <2> QED
    BY <2>1, <2>3
<1>4. TreePath(leaves, lh, j, H) = [l \in 1..H |-> ZeroHash(lh + l - 1)]
  BY <1>3 DEF TreePath
<1> QED
  BY <1>2, <1>4 DEF FrontierOf, j

\* TxoSiblings: the path of the next leaf, before the leaf is there.
LEMMA NextPaths ==
    ASSUME NEW leaves \in Seq(Hash), leaves # << >>, NEW H \in Nat, NEW lh \in Nat
    PROVE  /\ sequential_next_leaf_siblings(FrontierOf(leaves, H, lh), H, lh)
                  = TreePath(leaves, lh, Len(leaves), H)
           /\ sparse_sha256_merkle_siblings(Append(leaves, ZeroHash(lh)), Len(leaves), H, lh)
                  = TreePath(leaves, lh, Len(leaves), H)
           /\ TreeNode(leaves, lh, 0, Len(leaves)) = ZeroHash(lh)
<1> DEFINE more == Append(leaves, ZeroHash(lh))
<1>1. ZeroHash(lh) \in Hash /\ Len(leaves) \in Nat
  BY ZeroHashes
<1>2. more \in Seq(Hash) /\ more # << >>
  BY <1>1
<1>3. TreePath(more, lh, Len(leaves), H) = TreePath(leaves, lh, Len(leaves), H)
  BY <1>1, AppendKeepsPath
<1> HIDE DEF more
<1>4. sparse_sha256_merkle_siblings(more, Len(leaves), H, lh) = TreePath(more, lh, Len(leaves), H)
  BY <1>1, <1>2, SparseIsTreePath
<1>5. TreeNode(leaves, lh, 0, Len(leaves)) = LeafAt(leaves, lh, Len(leaves))
  BY <1>1, TreeNodes
<1>6. LeafAt(leaves, lh, Len(leaves)) = ZeroHash(lh)
  BY <1>1 DEF LeafAt
<1>7. sequential_next_leaf_siblings(FrontierOf(leaves, H, lh), H, lh)
          = TreePath(leaves, lh, Len(leaves), H)
  BY SequentialIsTreePath
<1> QED
  BY <1>3, <1>4, <1>5, <1>6, <1>7 DEF more

-----------------------------------------------------------------------------
(* What a claim witness proves *)

\* GuestVerifies: every transaction in the witness of a block is where its
\* header says.
LEMMA ScannedPaths ==
    ASSUME NEW block, block.transactions \in Seq(Transaction), MatchesHeader(block),
           NEW w \in ToSet(scan_manager_custody_deposits(block))
    PROVE  PathRoot(<<w.transaction.id>>, w.transaction_index, w.siblings) = block.merkle_root
<1> DEFINE txs == block.transactions
           hashes == [k \in DOMAIN txs |-> <<txs[k].id>>]
           W == {WitnessAt(block, i) : i \in DOMAIN txs}
<1>1. w \in W
  <2>1. scan_manager_custody_deposits(block) \in Seq(W)
    BY ScanType
  <2> HIDE DEF W
  <2> QED
    BY <2>1 DEF ToSet
<1>2. PICK i \in DOMAIN txs : w = WitnessAt(block, i)
  BY <1>1
<1>3. /\ w.transaction = txs[i] /\ w.transaction_index = i - 1
      /\ w.siblings = bitcoin_merkle_siblings(hashes, i - 1)
  BY <1>2 DEF WitnessAt
<1>4. txs # << >> /\ bitcoin_merkle_root(hashes) = block.merkle_root
  BY DEF MatchesHeader
<1>5. i - 1 \in Nat /\ (i - 1) + 1 = i /\ i - 1 < Len(txs)
  OBVIOUS
<1>6. hashes[i] = <<txs[i].id>>
  OBVIOUS
<1>7. hashes \in Seq(Hash) /\ Len(hashes) = Len(txs)
  <2>1. /\ hashes \in Seq(Hash \ {<< >>}) /\ Len(hashes) = Len(txs)
    BY <1>4, Hashes
  <2> HIDE DEF hashes
  <2> QED
    BY <2>1
<1> HIDE DEF hashes, txs, W
<1>8. PathRoot(hashes[(i - 1) + 1], i - 1, bitcoin_merkle_siblings(hashes, i - 1))
          = bitcoin_merkle_root(hashes)
  BY <1>5, <1>7, BitcoinPathGivesRoot
<1> QED
  BY <1>3, <1>4, <1>5, <1>6, <1>8

\* d is the deposit of an output of the block.
IsDepositOf(d, block) ==
    \E i \in DOMAIN block.transactions : \E j \in DOMAIN block.transactions[i].outputs :
        /\ block.transactions[i].outputs[j].script \in ToSet(recipient_atas)
        /\ d = DepositAt(block.transactions[i], i, j)

\* The members of DepositsOf.
LEMMA DepositMembers ==
    ASSUME NEW block, block.transactions \in Seq(Transaction), NEW d
    PROVE  d \in ToSet(DepositsOf(block)) <=> IsDepositOf(d, block)
<1> DEFINE I == DOMAIN block.transactions
           tx(i) == block.transactions[i]
           refs == [i \in I |-> TxDeposits(tx(i), i)]
           Of(i) == \E j \in DOMAIN tx(i).outputs :
                        /\ tx(i).outputs[j].script \in ToSet(recipient_atas)
                        /\ d = DepositAt(tx(i), i, j)
<1>1. Len(block.transactions) \in Nat /\ I = 1..Len(block.transactions)
  OBVIOUS
<1>2. refs \in Seq(Seq(Deposit))
  BY <1>1, WitnessFacts
<1>3. DepositsOf(block) = FlattenSeq(refs)
  BY DepositParts
<1>4. d \in ToSet(FlattenSeq(refs)) <=> \E i \in DOMAIN refs : d \in ToSet(refs[i])
  <2> HIDE DEF refs
  <2> QED
    BY <1>2, FlattenMembers, Zenon
<1>5. ASSUME NEW i \in I PROVE d \in ToSet(refs[i]) <=> Of(i)
  <2> DEFINE J == DOMAIN tx(i).outputs
             part(j) == IF tx(i).outputs[j].script \notin ToSet(recipient_atas) THEN << >>
                        ELSE <<DepositAt(tx(i), i, j)>>
             parts == [j \in J |-> part(j)]
  <2>1. tx(i) \in Transaction /\ i \in Nat
    BY WitnessFacts
  <2>2. tx(i).outputs \in Seq(Output)
    BY <2>1 DEF Transaction
  <2>3. ASSUME NEW j \in J PROVE DepositAt(tx(i), i, j) \in Deposit
    BY <2>1, OutputFacts
  <2>4. refs[i] = FlattenSeq(parts)
    BY DEF TxDeposits
  <2>5. parts \in Seq(Seq(Deposit))
    <3>1. ASSUME NEW j \in J PROVE part(j) \in Seq(Deposit)
      BY <2>3
    <3>2. Len(tx(i).outputs) \in Nat /\ J = 1..Len(tx(i).outputs)
      BY <2>2
    <3> HIDE DEF part
    <3> QED
      BY <3>1, <3>2
  <2>6. d \in ToSet(FlattenSeq(parts)) <=> \E j \in DOMAIN parts : d \in ToSet(parts[j])
    <3> HIDE DEF parts
    <3> QED
      BY <2>5, FlattenMembers, Zenon
  <2>7. ASSUME NEW j \in J
        PROVE  d \in ToSet(part(j))
                   <=> /\ tx(i).outputs[j].script \in ToSet(recipient_atas)
                       /\ d = DepositAt(tx(i), i, j)
    <3>1. CASE tx(i).outputs[j].script \notin ToSet(recipient_atas)
      <4>1. part(j) = << >>
        BY <3>1
      <4> HIDE DEF part
      <4>2. ToSet(part(j)) = {}
        BY <4>1 DEF ToSet
      <4> QED
        BY <3>1, <4>2
    <3>2. CASE tx(i).outputs[j].script \in ToSet(recipient_atas)
      <4> DEFINE e == DepositAt(tx(i), i, j)
      <4>1. part(j) = <<e>>
        BY <3>2
      <4> HIDE DEF part, e
      <4>2. ToSet(part(j)) = {e}
        BY <4>1 DEF ToSet
      <4> QED
        BY <3>2, <4>2 DEF e
    <3> QED
      BY <3>1, <3>2
  <2>8. (\E j \in DOMAIN parts : d \in ToSet(parts[j])) <=> \E j \in J : d \in ToSet(part(j))
    <3> HIDE DEF part
    <3> QED
      OBVIOUS
  <2> HIDE DEF part, parts, refs
  <2> QED
    BY <2>4, <2>6, <2>7, <2>8
<1>6. (\E i \in DOMAIN refs : d \in ToSet(refs[i])) <=> \E i \in I : Of(i)
  <2>1. DOMAIN refs = I
    OBVIOUS
  <2> HIDE DEF refs, Of
  <2> QED
    BY <1>5, <2>1
<1> QED
  BY <1>3, <1>4, <1>6 DEF IsDepositOf

\* The output that a piece of evidence names is an output of the block that
\* pays the recipient it names.
NamesOutput(ev, block) ==
    /\ ev.ata \in ToSet(recipient_atas)
    /\ \E tx \in ToSet(block.transactions) :
           /\ tx.id = ev.txid
           /\ ev.vout < Len(tx.outputs)
           /\ tx.outputs[ev.vout + 1].script = ev.ata

\* validate_live_deposit_script: an output of that kind is a deposit of the
\* block, and only a deposit is.
LEMMA EvidenceNames ==
    ASSUME NEW block, block.transactions \in Seq(Transaction), NEW ev, ev.vout \in Nat
    PROVE  NamesOutput(ev, block) <=> \E d \in ToSet(DepositsOf(block)) : Names(ev, d)
<1> DEFINE I == DOMAIN block.transactions
           tx(i) == block.transactions[i]
<1>1. ASSUME NEW i \in I
      PROVE  tx(i) \in Transaction /\ tx(i).outputs \in Seq(Output) /\ tx(i) \in ToSet(block.transactions)
  <2>1. tx(i) \in Transaction
    BY WitnessFacts
  <2>2. tx(i) \in ToSet(block.transactions)
    BY DEF ToSet
  <2> QED
    BY <2>1, <2>2 DEF Transaction
<1>2. ASSUME NEW i, NEW j
      PROVE  /\ DepositAt(tx(i), i, j).tx = tx(i).id /\ DepositAt(tx(i), i, j).out = j - 1
             /\ DepositAt(tx(i), i, j).recipient = tx(i).outputs[j].script
  BY DEF DepositAt
<1>3. ASSUME NamesOutput(ev, block) PROVE \E d \in ToSet(DepositsOf(block)) : Names(ev, d)
  <2>1. PICK i \in I : /\ tx(i).id = ev.txid /\ ev.vout < Len(tx(i).outputs)
                       /\ tx(i).outputs[ev.vout + 1].script = ev.ata
    BY <1>3 DEF NamesOutput, ToSet
  <2> DEFINE j == ev.vout + 1
             d == DepositAt(tx(i), i, j)
  <2>2. j \in DOMAIN tx(i).outputs /\ j - 1 = ev.vout
    BY <1>1, <2>1
  <2>3. tx(i).outputs[j].script \in ToSet(recipient_atas)
    BY <1>3, <2>1 DEF NamesOutput
  <2>4. d.tx = ev.txid /\ d.out = ev.vout /\ d.recipient = ev.ata
    BY <1>2, <2>1, <2>2
  <2> HIDE DEF d
  <2>5. IsDepositOf(d, block)
    BY <2>2, <2>3 DEF IsDepositOf, d
  <2>6. d \in ToSet(DepositsOf(block))
    BY <2>5, DepositMembers
  <2> QED
    BY <2>4, <2>6 DEF Names
<1>4. ASSUME NEW d \in ToSet(DepositsOf(block)), Names(ev, d) PROVE NamesOutput(ev, block)
  <2>1. IsDepositOf(d, block)
    BY DepositMembers
  <2>0. PICK i \in I : \E j \in DOMAIN tx(i).outputs :
            /\ tx(i).outputs[j].script \in ToSet(recipient_atas)
            /\ d = DepositAt(tx(i), i, j)
    BY <2>1 DEF IsDepositOf
  <2>2. PICK j \in DOMAIN tx(i).outputs :
            /\ tx(i).outputs[j].script \in ToSet(recipient_atas)
            /\ d = DepositAt(tx(i), i, j)
    BY <2>0
  <2>3. d.tx = ev.txid /\ d.out = ev.vout /\ d.recipient = ev.ata
    BY <1>4 DEF Names
  <2>4. tx(i).id = ev.txid /\ j - 1 = ev.vout /\ tx(i).outputs[j].script = ev.ata
    BY <1>2, <2>2, <2>3
  <2>5. j \in 1..Len(tx(i).outputs) /\ Len(tx(i).outputs) \in Nat
    BY <1>1
  <2>6. ev.vout + 1 = j /\ ev.vout < Len(tx(i).outputs)
    BY <2>4, <2>5
  <2> QED
    BY <1>1, <2>2, <2>4, <2>6 DEF NamesOutput
<1> QED
  BY <1>3, <1>4

-----------------------------------------------------------------------------
(* Buffers *)

\* The leaves of the claim tree.
LEMMA ClaimLeaves ==
    ASSUME NEW deposits \in Seq(Deposit)
    PROVE  LET leaves == Leaves(deposits)
           IN  /\ leaves \in Seq(Hash) /\ Len(leaves) = Len(deposits)
               /\ \A i \in 1..Len(leaves) : leaves[i] # ZeroLeaf
<1> DEFINE leaf(i) == hash_deposit_leaf(deposits[i])
           leaves == [i \in DOMAIN deposits |-> leaf(i)]
<1>1. Len(deposits) \in Nat /\ DOMAIN deposits = 1..Len(deposits)
  OBVIOUS
<1>2. ASSUME NEW i \in DOMAIN deposits PROVE leaf(i) \in Hash /\ leaf(i) # ZeroLeaf
  <2> DEFINE d == deposits[i]
  <2>1. d \in Deposit
    OBVIOUS
  <2> HIDE DEF d
  <2>2. d.tx \in Int /\ d.out \in Int /\ d.recipient \in Int /\ d.amount \in Int
    BY <2>1 DEF Deposit
  <2>3. <<3, d.tx, d.out, d.recipient, d.amount>> \in Seq(Int)
    BY <2>2
  <2>4. <<3, d.tx, d.out, d.recipient, d.amount>> # <<0>>
    OBVIOUS
  <2> QED
    BY <2>3, <2>4 DEF hash_deposit_leaf, Hash, ZeroLeaf, d
<1> HIDE DEF leaf
<1>3. leaves \in Seq(Hash) /\ Len(leaves) = Len(deposits) /\ \A i \in 1..Len(leaves) : leaves[i] # ZeroLeaf
  BY <1>1, <1>2
<1> QED
  BY <1>3 DEF leaf, Leaves

\* The leaf of the TXO tree.
LEMMA TxoLeaf ==
    ASSUME NEW deposits \in Seq(Deposit)
    PROVE  BlockTxoRoot(deposits) \in Hash
<1> DEFINE txos == [i \in DOMAIN deposits |-> deposits[i].txo]
<1>1. ZeroHash(LeafHeight) \in Hash
  BY ZeroHashes, TreesAssumption
<1>2. txos \in Seq(Int)
  <2>1. ASSUME NEW i \in DOMAIN deposits PROVE deposits[i].txo \in Int
    <3> DEFINE d == deposits[i]
    <3>1. d \in Deposit
      OBVIOUS
    <3> HIDE DEF d
    <3>2. d.txo \in Int
      BY <3>1 DEF Deposit
    <3> QED
      BY <3>2 DEF d
  <2>2. Len(deposits) \in Nat /\ DOMAIN deposits = 1..Len(deposits)
    OBVIOUS
  <2> QED
    BY <2>1, <2>2
<1>3. <<4>> \in Seq(Int)
  OBVIOUS
<1> HIDE DEF txos
<1>4. <<4>> \o txos \in Hash
  BY <1>2, <1>3 DEF Hash
<1> QED
  BY <1>1, <1>4 DEF BlockTxoRoot, txos

-----------------------------------------------------------------------------
(* A checkpoint that matches a bridge state *)

\* The checkpoint c holds the histories and the frontiers of the trees of t.
Matches(c, t) ==
    /\ c.height \in Nat /\ Shr(c.height, TxoHeight) = 0
    /\ t.height = c.height
    /\ t.claims \in Seq(Hash) /\ t.txos \in Seq(Hash)
    /\ Len(t.txos) = c.height + 1 /\ Len(t.claims) <= HistoryLimit
    /\ \A i \in 1..Len(t.claims) : t.claims[i] # ZeroLeaf
    /\ c.claim_history = t.claims
    /\ c.txo_block_history \in {<< >>, t.txos}
    /\ c.claim_frontier = FrontierOf(t.claims, ClaimHeight, 0)
    /\ c.txo_block_frontier = FrontierOf(t.txos, TxoHeight, LeafHeight)

\* The constants' types, one by one.
LEMMA ConstantTypes ==
    /\ HistoryLimit \in Nat /\ ClaimHeight \in Nat /\ TxoHeight \in Nat /\ LeafHeight \in Nat
    /\ required_confirmations \in Nat /\ required_confirmations >= 1
    /\ MaxBlocks \in Nat /\ StartHeights \subseteq Nat
BY TreesAssumption

\* The claim tree has a place for every claim of a history within its limit.
LEMMA ClaimsFit ==
    ASSUME NEW claims \in Seq(Hash), Len(claims) <= HistoryLimit
    PROVE  Shr(LastIndex(claims), ClaimHeight) = 0
<1>1. CASE claims = << >>
  BY <1>1, ShrZero, ConstantTypes DEF LastIndex
<1>2. CASE claims # << >>
  <2>1. LastIndex(claims) = Len(claims) - 1 /\ Len(claims) - 1 \in Nat /\ Len(claims) >= 1
    BY <1>2, LastIndexes
  <2>2. HistoryLimit > 0 /\ HistoryLimit - 1 \in Nat /\ Len(claims) - 1 <= HistoryLimit - 1
    BY <2>1, ConstantTypes
  <2>3. Shr(HistoryLimit - 1, ClaimHeight) = 0
    BY <2>2, CapacityAssumption
  <2>4. Shr(Len(claims) - 1, ClaimHeight) <= Shr(HistoryLimit - 1, ClaimHeight)
    BY <2>1, <2>2, ShrMonotone, ConstantTypes
  <2>5. Shr(Len(claims) - 1, ClaimHeight) \in Nat
    BY <2>1, Shifts, ConstantTypes
  <2> QED
    BY <2>1, <2>3, <2>4, <2>5
<1> QED
  BY <1>1, <1>2

\* The TXO tree has a place for every height up to the bound.
LEMMA HeightsFit ==
    ASSUME NEW first \in StartHeights, NEW height \in Nat, height <= first + MaxBlocks
    PROVE  Shr(height, TxoHeight) = 0
<1>1. first \in Nat /\ first + MaxBlocks \in Nat
  BY ConstantTypes
<1>2. Shr(first + MaxBlocks, TxoHeight) = 0
  BY CapacityAssumption
<1>3. Shr(height, TxoHeight) <= Shr(first + MaxBlocks, TxoHeight)
  BY <1>1, ShrMonotone, ConstantTypes
<1>4. Shr(height, TxoHeight) \in Nat
  BY Shifts, ConstantTypes
<1> QED
  BY <1>2, <1>3, <1>4

\* validate_frontiers_against_state accepts a matching checkpoint.
LEMMA MatchingFrontiers ==
    ASSUME NEW c, NEW t, Matches(c, t)
    PROVE  validate_frontiers_against_state(c, t)
<1> DEFINE cf == FrontierOf(t.claims, ClaimHeight, 0)
           tf == FrontierOf(t.txos, TxoHeight, LeafHeight)
<1>1. c.claim_frontier = cf /\ c.txo_block_frontier = tf
  BY DEF Matches
<1>2. /\ t.claims \in Seq(Hash) /\ Len(t.claims) <= HistoryLimit
      /\ \A i \in 1..Len(t.claims) : t.claims[i] # ZeroLeaf
  BY DEF Matches
<1>3. /\ t.txos \in Seq(Hash) /\ c.height \in Nat /\ Len(t.txos) = c.height + 1
      /\ Shr(c.height, TxoHeight) = 0
  BY DEF Matches
<1>4. t.txos # << >> /\ LastIndex(t.txos) = c.height
  <2>1. t.txos # << >>
    BY <1>3
  <2> QED
    BY <1>3, <2>1, LastIndexes
<1>5. FrontierFits(tf, TxoHeight) /\ frontier_root(tf) = TreeRoot(t.txos, TxoHeight, LeafHeight)
  BY <1>3, <1>4, FrontierRoots, ConstantTypes
<1>6. FrontierFits(cf, ClaimHeight) /\ frontier_root(cf) = TreeRoot(t.claims, ClaimHeight, 0)
  <2>1. Shr(LastIndex(t.claims), ClaimHeight) = 0
    BY <1>2, ClaimsFit
  <2> QED
    BY <1>2, <2>1, FrontierRoots, ConstantTypes
<1>7. tf.index = c.height
  BY <1>4 DEF FrontierOf, Frontier
<1>8. cf.index = LastIndex(t.claims) /\ cf.value = TreeNode(t.claims, 0, 0, LastIndex(t.claims))
  BY DEF FrontierOf, Frontier
<1> HIDE DEF cf, tf
<1>9. TreeNode(t.claims, 0, 0, LastIndex(t.claims)) = LeafAt(t.claims, 0, LastIndex(t.claims))
  BY <1>2, LastIndexes, TreeNodes
<1>10. ClaimedSoFar(c) = Len(t.claims)
  <2>1. CASE t.claims = << >>
    <3>1. LastIndex(t.claims) = 0 /\ Len(t.claims) = 0
      BY <2>1 DEF LastIndex
    <3>2. LeafAt(t.claims, 0, 0) = ZeroLeaf
      BY <3>1, ZeroHashes DEF LeafAt
    <3>3. cf.index = 0 /\ cf.value = ZeroLeaf
      BY <1>8, <1>9, <3>1, <3>2
    <3> QED
      BY <1>1, <3>1, <3>3 DEF ClaimedSoFar
  <2>2. CASE t.claims # << >>
    <3>1. cf.index + 1 = Len(t.claims) /\ cf.index = Len(t.claims) - 1 /\ Len(t.claims) \in Nat
          /\ Len(t.claims) >= 1
      BY <1>2, <1>8, <2>2, LastIndexes
    <3>2. cf.index = 0 => cf.value # ZeroLeaf
      <4>1. SUFFICES ASSUME cf.index = 0 PROVE cf.value # ZeroLeaf
        OBVIOUS
      <4>2. Len(t.claims) = 1 /\ LastIndex(t.claims) = 0
        <5>1. LastIndex(t.claims) = 0
          BY <1>8, <4>1
        <5>2. \A n \in Nat : 0 = n - 1 => n = 1
          OBVIOUS
        <5> QED
          BY <3>1, <4>1, <5>1, <5>2
      <4>3. LeafAt(t.claims, 0, 0) = t.claims[1]
        BY <4>2 DEF LeafAt
      <4>4. t.claims[1] # ZeroLeaf
        BY <1>2, <4>2
      <4> QED
        BY <1>8, <1>9, <4>2, <4>3, <4>4
    <3> QED
      BY <1>1, <3>1, <3>2 DEF ClaimedSoFar
  <2> QED
    BY <2>1, <2>2
<1> QED
  BY <1>1, <1>5, <1>6, <1>7, <1>10 DEF validate_frontiers_against_state

\* The guest accepts the witness built from a matching checkpoint.
LEMMA MatchingWitness ==
    ASSUME NEW c, NEW t, Matches(c, t), Shr(c.height + 1, TxoHeight) = 0,
           NEW block, block.transactions \in Seq(Transaction), MatchesHeader(block)
    PROVE  GuestVerifies(build_deposit_claim_witness(block, c), block, t)
<1> DEFINE w == build_deposit_claim_witness(block, c)
           lc == LastIndex(t.claims)
<1>1. /\ w.txo_tree_block_siblings = TxoSiblings(c)
      /\ w.last_auto_claimed_deposits_siblings = ClaimSiblings(c)
      /\ w.claim_deposits_last_index = c.claim_frontier.index
      /\ w.claim_deposits_last_value = c.claim_frontier.value
      /\ w.deposit_transactions = scan_manager_custody_deposits(block)
  BY DEF build_deposit_claim_witness
<1> HIDE DEF w
<1>2. /\ t.claims \in Seq(Hash) /\ Len(t.claims) <= HistoryLimit /\ c.claim_history = t.claims
      /\ c.claim_frontier = FrontierOf(t.claims, ClaimHeight, 0)
  BY DEF Matches
<1>3. /\ t.txos \in Seq(Hash) /\ c.height \in Nat /\ Len(t.txos) = c.height + 1
      /\ t.height = c.height /\ c.txo_block_history \in {<< >>, t.txos}
      /\ c.txo_block_frontier = FrontierOf(t.txos, TxoHeight, LeafHeight)
  BY DEF Matches
<1>4. t.txos # << >>
  BY <1>3
<1>5. TxoSiblings(c) = TreePath(t.txos, LeafHeight, c.height + 1, TxoHeight)
      /\ TreeNode(t.txos, LeafHeight, 0, c.height + 1) = ZeroHash(LeafHeight)
  BY <1>3, <1>4, NextPaths, ConstantTypes DEF TxoSiblings
<1>6. PathRoot(ZeroHash(LeafHeight), t.height + 1, w.txo_tree_block_siblings)
          = TreeRoot(t.txos, TxoHeight, LeafHeight)
  <2>1. c.height + 1 \in Nat
    BY <1>3
  <2>2. PathRoot(TreeNode(t.txos, LeafHeight, 0, c.height + 1), c.height + 1,
                 TreePath(t.txos, LeafHeight, c.height + 1, TxoHeight))
            = TreeRoot(t.txos, TxoHeight, LeafHeight)
    BY <1>3, <2>1, PathGivesRoot, ConstantTypes
  <2> QED
    BY <1>1, <1>3, <1>5, <2>2
<1>7. /\ c.claim_frontier.index = lc /\ c.claim_frontier.value = TreeNode(t.claims, 0, 0, lc)
      /\ c.claim_frontier.siblings = TreePath(t.claims, 0, lc, ClaimHeight)
  BY <1>2 DEF FrontierOf, Frontier
<1>8. ClaimSiblings(c) = TreePath(t.claims, 0, lc, ClaimHeight)
  <2>1. CASE t.claims = << >>
    BY <1>2, <1>7, <2>1 DEF ClaimSiblings
  <2>2. CASE t.claims # << >>
    <3>1. lc = Len(t.claims) - 1 /\ lc \in Nat
      BY <1>2, <2>2, LastIndexes
    <3>2. sparse_sha256_merkle_siblings(t.claims, lc, ClaimHeight, 0)
              = TreePath(t.claims, 0, lc, ClaimHeight)
      BY <1>2, <2>2, <3>1, SparseIsTreePath, ConstantTypes
    <3> QED
      BY <1>2, <2>2, <3>1, <3>2 DEF ClaimSiblings
  <2> QED
    BY <2>1, <2>2
<1>9. PathRoot(w.claim_deposits_last_value, w.claim_deposits_last_index,
               w.last_auto_claimed_deposits_siblings) = TreeRoot(t.claims, ClaimHeight, 0)
  <2>1. lc \in Nat /\ Shr(lc, ClaimHeight) = 0
    BY <1>2, LastIndexes, ClaimsFit
  <2> HIDE DEF lc
  <2>2. PathRoot(TreeNode(t.claims, 0, 0, lc), lc, TreePath(t.claims, 0, lc, ClaimHeight))
            = TreeRoot(t.claims, ClaimHeight, 0)
    BY <1>2, <2>1, PathGivesRoot, ConstantTypes
  <2> QED
    BY <1>1, <1>7, <1>8, <2>2
<1>10. \A e \in ToSet(w.deposit_transactions) :
           PathRoot(<<e.transaction.id>>, e.transaction_index, e.siblings) = block.merkle_root
  BY <1>1, ScannedPaths
<1>11. GuestVerifies(w, block, t)
  BY <1>6, <1>9, <1>10 DEF GuestVerifies
<1> QED
  BY <1>11 DEF w

\* commit_prepared and append_block: the next checkpoint matches the bridge
\* state with the block appended, as long as the claims stay within the limit.
LEMMA MatchingNext ==
    ASSUME NEW c, NEW t, Matches(c, t), Shr(c.height + 1, TxoHeight) = 0,
           NEW deposits \in Seq(Deposit), Len(t.claims) + Len(deposits) <= HistoryLimit
    PROVE  Matches(NextCheckpointOf(c, deposits), AppendBlock(t, deposits))
<1> DEFINE cn == NextCheckpointOf(c, deposits)
           tn == AppendBlock(t, deposits)
           new == Leaves(deposits)
           root == BlockTxoRoot(deposits)
           claims == t.claims \o new
           txos == Append(t.txos, root)
<1>1. /\ t.claims \in Seq(Hash) /\ c.claim_history = t.claims
      /\ c.claim_frontier = FrontierOf(t.claims, ClaimHeight, 0)
      /\ \A i \in 1..Len(t.claims) : t.claims[i] # ZeroLeaf
  BY DEF Matches
<1>2. /\ t.txos \in Seq(Hash) /\ c.height \in Nat /\ Len(t.txos) = c.height + 1
      /\ t.height = c.height /\ c.txo_block_history \in {<< >>, t.txos}
      /\ c.txo_block_frontier = FrontierOf(t.txos, TxoHeight, LeafHeight)
  BY DEF Matches
<1>3. /\ new \in Seq(Hash) /\ Len(new) = Len(deposits)
      /\ \A i \in 1..Len(new) : new[i] # ZeroLeaf
  BY ClaimLeaves
<1>4. root \in Hash
  BY TxoLeaf
<1>5. /\ tn.height = c.height + 1 /\ tn.claims = claims /\ tn.txos = txos
  BY <1>2 DEF AppendBlock
<1>6. /\ cn.height = c.height + 1
      /\ cn.claim_history = claims
      /\ cn.claim_frontier = IF claims = << >> THEN c.claim_frontier
                             ELSE HistoryFrontier(claims, ClaimHeight, 0)
  BY <1>1 DEF NextCheckpointOf, NextClaims
<1>7. /\ cn.txo_block_history = IF c.txo_block_history = << >> THEN << >>
                                ELSE Append(c.txo_block_history, root)
      /\ cn.txo_block_frontier
             = IF c.txo_block_history = << >>
               THEN Frontier(c.height + 1, root,
                             sequential_next_leaf_siblings(c.txo_block_frontier,
                                                           TxoHeight, LeafHeight))
               ELSE HistoryFrontier(Append(c.txo_block_history, root), TxoHeight, LeafHeight)
  BY DEF NextCheckpointOf, NextTxos
<1> HIDE DEF cn, tn, new, root
<1>8. /\ claims \in Seq(Hash) /\ Len(claims) = Len(t.claims) + Len(deposits)
      /\ \A i \in 1..Len(claims) : claims[i] # ZeroLeaf
  <2>1. claims \in Seq(Hash) /\ Joins(claims, t.claims, new)
    BY <1>1, <1>3, Concatenation, Zenon
  <2> HIDE DEF claims
  <2>2. /\ Len(t.claims) \in Nat /\ Len(new) \in Nat
    BY <1>1, <1>3
  <2>3. /\ Len(claims) = Len(t.claims) + Len(new)
        /\ \A k \in 1..Len(t.claims) : claims[k] = t.claims[k]
        /\ \A k \in 1..Len(new) : claims[Len(t.claims) + k] = new[k]
    BY <2>1 DEF Joins
  <2>4. ASSUME NEW i \in 1..Len(claims) PROVE claims[i] # ZeroLeaf
    <3>1. CASE i \in 1..Len(t.claims)
      BY <1>1, <2>3, <3>1
    <3>2. CASE i \notin 1..Len(t.claims)
      <4>1. i - Len(t.claims) \in 1..Len(new) /\ Len(t.claims) + (i - Len(t.claims)) = i
        BY <2>2, <2>3, <3>2
      <4> QED
        BY <1>3, <2>3, <4>1
    <3> QED
      BY <3>1, <3>2
  <2> QED
    BY <1>3, <2>1, <2>3, <2>4
<1>9. txos \in Seq(Hash) /\ Len(txos) = c.height + 2 /\ t.txos # << >> /\ txos # << >>
  BY <1>2, <1>4
<1>10. cn.claim_frontier = FrontierOf(claims, ClaimHeight, 0)
  <2>1. CASE claims = << >>
    <3>1. t.claims = << >>
      BY <1>1, <1>8, <2>1
    <3> QED
      BY <1>1, <1>6, <2>1, <3>1
  <2>2. CASE claims # << >>
    <3> HIDE DEF claims
    <3>1. HistoryFrontier(claims, ClaimHeight, 0) = FrontierOf(claims, ClaimHeight, 0)
      BY <1>8, <2>2, HistoryFrontiers, ConstantTypes
    <3> QED
      BY <1>6, <2>2, <3>1
  <2> QED
    BY <2>1, <2>2
<1>11. cn.txo_block_frontier = FrontierOf(txos, TxoHeight, LeafHeight)
       /\ cn.txo_block_history \in {<< >>, txos}
  <2>1. CASE c.txo_block_history = << >>
    <3>1. Frontier(Len(t.txos), root,
                   sequential_next_leaf_siblings(FrontierOf(t.txos, TxoHeight, LeafHeight),
                                                 TxoHeight, LeafHeight))
              = FrontierOf(txos, TxoHeight, LeafHeight)
      BY <1>2, <1>4, <1>9, NextFrontiers, ConstantTypes
    <3> QED
      BY <1>2, <1>7, <2>1, <3>1
  <2>2. CASE c.txo_block_history # << >>
    <3>1. c.txo_block_history = t.txos
      BY <1>2, <2>2
    <3>2. HistoryFrontier(txos, TxoHeight, LeafHeight) = FrontierOf(txos, TxoHeight, LeafHeight)
      <4> HIDE DEF txos
      <4> QED
        BY <1>9, HistoryFrontiers, ConstantTypes
    <3> QED
      BY <1>7, <2>2, <3>1, <3>2
  <2> QED
    BY <2>1, <2>2
<1> HIDE DEF claims, txos
<1>12. Matches(cn, tn)
  <2>1. cn.height \in Nat /\ Len(txos) = cn.height + 1
    BY <1>2, <1>6, <1>9
  <2>2. Len(claims) <= HistoryLimit
    BY <1>8
  <2> QED
    BY <1>5, <1>6, <1>8, <1>9, <1>10, <1>11, <2>1, <2>2 DEF Matches
<1> QED
  BY <1>12 DEF cn, tn

\* validate_checkpoint accepts a matching checkpoint within the limit.
LEMMA MatchingCheckpoint ==
    ASSUME NEW c, NEW t, Matches(c, t), WithinLimit(c)
    PROVE  validate_checkpoint(c, t)
<1>1. c.claim_history # << >> => c.claim_frontier = HistoryFrontier(c.claim_history, ClaimHeight, 0)
  BY HistoryFrontiers, ConstantTypes DEF Matches
<1>2. c.txo_block_history # << >> =>
          /\ Len(c.txo_block_history) = c.height + 1
          /\ c.txo_block_frontier = HistoryFrontier(c.txo_block_history, TxoHeight, LeafHeight)
  BY HistoryFrontiers, ConstantTypes DEF Matches
<1>3. t.height = c.height
  BY DEF Matches
<1>4. validate_frontiers_against_state(c, t)
  BY MatchingFrontiers
<1> QED
  BY <1>1, <1>2, <1>3, <1>4 DEF validate_checkpoint

-----------------------------------------------------------------------------
(* One attempt at the next height *)

\* Both witnesses of a block stand for its deposits.
LEMMA AnswerDeposits ==
    ASSUME NEW block, block.transactions \in Seq(Transaction)
    PROVE  /\ DepositsOf(block) \in Seq(Deposit)
           /\ \A c : Deposits(build_deposit_claim_witness(block, c)) = DepositsOf(block)
           /\ Deposits(build_hash_only_incoming_witness(block)) = DepositsOf(block)
<1>1. ASSUME NEW c PROVE Deposits(build_deposit_claim_witness(block, c)) = DepositsOf(block)
  <2> DEFINE w == build_deposit_claim_witness(block, c)
  <2>1. w.deposit_transactions = scan_manager_custody_deposits(block)
    BY DEF build_deposit_claim_witness
  <2> HIDE DEF w
  <2>2. Deposits(w) = DepositsOf(block)
    BY <2>1, BlockDeposits
  <2> QED
    BY <2>2 DEF w
<1>2. /\ Deposits(build_hash_only_incoming_witness(block)) = DepositsOf(block)
      /\ DepositsOf(block) \in Seq(Deposit)
  <2> DEFINE w == build_hash_only_incoming_witness(block)
  <2>1. w.deposit_transactions = scan_manager_custody_deposits(block)
    BY DEF build_hash_only_incoming_witness
  <2> HIDE DEF w
  <2>2. Deposits(w) = DepositsOf(block) /\ DepositsOf(block) \in Seq(Deposit)
    BY <2>1, BlockDeposits
  <2> QED
    BY <2>2 DEF w
<1> QED
  BY <1>1, <1>2

\* The facts about the block mined at a height.
LEMMA MinedDeposits ==
    ASSUME NEW height \in Nat, NEW shape \in Shapes
    PROVE  LET mined == Mined(height, shape)
           IN  /\ mined.transactions \in Seq(Transaction)
               /\ MatchesHeader(mined)
               /\ mined \in AsMined(mined) /\ mined \in Answers(mined)
               /\ DepositsOf(mined) \in Seq(Deposit)
<1> DEFINE mined == Mined(height, shape)
<1>1. mined.transactions \in Seq(Transaction)
  BY MinedBlock
<1>2. MatchesHeader(mined)
  BY MinedMatches
<1> HIDE DEF mined
<1>3. DepositsOf(mined) \in Seq(Deposit)
  BY <1>1, AnswerDeposits
<1>4. mined \in AsMined(mined)
  BY DEF AsMined
<1>5. mined \in Answers(mined)
  BY <1>4 DEF Answers
<1> QED
  BY <1>1, <1>2, <1>3, <1>4, <1>5 DEF mined

\* leaf is the leaf of an output of one of the transactions.
IsLeafOf(leaf, txs) ==
    \E tx \in ToSet(txs) : \E j \in DOMAIN tx.outputs :
        /\ tx.outputs[j].script \in ToSet(recipient_atas)
        /\ leaf = <<3, tx.id, j - 1, tx.outputs[j].script, calcuate_fee(tx.outputs[j].value)>>

\* hash_deposit_leaf: the leaves of a block's deposits do not depend on where
\* its transactions stand.
LEMMA LeavesOf ==
    ASSUME NEW block, block.transactions \in Seq(Transaction), NEW leaf
    PROVE  leaf \in ToSet(Leaves(DepositsOf(block))) <=> IsLeafOf(leaf, block.transactions)
<1> DEFINE dep == DepositsOf(block)
           txs == block.transactions
<1>1. leaf \in ToSet(Leaves(dep)) <=> \E d \in ToSet(dep) : leaf = hash_deposit_leaf(d)
  <2> HIDE DEF dep
  <2> QED
    BY DEF ToSet, Leaves
<1>2. ASSUME NEW i, NEW j
      PROVE  hash_deposit_leaf(DepositAt(txs[i], i, j))
                 = <<3, txs[i].id, j - 1, txs[i].outputs[j].script,
                     calcuate_fee(txs[i].outputs[j].value)>>
  BY DEF hash_deposit_leaf, DepositAt
<1>3. ASSUME NEW d \in ToSet(dep), leaf = hash_deposit_leaf(d) PROVE IsLeafOf(leaf, txs)
  <2>1. IsDepositOf(d, block)
    BY <1>3, DepositMembers
  <2>2. PICK i \in DOMAIN txs : \E j \in DOMAIN txs[i].outputs :
            /\ txs[i].outputs[j].script \in ToSet(recipient_atas)
            /\ d = DepositAt(txs[i], i, j)
    BY <2>1 DEF IsDepositOf
  <2>3. PICK j \in DOMAIN txs[i].outputs :
            /\ txs[i].outputs[j].script \in ToSet(recipient_atas)
            /\ d = DepositAt(txs[i], i, j)
    BY <2>2
  <2>4. txs[i] \in ToSet(txs)
    BY DEF ToSet
  <2>5. leaf = <<3, txs[i].id, j - 1, txs[i].outputs[j].script,
                 calcuate_fee(txs[i].outputs[j].value)>>
    BY <1>2, <1>3, <2>3
  <2> QED
    BY <2>3, <2>4, <2>5 DEF IsLeafOf
<1>4. ASSUME IsLeafOf(leaf, txs) PROVE \E d \in ToSet(dep) : leaf = hash_deposit_leaf(d)
  <2>1. PICK tx \in ToSet(txs) : \E j \in DOMAIN tx.outputs :
            /\ tx.outputs[j].script \in ToSet(recipient_atas)
            /\ leaf = <<3, tx.id, j - 1, tx.outputs[j].script, calcuate_fee(tx.outputs[j].value)>>
    BY <1>4 DEF IsLeafOf
  <2>2. PICK i \in DOMAIN txs : tx = txs[i]
    BY DEF ToSet
  <2>3. PICK j \in DOMAIN txs[i].outputs :
            /\ txs[i].outputs[j].script \in ToSet(recipient_atas)
            /\ leaf = <<3, txs[i].id, j - 1, txs[i].outputs[j].script,
                        calcuate_fee(txs[i].outputs[j].value)>>
    BY <2>1, <2>2
  <2> DEFINE d == DepositAt(txs[i], i, j)
  <2>4. IsDepositOf(d, block)
    BY <2>3 DEF IsDepositOf
  <2>5. leaf = hash_deposit_leaf(d)
    BY <1>2, <2>3
  <2> HIDE DEF d
  <2>6. d \in ToSet(dep)
    BY <2>4, DepositMembers
  <2> QED
    BY <2>5, <2>6
<1> QED
  BY <1>1, <1>3, <1>4

\* A list that repeats its tail claims what the mined list claims, some of it
\* more than once.
LEMMA SameLeaves ==
    ASSUME NEW height \in Nat, NEW shape \in Shapes,
           NEW b \in AsMined(Mined(height, shape))
    PROVE  ToSet(Leaves(DepositsOf(b))) = ToSet(Leaves(DepositsOf(Mined(height, shape))))
<1> DEFINE mined == Mined(height, shape)
<1>1. b.transactions \in Seq(Transaction) /\ ToSet(b.transactions) = ToSet(mined.transactions)
  BY AsMinedBlock
<1>2. mined.transactions \in Seq(Transaction)
  BY MinedBlock
<1> HIDE DEF mined
<1>3. ASSUME NEW leaf
      PROVE  leaf \in ToSet(Leaves(DepositsOf(b))) <=> leaf \in ToSet(Leaves(DepositsOf(mined)))
  <2>1. IsLeafOf(leaf, b.transactions) <=> IsLeafOf(leaf, mined.transactions)
    BY <1>1 DEF IsLeafOf
  <2> QED
    BY <1>1, <1>2, <2>1, LeavesOf
<1>4. ToSet(Leaves(DepositsOf(b))) = ToSet(Leaves(DepositsOf(mined)))
  <2> DEFINE X == ToSet(Leaves(DepositsOf(b)))
             Y == ToSet(Leaves(DepositsOf(mined)))
  <2> HIDE DEF X, Y
  <2>1. \A leaf : leaf \in X <=> leaf \in Y
    BY <1>3 DEF X, Y
  <2> QED
    BY <2>1 DEF X, Y
<1> QED
  BY <1>4 DEF mined

\* The leaves claimed for two lists of deposits, one after the other.
LEMMA ClaimsConcat ==
    ASSUME NEW a \in Seq(Deposit), NEW b \in Seq(Deposit)
    PROVE  /\ a \o b \in Seq(Deposit)
           /\ Leaves(a) \o Leaves(b) = Leaves(a \o b)
<1> DEFINE S == {hash_deposit_leaf(d) : d \in Deposit}
           D == [d \in Deposit |-> hash_deposit_leaf(d)]
<1>1. a \o b \in Seq(Deposit)
  OBVIOUS
<1>2. D \in [Deposit -> S]
  OBVIOUS
<1>3. ASSUME NEW s \in Seq(Deposit) PROVE MapSeq(D, s) = Leaves(s)
  <2>1. \A i \in DOMAIN s : s[i] \in Deposit
    OBVIOUS
  <2> QED
    BY <2>1 DEF MapSeq, Leaves
<1> HIDE DEF D, S
<1>4. Splits(D, a, b)
  BY <1>2, MapConcat
<1>5. Leaves(a) \o Leaves(b) = Leaves(a \o b)
  BY <1>1, <1>3, <1>4 DEF Splits
<1> QED
  BY <1>1, <1>5

\* The members of two sequences, one after the other.
LEMMA MembersConcat ==
    ASSUME NEW A, NEW s \in Seq(A), NEW t \in Seq(A)
    PROVE  ToSet(s \o t) = ToSet(s) \cup ToSet(t)
<1> DEFINE c == s \o t
<1>1. c \in Seq(A) /\ Joins(c, s, t)
  BY Concatenation, Zenon
<1> HIDE DEF c
<1>2. /\ Len(s) \in Nat /\ Len(t) \in Nat /\ DOMAIN s = 1..Len(s) /\ DOMAIN t = 1..Len(t)
      /\ DOMAIN c = 1..Len(c) /\ Len(c) = Len(s) + Len(t)
      /\ \A k \in 1..Len(s) : c[k] = s[k]
      /\ \A k \in 1..Len(t) : c[Len(s) + k] = t[k]
  BY <1>1 DEF Joins
<1>3. ASSUME NEW i \in DOMAIN c PROVE c[i] \in ToSet(s) \cup ToSet(t)
  <2>1. CASE i \in 1..Len(s)
    BY <1>2, <2>1 DEF ToSet
  <2>2. CASE i \notin 1..Len(s)
    <3>1. i - Len(s) \in 1..Len(t) /\ Len(s) + (i - Len(s)) = i
      BY <1>2, <2>2
    <3>2. c[i] = t[i - Len(s)]
      BY <1>2, <3>1
    <3> QED
      BY <1>2, <3>1, <3>2 DEF ToSet
  <2> QED
    BY <2>1, <2>2
<1>4. ASSUME NEW i \in DOMAIN s PROVE i \in DOMAIN c /\ c[i] = s[i]
  BY <1>2
<1>5. ASSUME NEW i \in DOMAIN t PROVE Len(s) + i \in DOMAIN c /\ c[Len(s) + i] = t[i]
  BY <1>2
<1>6. ToSet(c) = ToSet(s) \cup ToSet(t)
  BY <1>3, <1>4, <1>5 DEF ToSet
<1> QED
  BY <1>6 DEF c

\* What the code and its environment hand to an attempt: an answer under the
\* mined header, an answer under the header that becomes final, an evidence file.
Fetched(shape, answer, finalized, ev) ==
    /\ checkpoint.height < start + MaxBlocks
    /\ shape \in Shapes
    /\ answer \in Answers(Mined(checkpoint.height + 1, shape))
    /\ FinalizedHeight \in DOMAIN sources =>
           finalized \in Answers(sources[FinalizedHeight].mined)
    /\ ev # None /\ ev.height = checkpoint.height + 1 => ev.vout \in Nat

\* The state before an attempt.
LEMMA Before ==
    ASSUME TreesInv, checkpoint.height < start + MaxBlocks
    PROVE  /\ Matches(checkpoint, tip)
           /\ checkpoint.height \in Nat /\ checkpoint.height + 1 \in Nat
           /\ Shr(checkpoint.height + 1, TxoHeight) = 0
<1>1. TreesMatch /\ BuffersMatch /\ ClaimsAreTheDeposits
  BY DEF TreesInv
<1>2. start \in StartHeights /\ start \in Nat /\ checkpoint.height \in start..(start + MaxBlocks)
  BY <1>1, ConstantTypes DEF TreesMatch
<1>3. /\ checkpoint.height \in Nat /\ checkpoint.height + 1 \in Nat
      /\ checkpoint.height <= start + MaxBlocks /\ checkpoint.height + 1 <= start + MaxBlocks
  BY <1>2, ConstantTypes
<1>4. Shr(checkpoint.height, TxoHeight) = 0 /\ Shr(checkpoint.height + 1, TxoHeight) = 0
  BY <1>2, <1>3, HeightsFit
<1>5. \A i \in 1..Len(tip.claims) : tip.claims[i] # ZeroLeaf
  <2>1. owed \in Seq(Deposit) /\ ToSet(tip.claims) = ToSet(Leaves(owed)) /\ tip.claims \in Seq(Hash)
    BY <1>1 DEF BuffersMatch, ClaimsAreTheDeposits, TreesMatch
  <2> DEFINE leaves == Leaves(owed)
  <2>2. leaves \in Seq(Hash) /\ \A i \in 1..Len(leaves) : leaves[i] # ZeroLeaf
    BY <2>1, ClaimLeaves
  <2> HIDE DEF leaves
  <2>3. ZeroLeaf \notin ToSet(leaves)
    BY <2>2 DEF ToSet
  <2>4. ASSUME NEW i \in 1..Len(tip.claims) PROVE tip.claims[i] \in ToSet(tip.claims)
    BY <2>1 DEF ToSet
  <2> QED
    BY <2>1, <2>3, <2>4 DEF leaves
<1>6. Matches(checkpoint, tip)
  BY <1>1, <1>3, <1>4, <1>5 DEF TreesMatch, Matches
<1> QED
  BY <1>3, <1>4, <1>6

\* resolve_finalized_buffers: the block that becomes final, fetched as it was
\* then, agrees with its buffers; one that is not as it was mined is refused.
LEMMA Finalized ==
    ASSUME TreesInv
    PROVE  /\ FinalizedHeight \in DOMAIN sources =>
                 FinalizedBlockAgrees(sources[FinalizedHeight].answer)
           /\ FinalizedHeight \notin DOMAIN sources => \A b : FinalizedBlockAgrees(b)
           /\ FinalizedHeight \in DOMAIN sources =>
                 \A b \in Answers(sources[FinalizedHeight].mined) :
                     FinalizedBlockAgrees(b) => b \in AsMined(sources[FinalizedHeight].mined)
<1> DEFINE F == FinalizedHeight
<1>1. BuffersMatch
  BY DEF TreesInv
<1>2. DOMAIN sources = DOMAIN checkpoint.pending_finalization /\ DOMAIN sources \subseteq Nat
  BY <1>1 DEF BuffersMatch
<1>3. ASSUME F \notin DOMAIN sources, NEW b PROVE FinalizedBlockAgrees(b)
  BY <1>2, <1>3 DEF FinalizedBlockAgrees
<1>4. ASSUME F \in DOMAIN sources
      PROVE  /\ FinalizedBlockAgrees(sources[F].answer)
             /\ \A b \in Answers(sources[F].mined) :
                    FinalizedBlockAgrees(b) => b \in AsMined(sources[F].mined)
  <2> HIDE DEF F
  <2> DEFINE a == sources[F].answer
  <2>1. PICK shape \in Shapes : sources[F].mined = Mined(F, shape)
    BY <1>1, <1>4 DEF BuffersMatch
  <2>2. /\ a \in AsMined(sources[F].mined) /\ MatchesHeader(a) /\ Evaluable(DepositsOf(a))
        /\ checkpoint.pending_finalization[F] = from_evaluation(DepositsOf(a))
    BY <1>1, <1>4 DEF BuffersMatch
  <2>3. F \in Nat /\ F \in DOMAIN checkpoint.pending_finalization
    BY <1>2, <1>4
  <2> HIDE DEF a
  <2>4. Deposits(build_hash_only_incoming_witness(a)) = DepositsOf(a)
    BY <2>1, <2>2, <2>3, AsMinedBlock, AnswerDeposits
  <2>5. FinalizedBlockAgrees(a)
    BY <2>2, <2>4 DEF FinalizedBlockAgrees, F
  <2>6. ASSUME NEW b \in Answers(sources[F].mined), FinalizedBlockAgrees(b)
        PROVE  b \in AsMined(sources[F].mined)
    <3>1. MatchesHeader(b)
      BY <2>3, <2>6 DEF FinalizedBlockAgrees, F
    <3> QED
      BY <2>1, <2>3, <2>6, <3>1, OnlyAsMined
  <2> QED
    BY <2>5, <2>6 DEF a
<1> QED
  BY <1>3, <1>4

\* An attempt that is accepted was answered with the block as it was mined or
\* with a tail of it repeated, whose deposits can be evaluated, and the claims
\* stay within the limit.
LEMMA Accepted ==
    ASSUME TreesInv, NEW shape, NEW answer, NEW finalized, NEW ev,
           Fetched(shape, answer, finalized, ev), Accepts(answer, finalized, ev)
    PROVE  /\ answer \in AsMined(Mined(checkpoint.height + 1, shape))
           /\ answer.transactions \in Seq(Transaction) /\ MatchesHeader(answer)
           /\ DepositsOf(answer) \in Seq(Deposit)
           /\ Deposits(build_deposit_claim_witness(answer, checkpoint)) = DepositsOf(answer)
           /\ Evaluable(DepositsOf(answer))
           /\ Len(tip.claims) + Len(DepositsOf(answer)) <= HistoryLimit
<1> DEFINE height == checkpoint.height + 1
           mined == Mined(height, shape)
           dep == DepositsOf(answer)
           new == Leaves(dep)
<1>1. Matches(checkpoint, tip) /\ height \in Nat
  BY Before DEF Fetched
<1>2. MatchesHeader(answer) /\ answer \in Answers(mined) /\ shape \in Shapes
  BY DEF Accepts, Fetched
<1>3. answer \in AsMined(mined) /\ answer.transactions \in Seq(Transaction)
  <2> HIDE DEF height
  <2>1. answer \in AsMined(mined)
    BY <1>1, <1>2, OnlyAsMined
  <2> QED
    BY <1>1, <1>2, <2>1, AsMinedBlock
<1>4. dep \in Seq(Deposit) /\ Deposits(build_deposit_claim_witness(answer, checkpoint)) = dep
  BY <1>3, AnswerDeposits
<1>5. WithinLimit(NextCheckpointOf(checkpoint, dep)) /\ Evaluable(dep)
  <2> HIDE DEF dep
  <2> QED
    BY <1>4 DEF Accepts, validate_checkpoint
<1>6. NextCheckpointOf(checkpoint, dep).claim_history = tip.claims \o new
  <2> HIDE DEF dep
  <2>1. checkpoint.claim_history = tip.claims
    BY <1>1 DEF Matches
  <2> QED
    BY <2>1 DEF NextCheckpointOf, NextClaims
<1>7. new \in Seq(Hash) /\ Len(new) = Len(dep)
  <2> HIDE DEF dep
  <2> QED
    BY <1>4, ClaimLeaves
<1>8. tip.claims \in Seq(Hash)
  BY <1>1 DEF Matches
<1> HIDE DEF new, dep
<1>9. Len(tip.claims \o new) = Len(tip.claims) + Len(dep)
  BY <1>7, <1>8
<1>10. Len(tip.claims) + Len(dep) <= HistoryLimit
  BY <1>5, <1>6, <1>9 DEF WithinLimit
<1> QED
  BY <1>2, <1>3, <1>4, <1>5, <1>10 DEF dep

\* An attempt answered with the blocks as they were mined is accepted, if its
\* deposits can be evaluated, the histories have room and the evidence file does
\* not contradict the block.
LEMMA Honest ==
    ASSUME TreesInv, NEW shape, NEW finalized, NEW ev,
           Fetched(shape, Mined(checkpoint.height + 1, shape), finalized, ev),
           FinalizedHeight \in DOMAIN sources => finalized = sources[FinalizedHeight].answer,
           Evaluable(DepositsOf(Mined(checkpoint.height + 1, shape))),
           Len(checkpoint.claim_history) + Len(DepositsOf(Mined(checkpoint.height + 1, shape)))
               <= HistoryLimit,
           Len(checkpoint.txo_block_history) < HistoryLimit,
           ev # None /\ ev.height = checkpoint.height + 1 =>
               /\ ev.scripts
               /\ \E d \in ToSet(DepositsOf(Mined(checkpoint.height + 1, shape))) : Names(ev, d)
    PROVE  Accepts(Mined(checkpoint.height + 1, shape), finalized, ev)
<1> DEFINE height == checkpoint.height + 1
           mined == Mined(height, shape)
           dep == DepositsOf(mined)
           cn == NextCheckpointOf(checkpoint, dep)
           tn == AppendBlock(tip, dep)
<1>1. Matches(checkpoint, tip) /\ height \in Nat /\ Shr(height, TxoHeight) = 0
  BY Before DEF Fetched
<1>2. /\ mined.transactions \in Seq(Transaction) /\ MatchesHeader(mined) /\ dep \in Seq(Deposit)
      /\ Deposits(build_deposit_claim_witness(mined, checkpoint)) = dep
  <2> HIDE DEF height
  <2>1. shape \in Shapes
    BY DEF Fetched
  <2> QED
    BY <1>1, <2>1, MinedDeposits, AnswerDeposits
<1>3. validate_frontiers_against_state(checkpoint, tip)
  BY <1>1, MatchingFrontiers
<1>4. FinalizedBlockAgrees(finalized)
  BY Finalized
<1> HIDE DEF mined
<1>5. GuestVerifies(build_deposit_claim_witness(mined, checkpoint), mined, tip)
  BY <1>1, <1>2, MatchingWitness
<1>6. validate_live_deposit_script(ev, height, mined)
  <2>1. CASE ev = None \/ ev.height # height
    BY <2>1 DEF validate_live_deposit_script
  <2>2. CASE ev # None /\ ev.height = height
    <3>1. ev.vout \in Nat /\ ev.scripts /\ \E d \in ToSet(dep) : Names(ev, d)
      BY <2>2 DEF Fetched, mined
    <3>2. NamesOutput(ev, mined)
      BY <1>2, <3>1, EvidenceNames
    <3> QED
      BY <3>1, <3>2 DEF NamesOutput, validate_live_deposit_script
  <2> QED
    BY <2>1, <2>2
<1>7. validate_checkpoint(cn, tn)
  <2>1. Len(tip.claims) + Len(dep) <= HistoryLimit
    BY <1>1 DEF Matches, mined
  <2> HIDE DEF dep
  <2>2. Matches(cn, tn)
    BY <1>1, <1>2, <2>1, MatchingNext
  <2>3. Len(cn.claim_history) <= HistoryLimit
    BY <2>2 DEF Matches
  <2>4. Len(cn.txo_block_history) <= HistoryLimit
    <3>1. cn.txo_block_history = IF checkpoint.txo_block_history = << >> THEN << >>
                                 ELSE Append(checkpoint.txo_block_history, BlockTxoRoot(dep))
      BY DEF NextCheckpointOf, NextTxos
    <3>2. CASE checkpoint.txo_block_history = << >>
      <4>1. Len(cn.txo_block_history) = 0
        BY <3>1, <3>2
      <4> QED
        BY <4>1, ConstantTypes
    <3>3. CASE checkpoint.txo_block_history # << >>
      <4>1. checkpoint.txo_block_history \in Seq(Hash)
        BY <1>1, <3>3 DEF Matches
      <4>2. BlockTxoRoot(dep) \in Hash
        BY <1>2, TxoLeaf
      <4>3. Len(cn.txo_block_history) = Len(checkpoint.txo_block_history) + 1
            /\ Len(checkpoint.txo_block_history) \in Nat
        BY <3>1, <3>3, <4>1, <4>2
      <4> QED
        BY <4>3, ConstantTypes
    <3> QED
      BY <3>2, <3>3
  <2> HIDE DEF cn, tn
  <2> QED
    BY <2>2, <2>3, <2>4, MatchingCheckpoint DEF WithinLimit
<1>8. Evaluable(dep)
  BY DEF mined
<1>9. Accepts(mined, finalized, ev)
  BY <1>2, <1>3, <1>4, <1>5, <1>6, <1>7, <1>8 DEF Accepts
<1> QED
  BY <1>9 DEF mined

\* validate_live_deposit_script: an accepted attempt with evidence for its
\* height claims what the evidence names.
LEMMA EvidenceClaimed ==
    ASSUME TreesInv, NEW shape, NEW answer, NEW finalized, NEW ev,
           Fetched(shape, answer, finalized, ev), Accepts(answer, finalized, ev),
           ev # None, ev.height = checkpoint.height + 1
    PROVE  \E d \in ToSet(DepositsOf(answer)) : Names(ev, d)
<1>1. answer.transactions \in Seq(Transaction) /\ ev.vout \in Nat
  BY Accepted DEF Fetched
<1>2. NamesOutput(ev, answer)
  BY DEF Accepts, validate_live_deposit_script, NamesOutput
<1> QED
  BY <1>1, <1>2, EvidenceNames

\* What an accepted attempt leaves behind.
LEMMA AcceptedStep ==
    ASSUME TreesInv, NEW shape, NEW answer, NEW finalized, NEW ev,
           Fetched(shape, answer, finalized, ev), Accepts(answer, finalized, ev),
           Prepare(shape, answer, finalized, ev)
    PROVE  TreesMatch' /\ BuffersMatch' /\ ClaimsAreTheDeposits'
<1> DEFINE height == checkpoint.height + 1
           mined == Mined(height, shape)
           dep == DepositsOf(answer)
           due == DepositsOf(mined)
           F == checkpoint.height + 1 - required_confirmations
           new == Leaves(dep)
<1>1. /\ Matches(checkpoint, tip) /\ checkpoint.height \in Nat /\ height \in Nat
      /\ Shr(height, TxoHeight) = 0
  BY Before DEF Fetched
<1>2. shape \in Shapes /\ checkpoint.height < start + MaxBlocks
  BY DEF Fetched
<1>3. /\ answer \in AsMined(mined) /\ MatchesHeader(answer) /\ Evaluable(dep)
      /\ Len(tip.claims) + Len(dep) <= HistoryLimit
      /\ dep \in Seq(Deposit) /\ Deposits(build_deposit_claim_witness(answer, checkpoint)) = dep
  BY Accepted
<1>4. due \in Seq(Deposit) /\ ToSet(Leaves(dep)) = ToSet(Leaves(due))
  <2> HIDE DEF height
  <2> QED
    BY <1>1, <1>2, <1>3, MinedDeposits, SameLeaves
<1>5. /\ checkpoint' = NextCheckpointOf(checkpoint, dep)
      /\ tip' = AppendBlock(tip, dep)
      /\ sources' = [h \in DOMAIN checkpoint'.pending_finalization |->
                        IF h = height THEN [mined |-> mined, answer |-> answer] ELSE sources[h]]
      /\ owed' = owed \o due
      /\ repeated' = (repeated \/ answer # mined)
      /\ start' = start
  <2> HIDE DEF dep
  <2> QED
    BY <1>3 DEF Prepare
<1> HIDE DEF dep, due, mined
<1>6. Matches(checkpoint', tip')
  BY <1>1, <1>3, <1>5, MatchingNext
<1>7. checkpoint'.height = height
  BY <1>5 DEF NextCheckpointOf
<1>8. TreesMatch'
  <2>1. TreesMatch
    BY DEF TreesInv
  <2>2. start \in StartHeights /\ start \in Nat /\ checkpoint.height \in start..(start + MaxBlocks)
    BY <2>1, ConstantTypes DEF TreesMatch
  <2>3. height \in start..(start + MaxBlocks)
    BY <1>2, <2>2, ConstantTypes
  <2> QED
    BY <1>5, <1>6, <1>7, <2>2, <2>3 DEF TreesMatch, Matches
<1>9. ClaimsAreTheDeposits' /\ owed' \in Seq(Deposit)
  <2>1. /\ owed \in Seq(Deposit) /\ ToSet(tip.claims) = ToSet(Leaves(owed))
        /\ ~repeated => tip.claims = Leaves(owed)
    BY DEF TreesInv, BuffersMatch, ClaimsAreTheDeposits
  <2>2. tip'.claims = tip.claims \o new
    BY <1>5 DEF AppendBlock
  <2>3. owed \o due \in Seq(Deposit) /\ Leaves(owed) \o Leaves(due) = Leaves(owed \o due)
    BY <1>4, <2>1, ClaimsConcat
  <2>4. ToSet(tip'.claims) = ToSet(Leaves(owed'))
    <3>1. tip.claims \in Seq(Hash)
      BY <1>1 DEF Matches
    <3>2. new \in Seq(Hash) /\ Leaves(due) \in Seq(Hash) /\ Leaves(owed) \in Seq(Hash)
      BY <1>3, <1>4, <2>1, ClaimLeaves
    <3> DEFINE leaves == Leaves(owed)
               more == Leaves(due)
    <3> HIDE DEF new, leaves, more
    <3>3. ToSet(tip.claims \o new) = ToSet(tip.claims) \cup ToSet(new)
      BY <3>1, <3>2, MembersConcat
    <3>4. ToSet(leaves \o more) = ToSet(leaves) \cup ToSet(more)
      BY <3>2, MembersConcat DEF leaves, more
    <3>5. ToSet(new) = ToSet(more) /\ ToSet(tip.claims) = ToSet(leaves)
      BY <1>4, <2>1 DEF new, leaves, more
    <3>6. ToSet(tip'.claims) = ToSet(leaves \o more)
      BY <2>2, <3>3, <3>4, <3>5
    <3>7. Leaves(owed') = leaves \o more
      BY <1>5, <2>3 DEF leaves, more
    <3> QED
      BY <3>6, <3>7
  <2>5. ~repeated' => tip'.claims = Leaves(owed')
    <3>1. SUFFICES ASSUME ~repeated' PROVE tip'.claims = Leaves(owed')
      OBVIOUS
    <3>2. ~repeated /\ answer = mined
      BY <1>5, <3>1
    <3>3. dep = due
      BY <3>2 DEF dep, due
    <3>4. tip'.claims = Leaves(owed) \o Leaves(due)
      BY <2>1, <2>2, <3>2, <3>3
    <3> QED
      BY <1>5, <2>3, <3>4
  <2> QED
    BY <1>5, <2>3, <2>4, <2>5 DEF ClaimsAreTheDeposits
<1>10. BuffersMatch'
  <2> DEFINE P == checkpoint.pending_finalization
             K == (DOMAIN P \cup {height}) \ {F}
  <2>1. checkpoint'.pending_finalization
            = [h \in K |-> IF h = height THEN from_evaluation(dep) ELSE P[h]]
    <3>1. checkpoint'.pending_finalization = NextPendingOf(checkpoint, dep)
      BY <1>5 DEF NextCheckpointOf
    <3> QED
      BY <3>1 DEF NextPendingOf
  <2>2. BuffersMatch
    BY DEF TreesInv
  <2>3. DOMAIN sources = DOMAIN P /\ DOMAIN sources \subseteq Nat
    BY <2>2 DEF BuffersMatch
  <2> HIDE DEF P, F, height
  <2>4. DOMAIN checkpoint'.pending_finalization = K /\ K \subseteq Nat
    BY <1>1, <2>1, <2>3
  <2>5. DOMAIN sources' = K
    BY <1>5, <2>4
  <2>6. ASSUME NEW h \in K
        PROVE  /\ \E s \in Shapes : sources'[h].mined = Mined(h, s)
               /\ sources'[h].answer \in AsMined(sources'[h].mined)
               /\ MatchesHeader(sources'[h].answer)
               /\ Evaluable(DepositsOf(sources'[h].answer))
               /\ checkpoint'.pending_finalization[h]
                      = from_evaluation(DepositsOf(sources'[h].answer))
    <3>1. sources'[h] = IF h = height THEN [mined |-> mined, answer |-> answer] ELSE sources[h]
      BY <1>5, <2>4
    <3>2. checkpoint'.pending_finalization[h]
              = IF h = height THEN from_evaluation(dep) ELSE P[h]
      BY <2>1
    <3>3. CASE h = height
      <4>1. sources'[h].mined = mined /\ sources'[h].answer = answer
        BY <3>1, <3>3
      <4>2. checkpoint'.pending_finalization[h] = from_evaluation(DepositsOf(answer))
        BY <3>2, <3>3 DEF dep
      <4>3. Evaluable(DepositsOf(answer))
        BY <1>3 DEF dep
      <4>4. mined = Mined(h, shape)
        BY <3>3 DEF mined, height
      <4> QED
        BY <1>2, <1>3, <4>1, <4>2, <4>3, <4>4
    <3>4. CASE h # height
      <4>1. h \in DOMAIN sources
        BY <2>3, <3>4
      <4> QED
        BY <2>2, <3>1, <3>2, <3>4, <4>1 DEF BuffersMatch, P
    <3> QED
      BY <3>3, <3>4
  <2> HIDE DEF K
  <2> QED
    BY <1>9, <2>4, <2>5, <2>6 DEF BuffersMatch
<1> QED
  BY <1>8, <1>9, <1>10

\* One attempt at the next height.
LEMMA PrepareStep ==
    ASSUME TreesInv, NEW shape, NEW answer, NEW finalized, NEW ev,
           Fetched(shape, answer, finalized, ev), Prepare(shape, answer, finalized, ev)
    PROVE  TreesInv'
<1> DEFINE height == checkpoint.height + 1
           mined == Mined(height, shape)
           dep == DepositsOf(mined)
           deposits == Deposits(build_deposit_claim_witness(answer, checkpoint))
           accepted == Accepts(answer, finalized, ev)
           about == ev # None /\ ev.height = height
           final == FinalizedHeight \in DOMAIN sources
           honest == /\ answer = mined
                     /\ final => sources[FinalizedHeight]
                                    = [mined |-> finalized, answer |-> finalized]
           asMined == /\ answer \in AsMined(mined)
                      /\ final => finalized \in AsMined(sources[FinalizedHeight].mined)
           evaluable == Evaluable(dep)
           room == /\ Len(checkpoint.claim_history) + Len(dep) <= HistoryLimit
                   /\ Len(checkpoint.txo_block_history) < HistoryLimit
           consistent == about => ev.scripts /\ \E d \in ToSet(dep) : Names(ev, d)
           claimed == about => \E d \in ToSet(deposits) : Names(ev, d)
<1>1. last' = [accepted |-> accepted, honest |-> honest, asMined |-> asMined,
               evaluable |-> evaluable, room |-> room,
               consistent |-> consistent, claimed |-> claimed]
  BY DEF Prepare
<1>2. honest /\ evaluable /\ room /\ consistent => accepted
  <2>1. SUFFICES ASSUME honest, evaluable, room, consistent PROVE accepted
    OBVIOUS
  <2>2. Fetched(shape, mined, finalized, ev)
    BY <2>1
  <2>3. final => finalized = sources[FinalizedHeight].answer
    BY <2>1
  <2>4. Accepts(mined, finalized, ev)
    BY <2>1, <2>2, <2>3, Honest
  <2> QED
    BY <2>1, <2>4
<1>3. accepted => asMined
  <2>1. SUFFICES ASSUME accepted PROVE asMined
    OBVIOUS
  <2>2. answer \in AsMined(mined)
    BY <2>1, Accepted
  <2>3. final => finalized \in AsMined(sources[FinalizedHeight].mined)
    BY <2>1, Finalized DEF Accepts, Fetched
  <2> QED
    BY <2>2, <2>3
<1>4. accepted => claimed
  <2>1. SUFFICES ASSUME accepted, about PROVE \E d \in ToSet(deposits) : Names(ev, d)
    OBVIOUS
  <2>2. deposits = DepositsOf(answer)
    BY <2>1, Accepted
  <2>3. \E d \in ToSet(DepositsOf(answer)) : Names(ev, d)
    BY <2>1, EvidenceClaimed
  <2> QED
    BY <2>2, <2>3
<1>5. /\ accepted \in BOOLEAN /\ honest \in BOOLEAN /\ asMined \in BOOLEAN
      /\ evaluable \in BOOLEAN /\ room \in BOOLEAN
      /\ consistent \in BOOLEAN /\ claimed \in BOOLEAN
  BY DEF Accepts, Evaluable
<1>6. HonestBlockAccepted' /\ AcceptedAsMined' /\ EvidenceIsClaimed'
  <2> HIDE DEF accepted, honest, asMined, evaluable, room, consistent, claimed
  <2>1. /\ last'.accepted = accepted /\ last'.honest = honest /\ last'.asMined = asMined
        /\ last'.evaluable = evaluable /\ last'.room = room
        /\ last'.consistent = consistent /\ last'.claimed = claimed
    BY <1>1
  <2> QED
    BY <1>2, <1>3, <1>4, <1>5, <2>1 DEF HonestBlockAccepted, AcceptedAsMined, EvidenceIsClaimed
<1>7. TreesMatch' /\ BuffersMatch' /\ ClaimsAreTheDeposits'
  <2>1. CASE accepted
    BY <2>1, AcceptedStep
  <2>2. CASE ~accepted
    <3>1. UNCHANGED <<checkpoint, tip, sources, owed, repeated, start>>
      BY <2>2 DEF Prepare
    <3>2. TreesMatch /\ BuffersMatch /\ ClaimsAreTheDeposits
      BY DEF TreesInv
    <3> QED
      BY <3>1, <3>2 DEF TreesMatch, BuffersMatch, ClaimsAreTheDeposits
  <2> QED
    BY <2>1, <2>2
<1> QED
  BY <1>6, <1>7 DEF TreesInv

\* An attempt is one of three: any answer under the new header, any evidence
\* file, or any answer under the header that becomes final.
LEMMA NextHeightStep ==
    ASSUME TreesInv, NEW shape \in Shapes, NextHeight(shape)
    PROVE  TreesInv'
<1> DEFINE height == checkpoint.height + 1
           mined == Mined(height, shape)
           F == FinalizedHeight
           final == F \in DOMAIN sources
           refetched == IF final THEN sources[F].mined ELSE None
<1>1. checkpoint.height < start + MaxBlocks
  BY DEF NextHeight
<1>2. height \in Nat
  BY <1>1, Before
<1>3. mined \in Answers(mined)
  <2> HIDE DEF height
  <2> QED
    BY <1>2, MinedDeposits
<1>4. final => refetched \in Answers(sources[F].mined)
  BY DEF Answers, AsMined
<1>5. CASE \E answer \in Answers(mined) : Prepare(shape, answer, refetched, None)
  <2>1. PICK answer \in Answers(mined) : Prepare(shape, answer, refetched, None)
    BY <1>5
  <2>2. Fetched(shape, answer, refetched, None)
    BY <1>1, <1>4, <2>1 DEF Fetched
  <2> QED
    BY <2>1, <2>2, PrepareStep
<1>6. CASE \E ev \in EvidenceFor(mined, height) : Prepare(shape, mined, refetched, ev)
  <2>1. PICK ev \in EvidenceFor(mined, height) : Prepare(shape, mined, refetched, ev)
    BY <1>6
  <2>2. ev # None /\ ev.height = height => ev.vout \in Nat
    <3> HIDE DEF height, mined
    <3> QED
      BY <1>2, <2>1 DEF EvidenceFor
  <2>3. Fetched(shape, mined, refetched, ev)
    BY <1>1, <1>3, <1>4, <2>2 DEF Fetched
  <2> QED
    BY <2>1, <2>3, PrepareStep
<1>7. CASE final /\ \E again \in Answers(refetched) : Prepare(shape, mined, again, None)
  <2>1. PICK again \in Answers(refetched) : Prepare(shape, mined, again, None)
    BY <1>7
  <2>2. Fetched(shape, mined, again, None)
    BY <1>1, <1>3, <1>7, <2>1 DEF Fetched
  <2> QED
    BY <2>1, <2>2, PrepareStep
<1> QED
  BY <1>5, <1>6, <1>7 DEF NextHeight

\* initialize_checkpoint: the checkpoint it writes matches the empty trees.
LEMMA InitialTrees ==
    ASSUME Init
    PROVE  TreesInv
<1> DEFINE txos == [i \in 1..(start + 1) |-> ZeroHash(LeafHeight)]
<1>1. /\ start \in StartHeights /\ start \in Nat /\ checkpoint = initialize_checkpoint(start)
      /\ tip = [height |-> start, claims |-> << >>, txos |-> txos]
      /\ sources = << >> /\ owed = << >> /\ repeated = FALSE /\ last = None
  BY ConstantTypes DEF Init
<1>2. /\ checkpoint.height = start
      /\ checkpoint.claim_frontier
             = Frontier(0, ZeroLeaf, [l \in 1..ClaimHeight |-> ZeroHash(l - 1)])
      /\ checkpoint.txo_block_frontier
             = Frontier(start, ZeroHash(LeafHeight),
                        [l \in 1..TxoHeight |-> ZeroHash(LeafHeight + l - 1)])
      /\ checkpoint.claim_history = << >>
      /\ checkpoint.txo_block_history = (IF start <= HistoryLimit THEN txos ELSE << >>)
      /\ checkpoint.pending_finalization = << >>
  BY <1>1 DEF initialize_checkpoint
<1>3. tip.height = start /\ tip.claims = << >> /\ tip.txos = txos
  BY <1>1
<1>4. ZeroHash(LeafHeight) \in Hash
  BY ZeroHashes, ConstantTypes
<1>5. txos \in Seq(Hash) /\ Len(txos) = start + 1 /\ \A i \in 1..Len(txos) : txos[i] = ZeroHash(LeafHeight)
  BY <1>1, <1>4
<1> HIDE DEF txos
<1>6. LastIndex(txos) = start
  <2>1. txos # << >>
    BY <1>1, <1>5
  <2> QED
    BY <1>1, <1>5, <2>1 DEF LastIndex
<1>7. checkpoint.txo_block_frontier = FrontierOf(txos, TxoHeight, LeafHeight)
  <2>1. FrontierOf(txos, TxoHeight, LeafHeight)
            = Frontier(LastIndex(txos), ZeroHash(LeafHeight),
                       [l \in 1..TxoHeight |-> ZeroHash(LeafHeight + l - 1)])
    BY <1>5, ZeroFrontiers, ConstantTypes
  <2> QED
    BY <1>2, <1>6, <2>1
<1>8. checkpoint.claim_frontier = FrontierOf(<< >>, ClaimHeight, 0)
  <2> DEFINE none == << >>
  <2>1. none \in Seq(Hash) /\ Len(none) = 0 /\ LastIndex(none) = 0
    BY DEF LastIndex
  <2> HIDE DEF none
  <2>2. FrontierOf(none, ClaimHeight, 0)
            = Frontier(LastIndex(none), ZeroHash(0), [l \in 1..ClaimHeight |-> ZeroHash(0 + l - 1)])
    <3>1. \A i \in 1..Len(none) : none[i] = ZeroHash(0)
      BY <2>1
    <3> QED
      BY <2>1, <3>1, ZeroFrontiers, ConstantTypes
  <2>3. \A l \in 1..ClaimHeight : 0 + l - 1 = l - 1
    BY ConstantTypes
  <2>4. [l \in 1..ClaimHeight |-> ZeroHash(0 + l - 1)] = [l \in 1..ClaimHeight |-> ZeroHash(l - 1)]
    BY <2>3
  <2> QED
    BY <1>2, <2>1, <2>2, <2>4, ZeroHashes DEF none
<1>9. TreesMatch
  <2>1. start \in start..(start + MaxBlocks)
    BY <1>1, ConstantTypes
  <2>2. << >> \in Seq(Hash) /\ Len(<< >>) <= HistoryLimit
    BY ConstantTypes
  <2> QED
    BY <1>1, <1>2, <1>3, <1>5, <1>7, <1>8, <2>1, <2>2 DEF TreesMatch
<1>10. BuffersMatch
  BY <1>1, <1>2 DEF BuffersMatch
<1>11. ClaimsAreTheDeposits
  BY <1>1, <1>3 DEF ClaimsAreTheDeposits, Leaves, ToSet
<1>12. HonestBlockAccepted /\ AcceptedAsMined /\ EvidenceIsClaimed
  BY <1>1 DEF HonestBlockAccepted, AcceptedAsMined, EvidenceIsClaimed
<1> QED
  BY <1>9, <1>10, <1>11, <1>12 DEF TreesInv

\* prepare_height, initialize_checkpoint: at every height the checkpoint holds
\* the histories and the frontiers of the trees of the bridge state, the buffers
\* kept are those of the accepted blocks, and the properties below hold.
THEOREM TreesInvariant == Spec => []TreesInv
<1>1. Init => TreesInv
  BY InitialTrees
<1>2. TreesInv /\ [Next]_vars => TreesInv'
  <2> SUFFICES ASSUME TreesInv, [Next]_vars PROVE TreesInv'
    OBVIOUS
  <2>1. ASSUME NEW shape \in Shapes, NextHeight(shape) PROVE TreesInv'
    BY <2>1, NextHeightStep
  <2>2. CASE UNCHANGED vars
    BY <2>2 DEF vars, TreesInv, TreesMatch, BuffersMatch, HonestBlockAccepted,
                ClaimsAreTheDeposits, AcceptedAsMined, EvidenceIsClaimed
  <2>3. CASE AtBound
    BY <2>2, <2>3 DEF AtBound
  <2> QED
    BY <2>1, <2>2, <2>3 DEF Next
<1> QED
  BY <1>1, <1>2, PTL DEF Spec

\* prepare_height: a block as it was mined is not refused while its deposits can
\* be evaluated, the histories have room, the evidence file does not contradict it
\* and the block that becomes final was answered as it was mined.
THEOREM HonestBlockIsAccepted == Spec => []HonestBlockAccepted
<1>1. TreesInv => HonestBlockAccepted
  BY DEF TreesInv
<1> QED
  BY <1>1, TreesInvariant, PTL

\* scan_manager_custody_deposits, evaluate_claim_witness: nothing is claimed but
\* what was mined and nothing is left out; each deposit once and in order while
\* no list that repeats its tail was accepted.
THEOREM ClaimsAreExact == Spec => []ClaimsAreTheDeposits
<1>1. TreesInv => ClaimsAreTheDeposits
  BY DEF TreesInv
<1> QED
  BY <1>1, TreesInvariant, PTL

\* scan_manager_custody_deposits, resolve_finalized_buffers: nothing but the
\* mined transactions, or those with a tail repeated, is accepted under a header.
THEOREM AcceptedIsMined == Spec => []AcceptedAsMined
<1>1. TreesInv => AcceptedAsMined
  BY DEF TreesInv
<1> QED
  BY <1>1, TreesInvariant, PTL

\* validate_live_deposit_script: evidence that is accepted is claimed.
THEOREM EvidenceAlwaysClaimed == Spec => []EvidenceIsClaimed
<1>1. TreesInv => EvidenceIsClaimed
  BY DEF TreesInv
<1> QED
  BY <1>1, TreesInvariant, PTL

=============================================================================
