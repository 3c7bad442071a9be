----------------------------- MODULE MerkleTrees -----------------------------
(***************************************************************************)
(* The tree functions of block_pipeline.rs over a symbolic hash: a hash is *)
(* the sequence of integers that spells its preimage, so that two hashes   *)
(* are equal only if they were computed from the same data.  Indices are   *)
(* the code's, from 0.  The loops of the code are recursive functions over *)
(* the number of rounds.                                                   *)
(***************************************************************************)
EXTENDS Integers, Sequences, SequencesExt

Hash == Seq(Int)

\* hash_impl_*_two_to_one_bytes; -1 and -2 bracket the two arguments.
Node(left, right) == <<-1>> \o left \o right \o <<-2>>

ZeroLeaf == <<0>>

\* SHA256_ZERO_HASHES[n]: the root of an empty tree of height n.
ZeroHash(n) ==
    LET zero[k \in 0..n] == IF k = 0 THEN ZeroLeaf ELSE Node(zero[k-1], zero[k-1])
    IN  zero[n]

\* index >>= 1, once per level.
Shr(index, levels) ==
    LET shifted[l \in 0..levels] == IF l = 0 THEN index ELSE shifted[l-1] \div 2
    IN  shifted[levels]

Bit(n, level) == Shr(n, level) % 2

Sibling(index) == IF index % 2 = 0 THEN index + 1 ELSE index - 1

\* The level above, the odd element out paired with pad.
LevelAbove(level, pad) ==
    LET padded == IF Len(level) % 2 = 1 THEN Append(level, pad) ELSE level
    IN  [i \in 1 .. Len(padded) \div 2 |-> Node(padded[2*i - 1], padded[2*i])]

Parent(value, index, sibling) ==
    IF index % 2 = 0 THEN Node(value, sibling) ELSE Node(sibling, value)

\* value at index, hashed with its siblings on the given number of levels.
PathNode(value, index, siblings, levels) ==
    LET current[l \in 0..levels] ==
            IF l = 0 THEN value
            ELSE Parent(current[l-1], Shr(index, l - 1), siblings[l])
    IN  current[levels]

\* Where a proof leads.
PathRoot(value, index, siblings) == PathNode(value, index, siblings, Len(siblings))

-----------------------------------------------------------------------------
\* Bitcoin's tree pairs the odd element out with itself, until one is left.
BitcoinLevel(leaves, depth) ==
    LET level[d \in 0..depth] ==
            IF d = 0 THEN leaves
            ELSE IF Len(level[d-1]) = 1 THEN level[d-1]
            ELSE LevelAbove(level[d-1], Last(level[d-1]))
    IN  level[depth]

\* A level of n hashes has one left after fewer than n rounds.
BitcoinDepth(leaves) ==
    CHOOSE d \in 0..Len(leaves) : /\ Len(BitcoinLevel(leaves, d)) = 1
                                  /\ \A e \in 0..(d-1) : Len(BitcoinLevel(leaves, e)) # 1

bitcoin_merkle_root(leaves) == Head(BitcoinLevel(leaves, BitcoinDepth(leaves)))

bitcoin_merkle_siblings(leaves, index) ==
    [l \in 1..BitcoinDepth(leaves) |->
        LET level == BitcoinLevel(leaves, l - 1)
            other == Sibling(Shr(index, l - 1))
        IN  IF other < Len(level) THEN level[other + 1] ELSE Last(level)]

SparseLevel(leaves, depth, leaf_height) ==
    LET level[d \in 0..depth] ==
            IF d = 0 THEN leaves
            ELSE LevelAbove(level[d-1], ZeroHash(leaf_height + d - 1))
    IN  level[depth]

\* The path of leaf target in a tree of the given height whose other leaves,
\* beyond the known ones, are empty subtrees of height leaf_height.
sparse_sha256_merkle_siblings(leaves, target, height, leaf_height) ==
    [l \in 1..height |->
        LET level == SparseLevel(leaves, l - 1, leaf_height)
            other == Sibling(Shr(target, l - 1))
        IN  IF other < Len(level) THEN level[other + 1]
                                  ELSE ZeroHash(leaf_height + l - 1)]

Frontier(index, value, siblings) ==
    [index |-> index, value |-> value, siblings |-> siblings]

NoCarry(f, height, leaf_height) ==
    [l \in 1..height |->
        IF Bit(f.index + 1, l - 1) = 0 THEN ZeroHash(leaf_height + l - 1)
                                       ELSE f.siblings[l]]

\* The path of the leaf after the frontier's, from the frontier alone: a level
\* whose bit becomes 1 has the subtree just completed on its left.
sequential_next_leaf_siblings(f, height, leaf_height) ==
    LET next_frontier(l) == IF Bit(f.index, l) = 0
                            THEN PathNode(f.value, f.index, f.siblings, l)
                            ELSE f.siblings[l + 1]
    IN  [l \in 1..height |->
            IF Bit(f.index + 1, l - 1) = 0 THEN ZeroHash(leaf_height + l - 1)
                                           ELSE next_frontier(l - 1)]

\* decode's length check and the final index check of frontier_root.
FrontierFits(f, height) == Len(f.siblings) = height /\ Shr(f.index, height) = 0

frontier_root(f) == PathRoot(f.value, f.index, f.siblings)

-----------------------------------------------------------------------------
\* Reference: node index of the full tree, height levels above the leaves, by
\* halves; leaves beyond the sequence are empty subtrees of height leaf_height.
TreeNode(leaves, leaf_height, height, index) ==
    LET node[h \in 0..height] ==
            [i \in Nat |->
                IF h > 0 THEN Node(node[h-1][2*i], node[h-1][2*i + 1])
                ELSE IF i < Len(leaves) THEN leaves[i + 1] ELSE ZeroHash(leaf_height)]
    IN  node[height][index]

TreeRoot(leaves, height, leaf_height) == TreeNode(leaves, leaf_height, height, 0)

=============================================================================
