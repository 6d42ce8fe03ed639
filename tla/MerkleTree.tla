------------------------------ MODULE MerkleTree ------------------------------
(***************************************************************************)
(* The merkle tree of a block (sha256::merkle_root, block::merkle_branch)  *)
(* and what block.cpp knows of lists of transactions with equal roots.     *)
(*                                                                         *)
(* A hash is what was hashed: a leaf is a singleton, a node is the pair of *)
(* its children, so two hashes are equal exactly if their preimages are.   *)
(***************************************************************************)
EXTENDS Integers, Sequences

NullHash == <<>>
Leaf(id) == <<id>>
Node(left, right) == <<left, right>>

is_odd(n) == n % 2 = 1
ceilinged_divide(a, b) == (a + b - 1) \div b

merkle_hash(digests) ==
    [i \in 1..(Len(digests) \div 2) |-> Node(digests[2 * i - 1], digests[2 * i])]

Paired(digests) ==
    IF is_odd(Len(digests)) THEN Append(digests, digests[Len(digests)]) ELSE digests

\* The digests at each depth, from the leaves on.
Depths(leaves) ==
    LET level[d \in 0..Len(leaves)] ==
            IF d = 0 THEN leaves
            ELSE LET digests == level[d - 1]
                 IN  IF Len(digests) > 1 THEN merkle_hash(Paired(digests)) ELSE digests
    IN  level

merkle_root(leaves) ==
    IF leaves = <<>> THEN NullHash ELSE Depths(leaves)[Len(leaves)][1]

\* The sibling of the node above position, at each depth but the last: the
\* loop's state after each round, in which only the last digest is left alone.
\* Mutant: a node at an even position is its own sibling.
sibling_even(at) == IF is_odd(at) THEN at - 1 ELSE at
sibling(at) == IF is_odd(at) THEN at - 1 ELSE at + 1

Ascents(position, leaves) ==
    LET step(s) ==
            LET digests == Paired(s.leaves)
            IN  IF Len(s.leaves) <= 1 THEN s
                ELSE [at |-> s.at \div 2, leaves |-> merkle_hash(digests),
                      branch |-> Append(s.branch, digests[sibling(s.at) + 1])]
        loop[n \in 0..Len(leaves)] ==
            IF n = 0 THEN [at |-> position, leaves |-> leaves, branch |-> <<>>]
            ELSE step(loop[n - 1])
    IN  loop
merkle_branch(position, leaves) ==
    IF position >= Len(leaves) THEN <<>> ELSE Ascents(position, leaves)[Len(leaves)].branch

\* The root that a branch leads to from a leaf, by the bits of its position.
Ascended(leaf, position, branch) ==
    LET path[d \in 0..Len(branch)] ==
            IF d = 0 THEN [at |-> position, hash |-> leaf]
            ELSE LET below == path[d - 1]
                 IN  [at |-> below.at \div 2,
                      hash |-> IF is_odd(below.at) THEN Node(branch[d], below.hash)
                                                   ELSE Node(below.hash, branch[d])]
    IN  path

-------------------------------------------------------------------------------
(* Malleation: merkle clones the last node of a level of odd length.       *)

\* The leaf at a position within the last node at the depth of width leaves, which
\* covers count of them and is padded by cloning.  Positions count from zero, as in
\* the code.  The loop halves its width, and adds up the halves that it leaves
\* behind on its way to the right.
merkle_index(position, count, width) ==
    LET index[w \in 1..width] ==
            [at \in 0..(w - 1) |-> [c \in 1..w |->
                IF c >= w THEN at
                ELSE IF c <= w \div 2 THEN index[w \div 2][at % (w \div 2)][c]
                ELSE IF at < w \div 2 THEN at
                ELSE w \div 2 + index[w \div 2][at - w \div 2][c - w \div 2]]]
    IN  index[width][position][count]

\* The last two nodes at the depth of width leaves are equal, in an even
\* number of nodes above two.
\* Mutant: a last node short of leaves is not padded.
is_malleated32_unpadded(txids, width) ==
    LET count == ceilinged_divide(Len(txids), width)
        last == (count - 1) * width
    IN  /\ width <= Len(txids) \div 2
        /\ ~is_odd(count) /\ count > 2
        /\ \A at \in 0..(width - 1) :
            /\ last + at < Len(txids)
            /\ txids[last + at + 1] = txids[last - width + at + 1]
is_malleated32_width(txids, width) ==
    LET count == ceilinged_divide(Len(txids), width)
        last == (count - 1) * width
    IN  /\ width <= Len(txids) \div 2
        /\ ~is_odd(count) /\ count > 2
        /\ \A at \in 0..(width - 1) :
            txids[last + merkle_index(at, Len(txids) - last, width) + 1]
                = txids[last - width + at + 1]

\* The widths of the loop: two to the power.
Doubled(power) ==
    LET width[p \in 0..power] == IF p = 0 THEN 1 ELSE 2 * width[p - 1]
    IN  width[power]
is_malleated32(txids) ==
    \E power \in 0..Len(txids) : is_malleated32_width(txids, Doubled(power))
===============================================================================
