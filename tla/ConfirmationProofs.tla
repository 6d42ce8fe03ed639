--------------------------- MODULE ConfirmationProofs ---------------------------
(***************************************************************************)
(* Proofs about Confirmation and the rules that it applies, for any lists  *)
(* of transactions that are mined, any peers, rules and limits.            *)
(***************************************************************************)
EXTENDS Confirmation, NaturalsInduction, SequenceTheorems, WellFoundedInduction, TLAPS

-------------------------------------------------------------------------------
(* Numbers.                                                                *)

\* A set of numbers that is not empty has a least one.
LEMMA HasLeast ==
    ASSUME NEW T, T \subseteq Nat, T # {}
    PROVE  \E n \in T : \A m \in T : n <= m
<1>1. PICK n \in T : \A m \in T : ~(<<m, n>> \in OpToRel(<, Nat))
  BY NatLessThanWellFounded, WFMin
<1>2. \A m \in T : ~(m < n)
  BY <1>1 DEF OpToRel
<1> QED
  BY <1>2

\* A set with zero and the successor of each of its numbers has every number.
LEMMA SuccessorsFill ==
    ASSUME NEW S, 0 \in S, \A n \in Nat : n \in S => n + 1 \in S
    PROVE  Nat \subseteq S
<1> SUFFICES ASSUME Nat \ S # {} PROVE FALSE
  OBVIOUS
<1>1. PICK n \in Nat \ S : \A m \in Nat \ S : n <= m
  BY HasLeast
<1>2. n \in Nat /\ n # 0 /\ n - 1 \in Nat /\ ~(n <= n - 1) /\ (n - 1) + 1 = n
  BY <1>1
<1>3. n - 1 \in S
  BY <1>1, <1>2
<1> QED
  BY <1>1, <1>2, <1>3

-------------------------------------------------------------------------------
(* The merkle tree: a branch proves its leaf.                              *)

\* What the recursive definitions of the tree say of the entries up to n.
Level(digests) == IF Len(digests) > 1 THEN merkle_hash(Paired(digests)) ELSE digests
LevelFrom(f, leaves, n) ==
    [d \in 0..n |-> IF d = 0 THEN leaves ELSE Level(f[d - 1])]

Ascent(s) ==
    IF Len(s.leaves) <= 1 THEN s
    ELSE [at |-> s.at \div 2, leaves |-> merkle_hash(Paired(s.leaves)),
          branch |-> Append(s.branch, Paired(s.leaves)[sibling(s.at) + 1])]
Foot(position, leaves) == [at |-> position, leaves |-> leaves, branch |-> <<>>]
AscentFrom(f, position, leaves, n) ==
    [d \in 0..n |-> IF d = 0 THEN Foot(position, leaves) ELSE Ascent(f[d - 1])]

PathStep(below, digest) ==
    [at |-> below.at \div 2,
     hash |-> IF is_odd(below.at) THEN Node(digest, below.hash) ELSE Node(below.hash, digest)]
PathFrom(f, leaf, position, branch, n) ==
    [d \in 0..n |-> IF d = 0 THEN [at |-> position, hash |-> leaf]
                    ELSE PathStep(f[d - 1], branch[d])]

\* There is a list of the levels of a tree, however many (merkle_root).
LEMMA LevelsExist ==
    ASSUME NEW leaves
    PROVE  \A n \in Nat : \E f : f = LevelFrom(f, leaves, n)
<1> DEFINE X == {n \in Nat : \E f : f = LevelFrom(f, leaves, n)}
<1>1. 0 \in X
  <2> DEFINE g == [d \in 0..0 |-> leaves]
  <2>1. g = LevelFrom(g, leaves, 0)
    BY DEF LevelFrom
  <2> QED BY <2>1
<1>2. ASSUME NEW n \in Nat, n \in X PROVE n + 1 \in X
  <2>1. PICK h : h = LevelFrom(h, leaves, n)
    BY <1>2
  <2> DEFINE g == [d \in 0..(n + 1) |-> IF d <= n THEN h[d] ELSE Level(h[n])]
  <2>2. \A d \in 0..n : h[d] = IF d = 0 THEN leaves ELSE Level(h[d - 1])
    BY <2>1 DEF LevelFrom
  <2>3. \A d \in 0..n : g[d] = h[d]
    OBVIOUS
  <2>4. g[n + 1] = Level(h[n])
    OBVIOUS
  <2>5. g = [d \in 0..(n + 1) |-> g[d]]
    OBVIOUS
  <2> HIDE DEF g
  <2>6. ASSUME NEW d \in 0..(n + 1)
        PROVE  g[d] = IF d = 0 THEN leaves ELSE Level(g[d - 1])
    <3>1. CASE d = 0
      BY <2>2, <2>3, <3>1
    <3>2. CASE d \in 1..n
      <4>1. d \in 0..n /\ d - 1 \in 0..n /\ d # 0
        BY <3>2
      <4> QED BY <2>2, <2>3, <4>1
    <3>3. CASE d = n + 1
      <4>1. d - 1 = n /\ n \in 0..n /\ d # 0
        BY <3>3
      <4> QED BY <2>3, <2>4, <3>3, <4>1
    <3> QED BY <3>1, <3>2, <3>3
  <2>7. g = LevelFrom(g, leaves, n + 1)
    BY <2>5, <2>6 DEF LevelFrom
  <2> QED BY <2>7
<1> HIDE DEF X
<1>3. Nat \subseteq X
  BY <1>1, <1>2, SuccessorsFill
<1> QED
  BY <1>3 DEF X

\* The same of the rounds of the loop that collects a branch (merkle_branch).
LEMMA AscentsExist ==
    ASSUME NEW position, NEW leaves
    PROVE  \A n \in Nat : \E f : f = AscentFrom(f, position, leaves, n)
<1> DEFINE X == {n \in Nat : \E f : f = AscentFrom(f, position, leaves, n)}
<1>1. 0 \in X
  <2> DEFINE g == [d \in 0..0 |-> Foot(position, leaves)]
  <2>1. g = AscentFrom(g, position, leaves, 0)
    BY DEF AscentFrom
  <2> QED BY <2>1
<1>2. ASSUME NEW n \in Nat, n \in X PROVE n + 1 \in X
  <2>1. PICK h : h = AscentFrom(h, position, leaves, n)
    BY <1>2
  <2> DEFINE g == [d \in 0..(n + 1) |-> IF d <= n THEN h[d] ELSE Ascent(h[n])]
  <2>2. \A d \in 0..n : h[d] = IF d = 0 THEN Foot(position, leaves) ELSE Ascent(h[d - 1])
    BY <2>1 DEF AscentFrom
  <2>3. \A d \in 0..n : g[d] = h[d]
    OBVIOUS
  <2>4. g[n + 1] = Ascent(h[n])
    OBVIOUS
  <2>5. g = [d \in 0..(n + 1) |-> g[d]]
    OBVIOUS
  <2> HIDE DEF g
  <2>6. ASSUME NEW d \in 0..(n + 1)
        PROVE  g[d] = IF d = 0 THEN Foot(position, leaves) ELSE Ascent(g[d - 1])
    <3>1. CASE d = 0
      BY <2>2, <2>3, <3>1
    <3>2. CASE d \in 1..n
      <4>1. d \in 0..n /\ d - 1 \in 0..n /\ d # 0
        BY <3>2
      <4> QED BY <2>2, <2>3, <4>1
    <3>3. CASE d = n + 1
      <4>1. d - 1 = n /\ n \in 0..n /\ d # 0
        BY <3>3
      <4> QED BY <2>3, <2>4, <3>3, <4>1
    <3> QED BY <3>1, <3>2, <3>3
  <2>7. g = AscentFrom(g, position, leaves, n + 1)
    BY <2>5, <2>6 DEF AscentFrom
  <2> QED BY <2>7
<1> HIDE DEF X
<1>3. Nat \subseteq X
  BY <1>1, <1>2, SuccessorsFill
<1> QED
  BY <1>3 DEF X

\* And of the nodes that a branch leads through.
LEMMA PathsExist ==
    ASSUME NEW leaf, NEW position, NEW branch
    PROVE  \A n \in Nat : \E f : f = PathFrom(f, leaf, position, branch, n)
<1> DEFINE X == {n \in Nat : \E f : f = PathFrom(f, leaf, position, branch, n)}
<1>1. 0 \in X
  <2> DEFINE g == [d \in 0..0 |-> [at |-> position, hash |-> leaf]]
  <2>1. g = PathFrom(g, leaf, position, branch, 0)
    BY DEF PathFrom
  <2> QED BY <2>1
<1>2. ASSUME NEW n \in Nat, n \in X PROVE n + 1 \in X
  <2>1. PICK h : h = PathFrom(h, leaf, position, branch, n)
    BY <1>2
  <2> DEFINE g == [d \in 0..(n + 1) |-> IF d <= n THEN h[d] ELSE PathStep(h[n], branch[n + 1])]
  <2>2. \A d \in 0..n : h[d] = IF d = 0 THEN [at |-> position, hash |-> leaf] ELSE PathStep(h[d - 1], branch[d])
    BY <2>1 DEF PathFrom
  <2>3. \A d \in 0..n : g[d] = h[d]
    OBVIOUS
  <2>4. g[n + 1] = PathStep(h[n], branch[n + 1])
    OBVIOUS
  <2>5. g = [d \in 0..(n + 1) |-> g[d]]
    OBVIOUS
  <2> HIDE DEF g
  <2>6. ASSUME NEW d \in 0..(n + 1)
        PROVE  g[d] = IF d = 0 THEN [at |-> position, hash |-> leaf] ELSE PathStep(g[d - 1], branch[d])
    <3>1. CASE d = 0
      BY <2>2, <2>3, <3>1
    <3>2. CASE d \in 1..n
      <4>1. d \in 0..n /\ d - 1 \in 0..n /\ d # 0
        BY <3>2
      <4> QED BY <2>2, <2>3, <4>1
    <3>3. CASE d = n + 1
      <4>1. d - 1 = n /\ n \in 0..n /\ d # 0
        BY <3>3
      <4> QED BY <2>3, <2>4, <3>3, <4>1
    <3> QED BY <3>1, <3>2, <3>3
  <2>7. g = PathFrom(g, leaf, position, branch, n + 1)
    BY <2>5, <2>6 DEF PathFrom
  <2> QED BY <2>7
<1> HIDE DEF X
<1>3. Nat \subseteq X
  BY <1>1, <1>2, SuccessorsFill
<1> QED
  BY <1>3 DEF X

\* So the definitions are what they say.
LEMMA DepthsAre ==
    ASSUME NEW leaves, Len(leaves) \in Nat
    PROVE  \A d \in 0..Len(leaves) :
                Depths(leaves)[d] = IF d = 0 THEN leaves ELSE Level(Depths(leaves)[d - 1])
<1>1. Depths(leaves) = CHOOSE f : f = LevelFrom(f, leaves, Len(leaves))
  BY DEF Depths, LevelFrom, Level
<1>2. \E f : f = LevelFrom(f, leaves, Len(leaves))
  BY LevelsExist
<1>3. Depths(leaves) = LevelFrom(Depths(leaves), leaves, Len(leaves))
  BY <1>1, <1>2
<1> QED
  BY <1>3 DEF LevelFrom

LEMMA AscentsAre ==
    ASSUME NEW position, NEW leaves, Len(leaves) \in Nat
    PROVE  LET a == Ascents(position, leaves)
           IN  \A d \in 0..Len(leaves) :
                    a[d] = IF d = 0 THEN Foot(position, leaves) ELSE Ascent(a[d - 1])
<1> DEFINE a == Ascents(position, leaves)
<1>1. a = CHOOSE f : f = AscentFrom(f, position, leaves, Len(leaves))
  BY DEF Ascents, AscentFrom, Ascent, Foot
<1>2. \E f : f = AscentFrom(f, position, leaves, Len(leaves))
  BY AscentsExist
<1> HIDE DEF a
<1>3. a = AscentFrom(a, position, leaves, Len(leaves))
  BY <1>1, <1>2
<1> QED
  BY <1>3 DEF AscentFrom, a

LEMMA AscendedIs ==
    ASSUME NEW leaf, NEW position, NEW branch, Len(branch) \in Nat
    PROVE  LET f == Ascended(leaf, position, branch)
           IN  \A d \in 0..Len(branch) :
                    f[d] = IF d = 0 THEN [at |-> position, hash |-> leaf]
                           ELSE PathStep(f[d - 1], branch[d])
<1> DEFINE f == Ascended(leaf, position, branch)
<1>1. f = CHOOSE g : g = PathFrom(g, leaf, position, branch, Len(branch))
  BY DEF Ascended, PathFrom, PathStep
<1>2. \E g : g = PathFrom(g, leaf, position, branch, Len(branch))
  BY PathsExist
<1> HIDE DEF f
<1>3. f = PathFrom(f, leaf, position, branch, Len(branch))
  BY <1>1, <1>2
<1> QED
  BY <1>3 DEF PathFrom, f

\* A sequence of whatever it has.
Listing(list) == \E T : list \in Seq(T)

LEMMA FunctionIsListing ==
    ASSUME NEW f, NEW n \in Nat, f = [i \in 1..n |-> f[i]]
    PROVE  Listing(f) /\ Len(f) = n
<1> DEFINE T == {f[i] : i \in 1..n}
<1>1. f \in [1..n -> T]
  OBVIOUS
<1> HIDE DEF T
<1>2. f \in Seq(T)
  BY <1>1, SeqDef, Zenon
<1>3. Len(f) \in Nat /\ DOMAIN f = 1..Len(f)
  BY <1>2, LenProperties
<1>4. DOMAIN f = 1..n
  BY <1>1
<1>5. Len(f) = n
  BY <1>3, <1>4
<1> QED
  BY <1>2, <1>5 DEF Listing

\* A level has half as many nodes, each the hash of two below.
LEMMA LevelIs ==
    ASSUME NEW digests, Listing(digests), Len(digests) > 1
    PROVE  /\ Len(Paired(digests)) \in Nat
           /\ Len(Paired(digests)) % 2 = 0
           /\ Len(Paired(digests)) \in {Len(digests), Len(digests) + 1}
           /\ \A i \in 1..Len(digests) : Paired(digests)[i] = digests[i]
           /\ Listing(Level(digests))
           /\ Len(Level(digests)) = Len(Paired(digests)) \div 2
           /\ \A i \in 1..Len(Level(digests)) :
                Level(digests)[i] = Node(Paired(digests)[2 * i - 1], Paired(digests)[2 * i])
<1>1. PICK T : digests \in Seq(T)
  BY DEF Listing
<1>2. Len(digests) \in Nat /\ digests[Len(digests)] \in T
  BY <1>1, LenProperties, ElementOfSeq
<1> DEFINE P == Paired(digests)
<1>3. /\ P \in Seq(T) /\ Len(P) % 2 = 0 /\ Len(P) \in {Len(digests), Len(digests) + 1}
      /\ \A i \in 1..Len(digests) : P[i] = digests[i]
  <2>1. CASE is_odd(Len(digests))
    <3>1. P = Append(digests, digests[Len(digests)])
      BY <2>1 DEF Paired
    <3>2. P \in Seq(T) /\ Len(P) = Len(digests) + 1
          /\ \A i \in 1..Len(digests) : P[i] = digests[i]
      BY <1>1, <1>2, <3>1, AppendProperties
    <3> QED BY <1>2, <2>1, <3>2 DEF is_odd
  <2>2. CASE ~is_odd(Len(digests))
    BY <1>1, <1>2, <2>2 DEF Paired, is_odd
  <2> QED BY <2>1, <2>2
<1>4. Len(P) \in Nat /\ Len(P) \div 2 \in Nat
  BY <1>2, <1>3
<1>5. Level(digests) = merkle_hash(P)
  BY DEF Level
<1> HIDE DEF P
<1>6. merkle_hash(P) = [i \in 1..(Len(P) \div 2) |-> Node(P[2 * i - 1], P[2 * i])]
  BY DEF merkle_hash
<1>7. merkle_hash(P) = [i \in 1..(Len(P) \div 2) |-> merkle_hash(P)[i]]
  BY <1>6
<1>8. Listing(merkle_hash(P)) /\ Len(merkle_hash(P)) = Len(P) \div 2
  BY <1>4, <1>7, FunctionIsListing
<1> QED
  BY <1>3, <1>4, <1>5, <1>6, <1>8 DEF P

\* A branch that is longer by a digest leads through the same nodes, and one more.
LEMMA PathExtends ==
    ASSUME NEW leaf, NEW position, NEW branch, NEW digest, Listing(branch)
    PROVE  LET longer == Append(branch, digest)
               f == Ascended(leaf, position, longer)
               g == Ascended(leaf, position, branch)
           IN  /\ Listing(longer) /\ Len(longer) = Len(branch) + 1
               /\ f[Len(longer)] = PathStep(g[Len(branch)], digest)
<1> DEFINE longer == Append(branch, digest)
           f == Ascended(leaf, position, longer)
           g == Ascended(leaf, position, branch)
           k == Len(branch)
<1>1. PICK T : branch \in Seq(T)
  BY DEF Listing
<1>2. branch \in Seq(T \union {digest})
  BY <1>1, SeqMonotonic
<1>3. /\ k \in Nat /\ longer \in Seq(T \union {digest}) /\ Len(longer) = k + 1
      /\ longer[k + 1] = digest
      /\ \A d \in 1..k : longer[d] = branch[d]
  BY <1>2, AppendProperties, LenProperties
<1> HIDE DEF longer
<1>4. /\ f[0] = [at |-> position, hash |-> leaf]
      /\ \A d \in 1..(k + 1) : f[d] = PathStep(f[d - 1], longer[d])
  <2>1. Len(longer) \in Nat /\ 0 \in 0..Len(longer)
        /\ \A d \in 1..(k + 1) : d \in 0..Len(longer) /\ d # 0
    BY <1>3
  <2> QED BY <2>1, AscendedIs
<1>5. /\ g[0] = [at |-> position, hash |-> leaf]
      /\ \A d \in 1..k : g[d] = PathStep(g[d - 1], branch[d])
  <2>1. 0 \in 0..k /\ \A d \in 1..k : d \in 0..k /\ d # 0
    BY <1>3
  <2> QED BY <1>3, <2>1, AscendedIs
<1> HIDE DEF f, g, k
<1> DEFINE X == {d \in Nat : d <= k => f[d] = g[d]}
<1>6. 0 \in X
  BY <1>4, <1>5
<1>7. ASSUME NEW d \in Nat, d \in X PROVE d + 1 \in X
  <2> SUFFICES ASSUME d + 1 <= k PROVE f[d + 1] = g[d + 1]
    OBVIOUS
  <2>1. d + 1 \in 1..k /\ d + 1 \in 1..(k + 1) /\ (d + 1) - 1 = d /\ d <= k
    BY <1>3
  <2>2. f[d + 1] = PathStep(f[d], longer[d + 1]) /\ g[d + 1] = PathStep(g[d], branch[d + 1])
    BY <1>4, <1>5, <2>1
  <2>3. f[d] = g[d] /\ longer[d + 1] = branch[d + 1]
    BY <1>3, <1>7, <2>1
  <2> QED BY <2>2, <2>3
<1> HIDE DEF X
<1>8. k \in X
  BY <1>3, <1>6, <1>7, SuccessorsFill
<1>9. f[k] = g[k]
  BY <1>3, <1>8 DEF X
<1>10. f[k + 1] = PathStep(f[k], longer[k + 1])
  <2>1. k + 1 \in 1..(k + 1) /\ (k + 1) - 1 = k
    BY <1>3
  <2> QED BY <1>4, <2>1
<1>11. Listing(longer)
  BY <1>3 DEF Listing
<1> QED
  BY <1>3, <1>9, <1>10, <1>11 DEF f, g, k, longer

\* The node above a node is the hash of it and its sibling.
LEMMA SiblingHashed ==
    ASSUME NEW digests, Listing(digests), Len(digests) > 1, NEW at \in 0..(Len(digests) - 1)
    PROVE  /\ at \div 2 \in 0..(Len(Level(digests)) - 1)
           /\ PathStep([at |-> at, hash |-> digests[at + 1]], Paired(digests)[sibling(at) + 1])
                = [at |-> at \div 2, hash |-> Level(digests)[at \div 2 + 1]]
<1> DEFINE P == Paired(digests)
           up == at \div 2
<1>1. Len(digests) \in Nat
  BY LenProperties DEF Listing
<1>2. /\ Len(P) \in Nat /\ Len(P) % 2 = 0 /\ Len(P) \in {Len(digests), Len(digests) + 1}
      /\ \A i \in 1..Len(digests) : P[i] = digests[i]
      /\ Len(Level(digests)) = Len(P) \div 2
      /\ \A i \in 1..Len(Level(digests)) : Level(digests)[i] = Node(P[2 * i - 1], P[2 * i])
  BY LevelIs
<1> HIDE DEF P
<1>3. at \in Nat /\ at + 1 \in 1..Len(digests) /\ P[at + 1] = digests[at + 1]
  BY <1>1, <1>2
<1>4. up \in 0..(Len(Level(digests)) - 1) /\ up + 1 \in 1..Len(Level(digests))
  BY <1>1, <1>2
<1>5. Level(digests)[up + 1] = Node(P[2 * (up + 1) - 1], P[2 * (up + 1)])
  BY <1>2, <1>4
<1>6. CASE is_odd(at)
  <2>1. 2 * (up + 1) - 1 = at /\ 2 * (up + 1) = at + 1 /\ sibling(at) + 1 = at
    BY <1>3, <1>6 DEF is_odd, sibling
  <2>2. Level(digests)[up + 1] = Node(P[at], P[at + 1])
    BY <1>5, <2>1
  <2> QED BY <1>3, <1>4, <1>6, <2>1, <2>2 DEF PathStep, P
<1>7. CASE ~is_odd(at)
  <2>1. 2 * (up + 1) - 1 = at + 1 /\ 2 * (up + 1) = at + 2 /\ sibling(at) + 1 = at + 2
    BY <1>3, <1>7 DEF is_odd, sibling
  <2>2. Level(digests)[up + 1] = Node(P[at + 1], P[at + 2])
    BY <1>5, <2>1
  <2> QED BY <1>3, <1>4, <1>7, <2>1, <2>2 DEF PathStep, P
<1> QED
  BY <1>6, <1>7

\* After each round the loop has a level of the tree, which has fewer nodes than
\* the one before, and what it collected leads from the leaf to a node of it.
LEMMA BranchLeads ==
    ASSUME NEW leaves, Listing(leaves), NEW at \in 1..Len(leaves)
    PROVE  LET branch == merkle_branch(at - 1, leaves)
           IN  Ascended(leaves[at], at - 1, branch)[Len(branch)].hash = merkle_root(leaves)
<1> DEFINE a == Ascents(at - 1, leaves)
           level == Depths(leaves)
           N == Len(leaves)
           Path(branch) == Ascended(leaves[at], at - 1, branch)
           branch == merkle_branch(at - 1, leaves)
<1>0. N \in Nat /\ N # 0 /\ at - 1 \in Nat /\ at - 1 < N /\ leaves # <<>>
  BY LenProperties DEF Listing
<1>1. \A d \in 0..N : level[d] = IF d = 0 THEN leaves ELSE Level(level[d - 1])
  BY <1>0, DepthsAre
<1>2. \A d \in 0..N : a[d] = IF d = 0 THEN Foot(at - 1, leaves) ELSE Ascent(a[d - 1])
  BY <1>0, AscentsAre
<1>3. branch = a[N].branch /\ merkle_root(leaves) = level[N][1]
  BY <1>0 DEF merkle_branch, merkle_root
<1> HIDE DEF a, level, branch
<1> DEFINE Led(n) ==
            /\ a[n].leaves = level[n]
            /\ Listing(level[n])
            /\ Len(level[n]) \in Nat /\ Len(level[n]) > 0
            /\ Len(level[n]) > 1 => Len(level[n]) + n <= N
            /\ a[n].at \in 0..(Len(level[n]) - 1)
            /\ Listing(a[n].branch)
            /\ Path(a[n].branch)[Len(a[n].branch)]
                    = [at |-> a[n].at, hash |-> level[n][a[n].at + 1]]
           X == {n \in Nat : n <= N => Led(n)}
<1>4. 0 \in X
  <2>1. a[0] = Foot(at - 1, leaves) /\ level[0] = leaves
    BY <1>0, <1>1, <1>2
  <2>2. a[0].at = at - 1 /\ a[0].leaves = leaves /\ a[0].branch = <<>>
    BY <2>1 DEF Foot
  <2>3. Listing(<<>>) /\ Len(<<>>) = 0
    BY EmptySeq DEF Listing
  <2>4. Path(<<>>)[0] = [at |-> at - 1, hash |-> leaves[at]]
    <3>1. 0 \in 0..Len(<<>>) /\ Len(<<>>) \in Nat
      BY <2>3
    <3> QED BY <3>1, AscendedIs
  <2>5. (at - 1) + 1 = at /\ at - 1 \in 0..(N - 1) /\ N + 0 <= N
    BY <1>0
  <2> HIDE DEF Path
  <2>6. Led(0)
    BY <1>0, <2>1, <2>2, <2>3, <2>4, <2>5
  <2> QED BY <2>6
<1>5. ASSUME NEW n \in Nat, n \in X PROVE n + 1 \in X
  <2> HIDE DEF Led
  <2> SUFFICES ASSUME n + 1 <= N PROVE Led(n + 1)
    OBVIOUS
  <2>1. n \in 0..N /\ n + 1 \in 0..N /\ n + 1 # 0 /\ (n + 1) - 1 = n /\ n <= N
    BY <1>0
  <2>2. Led(n)
    BY <1>5, <2>1
  <2>3. level[n + 1] = Level(level[n]) /\ a[n + 1] = Ascent(a[n])
    BY <1>1, <1>2, <2>1
  <2>4. CASE Len(level[n]) <= 1
    <3>1. level[n + 1] = level[n] /\ a[n + 1] = a[n]
      BY <2>2, <2>3, <2>4 DEF Led, Level, Ascent
    <3> HIDE DEF Path
    <3>2. Len(level[n + 1]) \in Nat /\ ~(Len(level[n + 1]) > 1)
      BY <2>2, <2>4, <3>1 DEF Led
    <3> QED BY <2>2, <3>1, <3>2 DEF Led
  <2>5. CASE Len(level[n]) > 1
    <3> DEFINE digest == Paired(level[n])[sibling(a[n].at) + 1]
    <3>1. Ascent(a[n]) = [at |-> a[n].at \div 2, leaves |-> merkle_hash(Paired(level[n])),
                          branch |-> Append(a[n].branch, digest)]
      BY <2>2, <2>5 DEF Led, Ascent
    <3>2. /\ a[n + 1].at = a[n].at \div 2 /\ a[n + 1].leaves = level[n + 1]
          /\ a[n + 1].branch = Append(a[n].branch, digest)
      BY <2>3, <2>5, <3>1 DEF Level
    <3> HIDE DEF digest
    <3>3. /\ Listing(a[n + 1].branch)
          /\ Path(a[n + 1].branch)[Len(a[n + 1].branch)]
                = PathStep(Path(a[n].branch)[Len(a[n].branch)], digest)
      <4>1. Listing(a[n].branch)
        BY <2>2 DEF Led
      <4>2. /\ Listing(Append(a[n].branch, digest))
            /\ Path(Append(a[n].branch, digest))[Len(Append(a[n].branch, digest))]
                    = PathStep(Path(a[n].branch)[Len(a[n].branch)], digest)
        <5> HIDE DEF Led, digest
        <5> QED BY <4>1, PathExtends
      <4> HIDE DEF Path
      <4> QED BY <3>2, <4>2
    <3>4. /\ Listing(level[n + 1])
          /\ Len(level[n + 1]) = Len(Paired(level[n])) \div 2
          /\ Len(Paired(level[n])) \in {Len(level[n]), Len(level[n]) + 1}
          /\ Len(Paired(level[n])) % 2 = 0
      BY <2>2, <2>3, <2>5, LevelIs DEF Led
    <3>5. /\ Len(level[n + 1]) \in Nat /\ Len(level[n + 1]) > 0
          /\ Len(level[n + 1]) > 1 => Len(level[n + 1]) + (n + 1) <= N
      <4> DEFINE p == Len(level[n])
                 q == Len(Paired(level[n]))
                 r == Len(level[n + 1])
      <4>1. p \in Nat /\ p > 1 /\ p + n <= N
        BY <2>2, <2>5 DEF Led
      <4>2. r = q \div 2 /\ q \in {p, p + 1} /\ q % 2 = 0
        BY <3>4
      <4> HIDE DEF p, q, r
      <4>3. r \in Nat /\ r > 0 /\ (r > 1 => r + (n + 1) <= N)
        BY <1>0, <4>1, <4>2
      <4> QED BY <4>3 DEF r
    <3>6. /\ a[n].at \div 2 \in 0..(Len(level[n + 1]) - 1)
          /\ PathStep([at |-> a[n].at, hash |-> level[n][a[n].at + 1]], digest)
                = [at |-> a[n].at \div 2, hash |-> level[n + 1][a[n].at \div 2 + 1]]
      BY <2>2, <2>3, <2>5, SiblingHashed DEF Led, digest
    <3> HIDE DEF Path
    <3> QED BY <2>2, <3>2, <3>3, <3>4, <3>5, <3>6 DEF Led
  <2> QED
    <3> HIDE DEF Led
    <3>1. Len(level[n]) <= 1 \/ Len(level[n]) > 1
      BY <2>2 DEF Led
    <3> QED BY <2>4, <2>5, <3>1
<1>6. Led(N)
  <2>1. N \in X
    <3> HIDE DEF X
    <3> QED BY <1>0, <1>4, <1>5, SuccessorsFill
  <2> HIDE DEF Led
  <2> QED BY <1>0, <2>1
<1>7. Len(level[N]) = 1 /\ a[N].at = 0
  <2> HIDE DEF Path
  <2>1. Len(level[N]) \in Nat /\ ~(Len(level[N]) > 1) /\ Len(level[N]) > 0
    BY <1>0, <1>6
  <2>2. a[N].at \in 0..(Len(level[N]) - 1)
    BY <1>6
  <2>3. Len(level[N]) = 1
    <3> DEFINE k == Len(level[N])
    <3> HIDE DEF k
    <3>1. k \in Nat /\ ~(k > 1) /\ k > 0
      BY <2>1 DEF k
    <3>2. k = 1
      BY <3>1
    <3> QED BY <3>2 DEF k
  <2> QED BY <2>2, <2>3
<1>8. Path(branch)[Len(branch)] = [at |-> 0, hash |-> level[N][0 + 1]]
  <2> HIDE DEF Path
  <2> QED BY <1>3, <1>6, <1>7
<1>9. Path(branch)[Len(branch)].hash = level[N][1]
  <2> HIDE DEF Path
  <2> QED BY <1>8
<1> QED
  BY <1>3, <1>9 DEF branch

-------------------------------------------------------------------------------
(* What peers send.                                                        *)

\* A transaction that was mined, whatever its witness is now, and lists of them.
SeenTx(tx) ==
    /\ IsTransaction(tx)
    /\ \E mined \in Mined : tx.id = mined.id /\ tx.outs = mined.outs
SeenList(txs) == Listing(txs) /\ \A i \in DOMAIN txs : SeenTx(txs[i])

LEMMA MinedSeen ==
    ASSUME NEW txs \in Seq(Mined)
    PROVE  SeenList(txs)
<1>1. \A i \in DOMAIN txs : txs[i] \in Mined
  BY LenProperties, ElementOfSeq
<1>2. \A i \in DOMAIN txs : SeenTx(txs[i])
  BY <1>1, ConfirmationAssumption DEF SeenTx
<1> QED
  BY <1>2 DEF SeenList, Listing

\* Transactions put together from pairs of hashes are found out by their size.
LEMMA PairsMalleated ==
    ASSUME NEW txs, NEW n \in Nat \ {0}, NEW folded,
           folded = [i \in 1..n |-> Paired64(txs[2 * i - 1], txs[2 * i])]
    PROVE  is_malleated(folded)
<1>1. /\ IsTransaction(Genesis) /\ is_coinbase(Genesis)
  BY ConfirmationAssumption DEF Mined
<1>2. Len(Genesis.ins) = 1 /\ 1 \in DOMAIN Genesis.ins /\ IsInput(Genesis.ins[1])
  <2>1. Genesis.ins \in Seq(Range(Genesis.ins)) /\ Len(Genesis.ins) = 1
    BY <1>1 DEF IsTransaction, is_coinbase
  <2>2. 1 \in DOMAIN Genesis.ins
    BY <2>1, LenProperties
  <2> QED BY <1>1, <2>1, <2>2 DEF IsTransaction, Range
<1>3. ASSUME NEW left, NEW right
      PROVE  /\ Paired64(left, right).size = TwoHashes
             /\ ~is_coinbase(Paired64(left, right))
  <2> DEFINE in == [Genesis.ins[1] EXCEPT !.point = <<left.id, 1>>]
             tx == Paired64(left, right)
  <2>1. in.point = <<left.id, 1>>
    BY <1>2 DEF IsInput
  <2> HIDE DEF in
  <2>2. tx = [Genesis EXCEPT !.id = Node(left.id, right.id), !.size = TwoHashes, !.ins = <<in>>]
    BY DEF Paired64, in
  <2>3. tx.size = TwoHashes /\ tx.ins = <<in>>
    BY <1>1, <2>2 DEF IsTransaction
  <2>4. ~is_null(tx.ins[1])
    BY <2>1, <2>3 DEF is_null, NullPoint
  <2> QED BY <2>3, <2>4 DEF is_coinbase
<1>4. Listing(folded) /\ Len(folded) = n
  <2>1. folded = [i \in 1..n |-> folded[i]]
    BY Zenon
  <2> QED BY <2>1, FunctionIsListing
<1>5. folded # <<>> /\ 1 \in DOMAIN folded
  BY <1>4
<1>6. is_malleated64(folded)
  BY <1>3, <1>5 DEF is_malleated64
<1> QED
  BY <1>6 DEF is_malleated

\* Whatever else a peer may send is of transactions that were mined.
LEMMA OffersSeen ==
    ASSUME NEW txs \in Seq(Mined), NEW offer \in Offers(txs)
    PROVE  SeenList(offer) \/ (offer \in Halved(txs) /\ is_malleated(offer))
<1>0. Len(txs) \in Nat /\ DOMAIN txs = 1..Len(txs) /\ \A i \in 1..Len(txs) : txs[i] \in Mined
  BY LenProperties, ElementOfSeq
<1>1. CASE offer = txs
  BY <1>1, MinedSeen
<1>2. CASE offer = Front(txs)
  <2>1. SubSeq(txs, 1, Len(txs) - 1) \in Seq(Mined)
    <3>1. Len(txs) - 1 \in Int /\ \A i \in 1..(Len(txs) - 1) : i \in 1..Len(txs)
      BY <1>0
    <3> QED BY <1>0, <3>1, SubSeqProperties
  <2> QED BY <1>2, <2>1, MinedSeen DEF Front
<1>3. ASSUME NEW clones \in Clones(txs), offer = txs \o clones PROVE SeenList(offer)
  <2>1. PICK n \in 1..MaxClones : clones \in [1..n -> Range(txs)]
    BY DEF Clones
  <2>2. n \in Nat /\ Range(txs) \subseteq Mined
    BY <1>0, ConfirmationAssumption DEF Range
  <2>3. clones \in [1..n -> Mined]
    BY <2>1, <2>2
  <2>4. clones \in Seq(Mined)
    BY <2>2, <2>3, SeqDef
  <2>5. txs \o clones \in Seq(Mined)
    BY <2>4, ConcatProperties
  <2> QED BY <1>3, <2>5, MinedSeen
<1>4. CASE offer \in Halved(txs)
  <2>1. /\ ~is_odd(Len(txs))
        /\ offer = [i \in 1..(Len(txs) \div 2) |-> Paired64(txs[2 * i - 1], txs[2 * i])]
    BY <1>4 DEF Halved
  <2>2. CASE Len(txs) = 0
    <3>1. offer = [i \in 1..0 |-> offer[i]]
      BY <2>1, <2>2
    <3>2. DOMAIN offer = {}
      BY <3>1
    <3>3. 0 \in Nat
      OBVIOUS
    <3>4. Listing(offer)
      BY <3>1, <3>3, FunctionIsListing, Zenon
    <3> QED BY <3>2, <3>4 DEF SeenList
  <2>3. CASE Len(txs) # 0
    <3>1. Len(txs) \div 2 \in Nat \ {0}
      BY <1>0, <2>1, <2>3 DEF is_odd
    <3> QED BY <1>4, <2>1, <3>1, PairsMalleated
  <2> QED BY <2>2, <2>3
<1>5. ASSUME NEW i \in DOMAIN txs, NEW w, offer = [txs EXCEPT ![i].witness = w]
      PROVE  SeenList(offer)
  <2> DEFINE tx == [txs[i] EXCEPT !.witness = w]
  <2>1. IsTransaction(txs[i]) /\ txs[i] \in Mined
    BY <1>0, ConfirmationAssumption
  <2>2. /\ tx.id = txs[i].id /\ tx.outs = txs[i].outs
        /\ IsTransaction(tx)
    BY <2>1 DEF IsTransaction
  <2>3. SeenTx(tx)
    BY <2>1, <2>2 DEF SeenTx
  <2> HIDE DEF tx
  <2>4. offer = [txs EXCEPT ![i] = tx]
    BY <1>5 DEF tx
  <2>5. /\ txs \in Seq(Mined \union {tx}) /\ tx \in Mined \union {tx} /\ i \in 1..Len(txs)
    BY <1>0, SeqMonotonic
  <2>6. /\ offer \in Seq(Mined \union {tx}) /\ Len(offer) = Len(txs)
        /\ \A j \in 1..Len(txs) : offer[j] = IF j = i THEN tx ELSE txs[j]
    BY <2>4, <2>5, ExceptSeq
  <2>7. DOMAIN offer = 1..Len(txs)
    BY <2>6, LenProperties
  <2>8. ASSUME NEW j \in DOMAIN offer PROVE SeenTx(offer[j])
    <3>1. offer[j] = tx \/ offer[j] \in Mined
      BY <1>0, <2>6, <2>7
    <3>2. \A m \in Mined : SeenTx(m)
      BY ConfirmationAssumption DEF SeenTx
    <3> QED BY <2>3, <3>1, <3>2
  <2> QED BY <2>6, <2>8 DEF SeenList, Listing
<1>6. \/ offer \in {txs, Front(txs)}
      \/ \E clones \in Clones(txs) : offer = txs \o clones
      \/ offer \in Halved(txs)
      \/ \E i \in DOMAIN txs, w \in {"none", "good", "bad"} : offer = [txs EXCEPT ![i].witness = w]
  BY DEF Offers, Rewitnessed
<1> QED
  BY <1>1, <1>2, <1>3, <1>4, <1>5, <1>6

-------------------------------------------------------------------------------
(* The invariant.                                                          *)

Header == [parent : Nat, height : 1..Len(MaxHeaders), txs : Seq(Mined)]
States == {"announced", "refused", "archived", "valid", "invalid"}

StoreTypeOK ==
    /\ rules \in RuleSets
    /\ headers \in Seq(Header)
    /\ state \in Seq(States) /\ Len(state) = Len(headers)
    /\ Listing(body) /\ Len(body) = Len(headers)
    /\ chain \in Seq(1..Len(headers))

\* What is kept was mined, and what is archived has passed the checks.
BodiesSeen == \A h \in 1..Len(headers) : SeenList(body[h])
ArchivedPassed ==
    \A h \in 1..Len(headers) : IsArchived(h) => Verdict(h, body[h]) = "success"

StoreInv == StoreTypeOK /\ BodiesSeen /\ ArchivedPassed

LEMMA Domains ==
    ASSUME StoreTypeOK
    PROVE  /\ Len(headers) \in Nat
           /\ Known = 1..Len(headers) /\ DOMAIN state = 1..Len(headers)
           /\ DOMAIN body = 1..Len(headers)
           /\ \A h \in Known : headers[h] \in Header /\ state[h] \in States
<1>1. PICK T : body \in Seq(T)
  BY DEF StoreTypeOK, Listing
<1> QED
  BY <1>1, LenProperties, ElementOfSeq DEF StoreTypeOK, Known

\* A block stays as it is archived, as long as its header and body do.
LEMMA VerdictKept ==
    ASSUME NEW h, headers'[h] = headers[h], body'[h] = body[h], rules' = rules
    PROVE  Verdict(h, body[h])' = Verdict(h, body[h])
BY DEF Verdict, ContextOf, Context

LEMMA AnnounceKeeps ==
    ASSUME StoreInv, NEW parent \in {0} \union Known, NEW txs, Announce(parent, txs)
    PROVE  StoreInv'
<1> DEFINE height == IF parent = 0 THEN 1 ELSE headers[parent].height + 1
           header == [parent |-> parent, txs |-> txs, height |-> height]
           N == Len(headers)
<1>0. /\ N \in Nat /\ Known = 1..N
      /\ headers \in Seq(Header) /\ state \in Seq(States) /\ Len(state) = N
      /\ Listing(body) /\ Len(body) = N /\ chain \in Seq(1..N)
  BY Domains DEF StoreInv, StoreTypeOK
<1>1. /\ height \in DOMAIN MaxHeaders /\ txs \in Lists(height)
      /\ headers' = Append(headers, header)
      /\ state' = Append(state, "announced")
      /\ body' = Append(body, <<>>)
      /\ UNCHANGED <<rules, chain>>
  BY DEF Announce
<1>2. /\ height \in 1..Len(MaxHeaders) /\ txs \in Seq(Mined) /\ parent \in Nat
  <2>1. MaxHeaders \in Seq(Nat) /\ \A at \in DOMAIN MaxHeaders : Lists(at) \subseteq Seq(Mined)
    BY ConfirmationAssumption
  <2> QED BY <1>0, <1>1, <2>1, LenProperties
<1>3. header \in Header
  BY <1>2 DEF Header
<1> HIDE DEF height, header, N
<1>4. /\ headers' \in Seq(Header) /\ Len(headers') = N + 1
      /\ \A h \in 1..N : headers'[h] = headers[h]
  BY <1>0, <1>1, <1>3, AppendProperties DEF N
<1>5. /\ state' \in Seq(States) /\ Len(state') = N + 1
      /\ \A h \in 1..N : state'[h] = state[h]
      /\ state'[N + 1] = "announced"
  <2>1. "announced" \in States
    BY DEF States
  <2> QED BY <1>0, <1>1, <2>1, AppendProperties
<1>6. /\ Listing(body') /\ Len(body') = N + 1
      /\ \A h \in 1..N : body'[h] = body[h]
      /\ body'[N + 1] = <<>>
  <2>1. PICK T : body \in Seq(T)
    BY <1>0 DEF Listing
  <2>2. body \in Seq(T \union {<<>>}) /\ <<>> \in T \union {<<>>}
    BY <2>1, SeqMonotonic
  <2>3. /\ body' \in Seq(T \union {<<>>}) /\ Len(body') = N + 1
        /\ \A h \in 1..N : body'[h] = body[h]
        /\ body'[N + 1] = <<>>
    BY <1>0, <1>1, <2>2, AppendProperties
  <2> QED BY <2>3 DEF Listing
<1>7. chain' \in Seq(1..Len(headers'))
  <2>1. 1..N \subseteq 1..Len(headers')
    BY <1>0, <1>4
  <2> QED BY <1>0, <1>1, <2>1, SeqMonotonic
<1>8. StoreTypeOK'
  BY <1>1, <1>4, <1>5, <1>6, <1>7 DEF StoreInv, StoreTypeOK
<1>9. \A h \in 1..Len(headers') : h \in 1..N \/ h = N + 1
  BY <1>0, <1>4
<1>10. BodiesSeen'
  <2>1. SeenList(<<>>)
    BY EmptySeq, MinedSeen
  <2> QED BY <1>6, <1>9, <2>1 DEF StoreInv, BodiesSeen, N
<1>11. ArchivedPassed'
  <2> SUFFICES ASSUME NEW h \in 1..Len(headers'), IsArchived(h)'
               PROVE  Verdict(h, body[h])' = "success"
    BY DEF ArchivedPassed
  <2>1. h \in 1..N /\ IsArchived(h)
    BY <1>5, <1>9 DEF IsArchived
  <2>2. Verdict(h, body[h]) = "success"
    BY <2>1 DEF StoreInv, ArchivedPassed, N
  <2>3. headers'[h] = headers[h] /\ body'[h] = body[h] /\ rules' = rules
    BY <1>1, <1>4, <1>6, <2>1
  <2> QED BY <2>2, <2>3, VerdictKept
<1> QED
  BY <1>8, <1>10, <1>11 DEF StoreInv

\* A list that is not genuine is not kept, or is of transactions that were mined.
LEMMA DownloadKeeps ==
    ASSUME StoreInv, NEW h \in Known, NEW txs \in Offers(headers[h].txs), Download(h, txs)
    PROVE  StoreInv'
<1> DEFINE N == Len(headers)
           verdict == Verdict(h, txs)
           mark == IF verdict = "success" THEN "archived" ELSE "refused"
<1>0. /\ N \in Nat /\ Known = 1..N /\ headers[h] \in Header
      /\ headers \in Seq(Header) /\ state \in Seq(States) /\ Len(state) = N
      /\ Listing(body) /\ Len(body) = N /\ chain \in Seq(1..N)
  BY Domains DEF StoreInv, StoreTypeOK
<1>1. /\ verdict \notin Discarded
      /\ state' = [state EXCEPT ![h] = mark]
      /\ body' = [body EXCEPT ![h] = txs]
      /\ UNCHANGED <<rules, headers, chain>>
  BY DEF Download
<1>2. SeenList(txs)
  <2>1. SeenList(txs) \/ is_malleated(txs)
    BY <1>0, OffersSeen DEF Header
  <2>2. is_malleated(txs) => verdict = "invalid_transaction_commitment"
    <3> SUFFICES ASSUME is_malleated(txs)
                 PROVE  verdict = "invalid_transaction_commitment"
      OBVIOUS
    <3> DEFINE root == MerkleRoot(headers[h].txs)
               codes == <<identify(txs, root), identify_context(txs, ContextOf(h))>>
    <3>1. identify(txs, root) = "invalid_transaction_commitment"
      BY DEF identify
    <3>2. FirstOf(codes) = "invalid_transaction_commitment"
      <4> DEFINE failed == {i \in DOMAIN codes : codes[i] # "success"}
      <4>1. 1 \in failed /\ \A i \in failed : i \in Nat /\ 1 <= i
        BY <3>1
      <4>2. Min(failed) = 1
        <5> HIDE DEF failed
        <5>1. 1 \in failed /\ \A y \in failed : 1 <= y
          BY <4>1
        <5>2. \A x \in failed : (\A y \in failed : x <= y) => x = 1
          BY <4>1
        <5> QED BY <5>1, <5>2 DEF Min
      <4>3. FirstOf(codes) = codes[Min(failed)]
        BY <4>1 DEF FirstOf, FirstFailure
      <4> QED BY <3>1, <4>2, <4>3
    <3> QED BY <3>2 DEF Verdict
  <2> QED BY <1>1, <2>1, <2>2 DEF Discarded
<1> HIDE DEF N, verdict, mark
<1>3. /\ state' \in Seq(States) /\ Len(state') = N
      /\ \A k \in 1..N : state'[k] = IF k = h THEN mark ELSE state[k]
  <2>1. mark \in States
    BY DEF mark, States
  <2> QED BY <1>0, <1>1, <2>1, ExceptSeq
<1>4. /\ Listing(body') /\ Len(body') = N
      /\ \A k \in 1..N : body'[k] = IF k = h THEN txs ELSE body[k]
  <2>1. PICK T : body \in Seq(T)
    BY <1>0 DEF Listing
  <2>2. body \in Seq(T \union {txs}) /\ txs \in T \union {txs}
    BY <2>1, SeqMonotonic
  <2>3. /\ body' \in Seq(T \union {txs}) /\ Len(body') = N
        /\ \A k \in 1..N : body'[k] = IF k = h THEN txs ELSE body[k]
    BY <1>0, <1>1, <2>2, ExceptSeq
  <2> QED BY <2>3 DEF Listing
<1>5. StoreTypeOK'
  BY <1>0, <1>1, <1>3, <1>4 DEF StoreInv, StoreTypeOK, N
<1>6. BodiesSeen'
  BY <1>1, <1>2, <1>4 DEF StoreInv, BodiesSeen, N
<1>7. ArchivedPassed'
  <2> SUFFICES ASSUME NEW k \in 1..N, IsArchived(k)'
               PROVE  Verdict(k, body[k])' = "success"
    BY <1>1 DEF ArchivedPassed, N
  <2>1. CASE k = h
    <3>1. verdict = "success"
      BY <1>3, <2>1 DEF IsArchived, mark
    <3>2. body'[k] = txs /\ headers' = headers /\ rules' = rules
      BY <1>1, <1>4, <2>1
    <3> QED BY <2>1, <3>1, <3>2 DEF verdict, Verdict, ContextOf, Context
  <2>2. CASE k # h
    <3>1. IsArchived(k) /\ body'[k] = body[k] /\ headers'[k] = headers[k] /\ rules' = rules
      BY <1>1, <1>3, <1>4, <2>2 DEF IsArchived
    <3>2. Verdict(k, body[k]) = "success"
      BY <3>1 DEF StoreInv, ArchivedPassed, N
    <3> QED BY <3>1, <3>2, VerdictKept
  <2> QED BY <2>1, <2>2
<1> QED
  BY <1>5, <1>6, <1>7 DEF StoreInv

\* A block that was archived stays so, when it is valid and when it is not.
LEMMA MarkKeeps ==
    ASSUME StoreInv, NEW h \in Known, IsArchived(h), NEW mark \in {"valid", "invalid"},
           state' = [state EXCEPT ![h] = mark], UNCHANGED <<rules, headers, body>>,
           chain' \in Seq(1..Len(headers))
    PROVE  StoreInv'
<1> DEFINE N == Len(headers)
<1>0. /\ N \in Nat /\ Known = 1..N
      /\ headers \in Seq(Header) /\ state \in Seq(States) /\ Len(state) = N
  BY Domains DEF StoreInv, StoreTypeOK
<1>1. /\ state' \in Seq(States) /\ Len(state') = N
      /\ \A k \in 1..N : state'[k] = IF k = h THEN mark ELSE state[k]
  <2>1. mark \in States
    BY DEF States
  <2> QED BY <1>0, <2>1, ExceptSeq
<1>2. StoreTypeOK'
  BY <1>1 DEF StoreInv, StoreTypeOK
<1>3. BodiesSeen'
  BY DEF StoreInv, BodiesSeen
<1>4. ArchivedPassed'
  <2> SUFFICES ASSUME NEW k \in 1..N, IsArchived(k)'
               PROVE  Verdict(k, body[k])' = "success"
    BY DEF ArchivedPassed
  <2>1. IsArchived(k)
    BY <1>1 DEF IsArchived
  <2>2. Verdict(k, body[k]) = "success"
    BY <2>1 DEF StoreInv, ArchivedPassed
  <2> QED BY <2>2, VerdictKept
<1> QED
  BY <1>2, <1>3, <1>4 DEF StoreInv

LEMMA ChainKeeps ==
    ASSUME StoreInv, UNCHANGED <<rules, headers, state, body>>,
           chain' \in Seq(1..Len(headers))
    PROVE  StoreInv'
<1>1. StoreTypeOK'
  BY DEF StoreInv, StoreTypeOK
<1>2. BodiesSeen'
  BY DEF StoreInv, BodiesSeen
<1>3. ArchivedPassed'
  BY VerdictKept DEF StoreInv, ArchivedPassed, IsArchived
<1> QED
  BY <1>1, <1>2, <1>3 DEF StoreInv

LEMMA ConfirmKeeps ==
    ASSUME StoreInv, NEW h \in Known, Confirm(h)
    PROVE  StoreInv'
<1>1. /\ IsArchived(h) /\ UNCHANGED <<rules, headers, body>>
      /\ \/ chain' = Append(chain, h) /\ UNCHANGED state
         \/ state' = [state EXCEPT ![h] = "invalid"] /\ UNCHANGED chain
  BY DEF Confirm, IsArchived
<1>2. chain \in Seq(1..Len(headers)) /\ h \in 1..Len(headers)
  BY Domains DEF StoreInv, StoreTypeOK
<1>3. CASE chain' = Append(chain, h) /\ UNCHANGED state
  <2>1. chain' \in Seq(1..Len(headers))
    BY <1>2, <1>3, AppendProperties
  <2> QED BY <1>1, <1>3, <2>1, ChainKeeps
<1>4. CASE state' = [state EXCEPT ![h] = "invalid"] /\ UNCHANGED chain
  BY <1>1, <1>2, <1>4, MarkKeeps
<1> QED
  BY <1>1, <1>3, <1>4

LEMMA ReorganizeKeeps ==
    ASSUME StoreInv, Reorganize
    PROVE  StoreInv'
<1>1. /\ chain' = SubSeq(chain, 1, Len(chain) - 1)
      /\ UNCHANGED <<rules, headers, state, body>>
  BY DEF Reorganize, Front
<1>2. chain \in Seq(1..Len(headers)) /\ Len(chain) \in Nat
  BY LenProperties DEF StoreInv, StoreTypeOK
<1>3. chain' \in Seq(1..Len(headers))
  <2>1. 1 \in Int /\ Len(chain) - 1 \in Int
        /\ \A i \in 1..(Len(chain) - 1) : chain[i] \in 1..Len(headers)
    BY <1>2, ElementOfSeq
  <2> QED BY <1>1, <2>1, SubSeqProperties
<1> QED
  BY <1>1, <1>3, ChainKeeps

LEMMA StoreInitial == Init => StoreInv
<1> SUFFICES ASSUME Init PROVE StoreInv
  OBVIOUS
<1>1. /\ rules \in RuleSets /\ headers = <<>> /\ state = <<>> /\ body = <<>> /\ chain = <<>>
  BY DEF Init
<1>2. StoreTypeOK
  BY <1>1, EmptySeq DEF StoreTypeOK, Listing
<1>3. 1..Len(headers) = {}
  BY <1>1, EmptySeq
<1> QED
  BY <1>2, <1>3 DEF StoreInv, BodiesSeen, ArchivedPassed

LEMMA StoreStep == StoreInv /\ [Next]_vars => StoreInv'
<1> SUFFICES ASSUME StoreInv, [Next]_vars PROVE StoreInv'
  OBVIOUS
<1>1. ASSUME NEW parent \in {0} \union Known, NEW txs, Announce(parent, txs) PROVE StoreInv'
  BY <1>1, AnnounceKeeps
<1>2. ASSUME NEW h \in Known, NEW txs \in Offers(headers[h].txs), Download(h, txs)
      PROVE  StoreInv'
  BY <1>2, DownloadKeeps
<1>3. ASSUME NEW h \in Known, Validate(h) PROVE StoreInv'
  <2>1. /\ IsArchived(h) /\ UNCHANGED <<rules, headers, body, chain>>
        /\ \E mark \in {"valid", "invalid"} : state' = [state EXCEPT ![h] = mark]
    BY <1>3 DEF Validate, IsArchived
  <2>2. chain' \in Seq(1..Len(headers))
    BY <2>1 DEF StoreInv, StoreTypeOK
  <2> QED BY <2>1, <2>2, MarkKeeps
<1>4. ASSUME NEW h \in Known, Confirm(h) PROVE StoreInv'
  BY <1>4, ConfirmKeeps
<1>5. CASE Reorganize
  BY <1>5, ReorganizeKeeps
<1>6. CASE UNCHANGED vars
  <2>1. UNCHANGED <<rules, headers, state, body>> /\ chain' \in Seq(1..Len(headers))
    BY <1>6 DEF vars, StoreInv, StoreTypeOK
  <2> QED BY <2>1, ChainKeeps
<1> QED
  BY <1>1, <1>2, <1>3, <1>4, <1>5, <1>6 DEF Next

\* What the store keeps of a block was mined and has passed the checks, whatever
\* peers send and however the chain is reorganized (identify, check).
THEOREM StoreCorrect == Spec => []StoreInv
BY StoreInitial, StoreStep, PTL DEF Spec

\* A branch proves its leaf, in trees of any size (merkle_branch).
THEOREM BranchesProve == Spec => []BranchProves
<1>1. StoreInv => BranchProves
  <2> SUFFICES ASSUME StoreInv, NEW h \in Known, NEW at \in DOMAIN headers[h].txs
               PROVE  LET leaves == txids(headers[h].txs)
                          branch == merkle_branch(at - 1, leaves)
                      IN  Ascended(leaves[at], at - 1, branch)[Len(branch)].hash
                            = merkle_root(leaves)
    BY DEF BranchProves
  <2>1. headers[h].txs \in Seq(Mined)
    BY Domains DEF StoreInv, Header
  <2> DEFINE txs == headers[h].txs
             leaves == txids(txs)
  <2>2. Len(txs) \in Nat /\ DOMAIN txs = 1..Len(txs)
    BY <2>1, LenProperties
  <2>3. leaves = [i \in 1..Len(txs) |-> leaves[i]]
    BY <2>2 DEF txids
  <2> HIDE DEF txs, leaves
  <2>4. Listing(leaves) /\ Len(leaves) = Len(txs)
    BY <2>2, <2>3, FunctionIsListing
  <2>5. at \in 1..Len(leaves)
    BY <2>2, <2>4 DEF txs
  <2> QED BY <2>4, <2>5, BranchLeads DEF leaves, txs
<1> QED
  BY <1>1, StoreCorrect, PTL

-------------------------------------------------------------------------------
(* What the pool lets in confirms.                                         *)

LEMMA LeastIs ==
    ASSUME NEW T, T \subseteq Nat, T # {}
    PROVE  Min(T) \in T /\ \A n \in T : Min(T) <= n
BY HasLeast DEF Min

\* A greater number changes no least one.
LEMMA LeastKept ==
    ASSUME NEW T, NEW R, NEW top \in Nat, T \subseteq 0..top, T # {},
           T \subseteq R, R \subseteq T \union {top}
    PROVE  Min(R) = Min(T)
<1>1. T \subseteq Nat /\ R \subseteq Nat /\ R # {}
  <2>1. 0..top \subseteq Nat
    OBVIOUS
  <2> QED BY <2>1
<1>2. Min(T) \in T /\ \A n \in T : Min(T) <= n
  BY <1>1, LeastIs
<1>3. Min(R) \in R /\ \A n \in R : Min(R) <= n
  BY <1>1, LeastIs
<1>4. Min(R) <= Min(T) /\ Min(R) \in Nat /\ Min(T) \in 0..top
  BY <1>1, <1>2, <1>3
<1>5. Min(R) \in T \/ Min(R) = top
  BY <1>3
<1>6. Min(T) <= Min(R)
  BY <1>2, <1>4, <1>5
<1> QED
  BY <1>4, <1>6

\* The first failure of several codes is a success only if all are.
LEMMA AllSucceed ==
    ASSUME NEW codes, DOMAIN codes \subseteq Nat
    PROVE  FirstOf(codes) = "success" <=> \A i \in DOMAIN codes : codes[i] = "success"
<1> DEFINE failed == {i \in DOMAIN codes : codes[i] # "success"}
<1>1. FirstOf(codes) = IF failed = {} THEN "success" ELSE codes[Min(failed)]
  BY DEF FirstOf, FirstFailure
<1>2. failed # {} => Min(failed) \in failed
  BY LeastIs
<1> QED
  BY <1>1, <1>2

\* Metadata, entry by entry.
Holding(lists, id) == {k \in DOMAIN lists : \E i \in DOMAIN lists[k] : lists[k][i].id = id}
Spending(lists, p) == {k \in DOMAIN lists : \E i \in DOMAIN lists[k] : p \in points(lists[k][i])}
Minted(p) == \E other \in ArchivedTxs : other.id = p[1] /\ is_coinbase(other)
LeastOrNone(heights) == IF heights = {} THEN MaxHeight ELSE Min(heights)

LEMMA MetadataAre ==
    ASSUME NEW lists, NEW tx, NEW p \in points(tx)
    PROVE  LET meta == Metadata(lists, <<tx>>)
           IN  /\ meta.height[p] = LeastOrNone(Holding(lists, p[1]))
               /\ meta.median[p] = IF meta.height[p] = MaxHeight THEN MaxHeight
                                   ELSE MedianTime[meta.height[p]]
               /\ meta.coinbase[p] = Minted(p)
               /\ meta.spender[p] = LeastOrNone(Spending(lists, p))
               /\ DOMAIN meta.spender = points(tx)
<1> DEFINE spent == Listed(points, <<tx>>)
           height == [q \in spent |-> HeightOf(lists, LAMBDA other : other.id = q[1])]
           median == [q \in spent |-> IF height[q] = MaxHeight THEN MaxHeight
                                      ELSE MedianTime[height[q]]]
           coinbase == [q \in spent |-> Minted(q)]
           spender == [q \in spent |-> HeightOf(lists, LAMBDA other : q \in points(other))]
<1>1. spent = points(tx)
  BY DEF Listed
<1>2. Metadata(lists, <<tx>>) = [height |-> height, median |-> median,
                                 coinbase |-> coinbase, spender |-> spender]
  BY DEF Metadata, Minted
<1>3. height[p] = LeastOrNone(Holding(lists, p[1]))
  <2> HIDE DEF spent
  <2> QED BY <1>1 DEF HeightOf, Some, LeastOrNone, Holding
<1>4. spender[p] = LeastOrNone(Spending(lists, p))
  <2> HIDE DEF spent
  <2> QED BY <1>1 DEF HeightOf, Some, LeastOrNone, Spending
<1>5. /\ median[p] = IF height[p] = MaxHeight THEN MaxHeight ELSE MedianTime[height[p]]
      /\ coinbase[p] = Minted(p)
      /\ DOMAIN spender = points(tx)
  <2> HIDE DEF spent, height
  <2> QED BY <1>1
<1> DEFINE meta == Metadata(lists, <<tx>>)
<1>6. /\ meta.height = height /\ meta.median = median
      /\ meta.coinbase = coinbase /\ meta.spender = spender
  <2> HIDE DEF height, median, coinbase, spender
  <2> QED BY <1>2
<1> HIDE DEF meta, height, median, coinbase, spender
<1> QED
  BY <1>3, <1>4, <1>5, <1>6 DEF meta

LEMMA PoolMetadataAre ==
    ASSUME NEW tx, NEW p \in points(tx)
    PROVE  LET meta == Metadata(Confirmed(chain), <<tx>>)
               pooled == PoolMetadata(<<tx>>)
           IN  /\ pooled.height = meta.height /\ pooled.median = meta.median
               /\ pooled.coinbase = meta.coinbase
               /\ pooled.spender[p] \in {0, meta.spender[p]}
<1> DEFINE meta == Metadata(Confirmed(chain), <<tx>>)
           others == ArchivedTxs \ Range(<<tx>>)
           pooled == PoolMetadata(<<tx>>)
           spender == [q \in DOMAIN meta.spender |->
                        IF /\ meta.spender[q] = MaxHeight
                           /\ \E other \in others : q \in points(other)
                        THEN 0 ELSE meta.spender[q]]
<1>1. pooled = [meta EXCEPT !.spender = spender]
  BY DEF PoolMetadata
<1>2. DOMAIN meta.spender = points(tx)
  BY MetadataAre
<1>3. DOMAIN meta = {"height", "median", "coinbase", "spender"}
  BY DEF Metadata
<1>4. spender[p] \in {0, meta.spender[p]}
  <2> HIDE DEF meta, others
  <2> QED BY <1>2
<1> HIDE DEF meta, spender, pooled
<1> QED
  BY <1>1, <1>3, <1>4 DEF meta, pooled

\* The next block changes nothing of what the prevouts of a pool transaction are,
\* and spends only what the pool's metadata has no spender for.
LEMMA NextMetadata ==
    ASSUME NEW tx, NEW p \in points(tx), Len(chain) \in Nat,
           Len(chain) + 1 \in DOMAIN Timestamp,
           Holding(Confirmed(chain), p[1]) # {},
           PoolMetadata(<<tx>>).spender[p] \notin {0} \union (Nat \ {MaxHeight})
    PROVE  LET pooled == PoolMetadata(<<tx>>)
               meta == Metadata(Extended(Confirmed(chain), Len(chain) + 1, <<tx>>), <<tx>>)
           IN  /\ meta.height[p] = pooled.height[p] /\ meta.median[p] = pooled.median[p]
               /\ meta.coinbase[p] = pooled.coinbase[p]
               /\ meta.height[p] \in 0..Len(chain)
               /\ meta.spender[p] \in {Len(chain) + 1, MaxHeight}
<1> DEFINE lists == Confirmed(chain)
           top == Len(chain) + 1
           next == Extended(lists, top, <<tx>>)
           pooled == PoolMetadata(<<tx>>)
           before == Metadata(lists, <<tx>>)
           meta == Metadata(next, <<tx>>)
<1>1. /\ top \in Nat /\ MaxHeight \in Nat /\ top < MaxHeight
      /\ DOMAIN lists = 0..Len(chain) /\ 0..Len(chain) \subseteq 0..top /\ 0..top \subseteq Nat
      /\ top \notin 0..Len(chain)
  BY ConfirmationAssumption, RulesAssumption DEF Confirmed
<1>2. /\ DOMAIN next = DOMAIN lists \union {top}
      /\ \A k \in DOMAIN lists : next[k] = lists[k]
  BY <1>1 DEF Extended
<1> HIDE DEF lists, top, next
<1>3. /\ Holding(lists, p[1]) \subseteq Holding(next, p[1])
      /\ Holding(next, p[1]) \subseteq Holding(lists, p[1]) \union {top}
      /\ Holding(lists, p[1]) \subseteq 0..Len(chain)
      /\ Spending(next, p) \subseteq Spending(lists, p) \union {top}
      /\ Spending(lists, p) \subseteq 0..Len(chain)
  BY <1>1, <1>2 DEF Holding, Spending
<1>4. /\ Holding(lists, p[1]) # {}
      /\ pooled.spender[p] \notin {0} \union (Nat \ {MaxHeight})
  BY DEF lists
<1> HIDE DEF pooled, before, meta
<1>5. /\ pooled.height = before.height /\ pooled.median = before.median
      /\ pooled.coinbase = before.coinbase
      /\ pooled.spender[p] \in {0, before.spender[p]}
  BY PoolMetadataAre DEF pooled, before, lists
<1>6. /\ before.height[p] = LeastOrNone(Holding(lists, p[1]))
      /\ before.median[p] = IF before.height[p] = MaxHeight THEN MaxHeight
                            ELSE MedianTime[before.height[p]]
      /\ before.coinbase[p] = Minted(p)
      /\ before.spender[p] = LeastOrNone(Spending(lists, p))
  BY MetadataAre DEF before
<1>7. /\ meta.height[p] = LeastOrNone(Holding(next, p[1]))
      /\ meta.median[p] = IF meta.height[p] = MaxHeight THEN MaxHeight
                          ELSE MedianTime[meta.height[p]]
      /\ meta.coinbase[p] = Minted(p)
      /\ meta.spender[p] = LeastOrNone(Spending(next, p))
  BY MetadataAre DEF meta
<1>8. LeastOrNone(Holding(next, p[1])) = LeastOrNone(Holding(lists, p[1]))
  <2>1. Holding(lists, p[1]) \subseteq 0..top /\ Holding(next, p[1]) # {}
    BY <1>1, <1>3, <1>4
  <2>2. Min(Holding(next, p[1])) = Min(Holding(lists, p[1]))
    BY <1>1, <1>3, <1>4, <2>1, LeastKept
  <2> QED BY <1>4, <2>1, <2>2 DEF LeastOrNone
<1>9. LeastOrNone(Holding(lists, p[1])) \in 0..Len(chain)
  <2>1. Holding(lists, p[1]) \subseteq Nat
    BY <1>1, <1>3
  <2>2. Min(Holding(lists, p[1])) \in Holding(lists, p[1])
    BY <1>4, <2>1, LeastIs
  <2> QED BY <1>3, <1>4, <2>2 DEF LeastOrNone
<1>10. Spending(lists, p) = {}
  <2> SUFFICES ASSUME Spending(lists, p) # {} PROVE FALSE
    OBVIOUS
  <2>1. Spending(lists, p) \subseteq Nat
    BY <1>1, <1>3
  <2>2. Min(Spending(lists, p)) \in Spending(lists, p)
    BY <2>1, LeastIs
  <2>3. before.spender[p] \in 0..Len(chain)
    BY <1>3, <1>6, <2>2 DEF LeastOrNone
  <2>4. before.spender[p] \in Nat \ {MaxHeight}
    BY <1>1, <2>3 DEF top
  <2> QED BY <1>4, <1>5, <2>4
<1>11. meta.spender[p] \in {top, MaxHeight}
  <2>1. Spending(next, p) = {} \/ Spending(next, p) = {top}
    BY <1>3, <1>10
  <2>2. Min({top}) = top
    <3>1. {top} \subseteq Nat
      BY <1>1
    <3> QED BY <3>1, LeastIs
  <2> QED BY <1>7, <2>1, <2>2 DEF LeastOrNone
<1> QED
  BY <1>5, <1>6, <1>7, <1>8, <1>9, <1>11 DEF pooled, meta, lists, top, next

\* A transaction that the guards pass is confirmed by the next block.
LEMMA GuardsConfirm ==
    ASSUME NEW tx, IsTransaction(tx), Len(chain) \in Nat,
           Len(chain) + 1 \in DOMAIN Timestamp,
           \A p \in points(tx) : Holding(Confirmed(chain), p[1]) # {},
           NEW ctx, ctx.height = Len(chain) + 1,
           check_guard(tx) = "success",
           confirm_guard(tx, ctx, PoolMetadata(<<tx>>)) = "success"
    PROVE  TxConfirm(tx, ctx, Metadata(Extended(Confirmed(chain), Len(chain) + 1, <<tx>>), <<tx>>))
                = "success"
<1> DEFINE pooled == PoolMetadata(<<tx>>)
           meta == Metadata(Extended(Confirmed(chain), Len(chain) + 1, <<tx>>), <<tx>>)
<1>1. ~is_coinbase(tx)
  BY DEF check_guard
<1> HIDE DEF pooled, meta
<1>2. /\ ~(is_enabled(ctx, "bip68") /\ is_relative_locked(tx, ctx, pooled))
      /\ ~is_unconfirmed_immature(tx, ctx, pooled)
      /\ ~is_confirmed_conflict(tx, pooled) /\ ~is_unconfirmed_conflict(tx, pooled)
  BY <1>1 DEF confirm_guard, pooled
<1>3. \A i \in DOMAIN tx.ins : tx.ins[i].point \in points(tx)
  BY DEF points
<1>4. ASSUME NEW p \in points(tx)
      PROVE  /\ meta.height[p] = pooled.height[p] /\ meta.median[p] = pooled.median[p]
             /\ meta.coinbase[p] = pooled.coinbase[p]
             /\ meta.height[p] \in 0..Len(chain)
             /\ meta.spender[p] \in {Len(chain) + 1, MaxHeight}
  <2>1. PICK i \in DOMAIN tx.ins : p = tx.ins[i].point
    BY DEF points
  <2>2. pooled.spender[p] \in {0, MaxHeight} /\ pooled.spender[p] # 0
    BY <1>2, <2>1 DEF is_confirmed_conflict, is_unconfirmed_conflict, Some
  <2>3. pooled.spender[p] \notin {0} \union (Nat \ {MaxHeight})
    BY <2>2
  <2> QED BY <2>3, NextMetadata DEF pooled, meta
<1>5. MaxHeight \in Nat /\ Len(chain) + 1 < MaxHeight
  BY ConfirmationAssumption, RulesAssumption
<1>6. ~(is_enabled(ctx, "bip68") /\ is_relative_locked(tx, ctx, meta))
  BY <1>2, <1>3, <1>4 DEF is_relative_locked, Some
<1>7. ~is_unconfirmed_spend(tx, ctx, meta)
  BY <1>3, <1>4 DEF is_unconfirmed_spend, Some
<1>8. ~is_immature(tx, ctx, meta)
  <2> SUFFICES ASSUME NEW i \in DOMAIN tx.ins
               PROVE  ~IF meta.coinbase[tx.ins[i].point]
                       THEN is_coinbase_immature(meta.height[tx.ins[i].point], ctx.height)
                       ELSE ctx.height < meta.height[tx.ins[i].point]
    BY DEF is_immature, Some
  <2> DEFINE p == tx.ins[i].point
  <2>1. p \in points(tx)
    BY <1>3
  <2>2. ~(pooled.coinbase[p] /\ is_coinbase_immature(pooled.height[p], ctx.height))
    BY <1>2 DEF is_unconfirmed_immature, Some
  <2> HIDE DEF p
  <2>3. meta.coinbase[p] => ~is_coinbase_immature(meta.height[p], ctx.height)
    BY <1>4, <2>1, <2>2
  <2>4. ~(ctx.height < meta.height[p])
    BY <1>4, <2>1
  <2> QED BY <2>3, <2>4 DEF p
<1>9. ~is_confirmed_double_spend(tx, ctx, meta)
  BY <1>3, <1>4, <1>5 DEF is_confirmed_double_spend, Some
<1> QED
  BY <1>6, <1>7, <1>8, <1>9 DEF TxConfirm, meta

\* What the pool lets in the next block confirms, for any chain, transactions
\* and metadata (check_guard, accept_guard, confirm_guard).
THEOREM PoolAdmits == Spec => []PoolConfirms
<1>1. StoreInv => PoolConfirms
  <2> SUFFICES ASSUME StoreInv, NEW tx \in PoolTxs
               PROVE  LET height == Len(chain) + 1
                          ctx == Context(height)
                          prevouts == Prevouts(<<tx>>)
                          lists == Confirmed(chain)
                      IN  /\ height \in DOMAIN Timestamp
                          /\ \A p \in points(tx) :
                                p[1] \in UNION {Range(txids(lists[k])) : k \in DOMAIN lists}
                          /\ "success" = FirstOf(<<check_guard(tx), TxCheck(tx),
                                check_guard_context(tx, ctx), TxCheckContext(tx, ctx),
                                accept_guard(tx, ctx, prevouts), TxAccept(tx, prevouts),
                                confirm_guard(tx, ctx, PoolMetadata(<<tx>>))>>)
                          => "success" = FirstOf(<<TxAccept(tx, prevouts),
                                TxConfirm(tx, ctx,
                                    Metadata(Extended(lists, height, <<tx>>), <<tx>>))>>)
    BY DEF PoolConfirms
  <2> DEFINE height == Len(chain) + 1
             ctx == Context(height)
             prevouts == Prevouts(<<tx>>)
             lists == Confirmed(chain)
             guards == <<check_guard(tx), TxCheck(tx), check_guard_context(tx, ctx),
                         TxCheckContext(tx, ctx), accept_guard(tx, ctx, prevouts),
                         TxAccept(tx, prevouts), confirm_guard(tx, ctx, PoolMetadata(<<tx>>))>>
             rest == TxConfirm(tx, ctx, Metadata(Extended(lists, height, <<tx>>), <<tx>>))
  <2> SUFFICES ASSUME height \in DOMAIN Timestamp,
                      \A p \in points(tx) :
                            p[1] \in UNION {Range(txids(lists[k])) : k \in DOMAIN lists},
                      FirstOf(guards) = "success"
               PROVE  FirstOf(<<TxAccept(tx, prevouts), rest>>) = "success"
    OBVIOUS
  <2>1. \A i \in 1..7 : guards[i] = "success"
    <3>1. DOMAIN guards = 1..7 /\ 1..7 \subseteq Nat
      OBVIOUS
    <3> HIDE DEF guards
    <3> QED BY <3>1, AllSucceed
  <2>2. /\ guards[1] = check_guard(tx) /\ guards[6] = TxAccept(tx, prevouts)
        /\ guards[7] = confirm_guard(tx, ctx, PoolMetadata(<<tx>>))
    OBVIOUS
  <2>3. 1 \in 1..7 /\ 6 \in 1..7 /\ 7 \in 1..7
    OBVIOUS
  <2> HIDE DEF guards
  <2>4. /\ check_guard(tx) = "success" /\ TxAccept(tx, prevouts) = "success"
        /\ confirm_guard(tx, ctx, PoolMetadata(<<tx>>)) = "success"
    BY <2>1, <2>2, <2>3
  <2>5. \A p \in points(tx) : Holding(lists, p[1]) # {}
    <3> HIDE DEF lists
    <3> TAKE p \in points(tx)
    <3>1. PICK k \in DOMAIN lists : p[1] \in Range(txids(lists[k]))
      OBVIOUS
    <3>2. PICK i \in DOMAIN lists[k] : p[1] = lists[k][i].id
      BY <3>1 DEF Range, txids
    <3>3. k \in Holding(lists, p[1])
      BY <3>2 DEF Holding
    <3> QED BY <3>3
  <2>6. IsTransaction(tx) /\ Len(chain) \in Nat
    BY ConfirmationAssumption, LenProperties DEF StoreInv, StoreTypeOK
  <2>7. ctx.height = height
    BY DEF Context
  <2> HIDE DEF ctx
  <2>8. rest = "success"
    BY <2>4, <2>5, <2>6, <2>7, GuardsConfirm
  <2> DEFINE codes == <<TxAccept(tx, prevouts), rest>>
  <2>9. DOMAIN codes = 1..2 /\ 1..2 \subseteq Nat /\ \A i \in 1..2 : codes[i] = "success"
    <3> HIDE DEF rest, prevouts
    <3> QED BY <2>4, <2>8
  <2>10. FirstOf(codes) = "success"
    <3> HIDE DEF codes
    <3> QED BY <2>9, AllSucceed
  <2> QED BY <2>10
<1> QED
  BY <1>1, StoreCorrect, PTL

-------------------------------------------------------------------------------
(* Sums and shifts.                                                        *)

\* What the recursive definitions of sums and shifts say of the entries up to n.
SumFrom(f, values, n) == [d \in 0..n |-> IF d = 0 THEN 0 ELSE f[d - 1] + values[d]]
CeilingFrom(f, values, n) ==
    [d \in 0..n |-> IF d = 0 THEN 0 ELSE ceilinged_add(f[d - 1], values[d])]
ShiftFrom(f, number, n) == [d \in 0..n |-> IF d = 0 THEN number ELSE f[d - 1] \div 2]

\* There are sums of as many values as one likes (serialized_size and others).
LEMMA SumsExist ==
    ASSUME NEW values
    PROVE  \A n \in Nat : \E f : f = SumFrom(f, values, n)
<1> DEFINE X == {n \in Nat : \E f : f = SumFrom(f, values, n)}
<1>1. 0 \in X
  <2> DEFINE g == [d \in 0..0 |-> 0]
  <2>1. g = SumFrom(g, values, 0)
    BY DEF SumFrom
  <2> QED BY <2>1
<1>2. ASSUME NEW n \in Nat, n \in X PROVE n + 1 \in X
  <2>1. PICK h : h = SumFrom(h, values, n)
    BY <1>2
  <2> DEFINE g == [d \in 0..(n + 1) |-> IF d <= n THEN h[d] ELSE h[n] + values[n + 1]]
  <2>2. \A d \in 0..n : h[d] = IF d = 0 THEN 0 ELSE h[d - 1] + values[d]
    BY <2>1 DEF SumFrom
  <2>3. \A d \in 0..n : g[d] = h[d]
    OBVIOUS
  <2>4. g[n + 1] = h[n] + values[n + 1]
    OBVIOUS
  <2>5. g = [d \in 0..(n + 1) |-> g[d]]
    OBVIOUS
  <2> HIDE DEF g
  <2>6. ASSUME NEW d \in 0..(n + 1)
        PROVE  g[d] = IF d = 0 THEN 0 ELSE g[d - 1] + values[d]
    <3>1. CASE d = 0
      BY <2>2, <2>3, <3>1
    <3>2. CASE d \in 1..n
      <4>1. d \in 0..n /\ d - 1 \in 0..n /\ d # 0
        BY <3>2
      <4> QED BY <2>2, <2>3, <4>1
    <3>3. CASE d = n + 1
      <4>1. d - 1 = n /\ n \in 0..n /\ d # 0
        BY <3>3
      <4> QED BY <2>3, <2>4, <3>3, <4>1
    <3> QED BY <3>1, <3>2, <3>3
  <2>7. g = SumFrom(g, values, n + 1)
    BY <2>5, <2>6 DEF SumFrom
  <2> QED BY <2>7
<1> HIDE DEF X
<1>3. Nat \subseteq X
  BY <1>1, <1>2, SuccessorsFill
<1> QED
  BY <1>3 DEF X

\* The same of sums that saturate (spend, value, fees).
LEMMA CeilingsExist ==
    ASSUME NEW values
    PROVE  \A n \in Nat : \E f : f = CeilingFrom(f, values, n)
<1> DEFINE X == {n \in Nat : \E f : f = CeilingFrom(f, values, n)}
<1>1. 0 \in X
  <2> DEFINE g == [d \in 0..0 |-> 0]
  <2>1. g = CeilingFrom(g, values, 0)
    BY DEF CeilingFrom
  <2> QED BY <2>1
<1>2. ASSUME NEW n \in Nat, n \in X PROVE n + 1 \in X
  <2>1. PICK h : h = CeilingFrom(h, values, n)
    BY <1>2
  <2> DEFINE g == [d \in 0..(n + 1) |-> IF d <= n THEN h[d] ELSE ceilinged_add(h[n], values[n + 1])]
  <2>2. \A d \in 0..n : h[d] = IF d = 0 THEN 0 ELSE ceilinged_add(h[d - 1], values[d])
    BY <2>1 DEF CeilingFrom
  <2>3. \A d \in 0..n : g[d] = h[d]
    OBVIOUS
  <2>4. g[n + 1] = ceilinged_add(h[n], values[n + 1])
    OBVIOUS
  <2>5. g = [d \in 0..(n + 1) |-> g[d]]
    OBVIOUS
  <2> HIDE DEF g
  <2>6. ASSUME NEW d \in 0..(n + 1)
        PROVE  g[d] = IF d = 0 THEN 0 ELSE ceilinged_add(g[d - 1], values[d])
    <3>1. CASE d = 0
      BY <2>2, <2>3, <3>1
    <3>2. CASE d \in 1..n
      <4>1. d \in 0..n /\ d - 1 \in 0..n /\ d # 0
        BY <3>2
      <4> QED BY <2>2, <2>3, <4>1
    <3>3. CASE d = n + 1
      <4>1. d - 1 = n /\ n \in 0..n /\ d # 0
        BY <3>3
      <4> QED BY <2>3, <2>4, <3>3, <4>1
    <3> QED BY <3>1, <3>2, <3>3
  <2>7. g = CeilingFrom(g, values, n + 1)
    BY <2>5, <2>6 DEF CeilingFrom
  <2> QED BY <2>7
<1> HIDE DEF X
<1>3. Nat \subseteq X
  BY <1>1, <1>2, SuccessorsFill
<1> QED
  BY <1>3 DEF X

\* And of shifts (shift_right).
LEMMA ShiftsExist ==
    ASSUME NEW number
    PROVE  \A n \in Nat : \E f : f = ShiftFrom(f, number, n)
<1> DEFINE X == {n \in Nat : \E f : f = ShiftFrom(f, number, n)}
<1>1. 0 \in X
  <2> DEFINE g == [d \in 0..0 |-> number]
  <2>1. g = ShiftFrom(g, number, 0)
    BY DEF ShiftFrom
  <2> QED BY <2>1
<1>2. ASSUME NEW n \in Nat, n \in X PROVE n + 1 \in X
  <2>1. PICK h : h = ShiftFrom(h, number, n)
    BY <1>2
  <2> DEFINE g == [d \in 0..(n + 1) |-> IF d <= n THEN h[d] ELSE h[n] \div 2]
  <2>2. \A d \in 0..n : h[d] = IF d = 0 THEN number ELSE h[d - 1] \div 2
    BY <2>1 DEF ShiftFrom
  <2>3. \A d \in 0..n : g[d] = h[d]
    OBVIOUS
  <2>4. g[n + 1] = h[n] \div 2
    OBVIOUS
  <2>5. g = [d \in 0..(n + 1) |-> g[d]]
    OBVIOUS
  <2> HIDE DEF g
  <2>6. ASSUME NEW d \in 0..(n + 1)
        PROVE  g[d] = IF d = 0 THEN number ELSE g[d - 1] \div 2
    <3>1. CASE d = 0
      BY <2>2, <2>3, <3>1
    <3>2. CASE d \in 1..n
      <4>1. d \in 0..n /\ d - 1 \in 0..n /\ d # 0
        BY <3>2
      <4> QED BY <2>2, <2>3, <4>1
    <3>3. CASE d = n + 1
      <4>1. d - 1 = n /\ n \in 0..n /\ d # 0
        BY <3>3
      <4> QED BY <2>3, <2>4, <3>3, <4>1
    <3> QED BY <3>1, <3>2, <3>3
  <2>7. g = ShiftFrom(g, number, n + 1)
    BY <2>5, <2>6 DEF ShiftFrom
  <2> QED BY <2>7
<1> HIDE DEF X
<1>3. Nat \subseteq X
  BY <1>1, <1>2, SuccessorsFill
<1> QED
  BY <1>3 DEF X

\* If each value of one list is at most a part of one of another, so are the sums.
LEMMA SumScaled ==
    ASSUME NEW small, NEW big, NEW n \in Nat, Len(small) = n, Len(big) = n,
           \A i \in 1..n : small[i] \in Nat /\ big[i] \in Nat,
           NEW factor \in Nat, \A i \in 1..n : factor * small[i] <= big[i]
    PROVE  Sum(small) \in Nat /\ Sum(big) \in Nat /\ factor * Sum(small) <= Sum(big)
<1> DEFINE f == CHOOSE f : f = SumFrom(f, small, n)
           g == CHOOSE g : g = SumFrom(g, big, n)
<1>1. Sum(small) = f[n] /\ Sum(big) = g[n]
  BY DEF Sum, SumFrom
<1>2. f = SumFrom(f, small, n) /\ g = SumFrom(g, big, n)
  <2>1. (\E x : x = SumFrom(x, small, n)) /\ (\E x : x = SumFrom(x, big, n))
    BY SumsExist
  <2> QED BY <2>1
<1> HIDE DEF f, g
<1>3. /\ \A d \in 0..n : f[d] = IF d = 0 THEN 0 ELSE f[d - 1] + small[d]
      /\ \A d \in 0..n : g[d] = IF d = 0 THEN 0 ELSE g[d - 1] + big[d]
  BY <1>2 DEF SumFrom
<1> DEFINE X == {d \in Nat : d <= n =>
                    f[d] \in Nat /\ g[d] \in Nat /\ factor * f[d] <= g[d]}
<1>4. 0 \in X
  BY <1>3
<1>5. ASSUME NEW d \in Nat, d \in X PROVE d + 1 \in X
  <2> SUFFICES ASSUME d + 1 <= n
               PROVE  /\ f[d + 1] \in Nat /\ g[d + 1] \in Nat
                      /\ factor * f[d + 1] <= g[d + 1]
    OBVIOUS
  <2>1. d + 1 \in 0..n /\ d + 1 \in 1..n /\ d + 1 # 0 /\ (d + 1) - 1 = d /\ d <= n
    OBVIOUS
  <2>2. f[d + 1] = f[d] + small[d + 1] /\ g[d + 1] = g[d] + big[d + 1]
    BY <1>3, <2>1
  <2>3. f[d] \in Nat /\ g[d] \in Nat /\ factor * f[d] <= g[d]
    BY <1>5, <2>1
  <2>4. small[d + 1] \in Nat /\ big[d + 1] \in Nat /\ factor * small[d + 1] <= big[d + 1]
    BY <2>1
  <2>5. \A a, b, x, y \in Nat : factor * a <= x /\ factor * b <= y =>
            a + b \in Nat /\ x + y \in Nat /\ factor * (a + b) <= x + y
    OBVIOUS
  <2>6. /\ f[d] + small[d + 1] \in Nat /\ g[d] + big[d + 1] \in Nat
        /\ factor * (f[d] + small[d + 1]) <= g[d] + big[d + 1]
    BY <2>3, <2>4, <2>5, Zenon
  <2> QED BY <2>2, <2>6, Zenon
<1> HIDE DEF X
<1>6. n \in X
  BY <1>4, <1>5, SuccessorsFill
<1> QED
  BY <1>1, <1>6 DEF X

LEMMA SmallerFactor ==
    ASSUME NEW factor \in Nat \ {0}, NEW a \in Nat, NEW b \in Nat, factor * a <= factor * b
    PROVE  a <= b
<1> SUFFICES ASSUME b + 1 <= a PROVE FALSE
  OBVIOUS
<1>1. factor * (b + 1) <= factor * a
  OBVIOUS
<1> QED
  BY <1>1

LEMMA CeilingedSumType ==
    ASSUME NEW values, NEW n \in Nat, Len(values) = n, \A i \in 1..n : values[i] \in Nat
    PROVE  CeilingedSum(values) \in Nat
<1> DEFINE f == CHOOSE f : f = CeilingFrom(f, values, n)
<1>1. CeilingedSum(values) = f[n]
  BY DEF CeilingedSum, CeilingFrom
<1>2. f = CeilingFrom(f, values, n)
  <2>1. \E x : x = CeilingFrom(x, values, n)
    BY CeilingsExist
  <2> QED BY <2>1
<1> HIDE DEF f
<1>3. \A d \in 0..n : f[d] = IF d = 0 THEN 0 ELSE ceilinged_add(f[d - 1], values[d])
  BY <1>2 DEF CeilingFrom
<1> DEFINE X == {d \in Nat : d <= n => f[d] \in Nat}
<1>4. 0 \in X
  BY <1>3
<1>5. ASSUME NEW d \in Nat, d \in X PROVE d + 1 \in X
  <2> SUFFICES ASSUME d + 1 <= n PROVE f[d + 1] \in Nat
    OBVIOUS
  <2>1. d + 1 \in 0..n /\ d + 1 \in 1..n /\ d + 1 # 0 /\ (d + 1) - 1 = d /\ d <= n
    OBVIOUS
  <2>2. f[d + 1] = ceilinged_add(f[d], values[d + 1])
    BY <1>3, <2>1
  <2>3. f[d] \in Nat /\ values[d + 1] \in Nat
    BY <1>5, <2>1
  <2>4. \A a, b \in Nat : ceilinged_add(a, b) \in Nat
    BY RulesAssumption DEF ceilinged_add
  <2> QED BY <2>2, <2>3, <2>4, Zenon
<1> HIDE DEF X
<1>6. n \in X
  BY <1>4, <1>5, SuccessorsFill
<1> QED
  BY <1>1, <1>6 DEF X

LEMMA ShiftType ==
    ASSUME NEW number \in Nat, NEW shift \in Nat, NEW overflow
    PROVE  shift_right(number, shift, overflow) \in Nat
<1> DEFINE f == CHOOSE f : f = ShiftFrom(f, number, shift)
<1>1. shift_right(number, shift, overflow) =
        IF overflow /\ shift >= Width THEN 0 ELSE f[shift % Width]
  BY DEF shift_right, ShiftFrom
<1>2. f = ShiftFrom(f, number, shift)
  <2>1. \E x : x = ShiftFrom(x, number, shift)
    BY ShiftsExist
  <2> QED BY <2>1
<1> HIDE DEF f
<1>3. \A d \in 0..shift : f[d] = IF d = 0 THEN number ELSE f[d - 1] \div 2
  BY <1>2 DEF ShiftFrom
<1> DEFINE X == {d \in Nat : d <= shift => f[d] \in Nat}
<1>4. 0 \in X
  BY <1>3
<1>5. ASSUME NEW d \in Nat, d \in X PROVE d + 1 \in X
  <2> SUFFICES ASSUME d + 1 <= shift PROVE f[d + 1] \in Nat
    OBVIOUS
  <2>1. d + 1 \in 0..shift /\ d + 1 # 0 /\ (d + 1) - 1 = d /\ d <= shift
    OBVIOUS
  <2>2. f[d + 1] = f[d] \div 2 /\ f[d] \in Nat
    BY <1>3, <1>5, <2>1
  <2> QED BY <2>2
<1> HIDE DEF X
<1>6. shift % Width \in X
  <2>1. shift % Width \in Nat
    BY RulesAssumption
  <2> QED BY <1>4, <1>5, <2>1, SuccessorsFill
<1>7. shift % Width <= shift
  BY RulesAssumption
<1> QED
  BY <1>1, <1>6, <1>7 DEF X

-------------------------------------------------------------------------------
(* Every rule is a soft fork.                                              *)

\* Transactions and lists that differ only in their witnesses.
AlikeTx(tx, other) ==
    /\ other.id = tx.id /\ other.ins = tx.ins /\ other.outs = tx.outs
    /\ other.version = tx.version /\ other.locktime = tx.locktime
    /\ other.legacy = tx.legacy /\ other.head = tx.head
Alike(txs, others) ==
    /\ Listing(others) /\ Len(others) = Len(txs)
    /\ DOMAIN others = 1..Len(txs) /\ DOMAIN txs = 1..Len(txs)
    /\ \A i \in 1..Len(txs) : AlikeTx(txs[i], others[i])

LEMMA AlikeStripped ==
    ASSUME NEW txs, SeenList(txs)
    PROVE  Alike(txs, txs) /\ Alike(txs, Stripped(txs))
<1> DEFINE n == Len(txs)
           bare == Stripped(txs)
<1>1. n \in Nat /\ DOMAIN txs = 1..n
  BY LenProperties DEF SeenList, Listing
<1>2. Alike(txs, txs)
  BY <1>1 DEF Alike, AlikeTx, SeenList
<1>3. bare = [i \in 1..n |-> [txs[i] EXCEPT !.witness = "none", !.light = 0]]
  BY <1>1 DEF Stripped
<1>4. bare = [i \in 1..n |-> bare[i]]
  BY <1>3
<1> HIDE DEF bare
<1>5. Listing(bare) /\ Len(bare) = n
  BY <1>1, <1>4, FunctionIsListing
<1>6. ASSUME NEW i \in 1..n PROVE AlikeTx(txs[i], bare[i])
  <2> DEFINE tx == txs[i]
  <2>1. DOMAIN tx = {"id", "ins", "outs", "version", "locktime", "legacy", "size", "light",
                     "witness", "head"}
    BY <1>1 DEF SeenList, SeenTx, IsTransaction
  <2> HIDE DEF tx
  <2>2. bare[i] = [tx EXCEPT !.witness = "none", !.light = 0]
    BY <1>3 DEF tx
  <2>3. AlikeTx(tx, bare[i])
    BY <2>1, <2>2 DEF AlikeTx
  <2> QED BY <2>3 DEF tx
<1>7. DOMAIN bare = 1..n
  BY <1>4
<1>8. Alike(txs, bare)
  BY <1>1, <1>5, <1>6, <1>7 DEF Alike
<1> QED
  BY <1>2, <1>8 DEF bare

\* Nothing of a stripped list is segregated.
LEMMA StrippedBare ==
    ASSUME NEW txs, SeenList(txs), NEW i \in DOMAIN txs
    PROVE  Stripped(txs)[i].witness = "none"
<1> DEFINE tx == txs[i]
<1>1. DOMAIN tx = {"id", "ins", "outs", "version", "locktime", "legacy", "size", "light",
                   "witness", "head"}
  BY DEF SeenList, SeenTx, IsTransaction
<1> HIDE DEF tx
<1>2. Stripped(txs)[i] = [tx EXCEPT !.witness = "none", !.light = 0]
  BY DEF Stripped, tx
<1> QED
  BY <1>1, <1>2

\* The outputs of what was mined are those of its hash, so prevouts do not depend
\* on witnesses.
LEMMA PrevoutsAlike ==
    ASSUME StoreInv, NEW h \in Known, IsArchived(h), NEW others, Alike(body[h], others)
    PROVE  /\ Prevouts(others) = Prevouts(body[h])
           /\ \A p \in DOMAIN Prevouts(body[h]) : Prevouts(body[h])[p] \in Nat
<1> DEFINE txs == body[h]
           A == ArchivedTxs
           S == ArchivedTxs \union Range(txs)
           R == ArchivedTxs \union Range(others)
           Same(tx) == \E mined \in Mined : tx.id = mined.id /\ tx.outs = mined.outs
<1>1. DOMAIN txs = DOMAIN others /\ \A i \in DOMAIN txs : AlikeTx(txs[i], others[i])
  BY DEF Alike
<1>2. Range(txs) \subseteq A
  BY DEF ArchivedTxs
<1>3. \A tx \in A : Same(tx)
  <2> TAKE tx \in A
  <2>1. CASE tx = Genesis
    BY <2>1 DEF Mined
  <2>2. ASSUME NEW k \in Known, tx \in Range(body[k]) PROVE Same(tx)
    BY <2>2, Domains DEF StoreInv, BodiesSeen, SeenList, SeenTx, Range
  <2> QED BY <2>1, <2>2 DEF ArchivedTxs
<1>4. \A tx \in R : Same(tx) /\ \E twin \in A : AlikeTx(tx, twin) /\ AlikeTx(twin, tx)
  <2> TAKE tx \in R
  <2>1. CASE tx \in A
    BY <1>3, <2>1 DEF AlikeTx
  <2>2. CASE tx \in Range(others)
    <3>1. PICK i \in DOMAIN txs : tx = others[i]
      BY <1>1, <2>2 DEF Range
    <3>2. txs[i] \in A /\ AlikeTx(txs[i], tx) /\ AlikeTx(tx, txs[i])
      BY <1>1, <1>2, <3>1 DEF Range, AlikeTx
    <3>3. Same(tx)
      BY <1>3, <3>2 DEF AlikeTx
    <3> QED BY <3>2, <3>3
  <2> QED BY <2>1, <2>2
<1> HIDE DEF A
<1>5. S = A
  BY <1>2 DEF A
<1>6. R = A \union Range(others)
  BY DEF A
<1> HIDE DEF txs, S, R
<1>7. UNION {Created(tx) : tx \in R} = UNION {Created(tx) : tx \in S}
  <2>1. \A tx, twin : AlikeTx(tx, twin) => Created(tx) = Created(twin)
    BY DEF AlikeTx, Created
  <2>2. ASSUME NEW tx \in R PROVE \E twin \in S : Created(tx) = Created(twin)
    BY <1>4, <1>5, <2>1
  <2>3. S \subseteq R
    BY <1>5, <1>6
  <2> QED BY <2>2, <2>3
<1>8. Listed(points, others) = Listed(points, txs)
  <2>1. \A i \in DOMAIN txs : points(others[i]) = points(txs[i])
    BY <1>1 DEF AlikeTx, points, txs
  <2> QED BY <1>1, <2>1 DEF Listed, txs
<1>9. ASSUME NEW p, NEW tx \in S, p \in Created(tx)
      PROVE  ValueAt(R, p) = ValueAt(S, p) /\ ValueAt(S, p) \in Nat
  <2>1. p[1] = tx.id /\ p[2] \in DOMAIN tx.outs
    BY <1>9 DEF Created
  <2>2. PICK mined \in Mined : tx.id = mined.id /\ tx.outs = mined.outs
    BY <1>3, <1>5
  <2>3. \A other \in R : other.id = p[1] => other.outs = mined.outs
    BY <1>4, <2>1, <2>2, ConfirmationAssumption
  <2>4. S \subseteq R
    BY <1>5, <1>6
  <2>5. ValueAt(R, p) = mined.outs[p[2]] /\ ValueAt(S, p) = mined.outs[p[2]]
    <3> DEFINE Match(other) == other.id = p[1] /\ p[2] \in DOMAIN other.outs
    <3>1. Match(tx) /\ tx \in S /\ tx \in R
      BY <2>1, <2>4
    <3>2. /\ (CHOOSE other \in S : Match(other)) \in S /\ Match(CHOOSE other \in S : Match(other))
      BY <3>1
    <3>3. /\ (CHOOSE other \in R : Match(other)) \in R /\ Match(CHOOSE other \in R : Match(other))
      BY <3>1
    <3>4. /\ (CHOOSE other \in S : Match(other)).outs = mined.outs
          /\ (CHOOSE other \in R : Match(other)).outs = mined.outs
      BY <2>3, <2>4, <3>2, <3>3
    <3> QED BY <3>4 DEF ValueAt
  <2>6. mined.outs[p[2]] \in Nat
    <3>1. mined.outs \in Seq(0..MaxValue) /\ p[2] \in DOMAIN mined.outs
      BY <2>1, <2>2, ConfirmationAssumption DEF IsTransaction
    <3>2. mined.outs[p[2]] \in 0..MaxValue
      BY <3>1, LenProperties, ElementOfSeq
    <3> QED BY <3>2
  <2> QED BY <2>5, <2>6
<1> DEFINE spent == Listed(points, txs)
           created == UNION {Created(tx) : tx \in S}
<1>10. /\ Prevouts(txs) = [p \in spent \intersect created |-> ValueAt(S, p)]
       /\ Prevouts(others) = [p \in spent \intersect created |-> ValueAt(R, p)]
  BY <1>7, <1>8 DEF Prevouts, S, R
<1> HIDE DEF spent
<1>11. \A p \in spent \intersect created : ValueAt(R, p) = ValueAt(S, p) /\ ValueAt(S, p) \in Nat
  BY <1>9
<1> HIDE DEF created
<1> QED
  BY <1>10, <1>11 DEF txs

\* A context without a rule, and by what it counts sigops less.
Without(ctx, rule) == [ctx EXCEPT !.rules = ctx.rules \ {rule}]
Factor(rule) == IF rule = "bip141" THEN HeavyFactor ELSE 1
IsContext(ctx) ==
    /\ DOMAIN ctx = {"rules", "height", "timestamp", "median"}
    /\ ctx.height \in Nat /\ {ctx.timestamp, ctx.median} \subseteq Nat
    /\ ctx.median < ctx.timestamp

LEMMA RuleRemoved ==
    ASSUME NEW ctx, IsContext(ctx), NEW rule
    PROVE  LET less == Without(ctx, rule)
           IN  /\ \A r : is_enabled(less, r) <=> is_enabled(ctx, r) /\ r # rule
               /\ less.height = ctx.height /\ less.median = ctx.median
               /\ less.timestamp = ctx.timestamp
BY DEF IsContext, Without, is_enabled

\* An input counts no more sigops, in the units of the rules, without one of them.
LEMMA InputSigopsFall ==
    ASSUME NEW ctx, IsContext(ctx), NEW rule, is_enabled(ctx, rule),
           NEW in, in.sigops \in Nat, NEW prevouts
    PROVE  /\ InputSigops(in, ctx, prevouts) \in Nat
           /\ InputSigops(in, Without(ctx, rule), prevouts) \in Nat
           /\ Factor(rule) * InputSigops(in, Without(ctx, rule), prevouts)
                <= InputSigops(in, ctx, prevouts)
<1> DEFINE less == Without(ctx, rule)
           n == in.sigops
<1>1. \A r : is_enabled(less, r) <=> is_enabled(ctx, r) /\ r # rule
  BY RuleRemoved
<1>2. HeavyFactor \in Nat /\ n \in Nat /\ n * HeavyFactor \in Nat /\ n <= n * HeavyFactor
  <2>1. HeavyFactor \in Nat /\ HeavyFactor >= 1
    BY RulesAssumption
  <2> HIDE DEF n
  <2>2. n \in Nat
    BY DEF n
  <2> QED BY <2>1, <2>2
<1> HIDE DEF less, n
<1>3. CASE rule = "bip141"
  <2>1. InputSigops(in, less, prevouts) =
            IF in.point \in DOMAIN prevouts /\ is_enabled(ctx, "bip16") /\ in.kind = "embedded"
            THEN n * 1 ELSE 0
    BY <1>1, <1>3 DEF InputSigops, n
  <2>2. in.point \in DOMAIN prevouts /\ is_enabled(ctx, "bip16") /\ in.kind = "embedded" =>
            InputSigops(in, ctx, prevouts) = n * HeavyFactor
    BY <1>3 DEF InputSigops, n
  <2>3. InputSigops(in, ctx, prevouts) \in Nat
    BY <1>2 DEF InputSigops, n
  <2>4. HeavyFactor * (n * 1) = n * HeavyFactor /\ HeavyFactor * 0 = 0 /\ n * 1 = n
    BY <1>2
  <2> QED BY <1>2, <1>3, <2>1, <2>2, <2>3, <2>4 DEF Factor, less
<1>4. CASE rule = "bip16"
  <2>1. InputSigops(in, less, prevouts) \in {0, InputSigops(in, ctx, prevouts)}
    BY <1>1, <1>4 DEF InputSigops
  <2>2. InputSigops(in, ctx, prevouts) \in Nat
    BY <1>2 DEF InputSigops, n
  <2> QED BY <1>4, <2>1, <2>2 DEF Factor, less
<1>5. CASE rule \notin {"bip16", "bip141"}
  <2>1. InputSigops(in, less, prevouts) = InputSigops(in, ctx, prevouts)
    BY <1>1, <1>5 DEF InputSigops
  <2>2. InputSigops(in, ctx, prevouts) \in Nat
    BY <1>2 DEF InputSigops, n
  <2> QED BY <1>5, <2>1, <2>2 DEF Factor, less
<1> QED
  BY <1>3, <1>4, <1>5

LEMMA TxSigopsFall ==
    ASSUME NEW ctx, IsContext(ctx), NEW rule, is_enabled(ctx, rule),
           NEW tx, IsTransaction(tx), NEW other, AlikeTx(tx, other), NEW prevouts
    PROVE  /\ signature_operations(tx, ctx, prevouts) \in Nat
           /\ signature_operations(other, Without(ctx, rule), prevouts) \in Nat
           /\ Factor(rule) * signature_operations(other, Without(ctx, rule), prevouts)
                <= signature_operations(tx, ctx, prevouts)
<1> DEFINE less == Without(ctx, rule)
           N == Len(tx.ins)
           big == [i \in DOMAIN tx.ins |-> InputSigops(tx.ins[i], ctx, prevouts)]
           small == [i \in DOMAIN tx.ins |-> InputSigops(tx.ins[i], less, prevouts)]
           scale == IF is_enabled(ctx, "bip141") THEN HeavyFactor ELSE 1
           lower == IF is_enabled(less, "bip141") THEN HeavyFactor ELSE 1
           factor == Factor(rule)
<1>0. HeavyFactor \in Nat \ {0} /\ factor \in Nat \ {0} /\ scale \in Nat /\ lower \in Nat
  BY RulesAssumption DEF Factor
<1>1. N \in Nat /\ DOMAIN tx.ins = 1..N /\ \A i \in 1..N : tx.ins[i].sigops \in Nat
  <2>1. tx.ins \in Seq(Range(tx.ins)) /\ \A in \in Range(tx.ins) : in.sigops \in Nat
    BY DEF IsTransaction, IsInput
  <2> QED BY <2>1, LenProperties, ElementOfSeq
<1>2. /\ signature_operations(tx, ctx, prevouts) = tx.legacy * scale + Sum(big)
      /\ signature_operations(other, less, prevouts) = tx.legacy * lower + Sum(small)
  BY DEF signature_operations, SumOf, AlikeTx
<1>3. scale = factor * lower
  <2>1. is_enabled(less, "bip141") <=> is_enabled(ctx, "bip141") /\ "bip141" # rule
    BY RuleRemoved
  <2>2. HeavyFactor * 1 = HeavyFactor /\ 1 * HeavyFactor = HeavyFactor /\ 1 * 1 = 1
    BY <1>0
  <2> HIDE DEF less
  <2> QED BY <2>1, <2>2 DEF Factor
<1> HIDE DEF N, less
<1>4. /\ big = [i \in 1..N |-> big[i]] /\ small = [i \in 1..N |-> small[i]]
      /\ \A i \in 1..N : big[i] = InputSigops(tx.ins[i], ctx, prevouts)
      /\ \A i \in 1..N : small[i] = InputSigops(tx.ins[i], less, prevouts)
  BY <1>1
<1> HIDE DEF big, small, scale, lower, factor
<1>5. Len(big) = N /\ Len(small) = N
  BY <1>1, <1>4, FunctionIsListing
<1>6. \A i \in 1..N : big[i] \in Nat /\ small[i] \in Nat /\ factor * small[i] <= big[i]
  BY <1>1, <1>4, InputSigopsFall DEF less, factor
<1>7. Sum(small) \in Nat /\ Sum(big) \in Nat /\ factor * Sum(small) <= Sum(big)
  BY <1>0, <1>1, <1>5, <1>6, SumScaled
<1>8. tx.legacy \in Nat
  BY DEF IsTransaction
<1>9. \A a, x, y, l \in Nat : \A k \in Nat \ {0} : k * x <= y =>
            /\ a * l + x \in Nat /\ a * (k * l) + y \in Nat
            /\ k * (a * l + x) <= a * (k * l) + y
  <2> TAKE a, x, y, l \in Nat
  <2> TAKE k \in Nat \ {0}
  <2> HAVE k * x <= y
  <2>1. a * l \in Nat /\ k * l \in Nat /\ a * (k * l) \in Nat /\ k * (a * l) = a * (k * l)
    OBVIOUS
  <2>2. k * (a * l + x) = k * (a * l) + k * x
    OBVIOUS
  <2> QED BY <2>1, <2>2
<1>10. /\ tx.legacy * lower + Sum(small) \in Nat
       /\ tx.legacy * (factor * lower) + Sum(big) \in Nat
       /\ factor * (tx.legacy * lower + Sum(small)) <= tx.legacy * (factor * lower) + Sum(big)
  BY <1>0, <1>7, <1>8, <1>9, Zenon
<1> QED
  BY <1>2, <1>3, <1>10 DEF less, factor

\* With bip42 the subsidy is that without it, or nothing (block::subsidy).
LEMMA SubsidyWithout ==
    ASSUME NEW ctx, IsContext(ctx), NEW rule
    PROVE  /\ subsidy(ctx) \in Nat /\ subsidy(Without(ctx, rule)) \in Nat
           /\ subsidy(ctx) <= subsidy(Without(ctx, rule))
<1> DEFINE less == Without(ctx, rule)
           halves == ctx.height \div SubsidyInterval
           full == shift_right(InitialSubsidy, halves, FALSE)
<1>1. halves \in Nat /\ InitialSubsidy \in Nat
  BY RulesAssumption DEF IsContext
<1>2. full \in Nat
  BY <1>1, ShiftType
<1>3. /\ \A r : is_enabled(less, r) <=> is_enabled(ctx, r) /\ r # rule
      /\ less.height = ctx.height
  BY RuleRemoved
<1>4. /\ subsidy(ctx) = IF is_enabled(ctx, "bip42") /\ halves >= Width THEN 0 ELSE full
      /\ subsidy(less) = IF is_enabled(less, "bip42") /\ halves >= Width THEN 0 ELSE full
  <2> HIDE DEF less
  <2> QED BY <1>3 DEF subsidy, shift_right
<1> HIDE DEF less, halves, full
<1>5. subsidy(ctx) \in {0, full} /\ subsidy(less) \in {0, full}
  BY <1>4
<1>6. subsidy(less) = 0 => subsidy(ctx) = 0 \/ full = 0
  BY <1>3, <1>4
<1>7. 0 <= full /\ full <= full /\ 0 <= 0
  BY <1>2
<1> QED
  BY <1>2, <1>5, <1>6, <1>7 DEF less

LEMMA TailIs ==
    ASSUME NEW txs, Listing(txs), txs # <<>>
    PROVE  /\ Len(txs) \in Nat /\ 1 \in 1..Len(txs) /\ DOMAIN txs = 1..Len(txs)
           /\ DOMAIN Tail(txs) = 1..(Len(txs) - 1)
           /\ \A i \in 1..(Len(txs) - 1) : Tail(txs)[i] = txs[i + 1] /\ i + 1 \in 1..Len(txs)
<1>1. PICK T : txs \in Seq(T)
  BY DEF Listing
<1>2. Len(txs) \in Nat /\ Len(txs) # 0 /\ DOMAIN txs = 1..Len(txs)
  BY <1>1, EmptySeq, LenProperties
<1>3. /\ Tail(txs) \in Seq(T) /\ Len(Tail(txs)) = Len(txs) - 1
      /\ \A i \in 1..Len(Tail(txs)) : Tail(txs)[i] = txs[i + 1]
  BY <1>1, HeadTailProperties
<1>4. DOMAIN Tail(txs) = 1..(Len(txs) - 1)
  BY <1>3, LenProperties
<1> QED
  BY <1>2, <1>3, <1>4

\* Amounts do not depend on rules or witnesses.
LEMMA AmountsAlike ==
    ASSUME NEW tx, IsTransaction(tx), NEW other, AlikeTx(tx, other),
           NEW prevouts, \A p \in DOMAIN prevouts : prevouts[p] \in Nat
    PROVE  /\ spend(other) = spend(tx) /\ spend(tx) \in Nat
           /\ value(other, prevouts) = value(tx, prevouts) /\ value(tx, prevouts) \in Nat
           /\ fee(other, prevouts) = fee(tx, prevouts) /\ fee(tx, prevouts) \in Nat
<1> DEFINE outs == [i \in DOMAIN tx.outs |-> tx.outs[i]]
           ins == [i \in DOMAIN tx.ins |->
                    IF tx.ins[i].point \in DOMAIN prevouts THEN prevouts[tx.ins[i].point] ELSE 0]
           M == Len(tx.outs)
           N == Len(tx.ins)
<1>1. /\ spend(tx) = CeilingedSum(outs) /\ spend(other) = CeilingedSum(outs)
      /\ value(tx, prevouts) = CeilingedSum(ins) /\ value(other, prevouts) = CeilingedSum(ins)
  BY DEF spend, value, Ceiling, AlikeTx
<1>2. /\ M \in Nat /\ DOMAIN tx.outs = 1..M /\ \A i \in 1..M : tx.outs[i] \in Nat
      /\ N \in Nat /\ DOMAIN tx.ins = 1..N
  <2>1. tx.outs \in Seq(0..MaxValue) /\ tx.ins \in Seq(Range(tx.ins))
    BY DEF IsTransaction
  <2>2. 0..MaxValue \subseteq Nat
    BY RulesAssumption
  <2>3. \A i \in 1..M : tx.outs[i] \in 0..MaxValue
    BY <2>1, ElementOfSeq
  <2> QED BY <2>1, <2>2, <2>3, LenProperties
<1>3. outs = [i \in 1..M |-> outs[i]] /\ \A i \in 1..M : outs[i] \in Nat
  BY <1>2
<1>4. ins = [i \in 1..N |-> ins[i]] /\ \A i \in 1..N : ins[i] \in Nat
  <2> HIDE DEF N
  <2> QED BY <1>2
<1> HIDE DEF ins, outs, M, N
<1>5. Len(outs) = M /\ Len(ins) = N
  BY <1>2, <1>3, <1>4, FunctionIsListing
<1>6. CeilingedSum(outs) \in Nat /\ CeilingedSum(ins) \in Nat
  BY <1>2, <1>3, <1>4, <1>5, CeilingedSumType
<1>7. \A a, b \in Nat : floored_subtract(a, b) \in Nat
  BY DEF floored_subtract
<1> QED
  BY <1>1, <1>6, <1>7 DEF fee

\* What a block may spend and count does not fall when a rule is removed
\* (block::accept).
LEMMA AcceptsWithout ==
    ASSUME NEW txs, Listing(txs), txs # <<>>, \A i \in DOMAIN txs : IsTransaction(txs[i]),
           NEW others, Alike(txs, others),
           NEW ctx, IsContext(ctx), NEW rule, is_enabled(ctx, rule),
           NEW prevouts, \A p \in DOMAIN prevouts : prevouts[p] \in Nat,
           accept(txs, ctx, prevouts) = "success"
    PROVE  accept(others, Without(ctx, rule), prevouts) = "success"
<1> DEFINE less == Without(ctx, rule)
           N == Len(txs)
           cost == [i \in DOMAIN txs |-> fee(txs[i], prevouts)]
           big == [i \in DOMAIN txs |-> signature_operations(txs[i], ctx, prevouts)]
           small == [i \in DOMAIN txs |-> signature_operations(others[i], less, prevouts)]
           factor == Factor(rule)
<1>0. /\ N \in Nat /\ 1 \in 1..N /\ DOMAIN txs = 1..N /\ DOMAIN others = 1..N
      /\ Listing(others) /\ Len(others) = N /\ others # <<>>
      /\ \A i \in 1..N : IsTransaction(txs[i]) /\ AlikeTx(txs[i], others[i])
  BY TailIs DEF Alike
<1>1. /\ ~is_overspent(txs, ctx, prevouts)
      /\ Sum(big) <= SigopsLimit(ctx) \/ ~(Sum(big) > SigopsLimit(ctx))
      /\ FirstFailure(LAMBDA tx : TxAccept(tx, prevouts), Tail(txs)) = "success"
  BY DEF accept, SumOf
<1>2. fees(others, prevouts) = fees(txs, prevouts) /\ fees(txs, prevouts) \in Nat
  <2>1. \A i \in 1..N : fee(others[i], prevouts) = fee(txs[i], prevouts)
                         /\ fee(txs[i], prevouts) \in Nat
    BY <1>0, AmountsAlike
  <2>2. [i \in DOMAIN others |-> fee(others[i], prevouts)] = cost
    BY <1>0, <2>1
  <2>3. fees(txs, prevouts) = CeilingedSum(cost) /\ fees(others, prevouts) = CeilingedSum(cost)
    BY <2>2 DEF fees, Ceiling
  <2>4. cost = [i \in 1..N |-> cost[i]] /\ \A i \in 1..N : cost[i] \in Nat
    BY <1>0, <2>1
  <2> HIDE DEF cost, N
  <2>5. Len(cost) = N
    BY <1>0, <2>4, FunctionIsListing
  <2> QED BY <1>0, <2>3, <2>4, <2>5, CeilingedSumType
<1>3. ~is_overspent(others, less, prevouts)
  <2>1. spend(others[1]) = spend(txs[1]) /\ spend(txs[1]) \in Nat
    BY <1>0, AmountsAlike
  <2>2. /\ subsidy(ctx) \in Nat /\ subsidy(less) \in Nat /\ subsidy(ctx) <= subsidy(less)
    BY SubsidyWithout
  <2>3. ~(spend(txs[1]) > ceilinged_add(fees(txs, prevouts), subsidy(ctx)))
    BY <1>1 DEF is_overspent
  <2> DEFINE a == spend(txs[1])
             f == fees(txs, prevouts)
             x == subsidy(ctx)
             y == subsidy(less)
  <2>4. ~(a > ceilinged_add(f, y))
    <3>1. /\ a \in Nat /\ f \in Nat /\ x \in Nat /\ y \in Nat /\ x <= y
          /\ ~(a > ceilinged_add(f, x))
      BY <1>2, <2>1, <2>2, <2>3
    <3> HIDE DEF a, f, x, y
    <3> QED BY <3>1, RulesAssumption DEF ceilinged_add
  <2> QED BY <1>2, <2>1, <2>4 DEF is_overspent
<1>4. ~(Sum(small) > SigopsLimit(less))
  <2>1. factor \in Nat \ {0} /\ HeavyFactor \in Nat \ {0} /\ MaxBlockSigops \in Nat
    BY RulesAssumption DEF Factor
  <2>2. big = [i \in 1..N |-> big[i]] /\ small = [i \in 1..N |-> small[i]]
        /\ \A i \in 1..N : /\ big[i] = signature_operations(txs[i], ctx, prevouts)
                            /\ small[i] = signature_operations(others[i], less, prevouts)
    <3> HIDE DEF less, N
    <3> QED BY <1>0
  <2> HIDE DEF big, small, N
  <2>3. Len(big) = N /\ Len(small) = N
    BY <1>0, <2>2, FunctionIsListing
  <2>4. \A i \in 1..N : small[i] \in Nat /\ big[i] \in Nat /\ factor * small[i] <= big[i]
    BY <1>0, <2>2, TxSigopsFall
  <2> HIDE DEF factor
  <2>5. Sum(small) \in Nat /\ Sum(big) \in Nat /\ factor * Sum(small) <= Sum(big)
    BY <1>0, <2>1, <2>3, <2>4, SumScaled
  <2>6. SigopsLimit(ctx) = factor * SigopsLimit(less) /\ SigopsLimit(less) \in Nat
    <3>1. is_enabled(less, "bip141") <=> is_enabled(ctx, "bip141") /\ "bip141" # rule
      BY RuleRemoved
    <3>2. HeavyFactor * MaxBlockSigops \in Nat
          /\ 1 * (HeavyFactor * MaxBlockSigops) = HeavyFactor * MaxBlockSigops
          /\ 1 * MaxBlockSigops = MaxBlockSigops
      BY <2>1
    <3> HIDE DEF less
    <3> QED BY <2>1, <3>1, <3>2 DEF SigopsLimit, factor, Factor
  <2>7. \A a, b, k, l \in Nat : k # 0 /\ k * a <= b /\ ~(b > k * l) => ~(a > l)
    <3> TAKE a, b, k, l \in Nat
    <3> HAVE k # 0 /\ k * a <= b /\ ~(b > k * l)
    <3>1. k * a \in Nat /\ k * l \in Nat
      OBVIOUS
    <3>2. k * a <= k * l
      BY <3>1
    <3>3. a <= l
      BY <3>2, SmallerFactor
    <3> QED BY <3>3
  <2>8. ~(Sum(big) > factor * SigopsLimit(less))
    <3>1. factor * SigopsLimit(less) \in Nat
      BY <2>1, <2>6
    <3> QED BY <1>1, <2>5, <2>6, <3>1
  <2> QED BY <2>1, <2>5, <2>6, <2>7, <2>8
<1>5. FirstFailure(LAMBDA tx : TxAccept(tx, prevouts), Tail(others)) = "success"
  <2>1. /\ DOMAIN Tail(txs) = 1..(N - 1) /\ DOMAIN Tail(others) = 1..(N - 1)
        /\ \A i \in 1..(N - 1) : /\ Tail(txs)[i] = txs[i + 1] /\ Tail(others)[i] = others[i + 1]
                                /\ i + 1 \in 1..N
    BY <1>0, TailIs
  <2>2. 1..(N - 1) \subseteq Nat
    OBVIOUS
  <2>3. \A i \in 1..(N - 1) : TxAccept(Tail(txs)[i], prevouts) = "success"
    <3> DEFINE failed == {i \in DOMAIN Tail(txs) : TxAccept(Tail(txs)[i], prevouts) # "success"}
    <3>1. failed # {} => Min(failed) \in failed
      BY <2>1, <2>2, LeastIs
    <3>2. failed = {}
      BY <1>1, <3>1 DEF FirstFailure
    <3> QED BY <2>1, <3>2
  <2>4. \A i \in 1..N : TxAccept(others[i], prevouts) = TxAccept(txs[i], prevouts)
    <3> TAKE i \in 1..N
    <3>1. AlikeTx(txs[i], others[i]) /\ IsTransaction(txs[i])
      BY <1>0
    <3>2. /\ spend(others[i]) = spend(txs[i])
          /\ value(others[i], prevouts) = value(txs[i], prevouts)
      BY <3>1, AmountsAlike
    <3>3. is_coinbase(others[i]) <=> is_coinbase(txs[i])
      BY <3>1 DEF AlikeTx, is_coinbase
    <3>4. points(others[i]) = points(txs[i])
      BY <3>1 DEF AlikeTx, points
    <3> QED BY <3>2, <3>3, <3>4 DEF TxAccept
  <2>5. {i \in DOMAIN Tail(others) : TxAccept(Tail(others)[i], prevouts) # "success"} = {}
    BY <2>1, <2>3, <2>4
  <2> QED BY <2>5 DEF FirstFailure
<1> QED
  <2>1. SumOf(LAMBDA tx : signature_operations(tx, less, prevouts), others) = Sum(small)
    BY <1>0 DEF SumOf
  <2> HIDE DEF less, small
  <2> QED BY <1>3, <1>4, <1>5, <2>1 DEF accept, less

\* A list as it is shown to whom a rule is unknown: without what the rule brought.
Softened(txs, rule) == IF rule = "bip141" THEN Stripped(txs) ELSE txs

LEMMA SoftenedAlike ==
    ASSUME NEW txs, SeenList(txs), NEW rule
    PROVE  /\ Alike(txs, Softened(txs, rule))
           /\ rule # "bip141" => Softened(txs, rule) = txs
           /\ rule = "bip141" =>
                \A i \in DOMAIN Softened(txs, rule) : Softened(txs, rule)[i].witness = "none"
<1>1. Alike(txs, txs) /\ Alike(txs, Stripped(txs))
  BY AlikeStripped
<1>2. \A i \in DOMAIN txs : Stripped(txs)[i].witness = "none"
  BY StrippedBare
<1>3. DOMAIN Stripped(txs) = DOMAIN txs
  BY <1>1 DEF Alike
<1> HIDE DEF Stripped
<1> QED
  BY <1>1, <1>2, <1>3 DEF Softened

\* The time a transaction waits for is no later without a rule
\* (transaction::is_absolute_locked).
LEMMA UnlockedWithout ==
    ASSUME NEW tx, IsTransaction(tx), NEW other, AlikeTx(tx, other),
           NEW ctx, IsContext(ctx), NEW rule, TxCheckContext(tx, ctx) = "success"
    PROVE  TxCheckContext(other, Without(ctx, rule)) = "success"
<1> DEFINE less == Without(ctx, rule)
           early == tx.locktime < LocktimeThreshold
           on(c) == is_enabled(c, "bip113")
           late(c) == tx.locktime >= IF early THEN c.height
                                     ELSE IF on(c) THEN c.median ELSE c.timestamp
<1>1. /\ tx.locktime \in Nat /\ other.locktime = tx.locktime /\ other.ins = tx.ins
      /\ ctx.height \in Nat /\ ctx.median \in Nat /\ ctx.timestamp \in Nat
      /\ ctx.median < ctx.timestamp
  BY DEF IsTransaction, AlikeTx, IsContext
<1>2. /\ on(less) => on(ctx)
      /\ less.height = ctx.height /\ less.median = ctx.median
      /\ less.timestamp = ctx.timestamp
  BY RuleRemoved
<1>3. /\ is_absolute_locked(tx, ctx) <=>
            /\ tx.locktime # 0 /\ late(ctx)
            /\ Some(LAMBDA in : ~in.sequence.final, tx.ins)
      /\ is_absolute_locked(other, less) <=>
            /\ tx.locktime # 0 /\ late(less)
            /\ Some(LAMBDA in : ~in.sequence.final, tx.ins)
  BY <1>1 DEF is_absolute_locked
<1> HIDE DEF less, early, on
<1>4. late(less) => late(ctx)
  <2>1. CASE early
    BY <1>2, <2>1
  <2>2. CASE ~early
    <3>1. late(less) <=> tx.locktime >= IF on(less) THEN ctx.median ELSE ctx.timestamp
      BY <1>2, <2>2
    <3>2. late(ctx) <=> tx.locktime >= IF on(ctx) THEN ctx.median ELSE ctx.timestamp
      BY <2>2
    <3> HIDE DEF late
    <3> QED BY <1>1, <1>2, <3>1, <3>2
  <2> QED BY <2>1, <2>2
<1> HIDE DEF late
<1>5. ~is_absolute_locked(tx, ctx)
  BY DEF TxCheckContext
<1> QED
  BY <1>3, <1>4, <1>5 DEF TxCheckContext, less

\* A list that its context accepts, its context without a rule accepts.
LEMMA ContextWithout ==
    ASSUME NEW txs, Listing(txs), txs # <<>>, \A i \in DOMAIN txs : IsTransaction(txs[i]),
           NEW rule, NEW others, Alike(txs, others),
           rule # "bip141" => others = txs,
           rule = "bip141" => \A i \in DOMAIN others : others[i].witness = "none",
           NEW ctx, IsContext(ctx),
           identify_context(txs, ctx) = "success", check_context(txs, ctx, TRUE) = "success"
    PROVE  /\ identify_context(others, Without(ctx, rule)) = "success"
           /\ check_context(others, Without(ctx, rule), FALSE) = "success"
<1> DEFINE less == Without(ctx, rule)
           N == Len(txs)
<1>0. /\ N \in Nat /\ 1 \in 1..N /\ DOMAIN txs = 1..N /\ DOMAIN others = 1..N
      /\ Listing(others) /\ others # <<>>
      /\ \A i \in 1..N : IsTransaction(txs[i]) /\ AlikeTx(txs[i], others[i])
  BY TailIs DEF Alike
<1>1. /\ \A r : is_enabled(less, r) <=> is_enabled(ctx, r) /\ r # rule
      /\ less.height = ctx.height
  BY RuleRemoved
<1> HIDE DEF less, N
<1>2. identify_context(others, less) = "success"
  <2>1. CASE rule = "bip141"
    <3>1. ~is_enabled(less, "bip141")
      BY <1>1, <2>1
    <3>2. ~Some(is_segregated, others)
      BY <2>1 DEF Some, is_segregated
    <3> QED BY <3>1, <3>2 DEF identify_context
  <2>2. CASE rule # "bip141"
    <3>1. others = txs /\ (is_enabled(less, "bip141") <=> is_enabled(ctx, "bip141"))
      BY <1>1, <2>2
    <3> QED BY <3>1 DEF identify_context
  <2> QED BY <2>1, <2>2
<1>3. HashCount(others) = HashCount(txs)
  <2>1. {others[i].id : i \in DOMAIN others} = {txs[i].id : i \in DOMAIN txs}
    BY <1>0 DEF AlikeTx
  <2>2. Listed(points, Tail(others)) = Listed(points, Tail(txs))
    <3>1. /\ DOMAIN Tail(txs) = 1..(N - 1) /\ DOMAIN Tail(others) = 1..(N - 1)
          /\ \A i \in 1..(N - 1) : /\ Tail(txs)[i] = txs[i + 1] /\ Tail(others)[i] = others[i + 1]
                                  /\ i + 1 \in 1..N
      BY <1>0, TailIs DEF Alike, N
    <3>2. \A i \in 1..(N - 1) : points(Tail(others)[i]) = points(Tail(txs)[i])
      BY <1>0, <3>1 DEF AlikeTx, points
    <3> QED BY <3>1, <3>2 DEF Listed
  <2> QED BY <2>1, <2>2 DEF HashCount
<1>4. others[1].head = txs[1].head
  BY <1>0 DEF AlikeTx
<1>5. FirstFailure(LAMBDA tx : TxCheckContext(tx, ctx), txs) = "success"
  BY DEF check_context
<1>6. \A i \in DOMAIN txs : TxCheckContext(txs[i], ctx) = "success"
  <2> DEFINE failed == {i \in DOMAIN txs : TxCheckContext(txs[i], ctx) # "success"}
  <2>1. failed # {} => Min(failed) \in failed
    <3>1. failed \subseteq Nat
      BY <1>0
    <3> QED BY <3>1, LeastIs
  <2>2. failed = {}
    BY <1>5, <2>1 DEF FirstFailure
  <2> QED BY <2>2
<1>7. FirstFailure(LAMBDA tx : TxCheckContext(tx, less), others) = "success"
  <2>1. \A i \in DOMAIN others : TxCheckContext(others[i], less) = "success"
    BY <1>0, <1>6, UnlockedWithout DEF less
  <2>2. {i \in DOMAIN others : TxCheckContext(others[i], less) # "success"} = {}
    BY <2>1
  <2> QED BY <2>2 DEF FirstFailure
<1>8. is_enabled(less, "bip141") => ~(weight(BlockSize(others), BlockLight(others)) > MaxBlockWeight)
  <2>1. is_enabled(less, "bip141") => is_enabled(ctx, "bip141") /\ others = txs
    BY <1>1
  <2>2. is_enabled(ctx, "bip141") => ~(weight(BlockSize(txs), BlockLight(txs)) > MaxBlockWeight)
    BY DEF check_context
  <2> QED BY <2>1, <2>2
<1>9. is_enabled(less, "bip34") => others[1].head.height = less.height
  <2>1. is_enabled(ctx, "bip34") => txs[1].head.height = ctx.height
    BY DEF check_context
  <2> QED BY <1>1, <1>4, <2>1
<1>10. is_enabled(less, "bip50") => ~(HashCount(others) > HashLimit)
  <2>1. is_enabled(ctx, "bip50") => ~(HashCount(txs) > HashLimit)
    BY DEF check_context
  <2> QED BY <1>1, <1>3, <2>1
<1>11. check_context(others, less, FALSE) = "success"
  BY <1>7, <1>8, <1>9, <1>10 DEF check_context
<1> QED
  BY <1>2, <1>11 DEF less

\* So do its own spends and its witnesses (block::populate, block::connect).
LEMMA PopulatesWithout ==
    ASSUME NEW txs, Listing(txs), txs # <<>>, \A i \in DOMAIN txs : IsTransaction(txs[i]),
           NEW others, Alike(txs, others), NEW ctx, IsContext(ctx), NEW rule,
           populate(txs, ctx) = "success"
    PROVE  populate(others, Without(ctx, rule)) = "success"
<1> DEFINE less == Without(ctx, rule)
           N == Len(txs)
<1>0. /\ N \in Nat /\ 1 \in 1..N /\ DOMAIN txs = 1..N /\ DOMAIN others = 1..N
      /\ Listing(others) /\ others # <<>>
      /\ \A i \in 1..N : IsTransaction(txs[i]) /\ AlikeTx(txs[i], others[i])
      /\ DOMAIN Tail(txs) = 1..(N - 1) /\ DOMAIN Tail(others) = 1..(N - 1)
      /\ \A i \in 1..(N - 1) : /\ Tail(txs)[i] = txs[i + 1] /\ Tail(others)[i] = others[i + 1]
                              /\ i + 1 \in 1..N
  BY TailIs DEF Alike
<1>1. \A r : is_enabled(less, r) => is_enabled(ctx, r)
  BY RuleRemoved
<1> HIDE DEF less, N
<1>2. 1..(N - 1) \subseteq Nat
  OBVIOUS
<1>3. Internal(others) = Internal(txs) /\ others[1].id = txs[1].id
  <2>1. \A i \in 1..N : Created(others[i]) = Created(txs[i])
    BY <1>0 DEF AlikeTx, Created
  <2>2. others[1].id = txs[1].id
    BY <1>0 DEF AlikeTx
  <2> QED BY <1>0, <2>1, <2>2 DEF Internal, Listed
<1> DEFINE passed(tx) == FirstFailure(LAMBDA in : PopulateInput(txs, ctx, tx, in), tx.ins)
           passing(tx) == FirstFailure(LAMBDA in : PopulateInput(others, less, tx, in), tx.ins)
<1>4. \A i \in 1..(N - 1) : passed(Tail(txs)[i]) = "success"
  <2> DEFINE failed == {i \in DOMAIN Tail(txs) : passed(Tail(txs)[i]) # "success"}
  <2>1. failed # {} => Min(failed) \in failed
    <3> HIDE DEF passed
    <3> QED BY <1>0, <1>2, LeastIs
  <2>2. "success" = IF failed = {} THEN "success" ELSE passed(Tail(txs)[Min(failed)])
    BY DEF populate, FirstFailure
  <2> HIDE DEF passed
  <2>3. failed = {}
    BY <2>1, <2>2
  <2> QED BY <1>0, <2>3
<1>5. ASSUME NEW i \in 1..(N - 1) PROVE passing(Tail(others)[i]) = "success"
  <2> DEFINE tx == Tail(txs)[i]
             other == Tail(others)[i]
  <2>1. AlikeTx(tx, other) /\ IsTransaction(tx)
    BY <1>0
  <2>2. other.ins = tx.ins /\ other.version = tx.version
    BY <2>1 DEF AlikeTx
  <2>3. DOMAIN tx.ins \subseteq Nat
    <3>1. tx.ins \in Seq(Range(tx.ins))
      BY <2>1 DEF IsTransaction
    <3> HIDE DEF tx
    <3> QED BY <3>1, LenProperties
  <2>4. passed(tx) = "success"
    BY <1>4
  <2> HIDE DEF tx, other
  <2>5. \A k \in DOMAIN tx.ins : PopulateInput(txs, ctx, tx, tx.ins[k]) = "success"
    <3> DEFINE failed == {k \in DOMAIN tx.ins : PopulateInput(txs, ctx, tx, tx.ins[k]) # "success"}
    <3>1. failed # {} => Min(failed) \in failed
      BY <2>3, LeastIs
    <3>2. failed = {}
      BY <2>4, <3>1 DEF FirstFailure
    <3> QED BY <3>2
  <2>6. \A in : PopulateInput(txs, ctx, tx, in) = "success" =>
                    PopulateInput(others, less, other, in) = "success"
    <3>1. \A in : is_internally_locked(other, in) <=> is_internally_locked(tx, in)
      BY <2>2 DEF is_internally_locked
    <3> QED BY <1>1, <1>3, <3>1 DEF PopulateInput
  <2>7. {k \in DOMAIN other.ins : PopulateInput(others, less, other, other.ins[k]) # "success"} = {}
    BY <2>2, <2>5, <2>6
  <2>8. passing(other) = "success"
    BY <2>7 DEF FirstFailure
  <2> QED BY <2>8 DEF other
<1>6. populate(others, less) = "success"
  <2> DEFINE failed == {i \in DOMAIN Tail(others) : passing(Tail(others)[i]) # "success"}
  <2>1. failed = {}
    <3> HIDE DEF passing
    <3> QED BY <1>0, <1>5
  <2>2. populate(others, less)
            = IF failed = {} THEN "success" ELSE passing(Tail(others)[Min(failed)])
    BY DEF populate, FirstFailure
  <2> QED BY <2>1, <2>2
<1> QED
  BY <1>6 DEF less

LEMMA ConnectsWithout ==
    ASSUME NEW txs, Listing(txs), txs # <<>>, NEW rule, NEW others, Alike(txs, others),
           rule # "bip141" => others = txs,
           rule = "bip141" => \A i \in DOMAIN others : others[i].witness = "none",
           connect(txs) = "success"
    PROVE  connect(others) = "success"
<1>1. CASE rule # "bip141"
  BY <1>1
<1>2. CASE rule = "bip141"
  <2>1. others # <<>> /\ Listing(others)
    BY TailIs DEF Alike
  <2>2. \A i \in DOMAIN Tail(others) : Tail(others)[i].witness = "none"
    BY <1>2, <2>1, TailIs
  <2>3. {i \in DOMAIN Tail(others) : TxConnect(Tail(others)[i]) # "success"} = {}
    BY <2>2 DEF TxConnect
  <2> QED BY <2>3 DEF connect, FirstFailure
<1> QED
  BY <1>1, <1>2

\* A block of the store that passes, passes without a rule.
LEMMA PassesWithout ==
    ASSUME StoreInv, NEW h \in Known, IsArchived(h), NEW rule \in rules,
           populate(body[h], ContextOf(h)) = "success",
           accept(body[h], ContextOf(h), Prevouts(body[h])) = "success",
           connect(body[h]) = "success"
    PROVE  Passes(Softened(body[h], rule), Without(ContextOf(h), rule))
<1> DEFINE txs == body[h]
           ctx == ContextOf(h)
           root == MerkleRoot(headers[h].txs)
           identified == FirstOf(<<identify(txs, root), identify_context(txs, ctx)>>)
<1>1. SeenList(txs) /\ Verdict(h, txs) = "success"
  BY Domains DEF StoreInv, BodiesSeen, ArchivedPassed
<1>2. /\ identified = "success" /\ check(txs, root, TRUE) = "success"
      /\ check_context(txs, ctx, TRUE) = "success"
  <2>1. \/ Verdict(h, txs) = identified /\ identified # "success"
        \/ identified = "success" /\ Verdict(h, txs) = check(txs, root, TRUE)
            /\ check(txs, root, TRUE) # "success"
        \/ identified = "success" /\ check(txs, root, TRUE) = "success"
            /\ Verdict(h, txs) = check_context(txs, ctx, TRUE)
    BY DEF Verdict
  <2> HIDE DEF txs, ctx, root, identified
  <2> QED BY <1>1, <2>1
<1>3. identify_context(txs, ctx) = "success"
  <2> DEFINE codes == <<identify(txs, root), identify_context(txs, ctx)>>
  <2>1. DOMAIN codes = 1..2 /\ 1..2 \subseteq Nat /\ 2 \in 1..2
        /\ codes[2] = identify_context(txs, ctx)
    OBVIOUS
  <2> HIDE DEF codes
  <2>2. codes[2] = "success"
    BY <1>2, <2>1, AllSucceed DEF codes
  <2> QED BY <2>1, <2>2
<1>4. txs # <<>>
  BY <1>2 DEF check
<1>5. IsContext(ctx) /\ ctx.rules = rules
  <2>1. headers[h].height \in 1..Len(MaxHeaders)
    BY Domains DEF StoreInv, Header
  <2> DEFINE height == headers[h].height
  <2> HIDE DEF height
  <2>2. /\ height \in Nat /\ Timestamp[height] \in Nat /\ MedianTime[height] \in Nat
        /\ MedianTime[height] < Timestamp[height]
    BY <2>1, ConfirmationAssumption, LenProperties DEF height
  <2> QED BY <2>2 DEF IsContext, ContextOf, Context, height
<1>6. is_enabled(ctx, rule)
  BY <1>5 DEF is_enabled
<1> DEFINE others == Softened(txs, rule)
<1>7. /\ Alike(txs, others)
      /\ rule # "bip141" => others = txs
      /\ rule = "bip141" => \A i \in DOMAIN others : others[i].witness = "none"
  BY <1>1, SoftenedAlike
<1>8. Listing(txs) /\ \A i \in DOMAIN txs : IsTransaction(txs[i])
  BY <1>1 DEF SeenList, SeenTx
<1>9. /\ Prevouts(others) = Prevouts(txs)
      /\ \A p \in DOMAIN Prevouts(txs) : Prevouts(txs)[p] \in Nat
  BY <1>7, PrevoutsAlike
<1>10. /\ populate(txs, ctx) = "success" /\ accept(txs, ctx, Prevouts(txs)) = "success"
       /\ connect(txs) = "success"
  OBVIOUS
<1> HIDE DEF txs, ctx, others, root, identified
<1>11. /\ identify_context(others, Without(ctx, rule)) = "success"
       /\ check_context(others, Without(ctx, rule), FALSE) = "success"
  BY <1>2, <1>3, <1>4, <1>5, <1>7, <1>8, ContextWithout
<1>12. populate(others, Without(ctx, rule)) = "success"
  BY <1>4, <1>5, <1>7, <1>8, <1>10, PopulatesWithout
<1>13. accept(others, Without(ctx, rule), Prevouts(others)) = "success"
  BY <1>4, <1>5, <1>6, <1>7, <1>8, <1>9, <1>10, AcceptsWithout
<1>14. connect(others) = "success"
  BY <1>4, <1>7, <1>8, <1>10, ConnectsWithout
<1> QED
  BY <1>11, <1>12, <1>13, <1>14 DEF Passes, others, ctx, txs

\* A block becomes valid only as it is validated.
LEMMA BecomesValid ==
    ASSUME StoreInv, Next, NEW h \in Known, state[h] = "archived", state'[h] = "valid"
    PROVE  Validate(h)
<1>1. state \in Seq(States) /\ Len(state) \in Nat /\ h \in 1..Len(state)
      /\ Known = 1..Len(state) /\ "announced" \in States /\ DOMAIN state = 1..Len(state)
  BY Domains, LenProperties DEF StoreInv, StoreTypeOK, States
<1>2. ASSUME NEW parent, NEW txs, Announce(parent, txs) PROVE FALSE
  <2>1. state' = Append(state, "announced")
    BY <1>2 DEF Announce
  <2>2. state'[h] = state[h]
    BY <1>1, <2>1, AppendProperties
  <2> QED BY <2>2
<1>3. ASSUME NEW k \in Known, NEW txs, Download(k, txs) PROVE FALSE
  <2>1. state[k] = "announced" /\ \E mark : state' = [state EXCEPT ![k] = mark]
    BY <1>3 DEF Download
  <2>2. k # h
    BY <2>1
  <2>3. state'[h] = state[h]
    BY <1>1, <2>1, <2>2
  <2> QED BY <2>3
<1>4. ASSUME NEW k \in Known, Validate(k) PROVE k = h
  <2>1. \E mark : state' = [state EXCEPT ![k] = mark]
    BY <1>4 DEF Validate
  <2>2. k # h => state'[h] = state[h]
    BY <1>1, <2>1
  <2> QED BY <2>2
<1>5. ASSUME NEW k \in Known, Confirm(k) PROVE FALSE
  <2>1. state[k] = "valid" /\ (state' = state \/ state' = [state EXCEPT ![k] = "invalid"])
    BY <1>5 DEF Confirm
  <2>2. k # h
    BY <2>1
  <2>3. state'[h] = state[h]
    BY <1>1, <2>1, <2>2
  <2> QED BY <2>3
<1>6. ~Reorganize
  BY DEF Reorganize
<1> QED
  BY <1>2, <1>3, <1>4, <1>5, <1>6 DEF Next

\* Every rule is a soft fork, for any set of rules and any block: what passes
\* validation with it passes without it (check_context, populate, accept).
THEOREM RulesSoften == Spec => SoftForkOnly
<1> DEFINE Softens ==
        \A h \in Known : state[h] = "archived" /\ state'[h] = "valid" =>
            \A rule \in rules :
                Passes(IF rule = "bip141" THEN Stripped(body[h]) ELSE body[h],
                       [ContextOf(h) EXCEPT !.rules = rules \ {rule}])
<1>1. ASSUME StoreInv, [Next]_vars PROVE [Softens]_vars
  <2> SUFFICES ASSUME Next, NEW h \in Known, state[h] = "archived", state'[h] = "valid",
                      NEW rule \in rules
               PROVE  Passes(Softened(body[h], rule),
                             [ContextOf(h) EXCEPT !.rules = rules \ {rule}])
    BY <1>1 DEF Softened
  <2> DEFINE txs == body[h]
             ctx == ContextOf(h)
             codes == <<populate(txs, ctx), accept(txs, ctx, Prevouts(txs)), connect(txs)>>
             verdict == FirstOf(codes)
  <2>1. state' = [state EXCEPT ![h] = IF verdict = "success" THEN "valid" ELSE "invalid"]
    BY <1>1, BecomesValid DEF Validate
  <2>2. verdict = "success"
    <3> HIDE DEF verdict
    <3>1. h \in DOMAIN state
      BY <1>1, Domains DEF StoreInv
    <3> QED BY <2>1, <3>1
  <2>3. /\ DOMAIN codes = 1..3 /\ 1..3 \subseteq Nat /\ {1, 2, 3} \subseteq 1..3
        /\ codes[1] = populate(txs, ctx) /\ codes[2] = accept(txs, ctx, Prevouts(txs))
        /\ codes[3] = connect(txs)
    OBVIOUS
  <2> HIDE DEF codes
  <2>4. \A i \in 1..3 : codes[i] = "success"
    BY <2>2, <2>3, AllSucceed
  <2>5. /\ populate(txs, ctx) = "success" /\ accept(txs, ctx, Prevouts(txs)) = "success"
        /\ connect(txs) = "success"
    BY <2>3, <2>4
  <2>6. IsArchived(h)
    BY DEF IsArchived
  <2>7. Passes(Softened(txs, rule), Without(ctx, rule))
    BY <1>1, <2>5, <2>6, PassesWithout
  <2>8. Without(ctx, rule) = [ctx EXCEPT !.rules = rules \ {rule}]
    BY DEF Without, ContextOf, Context
  <2> QED BY <2>7, <2>8
<1> QED
  BY <1>1, StoreCorrect, PTL DEF Spec, SoftForkOnly

-------------------------------------------------------------------------------
(* The merkle tree: widths, and the leaves of a node that was cloned.      *)

LEMMA Scaled ==
    ASSUME NEW k \in Nat, NEW a \in Int, NEW b \in Int, a <= b
    PROVE  a * k <= b * k
  OBVIOUS

LEMMA QuotientOf ==
    ASSUME NEW a \in Nat, NEW k \in Nat \ {0}, NEW q \in Nat, q * k <= a, a < q * k + k
    PROVE  a \div k = q
<1> DEFINE p == a \div k
<1>1. p \in Nat /\ p * k <= a /\ a < p * k + k
  OBVIOUS
<1> HIDE DEF p
<1>2. ASSUME NEW m \in Nat, NEW n \in Nat, m < n, n * k <= a, a < m * k + k
      PROVE  FALSE
  <2>1. (m + 1) * k <= n * k
    BY <1>2, Scaled
  <2>2. (m + 1) * k = m * k + k
    OBVIOUS
  <2> DEFINE x == m * k
             y == n * k
  <2>3. x \in Int /\ y \in Int
    OBVIOUS
  <2>4. x + k <= y /\ y <= a /\ a < x + k
    BY <1>2, <2>1, <2>2
  <2> HIDE DEF x, y
  <2> QED BY <2>3, <2>4
<1>3. ~(p < q) /\ ~(q < p)
  BY <1>1, <1>2
<1>4. p = q
  BY <1>1, <1>3
<1> QED
  BY <1>4 DEF p

\* The number of nodes at a depth, by what they cover.
LEMMA CountIs ==
    ASSUME NEW N \in Nat, NEW w \in Nat \ {0}, NEW k \in Nat \ {0},
           (k - 1) * w < N, N <= k * w
    PROVE  ceilinged_divide(N, w) = k
<1> DEFINE x == (k - 1) * w
           y == k * w
<1>1. x \in Nat /\ y \in Nat /\ y = x + w
  OBVIOUS
<1>2. x < N /\ N <= y
  OBVIOUS
<1> HIDE DEF x, y
<1>3. N + w - 1 \in Nat /\ y <= N + w - 1 /\ N + w - 1 < y + w
  BY <1>1, <1>2
<1>4. (N + w - 1) \div w = k
  BY <1>3, QuotientOf DEF y
<1> QED
  BY <1>4 DEF ceilinged_divide

DoubledFrom(f, n) == [p \in 0..n |-> IF p = 0 THEN 1 ELSE 2 * f[p - 1]]

LEMMA DoublesExist == \A n \in Nat : \E f : f = DoubledFrom(f, n)
<1> DEFINE X == {n \in Nat : \E f : f = DoubledFrom(f, n)}
<1>1. 0 \in X
  <2> DEFINE g == [d \in 0..0 |-> 1]
  <2>1. g = DoubledFrom(g, 0)
    BY DEF DoubledFrom
  <2> QED BY <2>1
<1>2. ASSUME NEW n \in Nat, n \in X PROVE n + 1 \in X
  <2>1. PICK h : h = DoubledFrom(h, n)
    BY <1>2
  <2> DEFINE g == [d \in 0..(n + 1) |-> IF d <= n THEN h[d] ELSE 2 * h[n]]
  <2>2. \A d \in 0..n : h[d] = IF d = 0 THEN 1 ELSE 2 * h[d - 1]
    BY <2>1 DEF DoubledFrom
  <2>3. \A d \in 0..n : g[d] = h[d]
    OBVIOUS
  <2>4. g[n + 1] = 2 * h[n]
    OBVIOUS
  <2>5. g = [d \in 0..(n + 1) |-> g[d]]
    OBVIOUS
  <2> HIDE DEF g
  <2>6. ASSUME NEW d \in 0..(n + 1)
        PROVE  g[d] = IF d = 0 THEN 1 ELSE 2 * g[d - 1]
    <3>1. CASE d = 0
      BY <2>2, <2>3, <3>1
    <3>2. CASE d \in 1..n
      <4>1. d \in 0..n /\ d - 1 \in 0..n /\ d # 0
        BY <3>2
      <4> QED BY <2>2, <2>3, <4>1
    <3>3. CASE d = n + 1
      <4>1. d - 1 = n /\ n \in 0..n /\ d # 0
        BY <3>3
      <4> QED BY <2>3, <2>4, <3>3, <4>1
    <3> QED BY <3>1, <3>2, <3>3
  <2>7. g = DoubledFrom(g, n + 1)
    BY <2>5, <2>6 DEF DoubledFrom
  <2> QED BY <2>7
<1> HIDE DEF X
<1>3. Nat \subseteq X
  BY <1>1, <1>2, SuccessorsFill
<1> QED
  BY <1>3 DEF X

\* What the recursion has at a place does not depend on how far it goes.
LEMMA DoublesAgree ==
    ASSUME NEW m \in Nat, NEW n \in Nat, NEW f, NEW g,
           f = DoubledFrom(f, m), g = DoubledFrom(g, n)
    PROVE  \A d \in Nat : d <= m /\ d <= n => f[d] = g[d] /\ f[d] \in Nat \ {0}
<1> DEFINE X == {d \in Nat : d <= m /\ d <= n => f[d] = g[d] /\ f[d] \in Nat \ {0}}
<1>1. /\ \A d \in 0..m : f[d] = IF d = 0 THEN 1 ELSE 2 * f[d - 1]
      /\ \A d \in 0..n : g[d] = IF d = 0 THEN 1 ELSE 2 * g[d - 1]
  BY DEF DoubledFrom
<1>2. 0 \in X
  <2>1. 0 \in 0..m /\ 0 \in 0..n
    OBVIOUS
  <2>2. f[0] = 1 /\ g[0] = 1
    BY <1>1, <2>1
  <2> QED BY <2>2
<1>3. ASSUME NEW d \in Nat, d \in X PROVE d + 1 \in X
  <2> SUFFICES ASSUME d + 1 <= m, d + 1 <= n
               PROVE  f[d + 1] = g[d + 1] /\ f[d + 1] \in Nat \ {0}
    OBVIOUS
  <2>1. d + 1 \in 0..m /\ d + 1 \in 0..n /\ d + 1 # 0 /\ (d + 1) - 1 = d /\ d <= m /\ d <= n
    OBVIOUS
  <2>2. f[d + 1] = 2 * f[d] /\ g[d + 1] = 2 * g[d]
    BY <1>1, <2>1
  <2>3. f[d] = g[d] /\ f[d] \in Nat \ {0}
    BY <1>3, <2>1
  <2> DEFINE k == f[d]
  <2> HIDE DEF k
  <2>4. k \in Nat \ {0} /\ 2 * k \in Nat \ {0}
    BY <2>3 DEF k
  <2> QED BY <2>2, <2>3, <2>4 DEF k
<1> HIDE DEF X
<1>4. Nat \subseteq X
  BY <1>2, <1>3, SuccessorsFill
<1> QED
  BY <1>4 DEF X

\* Widths double from one on.
LEMMA DoubledIs ==
    /\ Doubled(0) = 1
    /\ \A d \in Nat : Doubled(d) \in Nat \ {0} /\ Doubled(d + 1) = 2 * Doubled(d)
<1> DEFINE F(n) == CHOOSE f : f = DoubledFrom(f, n)
<1>1. ASSUME NEW n \in Nat PROVE F(n) = DoubledFrom(F(n), n) /\ Doubled(n) = F(n)[n]
  <2>1. F(n) = DoubledFrom(F(n), n)
    BY DoublesExist
  <2>2. Doubled(n) = F(n)[n]
    BY DEF Doubled, DoubledFrom
  <2> QED BY <2>1, <2>2
<1> HIDE DEF F
<1>2. ASSUME NEW n \in Nat
      PROVE  \A d \in 0..n : F(n)[d] = IF d = 0 THEN 1 ELSE 2 * F(n)[d - 1]
  BY <1>1 DEF DoubledFrom
<1>3. Doubled(0) = 1
  <2>1. 0 \in 0..0 /\ 0 \in Nat
    OBVIOUS
  <2>2. F(0)[0] = 1
    BY <1>2, <2>1
  <2> QED BY <1>1, <2>1, <2>2
<1>4. ASSUME NEW d \in Nat
      PROVE  Doubled(d) \in Nat \ {0} /\ Doubled(d + 1) = 2 * Doubled(d)
  <2>1. d + 1 \in Nat /\ d <= d /\ d <= d + 1 /\ d + 1 \in 0..(d + 1) /\ d + 1 # 0
        /\ (d + 1) - 1 = d
    OBVIOUS
  <2>2. F(d)[d] = F(d + 1)[d] /\ F(d)[d] \in Nat \ {0}
    <3>1. F(d) = DoubledFrom(F(d), d) /\ F(d + 1) = DoubledFrom(F(d + 1), d + 1)
      BY <1>1, <2>1
    <3> QED BY <2>1, <3>1, DoublesAgree
  <2>3. F(d + 1)[d + 1] = 2 * F(d + 1)[d]
    BY <1>2, <2>1
  <2> QED BY <1>1, <2>1, <2>2, <2>3
<1> QED
  BY <1>3, <1>4

\* A step of the loop that finds a leaf, for each position and count.
IndexStep(below, w) ==
    [at \in 0..(w - 1) |-> [c \in 1..w |->
        IF c >= w THEN at
        ELSE IF c <= w \div 2 THEN below[at % (w \div 2)][c]
        ELSE IF at < w \div 2 THEN at
        ELSE w \div 2 + below[at - w \div 2][c - w \div 2]]]
IndexFrom(f, n) == [w \in 1..n |-> IndexStep(f[w \div 2], w)]

LEMMA IndexOfOne ==
    ASSUME NEW below, NEW other
    PROVE  IndexStep(below, 1) = IndexStep(other, 1)
<1>1. \A c \in 1..1 : c >= 1
  OBVIOUS
<1>2. ASSUME NEW any PROVE IndexStep(any, 1) = [at \in 0..(1 - 1) |-> [c \in 1..1 |-> at]]
  BY <1>1 DEF IndexStep
<1> QED
  BY <1>2

LEMMA HalfBelow ==
    ASSUME NEW w \in Nat, w > 1
    PROVE  w \div 2 \in 1..(w - 1)
  OBVIOUS

LEMMA IndexesExist == \A n \in Nat : \E f : f = IndexFrom(f, n)
<1> DEFINE X == {n \in Nat : \E f : f = IndexFrom(f, n)}
<1>1. 0 \in X
  <2> DEFINE g == [d \in 1..0 |-> 1]
  <2>1. g = IndexFrom(g, 0)
    BY DEF IndexFrom
  <2> QED BY <2>1
<1>2. ASSUME NEW n \in Nat, n \in X PROVE n + 1 \in X
  <2>1. PICK h : h = IndexFrom(h, n)
    BY <1>2
  <2> DEFINE last == IndexStep(h[(n + 1) \div 2], n + 1)
             g == [d \in 1..(n + 1) |-> IF d <= n THEN h[d] ELSE last]
  <2>2. \A d \in 1..n : h[d] = IndexStep(h[d \div 2], d)
    BY <2>1 DEF IndexFrom
  <2> HIDE DEF last
  <2>3. \A d \in 1..n : g[d] = h[d]
    OBVIOUS
  <2>4. g[n + 1] = last
    OBVIOUS
  <2>5. g = [d \in 1..(n + 1) |-> g[d]]
    OBVIOUS
  <2> HIDE DEF g
  <2>6. ASSUME NEW d \in 1..(n + 1) PROVE g[d] = IndexStep(g[d \div 2], d)
    <3>0. d \in Nat
      OBVIOUS
    <3>1. g[d] = IndexStep(h[d \div 2], d)
      <4>1. CASE d <= n
        BY <2>2, <2>3, <4>1
      <4>2. CASE d = n + 1
        BY <2>4, <4>2 DEF last
      <4> QED BY <4>1, <4>2
    <3>2. CASE d = 1
      BY <3>1, <3>2, IndexOfOne
    <3>3. CASE d > 1
      <4>1. d \div 2 \in 1..(d - 1)
        BY <3>0, <3>3, HalfBelow
      <4>2. d \div 2 \in 1..n
        BY <4>1
      <4>3. g[d \div 2] = h[d \div 2]
        BY <2>3, <4>2
      <4> QED BY <3>1, <4>3
    <3> QED BY <3>2, <3>3
  <2>7. g = IndexFrom(g, n + 1)
    BY <2>5, <2>6 DEF IndexFrom
  <2> QED BY <2>7
<1> HIDE DEF X
<1>3. Nat \subseteq X
  BY <1>1, <1>2, SuccessorsFill
<1> QED
  BY <1>3 DEF X

LEMMA IndexesAgree ==
    ASSUME NEW m \in Nat, NEW n \in Nat, NEW f, NEW g,
           f = IndexFrom(f, m), g = IndexFrom(g, n),
           NEW w \in Nat, 1 <= w, w <= m, w <= n
    PROVE  f[w] = g[w]
<1> SUFFICES ASSUME f[w] # g[w] PROVE FALSE
  OBVIOUS
<1> DEFINE T == {v \in Nat : 1 <= v /\ v <= m /\ v <= n /\ f[v] # g[v]}
<1>1. PICK v \in T : \A u \in T : v <= u
  <2>1. w \in T /\ T \subseteq Nat
    OBVIOUS
  <2> HIDE DEF T
  <2> QED BY <2>1, HasLeast
<1>2. v \in Nat /\ v \in 1..m /\ v \in 1..n /\ f[v] # g[v]
  OBVIOUS
<1>3. f[v] = IndexStep(f[v \div 2], v) /\ g[v] = IndexStep(g[v \div 2], v)
  BY <1>2 DEF IndexFrom
<1>4. CASE v = 1
  BY <1>2, <1>3, <1>4, IndexOfOne
<1>5. CASE v > 1
  <2>1. v \div 2 \in 1..(v - 1)
    BY <1>2, <1>5, HalfBelow
  <2>2. v \div 2 \notin T
    BY <1>1, <1>2, <2>1
  <2>3. f[v \div 2] = g[v \div 2]
    BY <1>2, <2>1, <2>2
  <2> QED BY <1>2, <1>3, <2>3
<1> QED
  BY <1>2, <1>4, <1>5

\* The leaf at a position of a node twice as wide: of the half that the position is
\* in, or of the left one if nothing else is covered (merkle_index).
LEMMA MerkleIndexIs ==
    ASSUME NEW w \in Nat \ {0}
    PROVE  /\ \A at \in 0..(w - 1) : merkle_index(at, w, w) = at
           /\ \A at \in 0..(2 * w - 1), c \in 1..(2 * w - 1) :
                merkle_index(at, c, 2 * w) =
                    IF c <= w THEN merkle_index(at % w, c, w)
                    ELSE IF at < w THEN at
                    ELSE w + merkle_index(at - w, c - w, w)
<1> DEFINE F(n) == CHOOSE f : f = IndexFrom(f, n)
<1>1. ASSUME NEW n \in Nat, NEW at, NEW c
      PROVE  F(n) = IndexFrom(F(n), n) /\ merkle_index(at, c, n) = F(n)[n][at][c]
  <2>1. F(n) = IndexFrom(F(n), n)
    BY IndexesExist
  <2>2. merkle_index(at, c, n) = F(n)[n][at][c]
    BY DEF merkle_index, IndexFrom, IndexStep
  <2> QED BY <2>1, <2>2
<1> HIDE DEF F
<1>2. ASSUME NEW n \in Nat \ {0} PROVE F(n)[n] = IndexStep(F(n)[n \div 2], n)
  <2>1. n \in 1..n /\ n \in Nat
    OBVIOUS
  <2> QED BY <1>1, <2>1 DEF IndexFrom
<1>3. ASSUME NEW at \in 0..(w - 1) PROVE merkle_index(at, w, w) = at
  <2>1. w \in 1..w /\ w >= w /\ w \in Nat
    OBVIOUS
  <2>2. IndexStep(F(w)[w \div 2], w)[at][w] = at
    BY <2>1 DEF IndexStep
  <2> QED BY <1>1, <1>2, <2>1, <2>2
<1>4. ASSUME NEW at \in 0..(2 * w - 1), NEW c \in 1..(2 * w - 1)
      PROVE  merkle_index(at, c, 2 * w) =
                    IF c <= w THEN merkle_index(at % w, c, w)
                    ELSE IF at < w THEN at
                    ELSE w + merkle_index(at - w, c - w, w)
  <2> DEFINE W == 2 * w
             below == F(W)[w]
  <2>1. W \in Nat \ {0} /\ W \div 2 = w /\ c \in 1..W /\ ~(c >= W) /\ at \in 0..(W - 1)
    OBVIOUS
  <2>2. below = F(w)[w]
    <3>1. F(W) = IndexFrom(F(W), W) /\ F(w) = IndexFrom(F(w), w)
      BY <1>1, <2>1
    <3>2. 1 <= w /\ w <= W /\ w <= w
      OBVIOUS
    <3> HIDE DEF W
    <3> QED BY <2>1, <3>1, <3>2, IndexesAgree
  <2> HIDE DEF W, below
  <2>3. F(W)[W] = IndexStep(below, W)
    BY <1>2, <2>1 DEF below
  <2>4. IndexStep(below, W)[at][c] =
            IF c <= w THEN below[at % w][c]
            ELSE IF at < w THEN at
            ELSE w + below[at - w][c - w]
    BY <2>1, Zenon DEF IndexStep
  <2>5. \A p, q : merkle_index(p, q, w) = below[p][q]
    BY <1>1, <2>2
  <2>6. merkle_index(at, c, W) = F(W)[W][at][c]
    BY <1>1, <2>1
  <2>7. merkle_index(at, c, W) =
                    IF c <= w THEN merkle_index(at % w, c, w)
                    ELSE IF at < w THEN at
                    ELSE w + merkle_index(at - w, c - w, w)
    BY <2>3, <2>4, <2>5, <2>6
  <2> QED BY <2>7 DEF W
<1> QED
  BY <1>3, <1>4

\* The position of a leaf is a number, at any position of a node and count of leaves.
Indexed(w) == \A at \in 0..(w - 1), c \in 1..w : merkle_index(at, c, w) \in Nat
LEMMA IndexType == \A d \in Nat : Indexed(Doubled(d))
<1> DEFINE Typed(w) == \A at \in 0..(w - 1), c \in 1..w : merkle_index(at, c, w) \in Nat
           X == {d \in Nat : Typed(Doubled(d))}
<1>1. 0 \in X
  <2>1. \A at \in 0..(1 - 1) : merkle_index(at, 1, 1) = at
    BY MerkleIndexIs
  <2>2. \A at \in 0..(1 - 1), c \in 1..1 : c = 1 /\ at \in Nat
    OBVIOUS
  <2>3. Typed(1)
    BY <2>1, <2>2
  <2> QED BY <2>3, DoubledIs
<1>2. ASSUME NEW d \in Nat, d \in X PROVE d + 1 \in X
  <2> DEFINE w == Doubled(d)
  <2>1. w \in Nat \ {0} /\ Doubled(d + 1) = 2 * w
    BY DoubledIs
  <2>2. Typed(w)
    BY <1>2
  <2> HIDE DEF w
  <2>3. ASSUME NEW at \in 0..(2 * w - 1), NEW c \in 1..(2 * w)
        PROVE  merkle_index(at, c, 2 * w) \in Nat
    <3>0. at \in Nat /\ c \in Nat
      BY <2>1
    <3>1. CASE c = 2 * w
      <4>1. 2 * w \in Nat \ {0}
        BY <2>1
      <4>2. merkle_index(at, 2 * w, 2 * w) = at
        BY <4>1, MerkleIndexIs
      <4> QED BY <3>0, <3>1, <4>2
    <3>2. CASE c # 2 * w
      <4>1. c \in 1..(2 * w - 1)
        BY <2>1, <3>2
      <4>2. merkle_index(at, c, 2 * w) =
                    IF c <= w THEN merkle_index(at % w, c, w)
                    ELSE IF at < w THEN at
                    ELSE w + merkle_index(at - w, c - w, w)
        BY <2>1, <4>1, MerkleIndexIs
      <4>3. c <= w => at % w \in 0..(w - 1) /\ c \in 1..w
        BY <2>1
      <4>4. ~(c <= w) /\ ~(at < w) => at - w \in 0..(w - 1) /\ c - w \in 1..w
        BY <2>1
      <4>5. CASE c <= w
        BY <2>2, <4>2, <4>3, <4>5
      <4>6. CASE ~(c <= w) /\ at < w
        BY <3>0, <4>2, <4>6
      <4>7. CASE ~(c <= w) /\ ~(at < w)
        <5> DEFINE i == merkle_index(at - w, c - w, w)
        <5>1. i \in Nat
          BY <2>2, <4>4, <4>7
        <5>2. merkle_index(at, c, 2 * w) = w + i
          BY <4>2, <4>7
        <5> HIDE DEF i
        <5>3. w + i \in Nat
          BY <2>1, <5>1
        <5> QED BY <5>2, <5>3
      <4> QED BY <4>5, <4>6, <4>7
    <3> QED BY <3>1, <3>2
  <2>4. Typed(2 * w)
    BY <2>3
  <2> QED BY <2>1, <2>4 DEF w
<1> HIDE DEF X
<1>3. Nat \subseteq X
  BY <1>1, <1>2, SuccessorsFill
<1> QED
  BY <1>3 DEF X, Indexed

\* The leaf at a position beneath a node of a tree with so many leaves.
Lesser(a, b) == IF a <= b THEN a ELSE b
Beneath(leaves, w, node, at) ==
    node * w + merkle_index(at, Lesser(w, leaves - node * w), w)

\* The right child of a node is the left one again, if there is no other.
Second(node, nodes) == IF 2 * node + 1 < nodes THEN 2 * node + 1 ELSE 2 * node

\* So many nodes of a width cover so many leaves, and the last one some of them.
Spread(leaves, w, nodes) ==
    leaves \in Nat /\ (nodes - 1) * w < leaves /\ leaves <= nodes * w

\* The leaves beneath a node are those of its children.
SplitsAt(leaves, w, nodes, k, at) ==
    Beneath(leaves, 2 * w, k, at) =
        IF at < w THEN Beneath(leaves, w, 2 * k, at)
        ELSE Beneath(leaves, w, Second(k, nodes), at - w)

LEMMA BeneathSplits ==
    ASSUME NEW N, NEW w \in Nat \ {0}, NEW nodes \in Nat, NEW k \in Nat,
           Spread(N, w, nodes), 2 * k < nodes, Indexed(w),
           NEW at \in 0..(2 * w - 1)
    PROVE  SplitsAt(N, w, nodes, k, at)
<1> USE DEF SplitsAt
<1> DEFINE s == (2 * k) * w
           c == N - s
           i == merkle_index(at, Lesser(2 * w, c), 2 * w)
<1>0. /\ N \in Nat /\ (nodes - 1) * w < N /\ N <= nodes * w
      /\ \A p \in 0..(w - 1), m \in 1..w : merkle_index(p, m, w) \in Nat
  BY DEF Spread, Indexed
<1>1. s \in Nat /\ k * (2 * w) = s /\ (2 * k + 1) * w = s + w
  OBVIOUS
<1>2. c \in Nat \ {0} /\ (2 * k + 1 < nodes => c > w) /\ (~(2 * k + 1 < nodes) => c <= w)
  <2>1. (2 * k) * w <= (nodes - 1) * w
    BY Scaled
  <2>2. 2 * k + 1 < nodes => (2 * k + 1) * w <= (nodes - 1) * w
    BY Scaled
  <2>3. ~(2 * k + 1 < nodes) => nodes = 2 * k + 1
    OBVIOUS
  <2> DEFINE x == (nodes - 1) * w
             y == nodes * w
  <2>4. x \in Int /\ y \in Int /\ x < N /\ N <= y
    BY <1>0
  <2>5. s <= x /\ (2 * k + 1 < nodes => s + w <= x) /\ (~(2 * k + 1 < nodes) => y = s + w)
    BY <1>1, <2>1, <2>2, <2>3
  <2> HIDE DEF x, y, s
  <2> QED BY <1>0, <1>1, <2>4, <2>5
<1>3. Beneath(N, 2 * w, k, at) = s + i
  BY <1>1 DEF Beneath
<1>4. Beneath(N, w, 2 * k, at) = s + merkle_index(at, Lesser(w, c), w)
  BY DEF Beneath
<1>5. 2 * k + 1 < nodes =>
        Beneath(N, w, Second(k, nodes), at - w)
            = (s + w) + merkle_index(at - w, Lesser(w, c - w), w)
  <2> SUFFICES ASSUME 2 * k + 1 < nodes
               PROVE  Beneath(N, w, Second(k, nodes), at - w)
                        = (s + w) + merkle_index(at - w, Lesser(w, c - w), w)
    OBVIOUS
  <2>1. Second(k, nodes) = 2 * k + 1
    BY DEF Second
  <2>2. N - (2 * k + 1) * w = c - w
    BY <1>0, <1>1
  <2>3. Beneath(N, w, 2 * k + 1, at - w)
            = (2 * k + 1) * w + merkle_index(at - w, Lesser(w, N - (2 * k + 1) * w), w)
    BY DEF Beneath
  <2> HIDE DEF s, c
  <2> QED BY <1>1, <2>1, <2>2, <2>3
<1>6. ~(2 * k + 1 < nodes) =>
        Beneath(N, w, Second(k, nodes), at - w) = s + merkle_index(at - w, Lesser(w, c), w)
  BY DEF Beneath, Second
<1> HIDE DEF s, c
<1>7. at \in Nat /\ w \in Nat /\ 2 * w \in Nat \ {0}
  OBVIOUS
<1>8. CASE ~(2 * k + 1 < nodes)
  <2>1. c \in 1..w /\ c \in 1..(2 * w - 1) /\ c <= w /\ Lesser(2 * w, c) = c /\ Lesser(w, c) = c
    BY <1>2, <1>7, <1>8 DEF Lesser
  <2>2. i = merkle_index(at % w, c, w)
    BY <2>1, MerkleIndexIs
  <2>3. CASE at < w
    <3>1. at % w = at
      BY <1>7, <2>3
    <3> QED BY <1>3, <1>4, <2>1, <2>2, <2>3, <3>1
  <2>4. CASE ~(at < w)
    <3>1. at % w = at - w
      BY <1>7, <2>4
    <3> QED BY <1>3, <1>6, <1>8, <2>1, <2>2, <2>4, <3>1
  <2> QED BY <2>3, <2>4
<1>9. CASE 2 * k + 1 < nodes
  <2>1. c \in Nat /\ c > w
    BY <1>2, <1>9
  <2>2. Lesser(w, c) = w
    BY <1>7, <2>1 DEF Lesser
  <2>3. CASE at < w
    <3>1. at \in 0..(w - 1)
      BY <1>7, <2>3
    <3>2. merkle_index(at, w, w) = at
      BY <3>1, MerkleIndexIs
    <3>3. i = at
      <4>1. CASE 2 * w <= c
        <5>1. Lesser(2 * w, c) = 2 * w
          BY <4>1 DEF Lesser
        <5> QED BY <1>7, <5>1, MerkleIndexIs
      <4>2. CASE ~(2 * w <= c)
        <5>1. Lesser(2 * w, c) = c /\ c \in 1..(2 * w - 1) /\ ~(c <= w)
          BY <1>7, <2>1, <4>2 DEF Lesser
        <5> QED BY <2>3, <5>1, MerkleIndexIs
      <4> QED BY <4>1, <4>2
    <3> QED BY <1>3, <1>4, <2>2, <2>3, <3>2, <3>3
  <2>4. CASE ~(at < w)
    <3>1. at - w \in 0..(w - 1)
      BY <1>7, <2>4
    <3> DEFINE j == merkle_index(at - w, Lesser(w, c - w), w)
    <3>2. i = w + j /\ j \in Nat
      <4>1. CASE 2 * w <= c
        <5>1. Lesser(2 * w, c) = 2 * w /\ Lesser(w, c - w) = w
          BY <1>7, <2>1, <4>1 DEF Lesser
        <5>2. i = at
          BY <1>7, <5>1, MerkleIndexIs
        <5>3. j = at - w
          BY <3>1, <5>1, MerkleIndexIs
        <5> QED BY <1>7, <3>1, <5>2, <5>3
      <4>2. CASE ~(2 * w <= c)
        <5>1. Lesser(2 * w, c) = c /\ c \in 1..(2 * w - 1) /\ ~(c <= w)
              /\ Lesser(w, c - w) = c - w /\ c - w \in 1..w
          BY <1>7, <2>1, <4>2 DEF Lesser
        <5>2. i = w + merkle_index(at - w, c - w, w)
          BY <2>4, <5>1, MerkleIndexIs
        <5> QED BY <1>0, <3>1, <5>1, <5>2
      <4> QED BY <4>1, <4>2
    <3> HIDE DEF j
    <3>3. s + (w + j) = (s + w) + j
      BY <1>1, <1>7, <3>2
    <3> QED BY <1>3, <1>5, <1>9, <2>4, <3>2, <3>3 DEF j
  <2> QED BY <2>3, <2>4
<1> QED
  BY <1>8, <1>9

-------------------------------------------------------------------------------
(* The merkle tree: lists with equal roots.                                *)

\* A level has half as many nodes as the one below, rounded up.
LEMMA LevelHalves ==
    ASSUME NEW digests, Listing(digests), Len(digests) > 1
    PROVE  /\ Len(digests) \in Nat /\ Len(Level(digests)) \in Nat \ {0}
           /\ Len(digests) \in {2 * Len(Level(digests)) - 1, 2 * Len(Level(digests))}
           /\ Len(Level(digests)) < Len(digests)
<1> DEFINE a == Len(digests)
           p == Len(Paired(digests))
           b == Len(Level(digests))
<1>1. a \in Nat /\ a > 1
  BY LenProperties DEF Listing
<1>2. p \in Nat /\ p % 2 = 0 /\ p \in {a, a + 1} /\ b = p \div 2
  BY LevelIs
<1> HIDE DEF a, p, b
<1>3. b \in Nat \ {0} /\ a \in {2 * b - 1, 2 * b} /\ b < a
  BY <1>1, <1>2
<1> QED
  BY <1>1, <1>3 DEF a, b

\* A node is the hash of its children.
LEMMA NodeOfTwo ==
    ASSUME NEW digests, Listing(digests), Len(digests) > 1,
           NEW k \in 0..(Len(Level(digests)) - 1)
    PROVE  /\ k \in Nat /\ 2 * k < Len(digests) /\ Second(k, Len(digests)) \in 0..(Len(digests) - 1)
           /\ Level(digests)[k + 1]
                = Node(digests[2 * k + 1], digests[Second(k, Len(digests)) + 1])
<1> DEFINE a == Len(digests)
           p == Len(Paired(digests))
           b == Len(Level(digests))
<1>1. a \in Nat /\ a > 1 /\ b \in Nat \ {0} /\ a \in {2 * b - 1, 2 * b}
  BY LevelHalves
<1>2. /\ p \in {a, a + 1} /\ p % 2 = 0
      /\ \A i \in 1..a : Paired(digests)[i] = digests[i]
      /\ \A i \in 1..b : Level(digests)[i] = Node(Paired(digests)[2 * i - 1], Paired(digests)[2 * i])
  BY LevelIs
<1>3. k \in 0..(b - 1)
  OBVIOUS
<1> HIDE DEF b
<1>4. k \in Nat /\ 2 * k < a /\ k + 1 \in 1..b /\ 2 * (k + 1) - 1 = 2 * k + 1
      /\ 2 * (k + 1) = 2 * k + 2 /\ 2 * k + 1 \in 1..a
  BY <1>1, <1>3
<1>5. Level(digests)[k + 1] = Node(digests[2 * k + 1], Paired(digests)[2 * k + 2])
  <2>1. Level(digests)[k + 1] = Node(Paired(digests)[2 * (k + 1) - 1], Paired(digests)[2 * (k + 1)])
    BY <1>2, <1>4
  <2>2. Paired(digests)[2 * k + 1] = digests[2 * k + 1]
    BY <1>2, <1>4
  <2> QED BY <1>4, <2>1, <2>2
<1>6. CASE 2 * k + 1 < a
  <2>1. 2 * k + 2 \in 1..a /\ Second(k, a) = 2 * k + 1 /\ (2 * k + 1) + 1 = 2 * k + 2
    BY <1>1, <1>4, <1>6 DEF Second
  <2>2. Paired(digests)[2 * k + 2] = digests[2 * k + 2]
    BY <1>2, <2>1
  <2>3. Second(k, a) \in 0..(a - 1)
    BY <1>1, <1>4, <1>6, <2>1
  <2> QED BY <1>4, <1>5, <2>1, <2>2, <2>3
<1>7. CASE ~(2 * k + 1 < a)
  <2>1. a = 2 * k + 1 /\ a % 2 = 1 /\ Second(k, a) = 2 * k
    BY <1>1, <1>4, <1>7 DEF Second
  <2>2. Paired(digests) = Append(digests, digests[a])
    BY <2>1 DEF Paired, is_odd
  <2>3. PICK T : digests \in Seq(T)
    BY DEF Listing
  <2>4. digests[a] \in T
    BY <1>1, <2>3, ElementOfSeq
  <2>5. Paired(digests)[a + 1] = digests[a]
    BY <2>2, <2>3, <2>4, AppendProperties
  <2>6. a + 1 = 2 * k + 2 /\ Second(k, a) \in 0..(a - 1)
    BY <1>4, <2>1
  <2> QED BY <1>4, <1>5, <2>1, <2>5, <2>6
<1> QED
  BY <1>6, <1>7

\* A level has so many nodes of such a width that they cover the leaves.
CoversAt(digests, leaves, d) ==
    /\ Listing(digests) /\ Len(digests) \in Nat \ {0}
    /\ Len(digests) > 1 => Len(digests) + d <= Len(leaves)
    /\ (Len(digests) - 1) * Doubled(d) < Len(leaves)
    /\ Len(leaves) <= Len(digests) * Doubled(d)

LEMMA CoverUp ==
    ASSUME NEW a \in Nat \ {0}, NEW b \in Nat \ {0}, a \in {2 * b - 1, 2 * b},
           NEW w \in Nat \ {0}, NEW N \in Nat, (a - 1) * w < N, N <= a * w
    PROVE  (b - 1) * (2 * w) < N /\ N <= b * (2 * w)
<1>1. (b - 1) * (2 * w) = (2 * b - 2) * w /\ b * (2 * w) = (2 * b) * w
  OBVIOUS
<1>2. (2 * b - 2) * w <= (a - 1) * w /\ a * w <= (2 * b) * w
  BY Scaled
<1> DEFINE x == (a - 1) * w
           y == a * w
           u == (2 * b - 2) * w
           v == (2 * b) * w
<1>3. x \in Int /\ y \in Int /\ u \in Int /\ v \in Int
  OBVIOUS
<1>4. u <= x /\ y <= v /\ x < N /\ N <= y
  BY <1>2
<1> HIDE DEF x, y, u, v
<1>5. u < N /\ N <= v
  BY <1>3, <1>4
<1> QED
  BY <1>1, <1>5 DEF u, v

LEMMA LevelsCover ==
    ASSUME NEW leaves, Listing(leaves), Len(leaves) > 0, NEW m \in Nat,
           NEW f, f = LevelFrom(f, leaves, m)
    PROVE  /\ f[0] = leaves
           /\ \A d \in 0..m : CoversAt(f[d], leaves, d)
           /\ \A d \in 0..(m - 1) : f[d + 1] = Level(f[d]) /\ Len(f[d + 1]) <= Len(f[d])
<1> DEFINE N == Len(leaves)
           X == {d \in Nat : d <= m => CoversAt(f[d], leaves, d)}
<1>1. N \in Nat \ {0}
  BY LenProperties DEF Listing
<1>2. \A d \in 0..m : f[d] = IF d = 0 THEN leaves ELSE Level(f[d - 1])
  BY DEF LevelFrom
<1>3. f[0] = leaves
  BY <1>2
<1>4. 0 \in X
  <2>1. (N - 1) * 1 < N /\ N <= N * 1 /\ N + 0 <= N
    BY <1>1
  <2> QED BY <1>1, <1>3, <2>1, DoubledIs DEF CoversAt
<1>5. \A d \in 0..(m - 1) : f[d + 1] = Level(f[d])
  <2> TAKE d \in 0..(m - 1)
  <2>1. d + 1 \in 0..m /\ d + 1 # 0 /\ (d + 1) - 1 = d
    OBVIOUS
  <2> QED BY <1>2, <2>1
<1>6. ASSUME NEW d \in 0..(m - 1), CoversAt(f[d], leaves, d)
      PROVE  CoversAt(f[d + 1], leaves, d + 1) /\ Len(f[d + 1]) <= Len(f[d])
  <2> DEFINE a == Len(f[d])
             w == Doubled(d)
             b == Len(f[d + 1])
  <2>0. d \in Nat
    OBVIOUS
  <2>1. w \in Nat \ {0} /\ Doubled(d + 1) = 2 * w
    BY <2>0, DoubledIs
  <2>2. /\ Listing(f[d]) /\ a \in Nat \ {0} /\ (a > 1 => a + d <= N)
        /\ (a - 1) * w < N /\ N <= a * w
    BY <1>6 DEF CoversAt
  <2>3. f[d + 1] = Level(f[d])
    BY <1>5
  <2> HIDE DEF N, w
  <2>4. CASE a > 1
    <3>1. b \in Nat \ {0} /\ a \in {2 * b - 1, 2 * b} /\ b < a
      BY <2>2, <2>3, <2>4, LevelHalves
    <3>2. Listing(f[d + 1])
      BY <2>2, <2>3, <2>4, LevelIs
    <3> HIDE DEF a, b
    <3>3. (b - 1) * (2 * w) < N /\ N <= b * (2 * w)
      BY <1>1, <2>1, <2>2, <3>1, CoverUp
    <3>4. b + (d + 1) <= N /\ b <= a
      BY <1>1, <2>0, <2>2, <2>4, <3>1
    <3> QED BY <2>1, <3>1, <3>2, <3>3, <3>4 DEF CoversAt, N, a, b
  <2>5. CASE ~(a > 1)
    <3>1. f[d + 1] = f[d]
      BY <2>3, <2>5 DEF Level
    <3>2. b = a
      BY <3>1
    <3> HIDE DEF a, b
    <3>3. a = 1
      BY <2>2, <2>5
    <3>4. N <= 1 * w
      BY <2>2, <3>3
    <3>5. (b - 1) * (2 * w) < N /\ N <= b * (2 * w) /\ b \in Nat \ {0} /\ ~(b > 1) /\ b <= a
      BY <1>1, <2>1, <3>2, <3>3, <3>4
    <3> QED BY <2>1, <2>2, <3>1, <3>5 DEF CoversAt, N, b, a
  <2> QED BY <2>4, <2>5
<1>7. ASSUME NEW d \in Nat, d \in X PROVE d + 1 \in X
  <2> SUFFICES ASSUME d + 1 <= m PROVE CoversAt(f[d + 1], leaves, d + 1)
    OBVIOUS
  <2>1. d <= m /\ d \in 0..(m - 1)
    OBVIOUS
  <2> QED BY <1>6, <1>7, <2>1
<1>8. \A d \in 0..m : CoversAt(f[d], leaves, d)
  <2> HIDE DEF X
  <2>1. Nat \subseteq X
    BY <1>4, <1>7, SuccessorsFill
  <2> QED BY <2>1 DEF X
<1>9. \A d \in 0..(m - 1) : Len(f[d + 1]) <= Len(f[d])
  <2> TAKE d \in 0..(m - 1)
  <2>1. d \in 0..m
    OBVIOUS
  <2> QED BY <1>6, <1>8, <2>1
<1> QED
  BY <1>3, <1>5, <1>8, <1>9

\* Above its root a tree stays as it is, so that the root is found at any depth
\* that is not less than the number of leaves.
LEMMA RootAt ==
    ASSUME NEW leaves, Listing(leaves), Len(leaves) > 0, NEW m \in Nat, Len(leaves) <= m,
           NEW f, f = LevelFrom(f, leaves, m)
    PROVE  merkle_root(leaves) = f[m][1] /\ Len(f[m]) = 1
<1> DEFINE N == Len(leaves)
           D == Depths(leaves)
<1>1. N \in Nat \ {0} /\ N <= m /\ leaves # <<>>
  BY LenProperties DEF Listing
<1>2. /\ f[0] = leaves
      /\ \A d \in 0..m : CoversAt(f[d], leaves, d)
      /\ \A d \in 0..(m - 1) : f[d + 1] = Level(f[d])
  BY LevelsCover
<1>3. merkle_root(leaves) = D[N][1]
  BY <1>1 DEF merkle_root
<1>4. \A d \in 0..N : D[d] = IF d = 0 THEN leaves ELSE Level(D[d - 1])
  BY <1>1, DepthsAre
<1> HIDE DEF D, N
<1>5. D[N] = f[N]
  <2> DEFINE X == {d \in Nat : d <= N => D[d] = f[d]}
  <2>1. 0 \in X
    BY <1>1, <1>2, <1>4
  <2>2. ASSUME NEW d \in Nat, d \in X PROVE d + 1 \in X
    <3> SUFFICES ASSUME d + 1 <= N PROVE D[d + 1] = f[d + 1]
      OBVIOUS
    <3>1. d + 1 \in 0..N /\ d + 1 # 0 /\ (d + 1) - 1 = d /\ d <= N /\ d \in 0..(m - 1)
      BY <1>1
    <3> QED BY <1>2, <1>4, <2>2, <3>1
  <2> HIDE DEF X
  <2>3. N \in X
    BY <1>1, <2>1, <2>2, SuccessorsFill
  <2> QED BY <1>1, <2>3 DEF X
<1>6. \A d \in Nat : N <= d /\ d <= m => Len(f[d]) = 1
  <2> TAKE d \in Nat
  <2> SUFFICES ASSUME N <= d, d <= m PROVE Len(f[d]) = 1
    OBVIOUS
  <2> DEFINE a == Len(f[d])
  <2>1. d \in 0..m
    OBVIOUS
  <2>2. CoversAt(f[d], leaves, d)
    BY <1>2, <2>1
  <2>3. a \in Nat \ {0} /\ (a > 1 => a + d <= N)
    BY <2>2 DEF CoversAt, N
  <2> HIDE DEF a
  <2>4. a = 1
    BY <1>1, <2>3
  <2> QED BY <2>4 DEF a
<1>7. f[m] = f[N]
  <2> DEFINE X == {d \in Nat : N + d <= m => f[N + d] = f[N]}
  <2>1. 0 \in X
    BY <1>1
  <2>2. ASSUME NEW d \in Nat, d \in X PROVE d + 1 \in X
    <3> SUFFICES ASSUME N + (d + 1) <= m PROVE f[N + (d + 1)] = f[N]
      OBVIOUS
    <3> DEFINE e == N + d
    <3>1. e \in Nat /\ N + (d + 1) = e + 1 /\ e <= m /\ N <= e /\ e \in 0..(m - 1)
      BY <1>1
    <3>2. f[e] = f[N]
      BY <2>2, <3>1
    <3> HIDE DEF e
    <3>3. Len(f[e]) = 1
      BY <1>6, <3>1
    <3>4. f[e + 1] = Level(f[e])
      BY <1>2, <3>1
    <3>5. Level(f[e]) = f[e]
      BY <3>3 DEF Level
    <3> QED BY <3>1, <3>2, <3>4, <3>5
  <2> HIDE DEF X
  <2>3. m - N \in Nat /\ N + (m - N) = m
    BY <1>1
  <2>4. m - N \in X
    BY <2>1, <2>2, <2>3, SuccessorsFill
  <2> QED BY <2>3, <2>4 DEF X
<1>8. Len(f[m]) = 1
  BY <1>1, <1>6
<1> QED
  BY <1>3, <1>5, <1>7, <1>8

\* The leaves beneath two nodes are the same.
Matches(x, k, y, l, w) ==
    \A at \in 0..(w - 1) : x[Beneath(Len(x), w, k, at) + 1] = y[Beneath(Len(y), w, l, at) + 1]

LEMMA MatchSplits ==
    ASSUME NEW x, NEW y, NEW w \in Nat \ {0}, Indexed(w),
           NEW a \in Nat, NEW k \in Nat, Spread(Len(x), w, a), 2 * k < a,
           NEW b \in Nat, NEW l \in Nat, Spread(Len(y), w, b), 2 * l < b
    PROVE  Matches(x, k, y, l, 2 * w) <=>
                Matches(x, 2 * k, y, 2 * l, w) /\ Matches(x, Second(k, a), y, Second(l, b), w)
<1>1. ASSUME NEW at \in 0..(2 * w - 1)
      PROVE  Beneath(Len(x), 2 * w, k, at) =
                IF at < w THEN Beneath(Len(x), w, 2 * k, at)
                ELSE Beneath(Len(x), w, Second(k, a), at - w)
  <2>1. SplitsAt(Len(x), w, a, k, at)
    BY BeneathSplits
  <2> QED BY <2>1 DEF SplitsAt
<1>2. ASSUME NEW at \in 0..(2 * w - 1)
      PROVE  Beneath(Len(y), 2 * w, l, at) =
                IF at < w THEN Beneath(Len(y), w, 2 * l, at)
                ELSE Beneath(Len(y), w, Second(l, b), at - w)
  <2>1. SplitsAt(Len(y), w, b, l, at)
    BY BeneathSplits
  <2> QED BY <2>1 DEF SplitsAt
<1>3. \A at \in 0..(2 * w - 1) :
        /\ Beneath(Len(x), 2 * w, k, at) =
                IF at < w THEN Beneath(Len(x), w, 2 * k, at)
                ELSE Beneath(Len(x), w, Second(k, a), at - w)
        /\ Beneath(Len(y), 2 * w, l, at) =
                IF at < w THEN Beneath(Len(y), w, 2 * l, at)
                ELSE Beneath(Len(y), w, Second(l, b), at - w)
  BY <1>1, <1>2
<1>4. ASSUME Matches(x, k, y, l, 2 * w)
      PROVE  Matches(x, 2 * k, y, 2 * l, w) /\ Matches(x, Second(k, a), y, Second(l, b), w)
  <2>1. ASSUME NEW at \in 0..(w - 1)
        PROVE  x[Beneath(Len(x), w, 2 * k, at) + 1] = y[Beneath(Len(y), w, 2 * l, at) + 1]
    <3>1. at \in 0..(2 * w - 1) /\ at < w
      OBVIOUS
    <3>2. x[Beneath(Len(x), 2 * w, k, at) + 1] = y[Beneath(Len(y), 2 * w, l, at) + 1]
      BY <1>4, <3>1 DEF Matches
    <3> QED BY <1>3, <3>1, <3>2
  <2>2. ASSUME NEW at \in 0..(w - 1)
        PROVE  x[Beneath(Len(x), w, Second(k, a), at) + 1]
                    = y[Beneath(Len(y), w, Second(l, b), at) + 1]
    <3> DEFINE p == at + w
    <3>1. p \in 0..(2 * w - 1) /\ ~(p < w) /\ p - w = at
      OBVIOUS
    <3> HIDE DEF p
    <3>2. x[Beneath(Len(x), 2 * w, k, p) + 1] = y[Beneath(Len(y), 2 * w, l, p) + 1]
      BY <1>4, <3>1 DEF Matches
    <3> QED BY <1>3, <3>1, <3>2
  <2> QED BY <2>1, <2>2 DEF Matches
<1>5. ASSUME Matches(x, 2 * k, y, 2 * l, w), Matches(x, Second(k, a), y, Second(l, b), w)
      PROVE  Matches(x, k, y, l, 2 * w)
  <2>1. ASSUME NEW at \in 0..(2 * w - 1)
        PROVE  x[Beneath(Len(x), 2 * w, k, at) + 1] = y[Beneath(Len(y), 2 * w, l, at) + 1]
    <3>1. CASE at < w
      <4>1. at \in 0..(w - 1)
        BY <3>1
      <4>2. x[Beneath(Len(x), w, 2 * k, at) + 1] = y[Beneath(Len(y), w, 2 * l, at) + 1]
        BY <1>5, <4>1 DEF Matches
      <4> QED BY <1>3, <3>1, <4>2
    <3>2. CASE ~(at < w)
      <4>1. at - w \in 0..(w - 1)
        BY <3>2
      <4>2. x[Beneath(Len(x), w, Second(k, a), at - w) + 1]
                = y[Beneath(Len(y), w, Second(l, b), at - w) + 1]
        BY <1>5, <4>1 DEF Matches
      <4> QED BY <1>3, <3>2, <4>2
    <3> QED BY <3>1, <3>2
  <2> QED BY <2>1 DEF Matches
<1> QED
  BY <1>4, <1>5

\* Two nodes at a depth are equal exactly if the leaves beneath them are, those
\* of padding included (is_malleated32, merkle_index).
NodesMatch(u, x, v, y, w) ==
    \A k \in 0..(Len(u) - 1), l \in 0..(Len(v) - 1) :
        u[k + 1] = v[l + 1] <=> Matches(x, k, y, l, w)

LEMMA LeavesMatch ==
    ASSUME NEW x, Listing(x), NEW y, Listing(y)
    PROVE  NodesMatch(x, x, y, y, 1)
<1> SUFFICES ASSUME NEW k \in 0..(Len(x) - 1), NEW l \in 0..(Len(y) - 1)
             PROVE  x[k + 1] = y[l + 1] <=> Matches(x, k, y, l, 1)
  BY DEF NodesMatch
<1>1. Len(x) \in Nat /\ Len(y) \in Nat
  BY LenProperties DEF Listing
<1>2. merkle_index(0, 1, 1) = 0
  <2>1. 1 \in Nat \ {0} /\ 0 \in 0..(1 - 1)
    OBVIOUS
  <2> QED BY <2>1, MerkleIndexIs
<1>3. ASSUME NEW n \in Nat, NEW i \in 0..(n - 1) PROVE Beneath(n, 1, i, 0) = i
  <2>1. Lesser(1, n - i * 1) = 1
    BY DEF Lesser
  <2> QED BY <1>2, <2>1 DEF Beneath
<1>4. Beneath(Len(x), 1, k, 0) = k /\ Beneath(Len(y), 1, l, 0) = l
  BY <1>1, <1>3
<1>5. 0..(1 - 1) = {0}
  OBVIOUS
<1>6. Matches(x, k, y, l, 1) <=>
        x[Beneath(Len(x), 1, k, 0) + 1] = y[Beneath(Len(y), 1, l, 0) + 1]
  BY <1>5 DEF Matches
<1> QED
  BY <1>4, <1>6

LEMMA MatchUp ==
    ASSUME NEW u, NEW x, NEW v, NEW y, NEW d \in Nat,
           CoversAt(u, x, d), CoversAt(v, y, d), Len(u) > 1, Len(v) > 1,
           Len(x) \in Nat, Len(y) \in Nat,
           NodesMatch(u, x, v, y, Doubled(d))
    PROVE  NodesMatch(Level(u), x, Level(v), y, Doubled(d + 1))
<1> DEFINE w == Doubled(d)
           a == Len(u)
           b == Len(v)
<1>1. w \in Nat \ {0} /\ Doubled(d + 1) = 2 * w
  BY DoubledIs
<1>2. Listing(u) /\ a \in Nat /\ Spread(Len(x), w, a) /\ Listing(v) /\ b \in Nat /\ Spread(Len(y), w, b)
  BY DEF CoversAt, Spread
<1>3. Indexed(w)
  BY IndexType
<1> SUFFICES ASSUME NEW k \in 0..(Len(Level(u)) - 1), NEW l \in 0..(Len(Level(v)) - 1)
             PROVE  Level(u)[k + 1] = Level(v)[l + 1] <=> Matches(x, k, y, l, 2 * w)
  BY <1>1 DEF NodesMatch
<1>4. /\ k \in Nat /\ 2 * k < a /\ Second(k, a) \in 0..(a - 1)
      /\ Level(u)[k + 1] = Node(u[2 * k + 1], u[Second(k, a) + 1])
  BY <1>2, NodeOfTwo
<1>5. /\ l \in Nat /\ 2 * l < b /\ Second(l, b) \in 0..(b - 1)
      /\ Level(v)[l + 1] = Node(v[2 * l + 1], v[Second(l, b) + 1])
  BY <1>2, NodeOfTwo
<1> HIDE DEF w, a, b
<1>6. 2 * k \in 0..(a - 1) /\ 2 * l \in 0..(b - 1)
  BY <1>2, <1>4, <1>5
<1>7. /\ u[2 * k + 1] = v[2 * l + 1] <=> Matches(x, 2 * k, y, 2 * l, w)
      /\ u[Second(k, a) + 1] = v[Second(l, b) + 1]
            <=> Matches(x, Second(k, a), y, Second(l, b), w)
  <2>1. \A i \in 0..(a - 1), j \in 0..(b - 1) : u[i + 1] = v[j + 1] <=> Matches(x, i, y, j, w)
    BY DEF NodesMatch, a, b, w
  <2> QED BY <1>4, <1>5, <1>6, <2>1
<1>8. Level(u)[k + 1] = Level(v)[l + 1] <=>
        u[2 * k + 1] = v[2 * l + 1] /\ u[Second(k, a) + 1] = v[Second(l, b) + 1]
  BY <1>4, <1>5 DEF Node
<1>9. Matches(x, k, y, l, 2 * w) <=>
        Matches(x, 2 * k, y, 2 * l, w) /\ Matches(x, Second(k, a), y, Second(l, b), w)
  BY <1>1, <1>2, <1>3, <1>4, <1>5, MatchSplits
<1> QED
  BY <1>7, <1>8, <1>9

LEMMA NodesAgree ==
    ASSUME NEW x, Listing(x), Len(x) > 0, NEW y, Listing(y), Len(y) > 0, NEW m \in Nat,
           NEW f, f = LevelFrom(f, x, m), NEW g, g = LevelFrom(g, y, m)
    PROVE  \A d \in 0..m : Len(f[d]) > 1 /\ Len(g[d]) > 1 =>
                NodesMatch(f[d], x, g[d], y, Doubled(d))
<1> DEFINE X == {d \in Nat : d <= m /\ Len(f[d]) > 1 /\ Len(g[d]) > 1 =>
                                NodesMatch(f[d], x, g[d], y, Doubled(d))}
<1>1. Len(x) \in Nat /\ Len(y) \in Nat
  BY LenProperties DEF Listing
<1>2. /\ f[0] = x
      /\ \A d \in 0..m : CoversAt(f[d], x, d)
      /\ \A d \in 0..(m - 1) : f[d + 1] = Level(f[d]) /\ Len(f[d + 1]) <= Len(f[d])
  BY LevelsCover
<1>3. /\ g[0] = y
      /\ \A d \in 0..m : CoversAt(g[d], y, d)
      /\ \A d \in 0..(m - 1) : g[d + 1] = Level(g[d]) /\ Len(g[d + 1]) <= Len(g[d])
  BY LevelsCover
<1>4. 0 \in X
  BY <1>2, <1>3, LeavesMatch, DoubledIs
<1>5. ASSUME NEW d \in Nat, d \in X PROVE d + 1 \in X
  <2> SUFFICES ASSUME d + 1 <= m, Len(f[d + 1]) > 1, Len(g[d + 1]) > 1
               PROVE  NodesMatch(f[d + 1], x, g[d + 1], y, Doubled(d + 1))
    OBVIOUS
  <2>1. d <= m /\ d \in 0..m /\ d \in 0..(m - 1) /\ d + 1 \in 0..m
    OBVIOUS
  <2>2. CoversAt(f[d], x, d) /\ CoversAt(g[d], y, d)
    BY <1>2, <1>3, <2>1
  <2>3. CoversAt(f[d + 1], x, d + 1) /\ CoversAt(g[d + 1], y, d + 1)
    BY <1>2, <1>3, <2>1
  <2>4. Len(f[d]) > 1 /\ Len(g[d]) > 1
    <3> DEFINE a == Len(f[d])
               b == Len(g[d])
               p == Len(f[d + 1])
               q == Len(g[d + 1])
    <3>1. a \in Nat /\ b \in Nat /\ p \in Nat /\ q \in Nat
      BY <2>2, <2>3 DEF CoversAt
    <3>2. p <= a /\ q <= b /\ p > 1 /\ q > 1
      BY <1>2, <1>3, <2>1
    <3> HIDE DEF a, b, p, q
    <3>3. a > 1 /\ b > 1
      BY <3>1, <3>2
    <3> QED BY <3>3 DEF a, b
  <2>5. NodesMatch(f[d], x, g[d], y, Doubled(d))
    BY <1>5, <2>1, <2>4
  <2>6. f[d + 1] = Level(f[d]) /\ g[d + 1] = Level(g[d])
    BY <1>2, <1>3, <2>1
  <2>7. NodesMatch(Level(f[d]), x, Level(g[d]), y, Doubled(d + 1))
    BY <1>1, <2>2, <2>4, <2>5, MatchUp
  <2> QED BY <2>6, <2>7
<1> HIDE DEF X
<1>6. Nat \subseteq X
  BY <1>4, <1>5, SuccessorsFill
<1> QED
  BY <1>6 DEF X

LEMMA SameListing ==
    ASSUME NEW u, NEW v, Listing(u), Listing(v), Len(u) = Len(v),
           \A i \in 1..Len(u) : u[i] = v[i]
    PROVE  u = v
<1>1. PICK S : u \in Seq(S)
  BY DEF Listing
<1>2. PICK T : v \in Seq(T)
  BY DEF Listing
<1>3. u \in Seq(S \union T) /\ v \in Seq(S \union T)
  BY <1>1, <1>2, SeqMonotonic
<1> QED
  BY <1>3, SeqEqual

\* Two towers that differ below and agree above do so from some floor on.
LEMMA LastDifference ==
    ASSUME NEW f, NEW g, NEW m \in Nat, f[0] # g[0], f[m] = g[m]
    PROVE  \E d \in 0..(m - 1) : f[d] # g[d] /\ f[d + 1] = g[d + 1]
<1> DEFINE T == {d \in Nat : d <= m /\ f[d] = g[d]}
<1>1. PICK d \in T : \A e \in T : d <= e
  <2>1. m \in T /\ T \subseteq Nat
    OBVIOUS
  <2> HIDE DEF T
  <2> QED BY <2>1, HasLeast
<1>2. d \in Nat /\ d # 0 /\ d <= m /\ f[d] = g[d]
  OBVIOUS
<1>3. d - 1 \in 0..(m - 1) /\ d - 1 \in Nat /\ ~(d <= d - 1) /\ (d - 1) + 1 = d
  BY <1>2
<1>4. d - 1 \notin T
  BY <1>1, <1>3
<1>5. f[d - 1] # g[d - 1]
  BY <1>3, <1>4
<1> QED
  BY <1>2, <1>3, <1>5

\* Equal levels are made of equal nodes, but for one that may be the last again.
LEMMA LevelsDiffer ==
    ASSUME NEW u, NEW v, Listing(u), Listing(v), Len(u) > 1, Len(v) > 1,
           Level(u) = Level(v)
    PROVE  \E b \in Nat \ {0} :
            /\ Len(u) \in {2 * b - 1, 2 * b} /\ Len(v) \in {2 * b - 1, 2 * b}
            /\ \A i \in 1..Len(u) : i <= Len(v) => u[i] = v[i]
            /\ Len(u) = 2 * b /\ Len(v) = 2 * b - 1 => u[2 * b] = u[2 * b - 1]
<1> DEFINE b == Len(Level(u))
           p == Len(u)
           q == Len(v)
<1>1. /\ b \in Nat \ {0} /\ p \in Nat /\ q \in Nat
      /\ p \in {2 * b - 1, 2 * b} /\ q \in {2 * b - 1, 2 * b}
  BY LevelHalves
<1>2. ASSUME NEW k \in 0..(b - 1)
      PROVE  u[2 * k + 1] = v[2 * k + 1] /\ u[Second(k, p) + 1] = v[Second(k, q) + 1]
  <2>1. Level(u)[k + 1] = Node(u[2 * k + 1], u[Second(k, p) + 1])
    BY NodeOfTwo
  <2>2. Level(v)[k + 1] = Node(v[2 * k + 1], v[Second(k, q) + 1])
    BY NodeOfTwo
  <2> QED BY <2>1, <2>2 DEF Node
<1> HIDE DEF b, p, q
<1>3. ASSUME NEW i \in 1..p, i <= q PROVE u[i] = v[i]
  <2>1. CASE i % 2 = 1
    <3> DEFINE k == i \div 2
    <3>1. k \in 0..(b - 1) /\ 2 * k + 1 = i
      BY <1>1, <1>3, <2>1
    <3> HIDE DEF k
    <3> QED BY <1>2, <3>1
  <2>2. CASE i % 2 # 1
    <3> DEFINE k == i \div 2 - 1
    <3>1. k \in 0..(b - 1) /\ 2 * k + 1 < p /\ 2 * k + 1 < q /\ 2 * k + 2 = i
      BY <1>1, <1>3, <2>2
    <3> HIDE DEF k
    <3>2. Second(k, p) = 2 * k + 1 /\ Second(k, q) = 2 * k + 1 /\ (2 * k + 1) + 1 = i
      BY <3>1 DEF Second
    <3> QED BY <1>2, <3>1, <3>2
  <2> QED BY <2>1, <2>2
<1>4. ASSUME p = 2 * b, q = 2 * b - 1 PROVE u[2 * b] = u[2 * b - 1]
  <2> DEFINE k == b - 1
  <2>1. k \in 0..(b - 1) /\ 2 * k + 1 = 2 * b - 1 /\ 2 * k + 1 < p /\ ~(2 * k + 1 < q)
        /\ (2 * k + 1) + 1 = 2 * b
    BY <1>1, <1>4
  <2> HIDE DEF k
  <2>2. Second(k, p) = 2 * k + 1 /\ Second(k, q) = 2 * k
    BY <2>1 DEF Second
  <2>3. u[2 * k + 1] = v[2 * k + 1] /\ u[(2 * k + 1) + 1] = v[2 * k + 1]
    BY <1>2, <2>1, <2>2
  <2> QED BY <2>1, <2>3
<1> QED
  BY <1>1, <1>3, <1>4 DEF p, q

LEMMA CoverCounts ==
    ASSUME NEW digests, NEW leaves, NEW d \in Nat, CoversAt(digests, leaves, d), Listing(leaves)
    PROVE  /\ Len(digests) = ceilinged_divide(Len(leaves), Doubled(d))
           /\ Spread(Len(leaves), Doubled(d), Len(digests))
<1> DEFINE N == Len(leaves)
           w == Doubled(d)
           a == Len(digests)
<1>1. N \in Nat /\ w \in Nat \ {0}
  BY LenProperties, DoubledIs DEF Listing
<1>2. a \in Nat \ {0} /\ (a - 1) * w < N /\ N <= a * w
  BY DEF CoversAt
<1> HIDE DEF N, w, a
<1>3. ceilinged_divide(N, w) = a
  BY <1>1, <1>2, CountIs
<1> QED
  BY <1>1, <1>2, <1>3 DEF N, w, a, Spread

\* Lists of one length with one root are one list.
LEMMA RootIdentifies ==
    ASSUME NEW x, NEW y, Listing(x), Listing(y), Len(x) = Len(y), Len(x) > 0,
           merkle_root(x) = merkle_root(y)
    PROVE  x = y
<1> SUFFICES ASSUME x # y PROVE FALSE
  OBVIOUS
<1> DEFINE m == Len(x)
<1>1. m \in Nat /\ m <= m /\ Len(y) <= m /\ Len(y) > 0
  BY LenProperties DEF Listing
<1>2. PICK f : f = LevelFrom(f, x, m)
  BY <1>1, LevelsExist
<1>3. PICK g : g = LevelFrom(g, y, m)
  BY <1>1, LevelsExist
<1> HIDE DEF m
<1>4. /\ f[0] = x
      /\ \A d \in 0..m : CoversAt(f[d], x, d)
      /\ \A d \in 0..(m - 1) : f[d + 1] = Level(f[d])
  BY <1>1, <1>2, LevelsCover
<1>5. /\ g[0] = y
      /\ \A d \in 0..m : CoversAt(g[d], y, d)
      /\ \A d \in 0..(m - 1) : g[d + 1] = Level(g[d])
  BY <1>1, <1>3, LevelsCover
<1>6. f[m] = g[m]
  <2>1. merkle_root(x) = f[m][1] /\ Len(f[m]) = 1
    BY <1>1, <1>2, RootAt DEF m
  <2>2. merkle_root(y) = g[m][1] /\ Len(g[m]) = 1
    BY <1>1, <1>3, RootAt
  <2>3. m \in 0..m
    BY <1>1
  <2>4. Listing(f[m]) /\ Listing(g[m])
    BY <1>4, <1>5, <2>3 DEF CoversAt
  <2>5. \A i \in 1..Len(f[m]) : f[m][i] = g[m][i]
    <3>1. \A i \in 1..Len(f[m]) : i = 1
      BY <2>1
    <3> QED BY <2>1, <2>2, <3>1
  <2> QED BY <2>1, <2>2, <2>4, <2>5, SameListing
<1>7. PICK d \in 0..(m - 1) : f[d] # g[d] /\ f[d + 1] = g[d + 1]
  BY <1>1, <1>4, <1>5, <1>6, LastDifference
<1>8. d \in Nat /\ d \in 0..m
  BY <1>1
<1>9. CoversAt(f[d], x, d) /\ CoversAt(g[d], y, d)
  BY <1>4, <1>5, <1>8
<1>10. Len(f[d]) = Len(g[d])
  BY <1>8, <1>9, CoverCounts
<1>11. Level(f[d]) = Level(g[d])
  BY <1>4, <1>5, <1>7
<1>12. Listing(f[d]) /\ Listing(g[d]) /\ Len(f[d]) \in Nat \ {0}
  BY <1>9 DEF CoversAt
<1>13. CASE Len(f[d]) > 1
  <2>1. PICK b \in Nat \ {0} : \A i \in 1..Len(f[d]) : i <= Len(g[d]) => f[d][i] = g[d][i]
    BY <1>10, <1>11, <1>12, <1>13, LevelsDiffer
  <2>2. \A i \in 1..Len(f[d]) : f[d][i] = g[d][i]
    <3> DEFINE k == Len(f[d])
    <3>1. k \in Nat /\ k = Len(g[d])
      BY <1>10, <1>12
    <3> HIDE DEF k
    <3>2. \A i \in 1..k : i <= k
      BY <3>1
    <3> QED BY <2>1, <3>1, <3>2 DEF k
  <2> QED BY <1>7, <1>10, <1>12, <2>2, SameListing
<1>14. CASE ~(Len(f[d]) > 1)
  <2>1. Level(f[d]) = f[d] /\ Level(g[d]) = g[d]
    BY <1>10, <1>14 DEF Level
  <2> QED BY <1>7, <1>11, <2>1
<1> QED
  BY <1>13, <1>14

LEMMA PrefixIs ==
    ASSUME NEW x, Listing(x), NEW n \in 1..Len(x)
    PROVE  LET y == SubSeq(x, 1, n)
           IN  Listing(y) /\ Len(y) = n /\ \A i \in 1..n : y[i] = x[i]
<1> DEFINE y == SubSeq(x, 1, n)
<1>1. PICK T : x \in Seq(T)
  BY DEF Listing
<1>2. n \in Int /\ 1 <= n /\ \A i \in 1..n : x[i] \in T
  BY <1>1, LenProperties, ElementOfSeq
<1>3. y \in Seq(T) /\ Len(y) = n - 1 + 1 /\ \A i \in 1..(n - 1 + 1) : y[i] = x[1 + i - 1]
  BY <1>2, SubSeqProperties
<1> HIDE DEF y
<1>4. n - 1 + 1 = n /\ \A i \in 1..n : 1 + i - 1 = i
  BY <1>2
<1>5. Len(y) = n /\ \A i \in 1..n : y[i] = x[i]
  BY <1>3, <1>4
<1> QED
  BY <1>3, <1>5 DEF Listing, y

\* The leaves beneath a node that is not the last are in their order.
LEMMA BeneathWhole ==
    ASSUME NEW N \in Nat, NEW w \in Nat \ {0}, NEW k \in Nat, (k + 1) * w <= N,
           NEW at \in 0..(w - 1)
    PROVE  Beneath(N, w, k, at) = k * w + at
<1> DEFINE s == k * w
<1>1. s \in Nat /\ s + w <= N
  <2>1. (k + 1) * w = k * w + w
    OBVIOUS
  <2> QED BY <2>1
<1>2. Beneath(N, w, k, at) = s + merkle_index(at, Lesser(w, N - s), w)
  BY DEF Beneath
<1> HIDE DEF s
<1>3. Lesser(w, N - s) = w
  BY <1>1 DEF Lesser
<1>4. merkle_index(at, w, w) = at
  BY MerkleIndexIs
<1> QED
  BY <1>2, <1>3, <1>4 DEF s

\* The test at a width compares the leaves of the last two nodes at its depth.
LEMMA WidthTest ==
    ASSUME NEW x, NEW d \in Nat, NEW u, Listing(x), CoversAt(u, x, d), Len(u) > 1
    PROVE  is_malleated32_width(x, Doubled(d)) <=>
                /\ Doubled(d) <= Len(x) \div 2
                /\ Len(u) % 2 = 0 /\ Len(u) > 2
                /\ Matches(x, Len(u) - 1, x, Len(u) - 2, Doubled(d))
<1> DEFINE w == Doubled(d)
           N == Len(x)
           a == Len(u)
           last == (a - 1) * w
           c == N - last
           Equal(at) == x[last + merkle_index(at, c, w) + 1] = x[last - w + at + 1]
<1>1. N \in Nat /\ w \in Nat \ {0}
  BY LenProperties, DoubledIs DEF Listing
<1>2. a = ceilinged_divide(N, w) /\ Spread(N, w, a) /\ a \in Nat /\ a > 1
  BY CoverCounts DEF CoversAt
<1>3. is_malleated32_width(x, w) <=>
        /\ w <= N \div 2
        /\ ~is_odd(a) /\ a > 2
        /\ \A at \in 0..(w - 1) : Equal(at)
  <2> HIDE DEF w, a, N
  <2> QED BY <1>2, Zenon DEF is_malleated32_width, N
<1> HIDE DEF w, N, a
<1>4. last \in Nat /\ last < N /\ c \in 1..w /\ (a - 2) * w = last - w
      /\ (a - 2 + 1) * w <= N /\ last - w \in Nat
  <2>1. (a - 1) * w < N /\ N <= a * w
    BY <1>2 DEF Spread
  <2>2. a * w = last + w /\ (a - 2) * w = last - w /\ (a - 2 + 1) * w = last
    BY <1>1, <1>2
  <2>3. 0 * w <= (a - 2) * w
    BY <1>1, <1>2, Scaled
  <2>4. last \in Int /\ 0 * w = 0
    BY <1>1, <1>2
  <2> HIDE DEF last
  <2>5. last < N /\ N <= last + w /\ 0 <= last - w
    BY <2>1, <2>2, <2>3, <2>4 DEF last
  <2> QED BY <1>1, <2>2, <2>4, <2>5
<1>5. ASSUME NEW at \in 0..(w - 1)
      PROVE  /\ Beneath(N, w, a - 1, at) = last + merkle_index(at, c, w)
             /\ Beneath(N, w, a - 2, at) = last - w + at
  <2>1. Lesser(w, c) = c
    <3> HIDE DEF c
    <3> QED BY <1>1, <1>4 DEF Lesser
  <2>2. Beneath(N, w, a - 1, at) = last + merkle_index(at, c, w)
    BY <2>1 DEF Beneath
  <2>3. a - 2 \in Nat
    BY <1>2
  <2>4. Beneath(N, w, a - 2, at) = (a - 2) * w + at
    BY <1>1, <1>4, <2>3, BeneathWhole
  <2> QED BY <1>4, <2>2, <2>4
<1>6. Matches(x, a - 1, x, a - 2, w) <=> \A at \in 0..(w - 1) : Equal(at)
  <2>1. ASSUME NEW at \in 0..(w - 1)
        PROVE  x[Beneath(N, w, a - 1, at) + 1] = x[Beneath(N, w, a - 2, at) + 1] <=> Equal(at)
    BY <1>5
  <2> HIDE DEF Equal
  <2> QED BY <2>1 DEF Matches, N
<1>7. ~is_odd(a) <=> a % 2 = 0
  BY <1>2 DEF is_odd
<1> QED
  BY <1>3, <1>6, <1>7 DEF w, N, a

\* A list that is found to be malleated has the root of a shorter one, which is cut
\* before the node that was cloned.
LEMMA MalleatedIsLonger ==
    ASSUME NEW x, Listing(x), is_malleated32(x)
    PROVE  \E n \in 1..(Len(x) - 1) : merkle_root(SubSeq(x, 1, n)) = merkle_root(x)
<1> DEFINE N == Len(x)
<1>1. PICK d \in 0..N : is_malleated32_width(x, Doubled(d))
  BY DEF is_malleated32
<1> DEFINE w == Doubled(d)
<1>2. N \in Nat /\ d \in Nat
  BY LenProperties DEF Listing
<1>3. w \in Nat \ {0}
  BY <1>2, DoubledIs
<1>4. w <= N \div 2 /\ ~is_odd(ceilinged_divide(N, w)) /\ ceilinged_divide(N, w) > 2
  <2> HIDE DEF w
  <2> QED BY <1>1, Zenon DEF is_malleated32_width, w
<1>5. N > 0
  BY <1>2, <1>3, <1>4
<1>6. PICK f : f = LevelFrom(f, x, N)
  BY <1>2, LevelsExist
<1>7. /\ f[0] = x
      /\ \A e \in 0..N : CoversAt(f[e], x, e)
      /\ \A e \in 0..(N - 1) : f[e + 1] = Level(f[e])
  BY <1>2, <1>5, <1>6, LevelsCover
<1> DEFINE u == f[d]
           a == Len(u)
           n == (a - 1) * w
           y == SubSeq(x, 1, n)
<1>8. CoversAt(u, x, d)
  BY <1>7
<1>9. /\ a = ceilinged_divide(N, w) /\ a \in Nat /\ a > 2 /\ a % 2 = 0 /\ Listing(u)
      /\ n < N /\ a + d <= N
  <2>1. a = ceilinged_divide(N, w) /\ a \in Nat
    BY <1>2, <1>8, CoverCounts DEF CoversAt
  <2>2. Listing(u) /\ n < N /\ (a > 1 => a + d <= N)
    BY <1>8 DEF CoversAt
  <2> HIDE DEF a, n, w, N
  <2> QED BY <1>4, <2>1, <2>2 DEF is_odd
<1>10. Matches(x, a - 1, x, a - 2, w)
  <2> HIDE DEF u
  <2>1. a > 1
    BY <1>9
  <2> QED BY <1>1, <1>2, <1>8, <2>1, WidthTest
<1> HIDE DEF a, w, N
<1>11. n \in Nat \ {0} /\ n \in 1..(N - 1) /\ (a - 2) * w < n
  <2>1. 1 * w <= (a - 1) * w /\ (a - 1) * w = (a - 2) * w + w
    BY <1>3, <1>9, Scaled
  <2> DEFINE z == (a - 2) * w
  <2>2. z \in Int /\ n \in Int /\ 1 * w = w
    BY <1>3, <1>9
  <2>3. w <= n /\ n = z + w
    BY <2>1, <2>2
  <2> HIDE DEF n, z
  <2>4. n \in Nat \ {0} /\ n \in 1..(N - 1) /\ z < n
    BY <1>2, <1>3, <1>9, <2>2, <2>3
  <2> QED BY <2>4 DEF z
<1>12. Listing(y) /\ Len(y) = n /\ \A i \in 1..n : y[i] = x[i]
  <2> HIDE DEF n
  <2>1. n \in 1..Len(x)
    BY <1>2, <1>11 DEF N
  <2> QED BY <2>1, PrefixIs
<1> HIDE DEF y
<1>13. PICK g : g = LevelFrom(g, y, N)
  BY <1>2, LevelsExist
<1>14. /\ g[0] = y
       /\ \A e \in 0..N : CoversAt(g[e], y, e)
       /\ \A e \in 0..(N - 1) : g[e + 1] = Level(g[e])
  <2>1. Len(y) > 0
    BY <1>11, <1>12
  <2> QED BY <1>2, <1>12, <1>13, <2>1, LevelsCover
<1> DEFINE v == g[d]
<1>15. CoversAt(v, y, d) /\ Listing(v) /\ Len(v) = a - 1
  <2>1. CoversAt(v, y, d)
    BY <1>1, <1>14 DEF N
  <2>2. Len(v) = ceilinged_divide(n, w)
    BY <1>2, <1>12, <2>1, CoverCounts DEF w
  <2>3. ceilinged_divide(n, w) = a - 1
    <3> DEFINE b == a - 1
    <3>1. b \in Nat \ {0} /\ b - 1 = a - 2
      BY <1>9
    <3>2. (b - 1) * w < n /\ n <= b * w /\ n \in Nat
      BY <1>11, <3>1
    <3> HIDE DEF b, n
    <3>3. ceilinged_divide(n, w) = b
      BY <1>3, <3>1, <3>2, CountIs
    <3> QED BY <3>3 DEF b
  <2> QED BY <2>1, <2>2, <2>3 DEF CoversAt
<1>16. Len(u) > 1 /\ Len(v) > 1
  <2>1. a > 1 /\ a - 1 > 1
    BY <1>9
  <2> QED BY <1>15, <2>1 DEF a
<1>17. d \in 0..N
  BY <1>1 DEF N
<1>18. NodesMatch(u, x, u, x, w)
  BY <1>2, <1>5, <1>6, <1>16, <1>17, NodesAgree DEF w, N
<1>19. NodesMatch(u, x, v, y, w)
  <2>1. Len(y) > 0 /\ Len(x) > 0
    BY <1>5, <1>11, <1>12 DEF N
  <2> QED BY <1>2, <1>6, <1>12, <1>13, <1>16, <1>17, <2>1, NodesAgree DEF w
<1> HIDE DEF u, v
<1>20. u[a] = u[a - 1]
  <2>1. a - 1 \in 0..(Len(u) - 1) /\ a - 2 \in 0..(Len(u) - 1) /\ (a - 1) + 1 = a
        /\ (a - 2) + 1 = a - 1
    BY <1>9 DEF a
  <2>2. u[(a - 1) + 1] = u[(a - 2) + 1]
    BY <1>10, <1>18, <2>1 DEF NodesMatch
  <2> QED BY <2>1, <2>2
<1>21. \A i \in 1..(a - 1) : u[i] = v[i]
  <2> TAKE i \in 1..(a - 1)
  <2> DEFINE k == i - 1
  <2>1. k \in 0..(Len(u) - 1) /\ k \in 0..(Len(v) - 1) /\ k + 1 = i /\ k \in Nat
        /\ k + 1 <= a - 1
    BY <1>9, <1>15 DEF a
  <2> HIDE DEF k
  <2>2. (k + 1) * w <= n /\ k * w \in Nat /\ (k + 1) * w = k * w + w
    <3>1. k + 1 \in Int /\ a - 1 \in Int /\ w \in Nat
      BY <1>3, <1>9, <2>1
    <3>2. (k + 1) * w <= (a - 1) * w
      BY <2>1, <3>1, Scaled
    <3>3. k * w \in Nat /\ (k + 1) * w = k * w + w
      BY <1>3, <2>1
    <3> QED BY <3>2, <3>3
  <2> DEFINE s == k * w
  <2> HIDE DEF n, s
  <2>3. s \in Nat /\ s + w <= n /\ (k + 1) * w <= n /\ (k + 1) * w <= N
    <3> DEFINE q == (k + 1) * w
    <3>1. q <= n /\ q = s + w /\ s \in Nat
      BY <2>2 DEF s
    <3> HIDE DEF q
    <3>2. q <= N
      BY <1>2, <1>3, <1>11, <3>1
    <3> QED BY <3>1, <3>2 DEF q
  <2>4. ASSUME NEW at \in 0..(w - 1)
        PROVE  x[Beneath(Len(x), w, k, at) + 1] = y[Beneath(Len(y), w, k, at) + 1]
    <3>1. Beneath(N, w, k, at) = s + at
      BY <1>2, <1>3, <2>1, <2>3, BeneathWhole DEF s
    <3>2. Beneath(n, w, k, at) = s + at
      BY <1>3, <1>11, <2>1, <2>3, BeneathWhole DEF s
    <3>3. s + at + 1 \in 1..n
      BY <1>3, <1>11, <2>3
    <3>4. x[s + at + 1] = y[s + at + 1]
      BY <1>12, <3>3
    <3> QED BY <1>12, <3>1, <3>2, <3>4 DEF N
  <2>5. Matches(x, k, y, k, w)
    BY <2>4 DEF Matches
  <2>6. u[k + 1] = v[k + 1]
    BY <1>19, <2>1, <2>5 DEF NodesMatch
  <2> QED BY <2>1, <2>6
<1>22. Level(u) = Level(v)
  <2>1. Paired(u) = u
    BY <1>9 DEF Paired, is_odd, a
  <2>2. PICK T : v \in Seq(T)
    BY <1>15 DEF Listing
  <2>3. Len(v) = a - 1 /\ (a - 1) % 2 = 1 /\ a - 1 \in 1..Len(v) /\ a \in Nat /\ (a - 1) + 1 = a
    BY <1>9, <1>15
  <2>4. v[a - 1] \in T
    BY <2>2, <2>3, ElementOfSeq
  <2>5. Paired(v) = Append(v, v[a - 1])
    BY <2>3 DEF Paired, is_odd
  <2>6. /\ Paired(v) \in Seq(T) /\ Len(Paired(v)) = a
        /\ \A i \in 1..(a - 1) : Paired(v)[i] = v[i]
        /\ Paired(v)[a] = v[a - 1]
    BY <2>2, <2>3, <2>4, <2>5, AppendProperties
  <2>7. \A i \in 1..a : u[i] = Paired(v)[i]
    <3> TAKE i \in 1..a
    <3>1. CASE i = a
      <4>1. a - 1 \in 1..(a - 1)
        BY <1>9
      <4>2. v[a - 1] = u[a - 1]
        BY <1>21, <4>1
      <4> QED BY <1>20, <2>6, <3>1, <4>2
    <3>2. CASE i # a
      <4>1. i \in 1..(a - 1)
        BY <1>9, <3>2
      <4> QED BY <1>21, <2>6, <4>1
    <3> QED BY <3>1, <3>2
  <2>8. u = Paired(v)
    <3>1. Listing(Paired(v)) /\ Len(u) = Len(Paired(v)) /\ Len(u) = a
      BY <2>6 DEF Listing, a
    <3>2. \A i \in 1..Len(u) : u[i] = Paired(v)[i]
      BY <2>7, <3>1
    <3> QED BY <1>9, <3>1, <3>2, SameListing
  <2> QED BY <1>16, <2>1, <2>8 DEF Level
<1>23. d \in 0..(N - 1) /\ d + 1 \in 0..N
  BY <1>2, <1>9, <1>17
<1>24. f[d + 1] = g[d + 1]
  BY <1>7, <1>14, <1>22, <1>23 DEF u, v
<1>25. f[N] = g[N]
  <2> DEFINE X == {e \in Nat : d + 1 + e <= N => f[d + 1 + e] = g[d + 1 + e]}
  <2>1. 0 \in X
    <3>1. d + 1 + 0 = d + 1
      BY <1>2
    <3> QED BY <1>24, <3>1
  <2>2. ASSUME NEW e \in Nat, e \in X PROVE e + 1 \in X
    <3> SUFFICES ASSUME d + 1 + (e + 1) <= N PROVE f[d + 1 + (e + 1)] = g[d + 1 + (e + 1)]
      OBVIOUS
    <3> DEFINE j == d + 1 + e
    <3>1. j \in 0..(N - 1) /\ d + 1 + (e + 1) = j + 1 /\ j <= N
      BY <1>2
    <3>2. f[j] = g[j]
      BY <2>2, <3>1
    <3> HIDE DEF j
    <3> QED BY <1>7, <1>14, <3>1, <3>2
  <2> HIDE DEF X
  <2>3. N - (d + 1) \in Nat /\ d + 1 + (N - (d + 1)) = N /\ N <= N
    BY <1>2, <1>23
  <2>4. N - (d + 1) \in X
    BY <2>1, <2>2, <2>3, SuccessorsFill
  <2> QED BY <2>3, <2>4 DEF X
<1>26. merkle_root(x) = f[N][1]
  BY <1>2, <1>5, <1>6, RootAt DEF N
<1>27. merkle_root(y) = g[N][1]
  <2>1. Len(y) > 0 /\ Len(y) <= N
    BY <1>2, <1>11, <1>12
  <2> QED BY <1>2, <1>12, <1>13, <2>1, RootAt
<1> QED
  BY <1>11, <1>25, <1>26, <1>27 DEF y, N

\* A hash that is not a pair of pairs: that of a transaction, or of two of them.
Shallow(hash) == Len(hash) # 2 \/ Len(hash[1]) # 2

LEMMA NodeLength ==
    ASSUME NEW left, NEW right
    PROVE  Len(Node(left, right)) = 2 /\ Node(left, right)[1] = left
BY DEF Node

\* The first node of a level is its leaf, at the bottom, or a pair of which the first
\* of the level below is one.  So a tree that goes on is not a node of itself.
LEMMA TreesEnd ==
    ASSUME NEW x, Listing(x), Len(x) > 0, NEW y, Listing(y), Len(y) > 0, NEW m \in Nat,
           NEW f, f = LevelFrom(f, x, m), NEW g, g = LevelFrom(g, y, m),
           x[1] = y[1], Shallow(x[1]),
           NEW d \in 0..(m - 1), Len(f[d]) > 1
    PROVE  g[d][1] # f[d + 1][1]
<1> SUFFICES ASSUME g[d][1] = f[d + 1][1] PROVE FALSE
  OBVIOUS
<1>1. /\ f[0] = x
      /\ \A e \in 0..m : CoversAt(f[e], x, e)
      /\ \A e \in 0..(m - 1) : f[e + 1] = Level(f[e]) /\ Len(f[e + 1]) <= Len(f[e])
  BY LevelsCover
<1>2. /\ g[0] = y
      /\ \A e \in 0..m : CoversAt(g[e], y, e)
      /\ \A e \in 0..(m - 1) : g[e + 1] = Level(g[e])
  BY LevelsCover
<1>3. d \in Nat /\ m \in Nat /\ d < m
  OBVIOUS
<1>4. \A e \in 0..d : Len(f[e]) > 1
  <2> DEFINE X == {i \in Nat : i <= d => Len(f[d - i]) > 1}
  <2>1. 0 \in X
    <3>1. d - 0 = d
      BY <1>3
    <3> QED BY <3>1
  <2>2. ASSUME NEW i \in Nat, i \in X PROVE i + 1 \in X
    <3> SUFFICES ASSUME i + 1 <= d PROVE Len(f[d - (i + 1)]) > 1
      OBVIOUS
    <3> DEFINE e == d - (i + 1)
    <3>1. e \in 0..(m - 1) /\ e \in 0..m /\ e + 1 \in 0..m /\ d - i = e + 1 /\ i <= d
      BY <1>3
    <3>2. Len(f[e + 1]) > 1
      BY <2>2, <3>1
    <3> HIDE DEF e
    <3>3. CoversAt(f[e], x, e) /\ CoversAt(f[e + 1], x, e + 1) /\ Len(f[e + 1]) <= Len(f[e])
      BY <1>1, <3>1
    <3> DEFINE p == Len(f[e])
               q == Len(f[e + 1])
    <3>4. p \in Nat /\ q \in Nat /\ q <= p /\ q > 1
      BY <3>2, <3>3 DEF CoversAt
    <3> HIDE DEF p, q
    <3>5. p > 1
      BY <3>4
    <3> QED BY <3>5 DEF p, e
  <2> HIDE DEF X
  <2>3. Nat \subseteq X
    BY <2>1, <2>2, SuccessorsFill
  <2> TAKE e \in 0..d
  <2>4. d - e \in Nat /\ d - e <= d /\ d - (d - e) = e
    BY <1>3
  <2>5. d - e \in X
    BY <2>3, <2>4
  <2> QED BY <2>4, <2>5 DEF X
<1>5. ASSUME NEW e \in 0..d PROVE \E right : f[e + 1][1] = Node(f[e][1], right)
  <2>1. Len(f[e]) > 1 /\ f[e + 1] = Level(f[e]) /\ Listing(f[e])
    <3>1. e \in 0..(m - 1) /\ e \in 0..m
      BY <1>3
    <3> QED BY <1>1, <1>4, <3>1 DEF CoversAt
  <2>2. 0 \in 0..(Len(Level(f[e])) - 1)
    <3> DEFINE b == Len(Level(f[e]))
    <3>1. b \in Nat \ {0}
      BY <2>1, LevelHalves
    <3> HIDE DEF b
    <3>2. 0 \in 0..(b - 1)
      BY <3>1
    <3> QED BY <3>2 DEF b
  <2>3. Level(f[e])[0 + 1] = Node(f[e][2 * 0 + 1], f[e][Second(0, Len(f[e])) + 1])
    BY <2>1, <2>2, NodeOfTwo
  <2> QED BY <2>1, <2>3
<1>6. ASSUME NEW e \in 0..d
      PROVE  g[e + 1][1] = g[e][1] \/ \E right : g[e + 1][1] = Node(g[e][1], right)
  <2>1. g[e + 1] = Level(g[e]) /\ Listing(g[e])
    <3>1. e \in 0..(m - 1) /\ e \in 0..m
      BY <1>3
    <3> QED BY <1>2, <3>1 DEF CoversAt
  <2>2. CASE Len(g[e]) > 1
    <3>1. 0 \in 0..(Len(Level(g[e])) - 1)
      <4> DEFINE b == Len(Level(g[e]))
      <4>1. b \in Nat \ {0}
        BY <2>1, <2>2, LevelHalves
      <4> HIDE DEF b
      <4>2. 0 \in 0..(b - 1)
        BY <4>1
      <4> QED BY <4>2 DEF b
    <3>2. Level(g[e])[0 + 1] = Node(g[e][2 * 0 + 1], g[e][Second(0, Len(g[e])) + 1])
      BY <2>1, <2>2, <3>1, NodeOfTwo
    <3> QED BY <2>1, <3>2
  <2>3. CASE ~(Len(g[e]) > 1)
    BY <2>1, <2>3 DEF Level
  <2> QED BY <2>2, <2>3
<1> DEFINE T == {q \in Nat : \E p \in Nat : q < p /\ p <= d + 1 /\ f[p][1] = g[q][1]}
<1>7. d \in T
  <2>1. d < d + 1 /\ d + 1 \in Nat /\ d + 1 <= d + 1
    BY <1>3
  <2> QED BY <1>3, <2>1
<1>8. PICK q \in T : \A r \in T : q <= r
  <2>1. T \subseteq Nat
    OBVIOUS
  <2> HIDE DEF T
  <2> QED BY <1>7, <2>1, HasLeast
<1>9. PICK p \in Nat : q < p /\ p <= d + 1 /\ f[p][1] = g[q][1]
  OBVIOUS
<1>10. q \in Nat /\ p - 1 \in 0..d /\ (p - 1) + 1 = p
  BY <1>3, <1>9
<1>11. PICK right : f[p][1] = Node(f[p - 1][1], right)
  BY <1>5, <1>10
<1>12. CASE q = 0
  <2>1. x[1] = Node(f[p - 1][1], right)
    BY <1>2, <1>9, <1>11, <1>12
  <2>2. Len(x[1]) = 2 /\ x[1][1] = f[p - 1][1]
    BY <2>1, NodeLength
  <2>3. Len(f[p - 1][1]) # 2
    BY <2>2 DEF Shallow
  <2>4. CASE p = 1
    <3>1. p - 1 = 0
      BY <2>4
    <3> QED BY <1>1, <2>2, <2>3, <3>1
  <2>5. CASE p # 1
    <3>1. (p - 2) \in 0..d /\ (p - 2) + 1 = p - 1
      BY <1>10, <2>5
    <3>2. PICK other : f[p - 1][1] = Node(f[p - 2][1], other)
      BY <1>5, <3>1
    <3> QED BY <2>3, <3>2, NodeLength
  <2> QED BY <2>4, <2>5
<1>13. CASE q # 0
  <2> DEFINE r == q - 1
  <2>1. r \in Nat /\ r \in 0..d /\ r + 1 = q /\ r < p /\ r < p - 1 /\ ~(q <= r) /\ p - 1 \in Nat
        /\ p - 1 <= d + 1
    BY <1>3, <1>9, <1>10, <1>13
  <2> HIDE DEF r
  <2>2. r \notin T
    BY <1>8, <2>1
  <2>3. f[p][1] # g[r][1] /\ f[p - 1][1] # g[r][1]
    BY <1>9, <2>1, <2>2
  <2>4. PICK other : g[q][1] = Node(g[r][1], other)
    BY <1>6, <1>9, <2>1, <2>3
  <2>5. Node(f[p - 1][1], right) = Node(g[r][1], other)
    BY <1>9, <1>11, <2>4
  <2>6. f[p - 1][1] = g[r][1]
    BY <2>5, NodeLength
  <2> QED BY <2>3, <2>6
<1> QED
  BY <1>12, <1>13

\* A list that has the root of a shorter one is found to be malleated.
LEMMA LongerIsMalleated ==
    ASSUME NEW x, Listing(x), NEW n \in 1..(Len(x) - 1), Shallow(x[1]),
           merkle_root(SubSeq(x, 1, n)) = merkle_root(x)
    PROVE  is_malleated32(x)
<1> DEFINE N == Len(x)
           y == SubSeq(x, 1, n)
<1>1. N \in Nat /\ N > 0 /\ n \in Nat /\ n > 0 /\ n < N /\ n \in 1..N /\ 1 \in 1..n
  BY LenProperties DEF Listing
<1>2. Listing(y) /\ Len(y) = n /\ x[1] = y[1]
  BY <1>1, PrefixIs
<1>3. merkle_root(y) = merkle_root(x)
  OBVIOUS
<1> HIDE DEF y
<1>4. PICK f : f = LevelFrom(f, x, N)
  BY <1>1, LevelsExist
<1>5. PICK g : g = LevelFrom(g, y, N)
  BY <1>1, LevelsExist
<1>6. /\ f[0] = x
      /\ \A e \in 0..N : CoversAt(f[e], x, e)
      /\ \A e \in 0..(N - 1) : f[e + 1] = Level(f[e])
  BY <1>1, <1>4, LevelsCover
<1>7. /\ g[0] = y
      /\ \A e \in 0..N : CoversAt(g[e], y, e)
      /\ \A e \in 0..(N - 1) : g[e + 1] = Level(g[e])
  BY <1>1, <1>2, <1>5, LevelsCover
<1>8. f[N] = g[N]
  <2>1. merkle_root(x) = f[N][1] /\ Len(f[N]) = 1
    BY <1>1, <1>4, RootAt
  <2>2. merkle_root(y) = g[N][1] /\ Len(g[N]) = 1
    BY <1>1, <1>2, <1>5, RootAt
  <2>3. N \in 0..N
    BY <1>1
  <2>4. Listing(f[N]) /\ Listing(g[N])
    BY <1>6, <1>7, <2>3 DEF CoversAt
  <2>5. \A i \in 1..Len(f[N]) : f[N][i] = g[N][i]
    <3>1. \A i \in 1..Len(f[N]) : i = 1
      BY <2>1
    <3> QED BY <1>3, <2>1, <2>2, <3>1
  <2> QED BY <2>1, <2>2, <2>4, <2>5, SameListing
<1>9. f[0] # g[0]
  BY <1>1, <1>2, <1>6, <1>7
<1>10. PICK d \in 0..(N - 1) : f[d] # g[d] /\ f[d + 1] = g[d + 1]
  <2> HIDE DEF N
  <2> QED BY <1>1, <1>8, <1>9, LastDifference
<1> DEFINE u == f[d]
           v == g[d]
           a == Len(u)
           b == Len(v)
           w == Doubled(d)
<1>11. d \in Nat /\ d \in 0..N /\ w \in Nat \ {0}
  BY <1>1, <1>10, DoubledIs
<1>12. /\ CoversAt(u, x, d) /\ CoversAt(v, y, d) /\ Level(u) = Level(v) /\ u # v
       /\ Listing(u) /\ Listing(v) /\ a \in Nat \ {0} /\ b \in Nat \ {0}
       /\ (a - 1) * w < N /\ N <= a * w /\ (b - 1) * w < n /\ n <= b * w
  <2>1. CoversAt(u, x, d) /\ CoversAt(v, y, d)
    BY <1>6, <1>7, <1>11
  <2>2. Level(u) = Level(v)
    BY <1>6, <1>7, <1>10
  <2> QED BY <1>2, <1>10, <2>1, <2>2 DEF CoversAt
<1>13. b <= a
  <2> HIDE DEF a, b, w, u, v, N
  <2> SUFFICES ASSUME ~(b <= a) PROVE FALSE
    OBVIOUS
  <2>1. a * w <= (b - 1) * w
    BY <1>11, <1>12, Scaled
  <2> DEFINE p == a * w
             q == (b - 1) * w
  <2>2. p \in Int /\ q \in Int /\ p <= q /\ q < n /\ N <= p
    BY <1>11, <1>12, <2>1
  <2> HIDE DEF p, q
  <2> QED BY <1>1, <2>2
<1>14. a > 1
  <2> SUFFICES ASSUME ~(a > 1) PROVE FALSE
    OBVIOUS
  <2>1. ~(b > 1)
    <3> HIDE DEF a, b
    <3> QED BY <1>12, <1>13
  <2>2. Level(u) = u /\ Level(v) = v
    BY <2>1 DEF Level
  <2> QED BY <1>12, <2>2
<1>15. b > 1
  <2> SUFFICES ASSUME ~(b > 1) PROVE FALSE
    OBVIOUS
  <2>1. Level(v) = v
    BY DEF Level
  <2>2. f[d + 1] = v
    BY <1>6, <1>10, <1>12, <2>1
  <2>3. v[1] = f[d + 1][1]
    BY <2>2
  <2> QED BY <1>1, <1>2, <1>4, <1>5, <1>10, <1>14, <2>3, TreesEnd
<1>16. PICK c \in Nat \ {0} :
            /\ a \in {2 * c - 1, 2 * c} /\ b \in {2 * c - 1, 2 * c}
            /\ \A i \in 1..a : i <= b => u[i] = v[i]
            /\ a = 2 * c /\ b = 2 * c - 1 => u[2 * c] = u[2 * c - 1]
  <2> HIDE DEF u, v
  <2> QED BY <1>12, <1>14, <1>15, LevelsDiffer
<1>17. a # b
  <2> SUFFICES ASSUME a = b PROVE FALSE
    OBVIOUS
  <2>1. \A i \in 1..Len(u) : u[i] = v[i]
    <3> HIDE DEF u, v
    <3>1. \A i \in 1..a : i <= b
      <4> HIDE DEF a, b
      <4> QED BY <1>12
    <3> QED BY <1>16, <3>1
  <2> HIDE DEF u, v
  <2> QED BY <1>12, <2>1, SameListing
<1>18. a = 2 * c /\ b = 2 * c - 1 /\ a > 2 /\ a % 2 = 0 /\ a >= 4
  <2> HIDE DEF a, b, u, v, w
  <2> QED BY <1>12, <1>13, <1>15, <1>16, <1>17
<1>19. u[a] = u[a - 1]
  <2> HIDE DEF a, b, u, v
  <2> QED BY <1>16, <1>18
<1>20. Matches(x, a - 1, x, a - 2, w)
  <2>1. NodesMatch(u, x, u, x, w)
    BY <1>1, <1>4, <1>11, <1>14, NodesAgree
  <2> HIDE DEF u
  <2>2. a - 1 \in 0..(Len(u) - 1) /\ a - 2 \in 0..(Len(u) - 1) /\ (a - 1) + 1 = a
        /\ (a - 2) + 1 = a - 1
    <3>1. a \in Nat
      BY <1>12
    <3> HIDE DEF a
    <3>2. a - 1 \in 0..(a - 1) /\ a - 2 \in 0..(a - 1) /\ (a - 1) + 1 = a /\ (a - 2) + 1 = a - 1
      BY <1>18, <3>1
    <3> QED BY <3>2 DEF a
  <2>3. u[(a - 1) + 1] = u[(a - 2) + 1]
    BY <1>19, <2>2
  <2> QED BY <2>1, <2>2, <2>3 DEF NodesMatch
<1>21. w <= N \div 2
  <2> HIDE DEF a, b, u, v, w, N
  <2>1. 3 * w <= (a - 1) * w
    BY <1>11, <1>12, <1>18, Scaled
  <2> DEFINE p == (a - 1) * w
  <2>2. p \in Int /\ 3 * w <= p /\ p < N
    BY <1>11, <1>12, <2>1
  <2> HIDE DEF p
  <2> QED BY <1>1, <1>11, <2>2
<1>22. is_malleated32_width(x, w)
  <2> HIDE DEF u
  <2> QED BY <1>11, <1>12, <1>14, <1>18, <1>20, <1>21, WidthTest
<1> QED
  BY <1>11, <1>22 DEF is_malleated32

\* A list is found to be malleated exactly if a shorter one has its root.
THEOREM MalleationIs ==
    ASSUME NEW x, Listing(x), Shallow(x[1])
    PROVE  is_malleated32(x) <=>
                \E n \in 1..(Len(x) - 1) : merkle_root(SubSeq(x, 1, n)) = merkle_root(x)
BY MalleatedIsLonger, LongerIsMalleated

-------------------------------------------------------------------------------
(* Identity.                                                               *)

LEMMA IdsAre ==
    ASSUME NEW txs, Listing(txs)
    PROVE  /\ Len(txs) \in Nat /\ DOMAIN txs = 1..Len(txs)
           /\ Listing(txids(txs)) /\ Len(txids(txs)) = Len(txs)
           /\ \A i \in 1..Len(txs) : txids(txs)[i] = txs[i].id
<1>1. Len(txs) \in Nat /\ DOMAIN txs = 1..Len(txs)
  BY LenProperties DEF Listing
<1> DEFINE n == Len(txs)
           ids == txids(txs)
<1>2. ids = [i \in 1..n |-> txs[i].id]
  BY <1>1 DEF txids
<1> HIDE DEF n, ids
<1>3. ids = [i \in 1..n |-> ids[i]]
  BY <1>2
<1>4. Listing(ids) /\ Len(ids) = n
  BY <1>1, <1>3, FunctionIsListing DEF n
<1> QED
  BY <1>1, <1>2, <1>4 DEF n, ids

LEMMA PrefixIds ==
    ASSUME NEW txs, Listing(txs), NEW n \in 1..Len(txs)
    PROVE  MerkleRoot(SubSeq(txs, 1, n)) = merkle_root(SubSeq(txids(txs), 1, n))
<1> DEFINE front == SubSeq(txs, 1, n)
           ids == SubSeq(txids(txs), 1, n)
<1>1. Len(txids(txs)) = Len(txs) /\ Listing(txids(txs))
      /\ \A i \in 1..Len(txs) : txids(txs)[i] = txs[i].id
  BY IdsAre
<1>2. Listing(front) /\ Len(front) = n /\ \A i \in 1..n : front[i] = txs[i]
  BY PrefixIs
<1>3. Listing(ids) /\ Len(ids) = n /\ \A i \in 1..n : ids[i] = txids(txs)[i]
  BY <1>1, PrefixIs
<1>4. n \in Nat /\ \A i \in 1..n : i \in 1..Len(txs)
  BY IdsAre
<1> HIDE DEF front, ids
<1>5. /\ Listing(txids(front)) /\ Len(txids(front)) = n
      /\ \A i \in 1..n : txids(front)[i] = front[i].id
  BY <1>2, IdsAre
<1>6. txids(front) = ids
  <2> DEFINE own == txids(front)
  <2>1. Listing(own) /\ Len(own) = n /\ \A i \in 1..n : own[i] = ids[i]
    BY <1>1, <1>2, <1>3, <1>4, <1>5
  <2> HIDE DEF own
  <2>2. own = ids
    BY <1>3, <2>1, SameListing
  <2> QED BY <2>2 DEF own
<1> QED
  BY <1>6 DEF front, ids, MerkleRoot

\* The hash of what is mined is a leaf, and what peers put together of two such
\* hashes is no pair of pairs.
LEMMA MinedLeaves ==
    ASSUME NEW tx \in Mined
    PROVE  Len(tx.id) = 1
<1>1. tx.id = <<tx.id[1]>>
  BY ConfirmationAssumption DEF Leaf
<1> DEFINE part == tx.id[1]
<1>2. tx.id = <<part>>
  BY <1>1
<1> HIDE DEF part
<1>3. Len(<<part>>) = 1
  OBVIOUS
<1> QED
  BY <1>2, <1>3

LEMMA OffersShallow ==
    ASSUME NEW txs \in Seq(Mined), NEW offer \in Offers(txs)
    PROVE  Listing(offer) /\ (Len(offer) > 0 => Shallow(txids(offer)[1]))
<1>1. CASE SeenList(offer)
  <2>1. Listing(offer) /\ DOMAIN offer = 1..Len(offer) /\ Len(offer) \in Nat
    BY <1>1, IdsAre DEF SeenList
  <2>2. ASSUME Len(offer) > 0 PROVE Shallow(txids(offer)[1])
    <3>1. 1 \in 1..Len(offer)
      BY <2>1, <2>2
    <3>2. txids(offer)[1] = offer[1].id
      BY <2>1, <3>1, IdsAre
    <3>3. PICK mined \in Mined : offer[1].id = mined.id
      BY <1>1, <2>1, <3>1 DEF SeenList, SeenTx
    <3>4. Len(mined.id) = 1
      BY MinedLeaves
    <3> QED BY <3>2, <3>3, <3>4 DEF Shallow
  <2> QED BY <2>1, <2>2
<1>2. CASE offer \in Halved(txs)
  <2> DEFINE n == Len(txs) \div 2
  <2>1. offer = [i \in 1..n |-> Paired64(txs[2 * i - 1], txs[2 * i])]
    BY <1>2 DEF Halved
  <2>2. Len(txs) \in Nat /\ n \in Nat /\ 2 * n <= Len(txs)
    BY LenProperties
  <2>3. Listing(offer) /\ Len(offer) = n
    <3> HIDE DEF n
    <3>1. offer = [i \in 1..n |-> offer[i]]
      BY <2>1, Zenon
    <3> QED BY <2>2, <3>1, FunctionIsListing
  <2>4. ASSUME n > 0 PROVE Shallow(txids(offer)[1])
    <3>1. 1 \in 1..n /\ 1 \in 1..Len(txs) /\ 2 * 1 - 1 = 1
      BY <2>2, <2>4
    <3>2. txids(offer)[1] = offer[1].id
      BY <2>3, <3>1, IdsAre
    <3>3. offer[1] = Paired64(txs[1], txs[2 * 1])
      BY <2>1, <3>1
    <3>4. Paired64(txs[1], txs[2 * 1]).id = Node(txs[1].id, txs[2 * 1].id)
      BY ConfirmationAssumption DEF Paired64, IsTransaction, Mined
    <3>5. txs[1] \in Mined
      BY <3>1, ElementOfSeq
    <3>6. Len(txs[1].id) = 1
      BY <3>5, MinedLeaves
    <3>7. txids(offer)[1][1] = txs[1].id
      BY <3>2, <3>3, <3>4, NodeLength
    <3>8. Len(txids(offer)[1][1]) = 1
      BY <3>6, <3>7
    <3> QED BY <3>8 DEF Shallow
  <2> QED BY <2>3, <2>4
<1> QED
  BY <1>1, <1>2, OffersSeen

\* For a list of transactions, as for their hashes.
LEMMA ListMalleationIs ==
    ASSUME NEW txs \in Seq(Mined), NEW offer \in Offers(txs)
    PROVE  is_malleated32(txids(offer)) <=>
                \E n \in 1..(Len(offer) - 1) :
                    MerkleRoot(SubSeq(offer, 1, n)) = MerkleRoot(offer)
<1> DEFINE ids == txids(offer)
           Repeats(n) == merkle_root(SubSeq(ids, 1, n)) = merkle_root(ids)
<1>1. /\ Listing(offer) /\ Len(offer) \in Nat /\ Listing(ids) /\ Len(ids) = Len(offer)
      /\ Len(offer) > 0 => Shallow(ids[1])
  BY OffersShallow, IdsAre
<1>2. \A n \in 1..(Len(offer) - 1) :
        MerkleRoot(SubSeq(offer, 1, n)) = MerkleRoot(offer) <=> Repeats(n)
  <2> TAKE n \in 1..(Len(offer) - 1)
  <2>1. n \in 1..Len(offer)
    BY <1>1
  <2> QED BY <1>1, <2>1, PrefixIds DEF MerkleRoot
<1>3. CASE Len(offer) > 0
  <2> HIDE DEF ids
  <2>1. is_malleated32(ids) <=> \E n \in 1..(Len(ids) - 1) : Repeats(n)
    BY <1>1, <1>3, MalleationIs
  <2> QED BY <1>1, <1>2, <2>1 DEF ids
<1>4. CASE ~(Len(offer) > 0)
  <2> HIDE DEF ids
  <2>1. Len(ids) = 0
    BY <1>1, <1>4
  <2>2. ~is_malleated32(ids)
    <3> SUFFICES ASSUME NEW power \in 0..0, is_malleated32_width(ids, Doubled(power))
                 PROVE  FALSE
      BY <2>1 DEF is_malleated32
    <3>1. Doubled(power) \in Nat \ {0}
      BY DoubledIs
    <3>2. Doubled(power) <= Len(ids) \div 2
      BY DEF is_malleated32_width
    <3> QED BY <2>1, <3>1, <3>2
  <2>3. 1..(Len(offer) - 1) = {}
    BY <1>1, <1>4
  <2> QED BY <2>2, <2>3 DEF ids
<1> QED
  BY <1>3, <1>4

\* A list is found to be malleated exactly if a shorter one has its root, whatever
\* peers make of what was mined (is_malleated32, merkle_index).
THEOREM MalleationsDetected == Spec => []MalleationDetected
<1>1. StoreInv => MalleationDetected
  <2> SUFFICES ASSUME StoreInv, NEW h \in Known, NEW txs \in Offers(headers[h].txs)
               PROVE  is_malleated32(txids(txs)) <=>
                        \E n \in 1..(Len(txs) - 1) :
                            MerkleRoot(SubSeq(txs, 1, n)) = MerkleRoot(txs)
    BY DEF MalleationDetected
  <2>1. headers[h].txs \in Seq(Mined)
    BY Domains DEF StoreInv, Header
  <2> QED BY <2>1, ListMalleationIs
<1> QED
  BY <1>1, StoreCorrect, PTL

WitnessHashes(txs) == [i \in DOMAIN txs |-> WitnessHash(txs[i])]

LEMMA WitnessHashesAre ==
    ASSUME NEW txs, Listing(txs)
    PROVE  /\ Listing(WitnessHashes(txs)) /\ Len(WitnessHashes(txs)) = Len(txs)
           /\ \A i \in 1..Len(txs) : WitnessHashes(txs)[i] = WitnessHash(txs[i])
           /\ WitnessRoot(txs) = merkle_root(WitnessHashes(txs))
<1>1. Len(txs) \in Nat /\ DOMAIN txs = 1..Len(txs)
  BY IdsAre
<1> DEFINE n == Len(txs)
           hashes == WitnessHashes(txs)
<1>2. hashes = [i \in 1..n |-> WitnessHash(txs[i])] /\ WitnessRoot(txs) = merkle_root(hashes)
  BY <1>1 DEF WitnessHashes, WitnessRoot
<1> HIDE DEF n, hashes
<1>3. hashes = [i \in 1..n |-> hashes[i]]
  BY <1>2
<1>4. Listing(hashes) /\ Len(hashes) = n
  BY <1>1, <1>3, FunctionIsListing DEF n
<1> QED
  BY <1>2, <1>4 DEF n, hashes

\* Lists that are alike but for their witnesses: a block commits to those as well.
Rewitness(txs, offer) ==
    /\ Listing(txs) /\ Listing(offer) /\ Len(offer) = Len(txs) /\ Len(txs) > 0
    /\ \A j \in 1..Len(txs) :
        /\ offer[j].id = txs[j].id
        /\ is_coinbase(offer[j]) <=> is_coinbase(txs[j])
        /\ offer[j].head = txs[j].head

LEMMA WitnessesCommitted ==
    ASSUME NEW txs, NEW offer, Rewitness(txs, offer), NEW ctx, NEW i \in 1..Len(txs),
           identify_context(txs, ctx) = "success", identify_context(offer, ctx) = "success",
           \A j \in 2..Len(txs) : ~is_coinbase(txs[j])
    PROVE  offer[i].witness = txs[i].witness
<1>1. /\ Len(txs) \in Nat /\ DOMAIN txs = 1..Len(txs) /\ DOMAIN offer = 1..Len(txs)
      /\ Len(offer) = Len(txs) /\ Len(txs) > 0 /\ 1 \in 1..Len(txs)
  <2>1. /\ Len(txs) \in Nat /\ DOMAIN txs = 1..Len(txs) /\ DOMAIN offer = 1..Len(offer)
        /\ Len(offer) = Len(txs) /\ Len(txs) > 0
    BY IdsAre DEF Rewitness
  <2> QED BY <2>1
<1>2. txs # <<>> /\ offer # <<>>
  BY <1>1
<1>3. ASSUME ~Some(is_segregated, txs), ~Some(is_segregated, offer)
      PROVE  offer[i].witness = txs[i].witness
  <2>1. ~is_segregated(txs[i]) /\ ~is_segregated(offer[i])
    BY <1>1, <1>3 DEF Some
  <2> QED BY <2>1 DEF is_segregated
<1>4. CASE ~is_enabled(ctx, "bip141")
  <2>1. ~Some(is_segregated, txs) /\ ~Some(is_segregated, offer)
    BY <1>2, <1>4 DEF identify_context
  <2> QED BY <1>3, <2>1
<1>5. CASE is_enabled(ctx, "bip141")
  <2>1. ~is_invalid_witness_commitment(txs) /\ ~is_invalid_witness_commitment(offer)
    BY <1>2, <1>5 DEF identify_context
  <2>2. offer[1].head = txs[1].head
    BY <1>1 DEF Rewitness
  <2>3. CASE txs[1].head.commit = <<>>
    <3>1. ~Some(is_segregated, txs) /\ ~Some(is_segregated, offer)
      BY <2>1, <2>2, <2>3 DEF is_invalid_witness_commitment
    <3> QED BY <1>3, <3>1
  <2>4. CASE txs[1].head.commit # <<>>
    <3>1. txs[1].head.commit = <<WitnessRoot(txs), txs[1].witness>>
      BY <2>1, <2>4, Zenon DEF is_invalid_witness_commitment
    <3>2. offer[1].head.commit = <<WitnessRoot(offer), offer[1].witness>>
      BY <2>1, <2>2, <2>4, Zenon DEF is_invalid_witness_commitment
    <3>3. WitnessRoot(offer) = WitnessRoot(txs) /\ offer[1].witness = txs[1].witness
      BY <2>2, <3>1, <3>2
    <3>4. CASE i = 1
      BY <3>3, <3>4
    <3>5. CASE i # 1
      <4>1. i \in 2..Len(txs)
        BY <1>1, <3>5
      <4>2. /\ ~is_coinbase(txs[i]) /\ ~is_coinbase(offer[i])
            /\ offer[i].id = txs[i].id
        BY <4>1 DEF Rewitness
      <4> DEFINE x == WitnessHashes(txs)
                 y == WitnessHashes(offer)
      <4>3. /\ Listing(x) /\ Listing(y) /\ Len(x) = Len(txs) /\ Len(y) = Len(txs)
            /\ x[i] = WitnessHash(txs[i]) /\ y[i] = WitnessHash(offer[i])
            /\ merkle_root(x) = merkle_root(y)
        BY <1>1, <3>3, WitnessHashesAre DEF Rewitness
      <4> HIDE DEF x, y
      <4>4. Len(x) = Len(y) /\ Len(x) > 0
        BY <1>1, <4>3
      <4>5. x = y
        BY <4>3, <4>4, RootIdentifies
      <4>6. WitnessHash(txs[i]) = Leaf(<<txs[i].id, txs[i].witness>>)
            /\ WitnessHash(offer[i]) = Leaf(<<offer[i].id, offer[i].witness>>)
        BY <4>2 DEF WitnessHash
      <4>7. <<txs[i].id, txs[i].witness>> = <<offer[i].id, offer[i].witness>>
        BY <4>3, <4>5, <4>6 DEF Leaf
      <4> QED BY <4>7
    <3> QED BY <3>4, <3>5
  <2> QED BY <2>3, <2>4
<1> QED
  BY <1>4, <1>5

LEMMA RewitnessedIs ==
    ASSUME NEW txs \in Seq(Mined), NEW offer \in Rewitnessed(txs)
    PROVE  /\ Rewitness(txs, offer)
           /\ \E i \in 1..Len(txs) : offer[i].witness = txs[i].witness => offer = txs
<1>0. PICK i \in DOMAIN txs, w \in {"none", "good", "bad"} : offer = [txs EXCEPT ![i].witness = w]
  BY DEF Rewitnessed
<1> DEFINE tx == [txs[i] EXCEPT !.witness = w]
<1>1. /\ Len(txs) \in Nat /\ DOMAIN txs = 1..Len(txs)
      /\ IsTransaction(txs[i]) /\ txs[i] \in Mined
  BY LenProperties, ElementOfSeq, ConfirmationAssumption
<1>2. /\ tx.id = txs[i].id /\ tx.ins = txs[i].ins /\ tx.head = txs[i].head /\ tx.witness = w
      /\ txs[i].witness = w => tx = txs[i]
  <2>1. tx.id = txs[i].id /\ tx.ins = txs[i].ins /\ tx.head = txs[i].head /\ tx.witness = w
    BY <1>1 DEF IsTransaction
  <2>2. ASSUME txs[i].witness = w PROVE tx = txs[i]
    <3> DEFINE old == txs[i]
    <3>1. old = [field \in DOMAIN old |-> old[field]] /\ "witness" \in DOMAIN old
      BY <1>1, Zenon DEF IsTransaction
    <3>2. tx = [field \in DOMAIN old |-> IF field = "witness" THEN w ELSE old[field]]
      OBVIOUS
    <3> HIDE DEF old, tx
    <3>3. [field \in DOMAIN old |-> IF field = "witness" THEN w ELSE old[field]]
            = [field \in DOMAIN old |-> old[field]]
      BY <2>2 DEF old
    <3>4. tx = old
      BY <3>1, <3>2, <3>3
    <3> QED BY <3>4 DEF old
  <2> QED BY <2>1, <2>2
<1> HIDE DEF tx
<1>3. offer = [txs EXCEPT ![i] = tx]
  BY <1>0 DEF tx
<1>4. /\ txs \in Seq(Mined \union {tx}) /\ tx \in Mined \union {tx} /\ i \in 1..Len(txs)
  BY <1>1, SeqMonotonic
<1>5. /\ offer \in Seq(Mined \union {tx}) /\ Len(offer) = Len(txs)
      /\ \A j \in 1..Len(txs) : offer[j] = IF j = i THEN tx ELSE txs[j]
  BY <1>3, <1>4, ExceptSeq
<1>6. Listing(offer) /\ Listing(txs) /\ Len(txs) > 0
  BY <1>1, <1>5 DEF Listing
<1>7. Rewitness(txs, offer)
  BY <1>2, <1>5, <1>6 DEF Rewitness, is_coinbase
<1>8. ASSUME offer[i].witness = txs[i].witness PROVE offer = txs
  <2>1. tx = txs[i]
    BY <1>2, <1>4, <1>5, <1>8
  <2>2. \A j \in 1..Len(offer) : offer[j] = txs[j]
    BY <1>5, <2>1
  <2> QED BY <1>5, <1>6, <2>2, SameListing
<1> QED
  BY <1>4, <1>7, <1>8

\* A list with the root of another, and with its identity as that has, is that other.
LEMMA FrontOffered ==
    ASSUME NEW txs \in Seq(Mined), Front(txs) # <<>>
    PROVE  /\ Listing(txs) /\ Front(txs) \in Offers(txs) /\ txs \in Offers(txs)
           /\ Len(txs) - 1 \in 1..(Len(txs) - 1) /\ Front(txs) = SubSeq(txs, 1, Len(txs) - 1)
<1>1. Len(txs) \in Nat /\ Front(txs) = SubSeq(txs, 1, Len(txs) - 1)
  BY LenProperties DEF Front
<1>2. Len(txs) - 1 \in Int /\ (Len(txs) - 1 < 1 => SubSeq(txs, 1, Len(txs) - 1) = <<>>)
  BY <1>1, SubSeqEmpty
<1>3. Len(txs) - 1 \in 1..(Len(txs) - 1)
  BY <1>1, <1>2
<1> QED
  BY <1>1, <1>3 DEF Listing, Offers

LEMMA ClonesOffered ==
    ASSUME NEW txs \in Seq(Mined), NEW clones \in Clones(txs)
    PROVE  LET offer == txs \o clones
           IN  Len(txs) \in 1..(Len(offer) - 1) /\ SubSeq(offer, 1, Len(txs)) = txs
<1> DEFINE offer == txs \o clones
           n == Len(txs)
<1>1. PICK m \in 1..MaxClones : clones \in [1..m -> Range(txs)]
  BY DEF Clones
<1>2. m \in Nat /\ m > 0 /\ n \in Nat /\ DOMAIN txs = 1..n /\ \A i \in 1..n : txs[i] \in Mined
  BY LenProperties, ElementOfSeq, ConfirmationAssumption
<1>3. Range(txs) \subseteq Mined
  BY <1>2 DEF Range
<1>4. clones \in Seq(Mined) /\ DOMAIN clones = 1..m
  BY <1>1, <1>2, <1>3, SeqDef
<1>5. Len(clones) = m
  <2>1. Len(clones) \in Nat /\ 1..Len(clones) = 1..m
    BY <1>4, LenProperties
  <2> QED BY <1>2, <2>1
<1>6. n > 0
  <2> SUFFICES ASSUME ~(n > 0) PROVE FALSE
    OBVIOUS
  <2>1. Range(txs) = {}
    BY <1>2 DEF Range
  <2> QED BY <1>1, <1>2, <2>1
<1>7. /\ offer \in Seq(Mined) /\ Len(offer) = n + m
      /\ \A i \in 1..(n + m) : offer[i] = IF i <= n THEN txs[i] ELSE clones[i - n]
  BY <1>4, <1>5, ConcatProperties
<1> HIDE DEF offer, n
<1>8. n \in 1..(Len(offer) - 1) /\ n \in 1..Len(offer) /\ Listing(offer)
      /\ \A i \in 1..n : i \in 1..(n + m) /\ i <= n
  BY <1>2, <1>6, <1>7 DEF Listing
<1> DEFINE front == SubSeq(offer, 1, n)
<1>9. Listing(front) /\ Len(front) = n /\ \A i \in 1..n : front[i] = offer[i]
  BY <1>8, PrefixIs
<1> HIDE DEF front
<1>10. \A i \in 1..n : front[i] = txs[i]
  BY <1>7, <1>8, <1>9
<1>11. front = txs
  <2>1. Listing(txs) /\ Len(front) = Len(txs) /\ \A i \in 1..Len(front) : front[i] = txs[i]
    BY <1>9, <1>10 DEF Listing, n
  <2> QED BY <1>9, <2>1, SameListing
<1> QED
  BY <1>8, <1>11 DEF front, offer, n

LEMMA IdentityIs ==
    ASSUME NEW txs \in Seq(Mined), NEW offer \in Offers(txs), offer # <<>>, NEW ctx,
           identify(txs, MerkleRoot(txs)) = "success", identify_context(txs, ctx) = "success",
           \A i \in 2..Len(txs) : ~is_coinbase(txs[i]),
           identify(offer, MerkleRoot(txs)) = "success",
           identify_context(offer, ctx) = "success"
    PROVE  offer = txs
<1>1. /\ ~is_malleated(txs) /\ ~is_malleated(offer) /\ MerkleRoot(offer) = MerkleRoot(txs)
      /\ ~is_malleated32(txids(txs)) /\ ~is_malleated32(txids(offer))
  BY DEF identify, is_malleated
<1>2. CASE offer = Front(txs)
  <2>1. /\ txs \in Offers(txs) /\ Len(txs) - 1 \in 1..(Len(txs) - 1)
        /\ MerkleRoot(SubSeq(txs, 1, Len(txs) - 1)) = MerkleRoot(txs)
    BY <1>1, <1>2, FrontOffered
  <2> QED BY <1>1, <2>1, ListMalleationIs
<1>3. ASSUME NEW clones \in Clones(txs), offer = txs \o clones PROVE FALSE
  <2>1. /\ Len(txs) \in 1..(Len(offer) - 1)
        /\ MerkleRoot(SubSeq(offer, 1, Len(txs))) = MerkleRoot(offer)
    BY <1>1, <1>3, ClonesOffered
  <2> QED BY <1>1, <2>1, ListMalleationIs
<1>4. CASE offer \in Halved(txs)
  <2> DEFINE n == Len(txs) \div 2
  <2>1. /\ ~is_odd(Len(txs)) /\ Len(txs) \in Nat
        /\ offer = [i \in 1..n |-> Paired64(txs[2 * i - 1], txs[2 * i])]
    BY <1>4, LenProperties DEF Halved
  <2>2. n \in Nat
    BY <2>1
  <2> HIDE DEF n
  <2>3. CASE n = 0
    <3>1. Len(offer) = 0 /\ Listing(offer)
      <4>1. offer = [i \in 1..n |-> offer[i]]
        BY <2>1, Zenon
      <4> QED BY <2>2, <2>3, <4>1, FunctionIsListing
    <3>2. PICK T : offer \in Seq(T)
      BY <3>1 DEF Listing
    <3> QED BY <3>1, <3>2, EmptySeq
  <2>4. CASE n # 0
    BY <1>1, <2>1, <2>2, <2>4, PairsMalleated
  <2> QED BY <2>3, <2>4
<1>5. CASE offer \in Rewitnessed(txs)
  <2>1. Rewitness(txs, offer)
        /\ \E i \in 1..Len(txs) : offer[i].witness = txs[i].witness => offer = txs
    BY <1>5, RewitnessedIs
  <2>2. \A i \in 1..Len(txs) : offer[i].witness = txs[i].witness
    BY <2>1, WitnessesCommitted
  <2> QED BY <2>1, <2>2
<1>6. \/ offer \in {txs, Front(txs)}
      \/ \E clones \in Clones(txs) : offer = txs \o clones
      \/ offer \in Halved(txs) \/ offer \in Rewitnessed(txs)
  BY DEF Offers
<1> QED
  BY <1>2, <1>3, <1>4, <1>5, <1>6

\* A list that is not discarded has the identity of the header.
LEMMA KeptIdentified ==
    ASSUME NEW h, NEW txs, Verdict(h, txs) \notin Discarded
    PROVE  /\ identify(txs, MerkleRoot(headers[h].txs)) = "success"
           /\ identify_context(txs, ContextOf(h)) = "success"
<1> DEFINE one == identify(txs, MerkleRoot(headers[h].txs))
           two == identify_context(txs, ContextOf(h))
           first == FirstOf(<<one, two>>)
<1>1. /\ one \in Discarded \union {"success"} /\ two \in Discarded \union {"success"}
      /\ "success" \notin Discarded
  BY DEF identify, identify_context, Discarded
<1>2. first # "success" => Verdict(h, txs) = first
  BY Zenon DEF Verdict
<1> HIDE DEF one, two
<1>3. first = "success" => one = "success" /\ two = "success"
  <2>1. DOMAIN <<one, two>> = {1, 2} /\ <<one, two>>[1] = one /\ <<one, two>>[2] = two
    OBVIOUS
  <2> QED BY <2>1, AllSucceed
<1>4. first \in {one, two, "success"}
  <2> DEFINE codes == <<one, two>>
             failed == {i \in DOMAIN codes : codes[i] # "success"}
  <2>1. DOMAIN codes = {1, 2} /\ codes[1] = one /\ codes[2] = two /\ failed \subseteq {1, 2}
    OBVIOUS
  <2>2. first = IF failed = {} THEN "success" ELSE codes[Min(failed)]
    BY DEF FirstOf, FirstFailure
  <2> HIDE DEF codes, failed, first
  <2>3. failed # {} => Min(failed) \in {1, 2}
    <3>1. failed \subseteq Nat
      BY <2>1
    <3> QED BY <2>1, <3>1, LeastIs
  <2> QED BY <2>1, <2>2, <2>3
<1> HIDE DEF first
<1> QED
  BY <1>1, <1>2, <1>3, <1>4 DEF one, two

\* The store, and that what it keeps is genuine.
GenuineInv == StoreInv /\ OnlyGenuine

LEMMA IdentityKept ==
    ASSUME NEW h, headers'[h] = headers[h], rules' = rules
    PROVE  HasIdentity(h)' <=> HasIdentity(h)
BY DEF HasIdentity, ContextOf, Context

LEMMA GenuineStep == GenuineInv /\ [Next]_vars => GenuineInv'
<1> SUFFICES ASSUME GenuineInv, [Next]_vars PROVE OnlyGenuine'
  BY StoreStep DEF GenuineInv
<1> USE DEF GenuineInv
<1> DEFINE N == Len(headers)
<1>0. /\ N \in Nat /\ Known = 1..N /\ headers \in Seq(Header)
      /\ Listing(body) /\ Len(body) = N
  BY Domains DEF StoreInv, StoreTypeOK
<1>1. ASSUME UNCHANGED <<rules, headers, body>> PROVE OnlyGenuine'
  BY <1>1, IdentityKept DEF OnlyGenuine, Known
<1>2. ASSUME NEW parent, NEW txs, Announce(parent, txs) PROVE OnlyGenuine'
  <2> PICK header : headers' = Append(headers, header)
    BY <1>2 DEF Announce
  <2>1. body' = Append(body, <<>>) /\ rules' = rules
    BY <1>2 DEF Announce
  <2>2. PICK T : body \in Seq(T)
    BY <1>0 DEF Listing
  <2>3. body \in Seq(T \union {<<>>}) /\ headers \in Seq(Header \union {header})
        /\ <<>> \in T \union {<<>>} /\ header \in Header \union {header}
    BY <1>0, <2>2, SeqMonotonic
  <2> HIDE DEF N
  <2>4. /\ Known' = 1..(N + 1)
        /\ \A k \in 1..N : headers'[k] = headers[k] /\ body'[k] = body[k]
        /\ body'[N + 1] = <<>>
    <3>1. /\ headers' \in Seq(Header \union {header}) /\ Len(headers') = N + 1
          /\ \A k \in 1..N : headers'[k] = headers[k]
      BY <1>0, <2>3, AppendProperties DEF N
    <3>2. /\ \A k \in 1..N : body'[k] = body[k]
          /\ body'[N + 1] = <<>>
      BY <1>0, <2>1, <2>3, AppendProperties
    <3> QED BY <3>1, <3>2, LenProperties DEF Known
  <2> SUFFICES ASSUME NEW k \in 1..(N + 1), body'[k] # <<>>, HasIdentity(k)'
               PROVE  body'[k] = headers'[k].txs
    BY <2>4 DEF OnlyGenuine
  <2>5. k \in 1..N
    BY <1>0, <2>4
  <2>6. HasIdentity(k)
    BY <2>1, <2>4, <2>5, IdentityKept
  <2> QED BY <1>0, <2>4, <2>5, <2>6 DEF OnlyGenuine
<1>3. ASSUME NEW h \in Known, NEW txs \in Offers(headers[h].txs), Download(h, txs)
      PROVE  OnlyGenuine'
  <2>1. /\ Verdict(h, txs) \notin Discarded /\ body' = [body EXCEPT ![h] = txs]
        /\ UNCHANGED <<rules, headers>>
    BY <1>3 DEF Download
  <2>2. headers[h].txs \in Seq(Mined)
    BY Domains DEF StoreInv, Header
  <2>3. \A k \in 1..N : body'[k] = IF k = h THEN txs ELSE body[k]
    <3>1. PICK T : body \in Seq(T)
      BY <1>0 DEF Listing
    <3>2. body \in Seq(T \union {txs}) /\ txs \in T \union {txs}
      BY <3>1, SeqMonotonic
    <3> HIDE DEF N
    <3> QED BY <1>0, <2>1, <3>2, ExceptSeq
  <2> SUFFICES ASSUME NEW k \in 1..N, body'[k] # <<>>, HasIdentity(k)
               PROVE  body'[k] = headers[k].txs
    <3>1. Known' = 1..N /\ \A k \in 1..N : HasIdentity(k)' => HasIdentity(k)
      BY <1>0, <2>1, IdentityKept DEF Known
    <3> HIDE DEF N
    <3> QED BY <2>1, <3>1 DEF OnlyGenuine
  <2>4. CASE k = h
    <3>1. /\ identify(txs, MerkleRoot(headers[h].txs)) = "success"
          /\ identify_context(txs, ContextOf(h)) = "success"
      BY <2>1, KeptIdentified
    <3>2. txs # <<>> /\ body'[k] = txs
      BY <2>3, <2>4
    <3> QED BY <2>2, <2>4, <3>1, <3>2, IdentityIs DEF HasIdentity
  <2>5. CASE k # h
    BY <1>0, <2>3, <2>5 DEF OnlyGenuine
  <2> QED BY <2>4, <2>5
<1>4. ASSUME NEW h \in Known, Validate(h) \/ Confirm(h) PROVE OnlyGenuine'
  BY <1>1, <1>4 DEF Validate, Confirm
<1>5. CASE Reorganize
  BY <1>1, <1>5 DEF Reorganize
<1>6. CASE UNCHANGED vars
  BY <1>1, <1>6 DEF vars
<1> QED
  BY <1>2, <1>3, <1>4, <1>5, <1>6 DEF Next

\* A header is archived or refused only for the list that its miner committed to,
\* whatever peers append, cut, fold or rewitness, for blocks of any size
\* (identify, identify_context).
THEOREM GenuineOnly == Spec => []OnlyGenuine
<1>1. Init => GenuineInv
  <2>1. Init => OnlyGenuine
    <3> SUFFICES ASSUME Init PROVE Known = {}
      BY DEF OnlyGenuine
    <3> QED BY DEF Init, Known
  <2> QED BY <2>1, StoreInitial DEF GenuineInv
<1> QED
  BY <1>1, GenuineStep, PTL DEF Spec, GenuineInv
===============================================================================
