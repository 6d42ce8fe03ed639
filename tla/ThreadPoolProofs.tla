--------------------------- MODULE ThreadPoolProofs ---------------------------
(***************************************************************************)
(* Proofs about ThreadPool, for any workers, callers and calls.            *)
(***************************************************************************)
EXTENDS ThreadPool, FiniteSetTheorems, SequenceTheorems, NaturalsInduction,
        WellFoundedInduction, TLAPS

-------------------------------------------------------------------------------
(* The inductive invariant.                                                *)

Task == [caller : Callers, from : Nat, middle : Nat, to : Nat]
Outstanding == Queued \union Taken
Issued == Outstanding \union ran
Distinct(s) == \A i, j \in 1..Len(s) : s[i] = s[j] => i = j
Increasing(s) == \A i, j \in 1..Len(s) : i < j => s[i] < s[j]

PoolTypeOK ==
    /\ tasks_ \in Seq(Task)
    /\ stopped_ \in BOOLEAN
    /\ worker \in [Workers -> {"awake", "asleep", "run", "exit"}]
    /\ job \in [Workers -> SUBSET Task]
    /\ call \in Calls
    /\ at \in [Callers -> {"out", "fork", "join", "done", "threw"}]
    /\ runs \in [Callers -> Seq(Nat)]
    /\ merging \in [Callers -> BOOLEAN]
    /\ index \in [Callers -> Nat]
    /\ joined \in [Callers -> Nat]
    /\ ran \subseteq Task
    /\ thrown \subseteq ran
    /\ DOMAIN ordered = Callers

\* A worker has its task while it runs it.
HasJob ==
    \A w \in Workers :
        IF worker[w] = "run" THEN \E task \in Task : job[w] = {task} ELSE job[w] = {}

\* No task is queued, runs or has run twice.
Once ==
    /\ Distinct(tasks_)
    /\ \A w, v \in Workers : w # v => job[w] \intersect job[v] = {}
    /\ Queued \intersect Taken = {}
    /\ Outstanding \intersect ran = {}

Within(c) == at[c] \in {"fork", "join"}
Joins(c) == call[c].kind # "submit"

\* The bounds of a caller's tasks are those of its range, in order.
Bounded(c) ==
    /\ Increasing(runs[c])
    /\ at[c] = "out" => runs[c] = <<>> /\ ~merging[c]
    /\ Within(c) =>
        /\ Len(runs[c]) > 0
        /\ runs[c][1] = 0
        /\ runs[c][Len(runs[c])] = call[c].count
        /\ merging[c] => call[c].kind = "sort"
        /\ Joins(c) => Len(runs[c]) > 2

\* Tasks are submitted, and then their futures obtained.
Counted(c) ==
    /\ at[c] = "out" => index[c] = 0
    /\ at[c] \in {"out", "fork"} => joined[c] = 0
    /\ index[c] <= Len(Round(c)) \/ ~Within(c)
    /\ joined[c] <= index[c] \/ ~Within(c)
    /\ at[c] = "join" => index[c] = Len(Round(c))

\* Until a call has left, its tasks are those of this round, as many as were
\* submitted, and those of rounds before it, which are within the current runs.
Known(c) ==
    at[c] \in {"out", "fork", "join"} =>
        \A task \in Issued : task.caller = c =>
            \/ \E i \in 1..index[c] : task = Round(c)[i]
            \/ /\ merging[c]
               /\ \E j \in 1..(Len(runs[c]) - 1) :
                    runs[c][j] <= task.from /\ task.to <= runs[c][j + 1]

\* A task of a call that joins may be queued or run only while its future is not
\* obtained.
Awaited(c) ==
    /\ Within(c) =>
        /\ \A i \in 1..joined[c] : Round(c)[i] \in ran \ thrown
        /\ Joins(c) => \A task \in Outstanding : task.caller = c =>
                            \E i \in 1..index[c] : task = Round(c)[i]
    /\ at[c] = "done" /\ Joins(c) => \A task \in Outstanding : task.caller # c
    /\ at[c] = "threw" => thrown # {}

\* The runs of a round are in order, but for those that its tasks take apart.
InOrder(c) ==
    Within(c) /\ Joins(c) =>
        /\ \A i \in 1..Len(Round(c)) :
            LET task == Round(c)[i]
            IN  /\ merging[c] /\ task \notin Taken \union ran => Parts(task) \subseteq ordered[c]
                /\ task \in Taken => Running(task) \in ordered[c]
                /\ task \in ran \ thrown => <<task.from, task.to>> \in ordered[c]
        /\ merging[c] /\ Len(runs[c]) % 2 = 0 =>
            <<runs[c][Len(runs[c]) - 1], runs[c][Len(runs[c])]>> \in ordered[c]

CallerInv(c) == Bounded(c) /\ Counted(c) /\ Known(c) /\ Awaited(c) /\ InOrder(c)

\* What a call that has returned has done (ResultComplete).
Complete(c) ==
    at[c] = "done" /\ call[c].kind # "submit" =>
        /\ \A e \in 0..(call[c].count - 1) :
            \E r \in ordered[c] : Len(r) = 2 /\ r[1] <= e /\ e < r[2]
        /\ call[c].kind = "sort" => <<0, call[c].count>> \in ordered[c]

PoolInv ==
    /\ PoolTypeOK
    /\ HasJob
    /\ Once
    /\ \A c \in Callers : CallerInv(c) /\ Complete(c)

-------------------------------------------------------------------------------
(* Numbers: induction over a set of them, products and quotients.          *)

\* A set of numbers that has zero and every successor has them all.
LEMMA InductionOnSet ==
    ASSUME NEW S, 0 \in S, \A n \in Nat : n \in S => n + 1 \in S
    PROVE  Nat \subseteq S
<1> DEFINE T == Nat \ S
<1> SUFFICES ASSUME T # {} PROVE FALSE
  OBVIOUS
<1>1. T \subseteq Nat
  OBVIOUS
<1>2. PICK n \in T : \A m \in T : ~(<<m, n>> \in OpToRel(<, Nat))
  <2> HIDE DEF T
  <2> QED BY <1>1, NatLessThanWellFounded, WFMin
<1>3. \A m \in T : ~(m < n)
  BY <1>1, <1>2 DEF OpToRel
<1>4. n \in Nat /\ n # 0 /\ n - 1 \in Nat /\ n - 1 < n /\ (n - 1) + 1 = n
  OBVIOUS
<1>5. n - 1 \in S
  BY <1>3, <1>4
<1> QED
  BY <1>4, <1>5

\* The first place from which the numbers of an increasing sequence are above e.
LEMMA FirstAbove ==
    ASSUME NEW s \in Seq(Nat), NEW e \in Nat, Len(s) > 0, s[1] <= e, e < s[Len(s)]
    PROVE  \E i \in 1..(Len(s) - 1) : s[i] <= e /\ e < s[i + 1]
<1>0. Len(s) \in Nat /\ \A i \in 1..Len(s) : s[i] \in Nat
  BY LenProperties, ElementOfSeq
<1> DEFINE T == {i \in 1..Len(s) : e < s[i]}
<1>1. T \subseteq Nat /\ T # {}
  BY <1>0
<1>2. PICK n \in T : \A m \in T : ~(<<m, n>> \in OpToRel(<, Nat))
  <2> HIDE DEF T
  <2> QED BY <1>1, NatLessThanWellFounded, WFMin
<1>3. \A m \in T : ~(m < n)
  BY <1>1, <1>2 DEF OpToRel
<1>4. n \in 1..Len(s) /\ e < s[n] /\ n # 1
  BY <1>0
<1>5. n - 1 \in 1..(Len(s) - 1) /\ n - 1 \in 1..Len(s) /\ (n - 1) + 1 = n /\ n - 1 < n
  BY <1>0, <1>4
<1>6. ~(e < s[n - 1])
  BY <1>3, <1>5
<1>7. s[n - 1] <= e
  BY <1>0, <1>5, <1>6
<1> QED
  BY <1>4, <1>5, <1>7

LEMMA Product ==
    ASSUME NEW a \in Nat, NEW b \in Nat, NEW i \in Nat, NEW j \in Nat
    PROVE  /\ a * b \in Nat
           /\ (i + 1) * a = i * a + a
           /\ i < j /\ a >= 1 => i * a < j * a
  OBVIOUS

LEMMA Quotients ==
    ASSUME NEW a \in Nat, NEW n \in Nat \ {0}, NEW q \in Nat, NEW r \in Nat,
           a = n * q + r, r < n
    PROVE  (n <= a => q >= 1) /\ q <= a
<1>1. q = 0 => n * q = 0
  OBVIOUS
<1>2. PICK m \in Nat : n = m + 1
  <2>1. n - 1 \in Nat /\ n = (n - 1) + 1
    OBVIOUS
  <2> QED BY <2>1
<1>3. n * q = m * q + q /\ m * q \in Nat
  BY <1>2
<1>4. q <= a
  BY <1>3
<1> QED
  BY <1>1, <1>4

LEMMA Divided ==
    ASSUME NEW a \in Nat, NEW n \in Nat \ {0}
    PROVE  /\ a \div n \in Nat /\ a % n \in Nat /\ a % n < n
           /\ a = n * (a \div n) + (a % n)
           /\ n <= a => a \div n >= 1
           /\ a \div n <= a
<1>1. a \div n \in Nat
  OBVIOUS
<1>2. a % n \in Nat /\ a % n < n
  OBVIOUS
<1>3. a = n * (a \div n) + (a % n)
  OBVIOUS
<1>4. PICK q \in Nat, r \in Nat : q = a \div n /\ r = a % n
  BY <1>1, <1>2
<1>5. a = n * q + r /\ r < n
  BY <1>2, <1>3, <1>4
<1>6. (n <= a => q >= 1) /\ q <= a
  BY <1>5, Quotients
<1>7. (n <= a => a \div n >= 1) /\ a \div n <= a
  BY <1>4, <1>6, Zenon
<1> QED
  BY <1>1, <1>2, <1>3, <1>7

-------------------------------------------------------------------------------
(* The bounds of tasks.                                                    *)

\* The edge after i tasks, of which the first few have one element more.
Edge(count, tasks, i) == i * (count \div tasks) + AtMost(i, count % tasks)

LEMMA ChunksType ==
    ASSUME NEW count \in Nat, NEW floor \in Nat \ {0}
    PROVE  /\ chunks(count, floor) \in Nat \ {0}
           /\ chunks(count, floor) > 1 => chunks(count, floor) <= count
<1>1. Cardinality(Workers) \in Nat
  BY PoolAssumption, FS_CardinalityType
<1>2. count \div floor \in Nat /\ count \div floor <= count
  BY Divided
<1> DEFINE n == Cardinality(Workers)
           q == count \div floor
<1>3. n \in Nat /\ q \in Nat /\ q <= count
  BY <1>1, <1>2
<1>4. chunks(count, floor) = AtLeast(AtMost(q, n), 1)
  BY DEF chunks
<1> HIDE DEF n, q
<1> QED
  BY <1>3, <1>4 DEF AtLeast, AtMost

LEMMA EdgeSteps ==
    ASSUME NEW count \in Nat, NEW tasks \in Nat \ {0}, NEW i \in Nat
    PROVE  /\ Edge(count, tasks, 0) = 0
           /\ Edge(count, tasks, i) \in Nat
           /\ Edge(count, tasks, i + 1) =
                Edge(count, tasks, i) + count \div tasks
                    + (IF i < count % tasks THEN 1 ELSE 0)
           /\ Edge(count, tasks, tasks) = count
<1> DEFINE q == count \div tasks
           r == count % tasks
<1>1. q \in Nat /\ r \in Nat /\ r < tasks /\ count = tasks * q + r
  BY Divided
<1>2. /\ i * q \in Nat /\ (i + 1) * q = i * q + q /\ 0 * q = 0
  BY <1>1, Product
<1> DEFINE p == i * q
           t == (i + 1) * q
           u == tasks * q
<1>3. /\ p \in Nat /\ t = p + q /\ u \in Nat /\ count = u + r
      /\ q \in Nat /\ r \in Nat /\ r < tasks
  BY <1>1, <1>2, Product
<1>4. /\ Edge(count, tasks, i) = p + AtMost(i, r)
      /\ Edge(count, tasks, i + 1) = t + AtMost(i + 1, r)
      /\ Edge(count, tasks, tasks) = u + AtMost(tasks, r)
      /\ Edge(count, tasks, 0) = 0 * q + AtMost(0, r)
  BY DEF Edge
<1> HIDE DEF p, t, u
<1>5. Edge(count, tasks, 0) = 0
  <2>1. 0 * q = 0
    BY <1>2
  <2>2. AtMost(0, r) = 0
    BY <1>1 DEF AtMost
  <2> QED BY <1>4, <2>1, <2>2
<1>6. /\ Edge(count, tasks, i) \in Nat
      /\ Edge(count, tasks, i + 1) = Edge(count, tasks, i) + q + (IF i < r THEN 1 ELSE 0)
      /\ Edge(count, tasks, tasks) = count
  <2> HIDE DEF q, r
  <2>1. i < r => AtMost(i, r) = i /\ AtMost(i + 1, r) = i + 1
    BY <1>3 DEF AtMost
  <2>2. ~(i < r) => AtMost(i, r) = r /\ AtMost(i + 1, r) = r
    BY <1>3 DEF AtMost
  <2>3. AtMost(tasks, r) = r
    BY <1>3 DEF AtMost
  <2>4. Edge(count, tasks, tasks) = count
    BY <1>3, <1>4, <2>3
  <2>5. CASE i < r
    BY <1>3, <1>4, <2>1, <2>4, <2>5
  <2>6. CASE ~(i < r)
    BY <1>3, <1>4, <2>2, <2>4, <2>6
  <2> QED BY <2>5, <2>6
<1> QED
  BY <1>5, <1>6

LEMMA EdgesIncrease ==
    ASSUME NEW count \in Nat, NEW tasks \in Nat \ {0}, tasks <= count,
           NEW i \in Nat, NEW j \in Nat, i < j
    PROVE  Edge(count, tasks, i) < Edge(count, tasks, j)
<1> DEFINE q == count \div tasks
           r == count % tasks
<1>1. q \in Nat /\ r \in Nat /\ q >= 1
  BY Divided
<1> DEFINE p == i * q
           t == j * q
<1>2. p \in Nat /\ t \in Nat /\ p < t
  BY <1>1, Product
<1>3. Edge(count, tasks, i) = p + AtMost(i, r) /\ Edge(count, tasks, j) = t + AtMost(j, r)
  BY DEF Edge
<1> HIDE DEF p, t
<1>4. r \in Nat
  BY <1>1
<1> HIDE DEF q, r
<1> QED
  BY <1>2, <1>3, <1>4 DEF AtMost

\* What each edge is given those before it (bounds).
EdgesFrom(f, count, tasks) ==
    [i \in 0..tasks |->
        IF i = 0 THEN 0
        ELSE f[i - 1] + count \div tasks + (IF i - 1 < count % tasks THEN 1 ELSE 0)]

\* The edges that bounds accumulates are the balanced ones.
LEMMA EdgesAre ==
    ASSUME NEW count \in Nat, NEW tasks \in Nat \ {0}
    PROVE  LET f == CHOOSE f : f = EdgesFrom(f, count, tasks)
           IN  \A i \in 0..tasks : f[i] = Edge(count, tasks, i)
<1> DEFINE g == [i \in 0..tasks |-> Edge(count, tasks, i)]
           f == CHOOSE f : f = EdgesFrom(f, count, tasks)
           E(h, i) == IF i = 0 THEN 0
                      ELSE h[i - 1] + count \div tasks + (IF i - 1 < count % tasks THEN 1 ELSE 0)
<1>1. ASSUME NEW i \in 0..tasks
      PROVE  Edge(count, tasks, i) = E(g, i)
  <2>1. CASE i = 0
    BY <2>1, EdgeSteps
  <2>2. CASE i # 0
    <3>1. i - 1 \in Nat /\ i - 1 \in 0..tasks /\ (i - 1) + 1 = i
      BY <2>2
    <3>2. Edge(count, tasks, (i - 1) + 1) =
            Edge(count, tasks, i - 1) + count \div tasks
                + (IF i - 1 < count % tasks THEN 1 ELSE 0)
      BY <3>1, EdgeSteps, Zenon
    <3>3. g[i - 1] = Edge(count, tasks, i - 1)
      BY <3>1
    <3> HIDE DEF g
    <3> QED BY <2>2, <3>1, <3>2, <3>3
  <2> QED BY <2>1, <2>2
<1>2. g = EdgesFrom(g, count, tasks)
  <2>1. EdgesFrom(g, count, tasks) = [i \in 0..tasks |-> E(g, i)]
    BY DEF EdgesFrom
  <2> HIDE DEF E
  <2> QED BY <1>1, <2>1
<1>3. f = EdgesFrom(f, count, tasks)
  <2> HIDE DEF g
  <2> QED BY <1>2
<1>4. \A i \in 0..tasks : f[i] = E(f, i)
  <2> HIDE DEF f
  <2> QED BY <1>3 DEF EdgesFrom
<1> HIDE DEF f
<1> DEFINE S == {n \in Nat : n \in 0..tasks => f[n] = Edge(count, tasks, n)}
<1>5. 0 \in S
  BY <1>4, EdgeSteps
<1>6. ASSUME NEW n \in Nat, n \in S PROVE n + 1 \in S
  <2> SUFFICES ASSUME n + 1 \in 0..tasks PROVE f[n + 1] = Edge(count, tasks, n + 1)
    OBVIOUS
  <2>1. n \in 0..tasks /\ n + 1 # 0 /\ (n + 1) - 1 = n
    OBVIOUS
  <2>2. f[n] = Edge(count, tasks, n)
    BY <1>6, <2>1
  <2>3. f[n + 1] = f[n] + count \div tasks + (IF n < count % tasks THEN 1 ELSE 0)
    <3>1. f[n + 1] = E(f, n + 1)
      BY <1>4
    <3> QED BY <2>1, <3>1
  <2>4. Edge(count, tasks, n + 1) =
            Edge(count, tasks, n) + count \div tasks + (IF n < count % tasks THEN 1 ELSE 0)
    BY EdgeSteps, Zenon
  <2> QED BY <2>2, <2>3, <2>4
<1>7. Nat \subseteq S
  <2> HIDE DEF S
  <2> QED BY <1>5, <1>6, InductionOnSet
<1>8. \A i \in 0..tasks : f[i] = Edge(count, tasks, i)
  BY <1>7
<1> QED
  BY <1>8 DEF f

LEMMA BoundsAre ==
    ASSUME NEW count \in Nat, NEW floor \in Nat \ {0}
    PROVE  LET tasks == chunks(count, floor)
           IN  bounds(count, floor) = [i \in 1..(tasks + 1) |-> Edge(count, tasks, i - 1)]
<1> DEFINE tasks == chunks(count, floor)
           edge[i \in 0..tasks] ==
               IF i = 0 THEN 0
               ELSE edge[i - 1] + count \div tasks + (IF i - 1 < count % tasks THEN 1 ELSE 0)
<1>0. tasks \in Nat \ {0}
  BY ChunksType
<1>1. edge = CHOOSE f : f = EdgesFrom(f, count, tasks)
  BY Zenon DEF edge, EdgesFrom
<1>2. bounds(count, floor) = [i \in 1..(tasks + 1) |-> edge[i - 1]]
  BY Zenon DEF bounds
<1> HIDE DEF tasks, edge
<1>3. \A i \in 0..tasks : edge[i] = Edge(count, tasks, i)
  BY <1>0, <1>1, EdgesAre
<1>4. \A i \in 1..(tasks + 1) : edge[i - 1] = Edge(count, tasks, i - 1)
  BY <1>0, <1>3
<1>5. bounds(count, floor) = [i \in 1..(tasks + 1) |-> Edge(count, tasks, i - 1)]
  BY <1>2, <1>4
<1> QED
  BY <1>5 DEF tasks

\* The edges of a call are those of its range, in order.
Covers(s, count) ==
    /\ s \in Seq(Nat)
    /\ Len(s) > 0
    /\ Increasing(s)
    /\ s[1] = 0
    /\ s[Len(s)] = count

LEMMA EdgesCover ==
    ASSUME NEW request \in [kind : {"submit", "each", "sort"}, count : Nat, floor : Nat \ {0}],
           request.kind = "submit" \/ ~serial(request)
    PROVE  /\ Covers(Edges(request), request.count)
           /\ request.kind # "submit" => Len(Edges(request)) > 2
<1> DEFINE count == request.count
           tasks == chunks(count, request.floor)
<1>0. count \in Nat /\ request.floor \in Nat \ {0}
  OBVIOUS
<1>1. CASE request.kind = "submit"
  <2> DEFINE s == [i \in 1..(count + 1) |-> i - 1]
  <2>1. Edges(request) = s
    BY <1>1 DEF Edges
  <2> HIDE DEF count
  <2>2. s \in Seq(Nat) /\ Len(s) = count + 1
    BY <1>0
  <2>3. \A i \in 1..(count + 1) : s[i] = i - 1
    OBVIOUS
  <2> HIDE DEF s
  <2>4. Increasing(s) /\ s[1] = 0 /\ s[Len(s)] = count /\ Len(s) > 0
    BY <1>0, <2>2, <2>3 DEF Increasing
  <2> QED BY <1>1, <2>1, <2>2, <2>4 DEF Covers, count
<1>2. CASE request.kind # "submit"
  <2> DEFINE s == [i \in 1..(tasks + 1) |-> Edge(count, tasks, i - 1)]
  <2>1. Edges(request) = s
    <3>1. Edges(request) = bounds(count, request.floor)
      BY <1>2 DEF Edges
    <3> QED BY <1>0, <3>1, BoundsAre
  <2>2. tasks \in Nat \ {0} /\ tasks > 1 /\ tasks <= count
    <3>1. tasks \in Nat \ {0} /\ (tasks > 1 => tasks <= count)
      BY <1>0, ChunksType
    <3>2. ~(tasks < 2)
      BY <1>2 DEF serial
    <3> HIDE DEF tasks, count
    <3> QED BY <3>1, <3>2
  <2> HIDE DEF tasks, count
  <2>3. \A i \in 1..(tasks + 1) : Edge(count, tasks, i - 1) \in Nat
    <3> SUFFICES ASSUME NEW i \in 1..(tasks + 1) PROVE Edge(count, tasks, i - 1) \in Nat
      OBVIOUS
    <3>1. i - 1 \in Nat
      BY <2>2
    <3> QED BY <1>0, <2>2, <3>1, EdgeSteps
  <2>4. s \in Seq(Nat) /\ Len(s) = tasks + 1
    BY <2>2, <2>3
  <2>5. \A i \in 1..(tasks + 1) : s[i] = Edge(count, tasks, i - 1)
    OBVIOUS
  <2> HIDE DEF s
  <2>6. Increasing(s)
    <3> SUFFICES ASSUME NEW i \in 1..(tasks + 1), NEW j \in 1..(tasks + 1), i < j
                 PROVE  s[i] < s[j]
      BY <2>4 DEF Increasing
    <3>1. i - 1 \in Nat /\ j - 1 \in Nat /\ i - 1 < j - 1
      BY <2>2
    <3>2. Edge(count, tasks, i - 1) < Edge(count, tasks, j - 1)
      BY <1>0, <2>2, <3>1, EdgesIncrease
    <3> QED BY <2>5, <3>2
  <2>7. s[1] = 0 /\ s[tasks + 1] = count
    <3>1. Edge(count, tasks, 0) = 0 /\ Edge(count, tasks, tasks) = count
      BY <1>0, <2>2, EdgeSteps
    <3>2. s[1] = Edge(count, tasks, 1 - 1) /\ s[tasks + 1] = Edge(count, tasks, (tasks + 1) - 1)
      BY <2>2, <2>5
    <3>3. 1 - 1 = 0 /\ (tasks + 1) - 1 = tasks
      BY <2>2
    <3> QED BY <3>1, <3>2, <3>3
  <2> QED BY <2>1, <2>2, <2>4, <2>6, <2>7 DEF Covers, count
<1> QED
  BY <1>1, <1>2

-------------------------------------------------------------------------------
(* The tasks of a round, and the runs that it leaves.                      *)

MergeTask(c, s, i) ==
    [caller |-> c, from |-> s[2 * i - 1], middle |-> s[2 * i], to |-> s[2 * i + 1]]
ChunkTask(c, s, i) ==
    [caller |-> c, from |-> s[i], middle |-> s[i], to |-> s[i + 1]]

RoundOf(c, s, m) ==
    IF m THEN [i \in 1..((Len(s) - 1) \div 2) |-> MergeTask(c, s, i)]
         ELSE [i \in 1..(Len(s) - 1) |-> ChunkTask(c, s, i)]

LEMMA RoundIs ==
    ASSUME NEW c
    PROVE  Round(c) = RoundOf(c, runs[c], merging[c])
  BY Zenon DEF Round, RoundOf, MergeTask, ChunkTask

LEMMA Halves ==
    ASSUME NEW n \in Nat \ {0}
    PROVE  /\ (n - 1) \div 2 \in Nat /\ (n + 1) \div 2 \in Nat /\ n \div 2 \in Nat
           /\ n % 2 = 0 => n = 2 * (n \div 2) /\ (n - 1) \div 2 = n \div 2 - 1
                          /\ (n + 1) \div 2 = n \div 2
           /\ n % 2 # 0 => n = 2 * (n \div 2) + 1 /\ (n - 1) \div 2 = n \div 2
                          /\ (n + 1) \div 2 = n \div 2 + 1
  OBVIOUS

\* The tasks of a round of merges, and of the round of chunks.
LEMMA MergeRound ==
    ASSUME NEW c \in Callers, NEW s \in Seq(Nat), Len(s) > 0
    PROVE  LET R == RoundOf(c, s, TRUE)
           IN  /\ R \in Seq(Task)
               /\ Len(R) = (Len(s) - 1) \div 2
               /\ \A i \in 1..Len(R) :
                    /\ R[i] = MergeTask(c, s, i)
                    /\ 2 * i - 1 \in 1..Len(s) /\ 2 * i \in 1..Len(s) /\ 2 * i + 1 \in 1..Len(s)
<1> DEFINE n == (Len(s) - 1) \div 2
           R == [i \in 1..n |-> MergeTask(c, s, i)]
<1>0. Len(s) \in Nat \ {0} /\ \A i \in 1..Len(s) : s[i] \in Nat
  BY LenProperties, ElementOfSeq
<1>1. n \in Nat /\ 2 * n + 1 <= Len(s)
  <2> DEFINE l == Len(s)
  <2>1. l \in Nat \ {0}
    BY <1>0
  <2> HIDE DEF l
  <2>2. (l - 1) \div 2 \in Nat /\ 2 * ((l - 1) \div 2) + 1 <= l
    BY <2>1
  <2> QED BY <2>2 DEF l
<1> HIDE DEF n
<1>2. \A i \in 1..n :
        2 * i - 1 \in 1..Len(s) /\ 2 * i \in 1..Len(s) /\ 2 * i + 1 \in 1..Len(s)
  BY <1>0, <1>1
<1>3. \A i \in 1..n : MergeTask(c, s, i) \in Task
  BY <1>0, <1>2 DEF MergeTask, Task
<1>4. R \in Seq(Task) /\ Len(R) = n /\ \A i \in 1..n : R[i] = MergeTask(c, s, i)
  BY <1>1, <1>3
<1>5. RoundOf(c, s, TRUE) = R
  BY DEF RoundOf, n
<1> HIDE DEF R
<1> QED
  BY <1>2, <1>4, <1>5 DEF n

LEMMA ChunkRound ==
    ASSUME NEW c \in Callers, NEW s \in Seq(Nat), Len(s) > 0
    PROVE  LET R == RoundOf(c, s, FALSE)
           IN  /\ R \in Seq(Task)
               /\ Len(R) = Len(s) - 1
               /\ \A i \in 1..Len(R) :
                    /\ R[i] = ChunkTask(c, s, i)
                    /\ i \in 1..Len(s) /\ i + 1 \in 1..Len(s)
<1> DEFINE n == Len(s) - 1
           R == [i \in 1..n |-> ChunkTask(c, s, i)]
<1>0. Len(s) \in Nat \ {0} /\ \A i \in 1..Len(s) : s[i] \in Nat
  BY LenProperties, ElementOfSeq
<1>1. n \in Nat /\ n + 1 = Len(s)
  BY <1>0
<1> HIDE DEF n
<1>2. \A i \in 1..n : i \in 1..Len(s) /\ i + 1 \in 1..Len(s)
  BY <1>0, <1>1
<1>3. \A i \in 1..n : ChunkTask(c, s, i) \in Task
  BY <1>0, <1>2 DEF ChunkTask, Task
<1>4. R \in Seq(Task) /\ Len(R) = n /\ \A i \in 1..n : R[i] = ChunkTask(c, s, i)
  BY <1>1, <1>3
<1>5. RoundOf(c, s, FALSE) = R
  BY DEF RoundOf, n
<1> HIDE DEF R
<1> QED
  BY <1>2, <1>4, <1>5 DEF n

\* Bounds that are in order are the same only in the same place.
LEMMA PlaceOf ==
    ASSUME NEW s \in Seq(Nat), Increasing(s), NEW i \in 1..Len(s), NEW j \in 1..Len(s)
    PROVE  (s[i] = s[j] => i = j) /\ (s[i] <= s[j] => i <= j)
<1>0. Len(s) \in Nat /\ s[i] \in Nat /\ s[j] \in Nat
  BY LenProperties, ElementOfSeq
<1> QED
  BY <1>0 DEF Increasing

\* The tasks of a round differ from each other in all that they read and write.
Apart(R) ==
    \A i, k \in 1..Len(R) : i # k =>
        /\ R[i] # R[k]
        /\ Running(R[i]) # Running(R[k])
        /\ <<R[i].from, R[i].to>> \notin Parts(R[k])

LEMMA RoundApart ==
    ASSUME NEW c \in Callers, NEW s \in Seq(Nat), Len(s) > 0, Increasing(s), NEW m \in BOOLEAN
    PROVE  Apart(RoundOf(c, s, m))
<1> DEFINE R == RoundOf(c, s, m)
<1> SUFFICES ASSUME NEW i \in 1..Len(R), NEW k \in 1..Len(R), i # k
             PROVE  /\ R[i] # R[k]
                    /\ Running(R[i]) # Running(R[k])
                    /\ <<R[i].from, R[i].to>> \notin Parts(R[k])
  BY Zenon DEF Apart
<1>1. CASE m
  <2>1. /\ R[i] = MergeTask(c, s, i) /\ R[k] = MergeTask(c, s, k)
        /\ 2 * i - 1 \in 1..Len(s) /\ 2 * k - 1 \in 1..Len(s) /\ 2 * k \in 1..Len(s)
    BY <1>1, MergeRound
  <2> HIDE DEF R
  <2>2. 2 * i - 1 # 2 * k - 1 /\ 2 * i - 1 # 2 * k
    OBVIOUS
  <2>3. s[2 * i - 1] # s[2 * k - 1] /\ s[2 * i - 1] # s[2 * k]
    BY <2>1, <2>2, PlaceOf
  <2>4. R[i].from # R[k].from /\ R[i].from # R[k].middle
    BY <2>1, <2>3 DEF MergeTask
  <2> QED BY <2>4 DEF Running, Parts
<1>2. CASE ~m
  <2>1. /\ R[i] = ChunkTask(c, s, i) /\ R[k] = ChunkTask(c, s, k)
        /\ i \in 1..Len(s) /\ k \in 1..Len(s)
    BY <1>2, ChunkRound
  <2> HIDE DEF R
  <2>3. s[i] # s[k]
    BY <2>1, PlaceOf
  <2>4. R[i].from # R[k].from /\ R[i].from # R[k].middle
    BY <2>1, <2>3 DEF ChunkTask
  <2> QED BY <2>4 DEF Running, Parts
<1> QED
  BY <1>1, <1>2

\* In a round of merges no two tasks take a run apart, none takes the last run
\* without a pair, and none is within one run.
LEMMA MergesApart ==
    ASSUME NEW c \in Callers, NEW s \in Seq(Nat), Len(s) > 0, Increasing(s)
    PROVE  LET R == RoundOf(c, s, TRUE)
           IN  \A k \in 1..Len(R) :
                /\ \A i \in 1..Len(R) : i # k => Parts(R[i]) \intersect Parts(R[k]) = {}
                /\ Len(s) % 2 = 0 => <<s[Len(s) - 1], s[Len(s)]>> \notin Parts(R[k])
                /\ \A j \in 1..(Len(s) - 1) : ~(s[j] <= R[k].from /\ R[k].to <= s[j + 1])
<1> DEFINE R == RoundOf(c, s, TRUE)
           n == Len(s)
<1>0. n \in Nat \ {0} /\ \A i \in 1..Len(s) : s[i] \in Nat
  BY LenProperties, ElementOfSeq
<1>1. \A i, j \in 1..n : (s[i] = s[j] => i = j) /\ (s[i] <= s[j] => i <= j)
  BY <1>0, PlaceOf
<1>2. ASSUME NEW i \in 1..Len(R)
      PROVE  /\ R[i].from = s[2 * i - 1] /\ R[i].middle = s[2 * i] /\ R[i].to = s[2 * i + 1]
             /\ 2 * i - 1 \in 1..n /\ 2 * i \in 1..n /\ 2 * i + 1 \in 1..n
  <2>1. /\ R[i] = MergeTask(c, s, i)
        /\ 2 * i - 1 \in 1..n /\ 2 * i \in 1..n /\ 2 * i + 1 \in 1..n
    BY MergeRound
  <2> HIDE DEF R
  <2> QED BY <2>1 DEF MergeTask
<1> SUFFICES ASSUME NEW k \in 1..Len(R)
             PROVE  /\ \A i \in 1..Len(R) : i # k => Parts(R[i]) \intersect Parts(R[k]) = {}
                    /\ n % 2 = 0 => <<s[n - 1], s[n]>> \notin Parts(R[k])
                    /\ \A j \in 1..(n - 1) : ~(s[j] <= R[k].from /\ R[k].to <= s[j + 1])
  BY Zenon
<1>3. /\ R[k].from = s[2 * k - 1] /\ R[k].middle = s[2 * k] /\ R[k].to = s[2 * k + 1]
      /\ 2 * k - 1 \in 1..n /\ 2 * k \in 1..n /\ 2 * k + 1 \in 1..n
  BY <1>2
<1>4. ASSUME NEW i \in 1..Len(R), i # k
      PROVE  Parts(R[i]) \intersect Parts(R[k]) = {}
  <2>1. /\ R[i].from = s[2 * i - 1] /\ R[i].middle = s[2 * i] /\ R[i].to = s[2 * i + 1]
        /\ 2 * i - 1 \in 1..n /\ 2 * i \in 1..n /\ 2 * i + 1 \in 1..n
    BY <1>2
  <2> HIDE DEF R, n
  <2>2. /\ 2 * i - 1 # 2 * k - 1 /\ 2 * i - 1 # 2 * k /\ 2 * i # 2 * k - 1 /\ 2 * i # 2 * k
    BY <1>4
  <2>3. /\ R[i].from # R[k].from /\ R[i].from # R[k].middle
        /\ R[i].middle # R[k].from /\ R[i].middle # R[k].middle
    BY <1>3, <2>1, <2>2, <1>1
  <2> QED BY <2>3 DEF Parts
<1> HIDE DEF R
<1>5. ASSUME n % 2 = 0
      PROVE  <<s[n - 1], s[n]>> \notin Parts(R[k])
  <2>1. n - 1 \in 1..n /\ n \in 1..n /\ n # 2 * k + 1
    <3> HIDE DEF n
    <3>1. PICK h \in Nat : n = 2 * h
      BY <1>0, <1>5, Halves
    <3>2. k \in Int
      OBVIOUS
    <3> QED BY <1>0, <3>1, <3>2
  <2>2. s[n] # s[2 * k + 1]
    BY <1>3, <2>1, <1>1
  <2>3. s[n] # s[2 * k]
    <3>1. n # 2 * k
      BY <1>0, <1>3
    <3> QED BY <1>3, <2>1, <3>1, <1>1
  <2> QED BY <1>3, <2>2, <2>3 DEF Parts
<1>6. ASSUME NEW j \in 1..(n - 1), s[j] <= R[k].from, R[k].to <= s[j + 1]
      PROVE  FALSE
  <2>1. j \in 1..n /\ j + 1 \in 1..n
    BY <1>0
  <2>2. j <= 2 * k - 1 /\ 2 * k + 1 <= j + 1
    BY <1>3, <1>6, <2>1, <1>1
  <2> QED BY <2>2
<1> QED
  BY <1>4, <1>5, <1>6

MergedOf(s) ==
    [i \in 1..((Len(s) + 1) \div 2) |-> s[2 * i - 1]]
    \o IF Len(s) % 2 = 0 THEN <<s[Len(s)]>> ELSE <<>>

LEMMA MergedIs ==
    ASSUME NEW c
    PROVE  Merged(c) = MergedOf(runs[c])
  BY Zenon DEF Merged, MergedOf

\* The bounds after a round of merges: every other one, and the last.
LEMMA MergedAt ==
    ASSUME NEW s \in Seq(Nat), Len(s) > 0
    PROVE  LET t == MergedOf(s)
               h == Len(s) \div 2
           IN  /\ t \in Seq(Nat) /\ Len(t) = h + 1
               /\ \A i \in 1..h : t[i] = s[2 * i - 1]
               /\ t[h + 1] = s[Len(s)]
<1> DEFINE n == Len(s)
           h == n \div 2
           a == [i \in 1..((n + 1) \div 2) |-> s[2 * i - 1]]
           t == MergedOf(s)
<1>0. n \in Nat \ {0} /\ \A i \in 1..n : s[i] \in Nat
  BY LenProperties, ElementOfSeq
<1>1. h \in Nat /\ (n + 1) \div 2 \in Nat
  <2> HIDE DEF n
  <2> QED BY <1>0
<1>2. CASE n % 2 = 0
  <2>1. n = 2 * h /\ (n + 1) \div 2 = h
    <3> HIDE DEF n
    <3> QED BY <1>0, <1>2, Halves
  <2>2. t = a \o <<s[n]>>
    BY <1>2 DEF MergedOf
  <2> HIDE DEF t
  <2>3. a \in Seq(Nat) /\ Len(a) = h /\ \A i \in 1..h : a[i] = s[2 * i - 1]
    <3> HIDE DEF n, h
    <3>1. \A i \in 1..h : 2 * i - 1 \in 1..n
      BY <1>0, <1>1, <2>1
    <3>2. a = [i \in 1..h |-> s[2 * i - 1]]
      BY <2>1
    <3> HIDE DEF a
    <3> QED BY <1>0, <1>1, <3>1, <3>2
  <2>4. s[n] \in Nat
    BY <1>0
  <2>5. <<s[n]>> \in Seq(Nat) /\ Len(<<s[n]>>) = 1 /\ <<s[n]>>[1] = s[n]
    BY <2>4
  <2> HIDE DEF n, h, a
  <2>6. /\ a \o <<s[n]>> \in Seq(Nat) /\ Len(a \o <<s[n]>>) = Len(a) + 1
        /\ \A i \in 1..(Len(a) + 1) :
            (a \o <<s[n]>>)[i] = IF i <= Len(a) THEN a[i] ELSE <<s[n]>>[i - Len(a)]
    BY <2>3, <2>5, ConcatProperties
  <2>7. ASSUME NEW i \in 1..h PROVE t[i] = s[2 * i - 1]
    <3>1. i \in 1..(Len(a) + 1) /\ i <= Len(a)
      BY <1>1, <2>3
    <3>2. t[i] = a[i]
      BY <2>2, <2>6, <3>1
    <3> QED BY <2>3, <3>2
  <2>8. t[h + 1] = s[n]
    <3>1. h + 1 \in 1..(Len(a) + 1) /\ ~(h + 1 <= Len(a)) /\ h + 1 - Len(a) = 1
      BY <1>1, <2>3
    <3> QED BY <2>2, <2>5, <2>6, <3>1
  <2> QED BY <2>2, <2>3, <2>6, <2>7, <2>8 DEF n, h, t
<1>3. CASE n % 2 # 0
  <2>1. n = 2 * h + 1 /\ (n + 1) \div 2 = h + 1
    <3> HIDE DEF n
    <3> QED BY <1>0, <1>3, Halves
  <2>2. a \in Seq(Nat) /\ Len(a) = h + 1 /\ \A i \in 1..(h + 1) : a[i] = s[2 * i - 1]
    <3> HIDE DEF n, h
    <3>1. \A i \in 1..(h + 1) : 2 * i - 1 \in 1..n
      BY <1>0, <1>1, <2>1
    <3>2. a = [i \in 1..(h + 1) |-> s[2 * i - 1]]
      BY <2>1
    <3> HIDE DEF a
    <3> QED BY <1>0, <1>1, <3>1, <3>2
  <2>3. t = a \o <<>>
    BY <1>3 DEF MergedOf
  <2> HIDE DEF n, h, a, t
  <2>4. t = a
    BY <2>2, <2>3, ConcatEmptySeq
  <2>5. 2 * (h + 1) - 1 = n
    BY <1>0, <1>1, <2>1
  <2>6. t[h + 1] = s[n]
    BY <1>1, <2>2, <2>4, <2>5
  <2>7. \A i \in 1..h : t[i] = s[2 * i - 1]
    BY <1>1, <2>2, <2>4
  <2> QED BY <2>2, <2>4, <2>6, <2>7 DEF n, h, t
<1> QED
  BY <1>2, <1>3

\* They cover the range, and each run is a task's or the last without a pair.
LEMMA MergedCovers ==
    ASSUME NEW s, NEW count, Covers(s, count), Len(s) > 2
    PROVE  Covers(MergedOf(s), count) /\ Len(MergedOf(s)) > 1
<1> DEFINE n == Len(s)
           h == n \div 2
           t == MergedOf(s)
<1>0. s \in Seq(Nat) /\ n \in Nat /\ n > 2 /\ \A i \in 1..n : s[i] \in Nat
  BY LenProperties, ElementOfSeq DEF Covers
<1>1. h \in Nat /\ h >= 1 /\ 2 * h <= n /\ n <= 2 * h + 1
  <2> HIDE DEF n
  <2> QED BY <1>0
<1>2. /\ t \in Seq(Nat) /\ Len(t) = h + 1
      /\ \A i \in 1..h : t[i] = s[2 * i - 1]
      /\ t[h + 1] = s[n]
  BY <1>0, MergedAt
<1> HIDE DEF t, h
<1>3. Increasing(t)
  <2> SUFFICES ASSUME NEW i \in 1..(h + 1), NEW j \in 1..(h + 1), i < j PROVE t[i] < t[j]
    BY <1>2 DEF Increasing
  <2>1. i \in 1..h /\ 2 * i - 1 \in 1..n /\ t[i] = s[2 * i - 1]
    BY <1>0, <1>1, <1>2
  <2>2. PICK k \in 1..n : 2 * i - 1 < k /\ t[j] = s[k]
    <3>1. CASE j = h + 1
      <4>1. n \in 1..n /\ 2 * i - 1 < n
        BY <1>0, <1>1, <2>1
      <4> QED BY <1>2, <3>1, <4>1
    <3>2. CASE j # h + 1
      <4>1. j \in 1..h /\ 2 * j - 1 \in 1..n /\ 2 * i - 1 < 2 * j - 1
        BY <1>0, <1>1, <2>1, <3>2
      <4> QED BY <1>2, <4>1
    <3> QED BY <3>1, <3>2
  <2> QED BY <2>1, <2>2 DEF Covers, Increasing
<1>4. t[1] = 0
  <2>1. 2 * 1 - 1 = 1 /\ 1 \in 1..h
    BY <1>1
  <2> QED BY <1>2, <2>1 DEF Covers
<1>5. t[Len(t)] = count
  BY <1>2 DEF Covers
<1>6. Len(t) > 1
  BY <1>1, <1>2
<1> QED
  BY <1>2, <1>3, <1>4, <1>5, <1>6 DEF Covers, t

LEMMA MergedRuns ==
    ASSUME NEW c \in Callers, NEW s, NEW count, Covers(s, count), Len(s) > 2
    PROVE  LET t == MergedOf(s)
               R == RoundOf(c, s, TRUE)
           IN  /\ \A j \in 1..(Len(t) - 1) :
                    \/ j \in 1..Len(R) /\ t[j] = R[j].from /\ t[j + 1] = R[j].to
                    \/ Len(s) % 2 = 0 /\ t[j] = s[Len(s) - 1] /\ t[j + 1] = s[Len(s)]
               /\ \A j \in 1..Len(R) :
                    j \in 1..(Len(t) - 1) /\ t[j] = R[j].from /\ t[j + 1] = R[j].to
               /\ \A j \in 1..(Len(s) - 1) :
                    \E k \in 1..(Len(t) - 1) : t[k] <= s[j] /\ s[j + 1] <= t[k + 1]
<1> DEFINE n == Len(s)
           h == n \div 2
           t == MergedOf(s)
           R == RoundOf(c, s, TRUE)
<1>0. s \in Seq(Nat) /\ n \in Nat \ {0} /\ n > 2 /\ \A i \in 1..n : s[i] \in Nat
  BY LenProperties, ElementOfSeq DEF Covers
<1>1. h \in Nat /\ h >= 1 /\ 2 * h <= n /\ n <= 2 * h + 1
  <2> HIDE DEF n
  <2> QED BY <1>0
<1>2. /\ t \in Seq(Nat) /\ Len(t) = h + 1
      /\ \A i \in 1..h : t[i] = s[2 * i - 1]
      /\ t[h + 1] = s[n]
  BY <1>0, MergedAt
<1>3. /\ Len(R) = (n - 1) \div 2
      /\ \A i \in 1..Len(R) : R[i] = MergeTask(c, s, i)
  <2>1. s \in Seq(Nat) /\ Len(s) > 0
    BY <1>0
  <2> QED BY <2>1, MergeRound
<1>4. /\ n % 2 = 0 => n = 2 * h /\ (n - 1) \div 2 = h - 1
      /\ n % 2 # 0 => n = 2 * h + 1 /\ (n - 1) \div 2 = h
  <2> HIDE DEF n
  <2> QED BY <1>0, Halves
<1> HIDE DEF t, h, R, n
<1>5. ASSUME NEW i \in 1..Len(R)
      PROVE  R[i].from = s[2 * i - 1] /\ R[i].to = s[2 * i + 1]
  <2>1. R[i] = MergeTask(c, s, i)
    BY <1>3
  <2> QED BY <2>1 DEF MergeTask
<1>6. \A j \in 1..h : t[j + 1] = IF 2 * j + 1 <= n THEN s[2 * j + 1] ELSE s[n]
  <2> SUFFICES ASSUME NEW j \in 1..h
               PROVE  t[j + 1] = IF 2 * j + 1 <= n THEN s[2 * j + 1] ELSE s[n]
    OBVIOUS
  <2>1. CASE j = h
    <3>1. 2 * j + 1 <= n => 2 * j + 1 = n
      BY <1>0, <1>1, <2>1
    <3> QED BY <1>2, <2>1, <3>1
  <2>2. CASE j # h
    <3>1. j + 1 \in 1..h /\ 2 * (j + 1) - 1 = 2 * j + 1 /\ 2 * j + 1 <= n
      BY <1>0, <1>1, <2>2
    <3> QED BY <1>2, <3>1
  <2> QED BY <2>1, <2>2
<1>7. ASSUME NEW j \in 1..Len(R)
      PROVE  j \in 1..(Len(t) - 1) /\ t[j] = R[j].from /\ t[j + 1] = R[j].to
  <2>1. j \in 1..h /\ 2 * j + 1 <= n /\ j \in 1..(Len(t) - 1)
    BY <1>0, <1>1, <1>2, <1>3, <1>4
  <2>2. R[j].from = s[2 * j - 1] /\ R[j].to = s[2 * j + 1]
    BY <1>5
  <2>3. t[j] = s[2 * j - 1]
    BY <1>2, <2>1
  <2>4. t[j + 1] = s[2 * j + 1]
    BY <1>6, <2>1
  <2> QED BY <2>1, <2>2, <2>3, <2>4
<1>8. ASSUME NEW j \in 1..(Len(t) - 1)
      PROVE  \/ j \in 1..Len(R) /\ t[j] = R[j].from /\ t[j + 1] = R[j].to
             \/ n % 2 = 0 /\ t[j] = s[n - 1] /\ t[j + 1] = s[n]
  <2>1. CASE j \in 1..Len(R)
    BY <1>7, <2>1
  <2>2. CASE j \notin 1..Len(R)
    <3>1. j \in 1..h
      BY <1>1, <1>2
    <3>2. j = h /\ n % 2 = 0 /\ n = 2 * h
      BY <1>0, <1>1, <1>3, <1>4, <2>2, <3>1
    <3>3. 2 * j - 1 = n - 1 /\ ~(2 * j + 1 <= n)
      BY <1>0, <1>1, <3>2
    <3> QED BY <1>2, <1>6, <3>1, <3>2, <3>3
  <2> QED BY <2>1, <2>2
<1>9. ASSUME NEW j \in 1..(n - 1)
      PROVE  \E k \in 1..(Len(t) - 1) : t[k] <= s[j] /\ s[j + 1] <= t[k + 1]
  <2>1. PICK k \in 1..h : 2 * k - 1 <= j /\ j <= 2 * k
    <3>1. PICK k \in Nat : j = 2 * k - 1 \/ j = 2 * k
      <4>1. (j + 1) \div 2 \in Nat /\ (j = 2 * ((j + 1) \div 2) - 1 \/ j = 2 * ((j + 1) \div 2))
        BY <1>0
      <4> QED BY <4>1
    <3>2. j \in Nat /\ 1 <= j /\ j + 1 <= n
      BY <1>0
    <3>3. k \in 1..h
      BY <1>0, <1>1, <3>1, <3>2
    <3> QED BY <3>1, <3>2, <3>3
  <2>2. 2 * k - 1 \in 1..n /\ j \in 1..n /\ j + 1 \in 1..n
    BY <1>0, <1>1, <2>1
  <2>3. t[k] = s[2 * k - 1]
    BY <1>2
  <2>4. PICK m \in 1..n : t[k + 1] = s[m] /\ j + 1 <= m
    <3>1. CASE 2 * k + 1 <= n
      BY <1>0, <1>1, <1>6, <2>1, <2>2, <3>1
    <3>2. CASE ~(2 * k + 1 <= n)
      BY <1>0, <1>1, <1>6, <2>1, <2>2, <3>2
    <3> QED BY <3>1, <3>2
  <2>5. \A x, y \in 1..n : x <= y => s[x] <= s[y]
    <3> SUFFICES ASSUME NEW x \in 1..n, NEW y \in 1..n, x <= y PROVE s[x] <= s[y]
      OBVIOUS
    <3>1. s[x] \in Nat /\ s[y] \in Nat
      BY <1>0
    <3>2. x < y => s[x] < s[y]
      BY DEF Covers, Increasing, n
    <3>3. x < y \/ x = y
      BY <1>0
    <3> QED BY <3>1, <3>2, <3>3
  <2>6. k \in 1..(Len(t) - 1)
    BY <1>1, <1>2
  <2> QED BY <2>1, <2>2, <2>3, <2>4, <2>5, <2>6
<1> QED
  BY <1>7, <1>8, <1>9 DEF t, R, n

-------------------------------------------------------------------------------
(* The queue and the tasks that run.                                       *)

Items(s) == {s[i] : i \in 1..Len(s)}

LEMMA ItemsAppend ==
    ASSUME NEW S, NEW s \in Seq(S), NEW x \in S
    PROVE  /\ Append(s, x) \in Seq(S) /\ Len(Append(s, x)) = Len(s) + 1
           /\ Items(Append(s, x)) = Items(s) \union {x}
           /\ Distinct(s) /\ x \notin Items(s) => Distinct(Append(s, x))
<1> DEFINE t == Append(s, x)
           n == Len(s)
<1>1. /\ t \in Seq(S) /\ Len(t) = n + 1 /\ n \in Nat
      /\ \A i \in 1..n : t[i] = s[i]
      /\ t[n + 1] = x
  BY AppendProperties, LenProperties
<1> HIDE DEF t, n
<1>2. \A i \in 1..(n + 1) : i \in 1..n \/ i = n + 1
  BY <1>1
<1>3. \A i \in 1..n : i \in 1..(n + 1)
  BY <1>1
<1>4. Items(t) = Items(s) \union {x}
  <2>1. ASSUME NEW y \in Items(t) PROVE y \in Items(s) \union {x}
    BY <1>1, <1>2 DEF Items, n
  <2>2. ASSUME NEW y \in Items(s) PROVE y \in Items(t)
    BY <1>1, <1>3 DEF Items, n
  <2>3. x \in Items(t)
    BY <1>1 DEF Items
  <2> QED BY <2>1, <2>2, <2>3
<1>5. ASSUME Distinct(s), x \notin Items(s) PROVE Distinct(t)
  <2> SUFFICES ASSUME NEW i \in 1..(n + 1), NEW j \in 1..(n + 1), t[i] = t[j] PROVE i = j
    BY <1>1 DEF Distinct
  <2>1. \A k \in 1..n : s[k] # x
    BY <1>5 DEF Items, n
  <2>2. i \in 1..n /\ j \in 1..n => i = j
    BY <1>1, <1>5 DEF Distinct, n
  <2> QED BY <1>1, <1>2, <2>1, <2>2
<1> QED
  BY <1>1, <1>4, <1>5 DEF t, n

LEMMA ItemsTail ==
    ASSUME NEW S, NEW s \in Seq(S), s # <<>>, Distinct(s)
    PROVE  /\ Tail(s) \in Seq(S) /\ Len(s) = Len(Tail(s)) + 1 /\ Len(Tail(s)) \in Nat
           /\ Head(s) \in S /\ Head(s) \in Items(s)
           /\ Items(Tail(s)) = Items(s) \ {Head(s)}
           /\ Distinct(Tail(s))
<1> DEFINE t == Tail(s)
           n == Len(t)
<1>1. /\ t \in Seq(S) /\ n \in Nat /\ Len(s) = n + 1
      /\ \A i \in 1..n : t[i] = s[i + 1]
  BY HeadTailProperties, LenProperties, EmptySeq
<1>2. Head(s) = s[1] /\ Head(s) \in S
  BY HeadTailProperties
<1> HIDE DEF t, n
<1>3. \A i \in 1..n : i + 1 \in 1..(n + 1) /\ i + 1 # 1
  BY <1>1
<1>4. \A i \in 1..(n + 1) : i = 1 \/ (i - 1 \in 1..n /\ (i - 1) + 1 = i)
  BY <1>1
<1>5. 1 \in 1..Len(s)
  BY <1>1
<1>6. Items(t) = Items(s) \ {s[1]}
  <2>1. ASSUME NEW y \in Items(t) PROVE y \in Items(s) /\ y # s[1]
    <3>1. PICK i \in 1..n : y = t[i]
      BY DEF Items, n
    <3>2. y = s[i + 1] /\ i + 1 \in 1..Len(s) /\ i + 1 # 1
      BY <1>1, <1>3, <3>1
    <3> QED BY <1>5, <3>2 DEF Items, Distinct
  <2>2. ASSUME NEW y \in Items(s), y # s[1] PROVE y \in Items(t)
    <3>1. PICK i \in 1..(n + 1) : y = s[i]
      BY <1>1 DEF Items
    <3>2. i - 1 \in 1..n /\ (i - 1) + 1 = i
      BY <1>4, <2>2, <3>1
    <3>3. t[i - 1] = y
      BY <1>1, <3>1, <3>2
    <3> QED BY <3>2, <3>3 DEF Items, n
  <2> QED BY <2>1, <2>2
<1>7. Distinct(t)
  <2> SUFFICES ASSUME NEW i \in 1..n, NEW j \in 1..n, t[i] = t[j] PROVE i = j
    BY DEF Distinct, n
  <2>1. i + 1 = j + 1
    BY <1>1, <1>3 DEF Distinct
  <2> QED BY <1>1, <2>1
<1> QED
  BY <1>1, <1>2, <1>5, <1>6, <1>7 DEF t, n, Items

LEMMA QueuedIs == Queued = Items(tasks_)
  BY DEF Queued, Items

LEMMA RoundTasks ==
    ASSUME NEW c \in Callers, PoolTypeOK, Bounded(c), Within(c)
    PROVE  /\ Round(c) \in Seq(Task) /\ Len(Round(c)) \in Nat
           /\ \A i \in 1..Len(Round(c)) : Round(c)[i] \in Task /\ Round(c)[i].caller = c
           /\ Apart(Round(c))
<1>1. PICK s, m : s = runs[c] /\ m = merging[c]
  OBVIOUS
<1>2. s \in Seq(Nat) /\ m \in BOOLEAN /\ Len(s) > 0 /\ Increasing(s)
  BY <1>1 DEF PoolTypeOK, Bounded
<1>3. Round(c) = RoundOf(c, s, m)
  BY <1>1, RoundIs
<1> DEFINE R == RoundOf(c, s, m)
<1>4. R \in Seq(Task) /\ \A i \in 1..Len(R) : R[i].caller = c
  <2>1. CASE m
    <3>1. R \in Seq(Task) /\ \A i \in 1..Len(R) : R[i] = MergeTask(c, s, i)
      BY <1>2, <2>1, MergeRound
    <3> HIDE DEF R
    <3>2. \A i : MergeTask(c, s, i).caller = c
      BY DEF MergeTask
    <3> QED BY <3>1, <3>2
  <2>2. CASE ~m
    <3>1. R \in Seq(Task) /\ \A i \in 1..Len(R) : R[i] = ChunkTask(c, s, i)
      BY <1>2, <2>2, ChunkRound
    <3> HIDE DEF R
    <3>2. \A i : ChunkTask(c, s, i).caller = c
      BY DEF ChunkTask
    <3> QED BY <3>1, <3>2
  <2> QED BY <2>1, <2>2
<1>5. Apart(R)
  BY <1>2, RoundApart
<1> HIDE DEF R
<1>6. Len(R) \in Nat /\ \A i \in 1..Len(R) : R[i] \in Task
  BY <1>4, LenProperties, ElementOfSeq
<1> QED
  BY <1>3, <1>4, <1>5, <1>6 DEF R

OwnTasks(c) == \A i \in 1..Len(Round(c)) : Round(c)[i].caller = c

LEMMA RoundOwn ==
    ASSUME NEW c \in Callers
    PROVE  PoolTypeOK /\ Bounded(c) /\ Within(c) => OwnTasks(c)
  BY RoundTasks DEF OwnTasks

\* What a step does for a caller whose own state and tasks it leaves alone.
SameFor(d) ==
    /\ call' = call
    /\ at'[d] = at[d] /\ runs'[d] = runs[d] /\ merging'[d] = merging[d]
    /\ index'[d] = index[d] /\ joined'[d] = joined[d] /\ ordered'[d] = ordered[d]
    /\ thrown \subseteq thrown'
    /\ \A task : task.caller = d =>
        /\ task \in Queued' <=> task \in Queued
        /\ task \in Taken' <=> task \in Taken
        /\ task \in ran' <=> task \in ran
        /\ task \in thrown' <=> task \in thrown

LEMMA Elsewhere ==
    ASSUME NEW d \in Callers, PoolTypeOK, CallerInv(d), Complete(d), SameFor(d)
    PROVE  CallerInv(d)' /\ Complete(d)'
<1>1. Round(d)' = Round(d)
  BY Zenon DEF Round, SameFor
<1>2. Within(d)' = Within(d) /\ Joins(d)' = Joins(d)
  BY DEF Within, Joins, SameFor
<1>3. \A task : task.caller = d =>
        /\ task \in Outstanding' <=> task \in Outstanding
        /\ task \in Issued' <=> task \in Issued
  BY DEF SameFor, Outstanding, Issued
<1>4. Bounded(d)'
  BY <1>2 DEF CallerInv, Bounded, SameFor, Increasing
<1>5. Counted(d)'
  BY <1>1, <1>2 DEF CallerInv, Counted, SameFor
<1>6. Known(d)'
  BY <1>1, <1>3 DEF CallerInv, Known, SameFor
<1>7. Awaited(d)'
  <2>1. ASSUME Within(d), NEW i \in 1..joined[d] PROVE Round(d)[i] \in ran' \ thrown'
    <3>1. Len(Round(d)) \in Nat /\ \A k \in 1..Len(Round(d)) : Round(d)[k].caller = d
      BY <2>1, RoundTasks DEF CallerInv
    <3>2. i \in 1..Len(Round(d))
      BY <2>1, <3>1 DEF CallerInv, Counted, PoolTypeOK
    <3> QED BY <2>1, <3>1, <3>2 DEF CallerInv, Awaited, SameFor
  <2> QED BY <1>1, <1>2, <1>3, <2>1 DEF CallerInv, Awaited, SameFor
<1>8. InOrder(d)'
  <2> SUFFICES ASSUME Within(d), Joins(d) PROVE InOrder(d)'
    BY <1>2 DEF InOrder
  <2>1. \A k \in 1..Len(Round(d)) : Round(d)[k].caller = d
    BY RoundTasks DEF CallerInv
  <2>2. ASSUME NEW k \in 1..Len(Round(d))
        PROVE  LET task == Round(d)[k]
               IN  /\ merging[d] /\ task \notin Taken' \union ran' => Parts(task) \subseteq ordered[d]
                   /\ task \in Taken' => Running(task) \in ordered[d]
                   /\ task \in ran' \ thrown' => <<task.from, task.to>> \in ordered[d]
    BY <2>1 DEF CallerInv, InOrder, SameFor
  <2> QED BY <1>1, <2>2 DEF CallerInv, InOrder, SameFor
<1>9. Complete(d)'
  BY DEF Complete, SameFor
<1> QED
  BY <1>4, <1>5, <1>6, <1>7, <1>8, <1>9 DEF CallerInv

-------------------------------------------------------------------------------
(* The invariant holds initially, and each step keeps it.                  *)

LEMMA PoolInitially ==
    ASSUME Init PROVE PoolInv
<1>1. PoolTypeOK
  <2>1. <<>> \in Seq(Task) /\ <<>> \in Seq(Nat)
    BY EmptySeq
  <2> QED BY <2>1 DEF Init, PoolTypeOK
<1>2. Queued = {} /\ Taken = {} /\ Outstanding = {} /\ Issued = {}
  <2>1. Queued = {}
    <3>1. Len(<<>>) = 0
      BY EmptySeq
    <3> QED BY <3>1 DEF Init, Queued
  <2>2. Taken = {}
    BY DEF Init, Taken
  <2> QED BY <2>1, <2>2 DEF Init, Outstanding, Issued
<1>3. HasJob
  BY DEF Init, HasJob
<1>4. Once
  <2>1. Len(<<>>) = 0
    BY EmptySeq
  <2> QED BY <1>2, <2>1 DEF Init, Once, Distinct
<1>5. ASSUME NEW c \in Callers PROVE CallerInv(c) /\ Complete(c)
  <2>1. at[c] = "out" /\ runs[c] = <<>> /\ ~merging[c] /\ index[c] = 0 /\ joined[c] = 0
    BY DEF Init
  <2>2. ~Within(c)
    BY <2>1 DEF Within
  <2>3. Increasing(<<>>)
    <3>1. Len(<<>>) = 0
      BY EmptySeq
    <3> QED BY <3>1 DEF Increasing
  <2>4. Bounded(c)
    BY <2>1, <2>2, <2>3 DEF Bounded
  <2>5. Counted(c)
    BY <2>1, <2>2 DEF Counted
  <2>6. Known(c) /\ Awaited(c) /\ InOrder(c)
    BY <1>2, <2>1, <2>2 DEF Known, Awaited, InOrder
  <2> QED BY <2>1, <2>4, <2>5, <2>6 DEF CallerInv, Complete
<1> QED
  BY <1>1, <1>3, <1>4, <1>5 DEF PoolInv

\* A step that only lets workers sleep, wake or exit.
LEMMA WorkersOnly ==
    ASSUME PoolInv,
           worker' \in [Workers -> {"awake", "asleep", "run", "exit"}],
           \A w \in Workers : worker'[w] = "run" <=> worker[w] = "run",
           stopped_' \in BOOLEAN,
           UNCHANGED <<tasks_, job, call, frame, futures, ordered>>
    PROVE  PoolInv'
<1>1. UNCHANGED <<tasks_, job, call, at, runs, merging, index, joined, ran, thrown, ordered>>
  BY DEF frame, futures
<1>2. Queued' = Queued /\ Taken' = Taken
  BY <1>1 DEF Queued, Taken
<1>3. PoolTypeOK'
  BY <1>1 DEF PoolInv, PoolTypeOK
<1>4. HasJob'
  BY <1>1 DEF PoolInv, HasJob
<1>5. Once'
  BY <1>1, <1>2 DEF PoolInv, Once, Distinct, Outstanding
<1>6. ASSUME NEW c \in Callers PROVE CallerInv(c)' /\ Complete(c)'
  <2>1. SameFor(c)
    BY <1>1, <1>2 DEF SameFor
  <2> QED BY <2>1, Elsewhere DEF PoolInv
<1> QED
  BY <1>3, <1>4, <1>5, <1>6 DEF PoolInv

LEMMA WorkerSteps ==
    ASSUME PoolInv,
           \/ \E w \in Workers : Sleep(w) \/ Exit(w) \/ Spurious(w)
           \/ Stop
           \/ Join
           \/ UNCHANGED vars
    PROVE  PoolInv'
<1>0. worker \in [Workers -> {"awake", "asleep", "run", "exit"}] /\ stopped_ \in BOOLEAN
  BY DEF PoolInv, PoolTypeOK
<1>1. ASSUME NEW w \in Workers, Sleep(w) \/ Exit(w) \/ Spurious(w) PROVE PoolInv'
  <2>1. /\ worker' \in [Workers -> {"awake", "asleep", "run", "exit"}]
        /\ \A v \in Workers : worker'[v] = "run" <=> worker[v] = "run"
    BY <1>0, <1>1 DEF Sleep, Exit, Spurious
  <2>2. stopped_' = stopped_ /\ UNCHANGED <<tasks_, job, call, frame, futures, ordered>>
    BY <1>1 DEF Sleep, Exit, Spurious, Untouched
  <2> QED BY <1>0, <2>1, <2>2, WorkersOnly
<1>2. CASE Stop
  <2>1. /\ worker' \in [Workers -> {"awake", "asleep", "run", "exit"}]
        /\ \A v \in Workers : worker'[v] = "run" <=> worker[v] = "run"
    BY <1>0, <1>2 DEF Stop, Asleep
  <2>2. stopped_' = TRUE /\ UNCHANGED <<tasks_, job, call, frame, futures, ordered>>
    BY <1>2 DEF Stop, Untouched
  <2> QED BY <2>1, <2>2, WorkersOnly
<1>3. CASE Join
  BY <1>0, <1>3, WorkersOnly DEF Join, Untouched
<1>4. CASE UNCHANGED vars
  BY <1>0, <1>4, WorkersOnly DEF vars, pool
<1> QED
  BY <1>1, <1>2, <1>3, <1>4

\* A step of a caller that leaves the pool and all tasks alone.
LEMMA CallerOnly ==
    ASSUME PoolInv, PoolTypeOK', NEW c \in Callers,
           UNCHANGED <<tasks_, worker, job, ran, thrown, call>>,
           \A d \in Callers : d # c =>
                /\ at'[d] = at[d] /\ runs'[d] = runs[d] /\ merging'[d] = merging[d]
                /\ index'[d] = index[d] /\ joined'[d] = joined[d] /\ ordered'[d] = ordered[d],
           CallerInv(c)', Complete(c)'
    PROVE  PoolInv'
<1>1. Queued' = Queued /\ Taken' = Taken
  BY DEF Queued, Taken
<1>2. HasJob'
  BY DEF PoolInv, HasJob
<1>3. Once'
  BY <1>1 DEF PoolInv, Once, Distinct, Outstanding
<1>4. ASSUME NEW d \in Callers, d # c PROVE CallerInv(d)' /\ Complete(d)'
  <2>1. SameFor(d)
    BY <1>1, <1>4 DEF SameFor
  <2> QED BY <2>1, Elsewhere DEF PoolInv
<1> QED
  BY <1>2, <1>3, <1>4 DEF PoolInv

LEMMA ForkedStep ==
    ASSUME PoolInv, NEW c \in Callers, Forked(c)
    PROVE  PoolInv'
<1>0. /\ UNCHANGED <<tasks_, stopped_, worker, job, call, runs, merging, index, joined, ran, thrown, ordered>>
      /\ at[c] = "fork" /\ index[c] = Len(Round(c))
      /\ at' = [at EXCEPT ![c] = IF call[c].kind = "submit" THEN "done" ELSE "join"]
  BY DEF Forked, pool, futures
<1>1. PoolTypeOK /\ CallerInv(c)
  BY DEF PoolInv
<1>2. PoolTypeOK'
  BY <1>0, <1>1 DEF PoolTypeOK
<1>3. at'[c] = IF Joins(c) THEN "join" ELSE "done"
  BY <1>0, <1>1 DEF Joins, PoolTypeOK
<1>4. /\ Round(c)' = Round(c) /\ Joins(c)' = Joins(c) /\ Within(c)
      /\ Queued' = Queued /\ Taken' = Taken /\ Issued' = Issued /\ Outstanding' = Outstanding
  BY <1>0 DEF Round, Joins, Within, Queued, Taken, Outstanding, Issued
<1>5. Bounded(c)'
  BY <1>0, <1>1, <1>3, <1>4 DEF CallerInv, Bounded, Within, Joins, Increasing
<1>6. Counted(c)'
  BY <1>0, <1>1, <1>3, <1>4 DEF CallerInv, Counted, Within
<1>7. Known(c)'
  BY <1>0, <1>1, <1>3, <1>4 DEF CallerInv, Known
<1>8. Awaited(c)'
  BY <1>0, <1>1, <1>3, <1>4 DEF CallerInv, Awaited, Within
<1>9. InOrder(c)'
  BY <1>0, <1>1, <1>3, <1>4 DEF CallerInv, InOrder, Within
<1>10. Complete(c)'
  BY <1>0, <1>3, <1>4 DEF Complete, Joins
<1>11. \A d \in Callers : d # c => at'[d] = at[d]
  BY <1>0, <1>1 DEF PoolTypeOK
<1> QED
  BY <1>0, <1>2, <1>5, <1>6, <1>7, <1>8, <1>9, <1>10, <1>11, CallerOnly DEF CallerInv

LEMMA GetStep ==
    ASSUME PoolInv, NEW c \in Callers, Get(c)
    PROVE  PoolInv'
<1>0. /\ UNCHANGED <<tasks_, stopped_, worker, job, call, runs, merging, index, ran, thrown, ordered>>
      /\ at[c] = "join" /\ joined[c] < Len(Round(c))
      /\ joined' = [joined EXCEPT ![c] = @ + 1]
      /\ Round(c)[joined[c] + 1] \in ran
  BY DEF Get, pool, futures
<1>1. PoolTypeOK /\ CallerInv(c) /\ Complete(c)
  BY DEF PoolInv
<1>2. /\ at' = IF Round(c)[joined[c] + 1] \in thrown THEN [at EXCEPT ![c] = "threw"] ELSE at
  BY DEF Get
<1>3. PoolTypeOK'
  BY <1>0, <1>1, <1>2 DEF PoolTypeOK
<1>4. /\ Round(c)' = Round(c) /\ Joins(c)' = Joins(c) /\ Within(c)
      /\ Queued' = Queued /\ Taken' = Taken /\ Issued' = Issued /\ Outstanding' = Outstanding
  BY <1>0 DEF Round, Joins, Within, Queued, Taken, Outstanding, Issued
<1>5. joined[c] \in Nat /\ joined'[c] = joined[c] + 1
  BY <1>0, <1>1 DEF PoolTypeOK
<1>6. Bounded(c)' /\ Counted(c)' /\ Known(c)' /\ Awaited(c)' /\ InOrder(c)' /\ Complete(c)'
  <2>1. CASE Round(c)[joined[c] + 1] \in thrown
    <3>1. at'[c] = "threw" /\ ~Within(c)'
      BY <1>1, <1>2, <2>1 DEF PoolTypeOK, Within
    <3>2. Bounded(c)'
      BY <1>0, <1>1, <3>1 DEF CallerInv, Bounded, Increasing
    <3>3. Counted(c)'
      BY <3>1 DEF Counted
    <3>4. Known(c)' /\ InOrder(c)' /\ Complete(c)'
      BY <3>1 DEF Known, InOrder, Complete
    <3>5. Awaited(c)'
      BY <1>0, <2>1, <3>1 DEF Awaited
    <3> QED BY <3>2, <3>3, <3>4, <3>5
  <2>2. CASE Round(c)[joined[c] + 1] \notin thrown
    <3>1. at' = at /\ Within(c)'
      BY <1>0, <1>2, <2>2 DEF Within
    <3>2. Bounded(c)'
      BY <1>0, <1>1, <1>4, <3>1 DEF CallerInv, Bounded, Increasing
    <3>3. Counted(c)'
      <4>1. Len(Round(c)) \in Nat
        BY <1>1, <1>4, RoundTasks DEF CallerInv
      <4>2. joined[c] + 1 <= Len(Round(c))
        BY <1>0, <1>5, <4>1
      <4> QED BY <1>0, <1>1, <1>4, <1>5, <3>1, <4>2 DEF CallerInv, Counted
    <3>4. Known(c)'
      BY <1>0, <1>1, <1>4, <3>1 DEF CallerInv, Known
    <3>5. InOrder(c)'
      BY <1>0, <1>1, <1>4, <3>1 DEF CallerInv, InOrder
    <3>6. Awaited(c)'
      <4>1. ASSUME NEW i \in 1..(joined[c] + 1) PROVE Round(c)[i] \in ran \ thrown
        <5>1. i \in 1..joined[c] \/ i = joined[c] + 1
          BY <1>5
        <5> QED BY <1>0, <1>1, <1>4, <2>2, <5>1 DEF CallerInv, Awaited
      <4> QED BY <1>0, <1>1, <1>4, <1>5, <3>1, <4>1 DEF CallerInv, Awaited
    <3>7. Complete(c)'
      BY <1>0, <3>1 DEF Complete
    <3> QED BY <3>2, <3>3, <3>4, <3>5, <3>6, <3>7
  <2> QED BY <2>1, <2>2
<1>7. \A d \in Callers : d # c => at'[d] = at[d] /\ joined'[d] = joined[d]
  BY <1>0, <1>1, <1>2 DEF PoolTypeOK
<1> QED
  BY <1>0, <1>3, <1>6, <1>7, CallerOnly DEF CallerInv

\* The next task to submit is none that was issued.
LEMMA NextIsFresh ==
    ASSUME PoolTypeOK, NEW c \in Callers, CallerInv(c), at[c] = "fork",
           index[c] < Len(Round(c))
    PROVE  /\ index[c] + 1 \in 1..Len(Round(c))
           /\ Round(c)[index[c] + 1] \in Task
           /\ Round(c)[index[c] + 1].caller = c
           /\ Round(c)[index[c] + 1] \notin Issued
<1>0. Within(c) /\ Bounded(c) /\ Known(c)
  BY DEF Within, CallerInv
<1>1. /\ Len(Round(c)) \in Nat /\ Apart(Round(c))
      /\ \A i \in 1..Len(Round(c)) : Round(c)[i] \in Task /\ Round(c)[i].caller = c
  BY <1>0, RoundTasks
<1>2. PICK n : n = index[c] + 1
  OBVIOUS
<1>3. index[c] \in Nat /\ n \in 1..Len(Round(c))
  BY <1>1, <1>2 DEF PoolTypeOK
<1>4. \A i \in 1..index[c] : i \in 1..Len(Round(c)) /\ i # n
  BY <1>1, <1>2, <1>3
<1>5. \A i \in 1..index[c] : Round(c)[n] # Round(c)[i]
  BY <1>1, <1>3, <1>4 DEF Apart
<1>6. ASSUME merging[c], NEW j \in 1..(Len(runs[c]) - 1),
             runs[c][j] <= Round(c)[n].from, Round(c)[n].to <= runs[c][j + 1]
      PROVE  FALSE
  <2>1. PICK s : s = runs[c]
    OBVIOUS
  <2>2. s \in Seq(Nat) /\ Len(s) > 0 /\ Increasing(s)
    BY <1>0, <2>1 DEF PoolTypeOK, Bounded
  <2>3. Round(c) = RoundOf(c, s, TRUE)
    <3>1. merging[c] = TRUE
      BY <1>6 DEF PoolTypeOK
    <3> QED BY <2>1, <3>1, RoundIs
  <2>4. \A k \in 1..Len(Round(c)) : \A i \in 1..(Len(s) - 1) :
            ~(s[i] <= Round(c)[k].from /\ Round(c)[k].to <= s[i + 1])
    BY <2>2, <2>3, MergesApart
  <2> QED BY <1>3, <1>6, <2>1, <2>4
<1>7. Round(c)[n] \notin Issued
  BY <1>0, <1>1, <1>3, <1>5, <1>6 DEF Known
<1> QED
  BY <1>1, <1>2, <1>3, <1>7

LEMMA SubmitStep ==
    ASSUME PoolInv, NEW c \in Callers, submit(c)
    PROVE  PoolInv'
<1>0. /\ UNCHANGED <<stopped_, job, call, at, runs, merging, joined, ran, thrown, ordered>>
      /\ at[c] = "fork" /\ index[c] < Len(Round(c))
      /\ index' = [index EXCEPT ![c] = @ + 1]
      /\ tasks_' = Append(tasks_, Round(c)[index[c] + 1])
  BY DEF submit, futures
<1>1. PoolTypeOK /\ CallerInv(c) /\ Complete(c) /\ HasJob /\ Once
  BY DEF PoolInv
<1>2. PICK task : task = Round(c)[index[c] + 1]
  OBVIOUS
<1>3. /\ index[c] + 1 \in 1..Len(Round(c)) /\ task \in Task /\ task.caller = c
      /\ task \notin Issued
  BY <1>0, <1>1, <1>2, NextIsFresh
<1>4. /\ worker' \in [Workers -> {"awake", "asleep", "run", "exit"}]
      /\ \A w \in Workers : worker'[w] = "run" <=> worker[w] = "run"
  BY <1>1 DEF submit, notify_one, Asleep, PoolTypeOK
<1>5. tasks_ \in Seq(Task) /\ Distinct(tasks_) /\ task \notin Items(tasks_)
  BY <1>1, <1>3 DEF PoolTypeOK, Once, Issued, Outstanding, Queued, Items
<1>6. tasks_' \in Seq(Task) /\ Distinct(tasks_')
  BY <1>0, <1>2, <1>3, <1>5, ItemsAppend
<1>7. Queued' = Queued \union {task} /\ Taken' = Taken
  <2>1. Items(tasks_') = Items(tasks_) \union {task}
    BY <1>0, <1>2, <1>3, <1>5, ItemsAppend
  <2>2. Queued' = Items(tasks_')
    BY DEF Queued, Items
  <2> QED BY <1>0, <2>1, <2>2, QueuedIs DEF Taken
<1>8. Outstanding' = Outstanding \union {task} /\ Issued' = Issued \union {task}
  BY <1>0, <1>7 DEF Outstanding, Issued
<1>9. index[c] \in Nat /\ index'[c] = index[c] + 1
  BY <1>0, <1>1 DEF PoolTypeOK
<1>10. PoolTypeOK'
  BY <1>0, <1>1, <1>4, <1>6 DEF PoolTypeOK
<1>11. HasJob'
  BY <1>0, <1>1, <1>4 DEF HasJob
<1>12. Once'
  BY <1>0, <1>1, <1>3, <1>6, <1>7, <1>8 DEF Once, Issued, Outstanding
<1>13. Round(c)' = Round(c) /\ Within(c)' = Within(c) /\ Joins(c)' = Joins(c) /\ Within(c)
  BY <1>0 DEF Round, Within, Joins
<1>14. Bounded(c)'
  BY <1>0, <1>1, <1>13 DEF CallerInv, Bounded, Increasing
<1>15. Counted(c)'
  <2>1. Len(Round(c)) \in Nat
    BY <1>1, <1>13, RoundTasks DEF CallerInv
  <2>2. index[c] + 1 <= Len(Round(c)) /\ joined[c] = 0
    BY <1>0, <1>1, <1>9, <2>1 DEF CallerInv, Counted
  <2> QED BY <1>0, <1>9, <1>13, <2>2 DEF Counted
<1>16. \A i \in 1..index[c] : i \in 1..(index[c] + 1)
  BY <1>9
<1>17. Known(c)'
  <2> SUFFICES ASSUME NEW x \in Issued', x.caller = c
               PROVE  \/ \E i \in 1..(index[c] + 1) : x = Round(c)[i]
                      \/ /\ merging[c]
                         /\ \E j \in 1..(Len(runs[c]) - 1) :
                                runs[c][j] <= x.from /\ x.to <= runs[c][j + 1]
    BY <1>0, <1>9, <1>13 DEF Known
  <2>1. CASE x = task
    BY <1>2, <1>9, <2>1
  <2>2. CASE x \in Issued
    BY <1>0, <1>1, <1>16, <2>2 DEF CallerInv, Known
  <2> QED BY <1>8, <2>1, <2>2
<1>18. Awaited(c)'
  <2>1. ASSUME Joins(c), NEW x \in Outstanding', x.caller = c
        PROVE  \E i \in 1..(index[c] + 1) : x = Round(c)[i]
    <3>1. CASE x = task
      BY <1>2, <1>9, <3>1
    <3>2. CASE x \in Outstanding
      BY <1>1, <1>13, <1>16, <2>1, <3>2 DEF CallerInv, Awaited
    <3> QED BY <1>8, <2>1, <3>1, <3>2
  <2> QED BY <1>0, <1>1, <1>9, <1>13, <2>1 DEF CallerInv, Awaited
<1>19. InOrder(c)'
  BY <1>0, <1>1, <1>7, <1>13 DEF CallerInv, InOrder
<1>20. Complete(c)'
  BY <1>0 DEF Complete
<1>21. ASSUME NEW d \in Callers, d # c PROVE CallerInv(d)' /\ Complete(d)'
  <2>1. index'[d] = index[d]
    BY <1>0, <1>1, <1>21 DEF PoolTypeOK
  <2>2. SameFor(d)
    BY <1>0, <1>3, <1>7, <1>21, <2>1 DEF SameFor
  <2> QED BY <2>2, Elsewhere DEF PoolInv
<1> QED
  BY <1>10, <1>11, <1>12, <1>14, <1>15, <1>17, <1>18, <1>19, <1>20, <1>21 DEF PoolInv, CallerInv

LEMMA BeginStep ==
    ASSUME PoolInv, NEW c \in Callers, Begin(c)
    PROVE  PoolInv'
<1>0. /\ UNCHANGED <<tasks_, stopped_, worker, job, call, merging, index, joined, ran, thrown>>
      /\ at[c] = "out"
  BY DEF Begin, pool, futures
<1>1. PoolTypeOK /\ CallerInv(c)
  BY DEF PoolInv
<1>2. /\ call[c] \in [kind : {"submit", "each", "sort"}, count : Nat, floor : Nat \ {0}]
  BY <1>1, PoolAssumption DEF PoolTypeOK
<1>3. ~merging[c] /\ index[c] = 0 /\ joined[c] = 0 /\ runs[c] = <<>>
  BY <1>0, <1>1 DEF CallerInv, Bounded, Counted
<1>4. \A task \in Issued : task.caller # c
  BY <1>0, <1>1, <1>3 DEF CallerInv, Known
<1>5. Outstanding' = Outstanding /\ Issued' = Issued /\ Taken' = Taken
  BY <1>0 DEF Outstanding, Issued, Queued, Taken
<1>6. CASE Joins(c) /\ serial(call[c])
  <2>1. /\ at' = [at EXCEPT ![c] = "done"] /\ runs' = runs
        /\ ordered' = [ordered EXCEPT ![c] = {<<0, call[c].count>>}]
    BY <1>6 DEF Begin, Joins
  <2>2. PoolTypeOK'
    BY <1>0, <1>1, <2>1 DEF PoolTypeOK
  <2>3. at'[c] = "done" /\ ordered'[c] = {<<0, call[c].count>>} /\ ~Within(c)'
    BY <1>1, <2>1 DEF PoolTypeOK, Within
  <2>4. Bounded(c)' /\ Counted(c)' /\ Known(c)' /\ InOrder(c)'
    BY <1>0, <1>1, <2>1, <2>3 DEF CallerInv, Bounded, Counted, Known, InOrder, Increasing
  <2>5. Awaited(c)'
    BY <1>4, <1>5, <2>3 DEF Awaited, Issued
  <2>6. Complete(c)'
    <3>1. PICK r : r = <<0, call[c].count>>
      OBVIOUS
    <3>2. Len(r) = 2 /\ r[1] = 0 /\ r[2] = call[c].count /\ r \in ordered'[c]
      BY <2>3, <3>1
    <3>3. call[c].count \in Nat
      BY <1>2
    <3>4. \A e \in 0..(call[c].count - 1) : r[1] <= e /\ e < r[2]
      BY <3>2, <3>3
    <3> QED BY <1>0, <3>1, <3>2, <3>4 DEF Complete
  <2>7. \A d \in Callers : d # c => at'[d] = at[d] /\ ordered'[d] = ordered[d]
    BY <1>1, <2>1 DEF PoolTypeOK
  <2> QED BY <1>0, <2>1, <2>2, <2>4, <2>5, <2>6, <2>7, CallerOnly DEF CallerInv
<1>7. CASE ~(Joins(c) /\ serial(call[c]))
  <2>1. /\ at' = [at EXCEPT ![c] = "fork"] /\ ordered' = ordered
        /\ runs' = [runs EXCEPT ![c] = Edges(call[c])]
    BY <1>7 DEF Begin, Joins
  <2>2. PICK s, count : s = Edges(call[c]) /\ count = call[c].count
    OBVIOUS
  <2>3. Covers(s, count) /\ (Joins(c) => Len(s) > 2)
    <3>1. call[c].kind = "submit" \/ ~serial(call[c])
      BY <1>7 DEF Joins
    <3>2. PICK request : request = call[c]
      OBVIOUS
    <3>3. /\ Covers(Edges(request), request.count)
          /\ request.kind # "submit" => Len(Edges(request)) > 2
      BY <1>2, <3>1, <3>2, EdgesCover
    <3> QED BY <2>2, <3>2, <3>3 DEF Joins
  <2>4. at'[c] = "fork" /\ runs'[c] = s /\ Within(c)'
    BY <1>1, <2>1, <2>2 DEF PoolTypeOK, Within
  <2>5. PoolTypeOK'
    BY <1>0, <1>1, <2>1, <2>2, <2>3 DEF PoolTypeOK, Covers
  <2>6. Bounded(c)'
    BY <1>0, <1>3, <2>2, <2>3, <2>4 DEF Bounded, Covers, Increasing, Joins
  <2>7. Len(Round(c)') \in Nat
    <3>1. (PoolTypeOK /\ Bounded(c) /\ Within(c) => Len(Round(c)) \in Nat)'
      BY RoundTasks, PTL
    <3> QED BY <2>4, <2>5, <2>6, <3>1
  <2>8. Counted(c)'
    BY <1>0, <1>3, <2>4, <2>7 DEF Counted
  <2>9. Known(c)'
    BY <1>4, <1>5 DEF Known
  <2>10. Awaited(c)'
    BY <1>0, <1>3, <1>4, <1>5, <2>4 DEF Awaited, Issued
  <2>11. InOrder(c)'
    <3>1. (PoolTypeOK /\ Bounded(c) /\ Within(c) => OwnTasks(c))'
      BY RoundOwn, PTL
    <3>2. \A i \in 1..Len(Round(c)') : Round(c)'[i].caller = c
      BY <2>4, <2>5, <2>6, <3>1 DEF OwnTasks
    <3>3. \A i \in 1..Len(Round(c)') : Round(c)'[i] \notin Taken' /\ Round(c)'[i] \notin ran'
      BY <1>0, <1>4, <1>5, <3>2 DEF Issued, Outstanding
    <3> QED BY <1>0, <1>3, <3>3 DEF InOrder
  <2>12. Complete(c)'
    BY <2>4 DEF Complete
  <2>13. \A d \in Callers : d # c => at'[d] = at[d] /\ runs'[d] = runs[d]
    BY <1>1, <2>1 DEF PoolTypeOK
  <2> QED BY <1>0, <2>1, <2>5, <2>6, <2>8, <2>9, <2>10, <2>11, <2>12, <2>13, CallerOnly
          DEF CallerInv
<1> QED
  BY <1>6, <1>7

\* A task of a call that joins, while it is outstanding, is one of its round.
LEMMA OutstandingInRound ==
    ASSUME PoolInv, NEW task \in Outstanding, NEW c \in Callers, task.caller = c, Joins(c)
    PROVE  /\ at[c] # "done"
           /\ Within(c) => \E i \in 1..Len(Round(c)) : task = Round(c)[i]
<1>1. PoolTypeOK /\ CallerInv(c)
  BY DEF PoolInv
<1>2. at[c] # "done"
  BY <1>1 DEF CallerInv, Awaited
<1>3. ASSUME Within(c) PROVE \E i \in 1..Len(Round(c)) : task = Round(c)[i]
  <2>1. PICK i \in 1..index[c] : task = Round(c)[i]
    BY <1>1, <1>3 DEF CallerInv, Awaited
  <2>2. Len(Round(c)) \in Nat
    BY <1>1, <1>3, RoundTasks DEF CallerInv
  <2>3. i \in 1..Len(Round(c))
    BY <1>1, <1>3, <2>2 DEF CallerInv, Counted, PoolTypeOK
  <2> QED BY <2>1, <2>3
<1> QED
  BY <1>2, <1>3

\* A task that is about to be complete is no range.
LEMMA RunningIsNoPart ==
    ASSUME NEW x, NEW y
    PROVE  /\ Running(x) \notin Parts(y)
           /\ \A a, b : Running(x) # <<a, b>>
  BY DEF Running, Parts

\* What a caller's state says when only the place of its tasks has changed.
LEMMA SameFrame ==
    ASSUME NEW c \in Callers, CallerInv(c),
           UNCHANGED <<call, at, runs, merging, index, joined>>,
           Outstanding' \subseteq Outstanding, Issued' = Issued,
           ran \subseteq ran',
           thrown \subseteq thrown', thrown' \ thrown \subseteq Outstanding,
           Outstanding \intersect ran = {}
    PROVE  /\ Round(c)' = Round(c) /\ Within(c)' = Within(c) /\ Joins(c)' = Joins(c)
           /\ Bounded(c)' /\ Counted(c)' /\ Known(c)' /\ Awaited(c)'
<1>1. Round(c)' = Round(c) /\ Within(c)' = Within(c) /\ Joins(c)' = Joins(c)
  BY DEF Round, Within, Joins
<1>2. Bounded(c)'
  BY <1>1 DEF CallerInv, Bounded, Increasing
<1>3. Counted(c)'
  BY <1>1 DEF CallerInv, Counted
<1>4. Known(c)'
  BY <1>1 DEF CallerInv, Known
<1>5. Awaited(c)'
  <2>1. ran \ thrown \subseteq ran' \ thrown'
    OBVIOUS
  <2>2. thrown # {} => thrown' # {}
    OBVIOUS
  <2> QED BY <1>1, <2>1, <2>2 DEF CallerInv, Awaited
<1> QED
  BY <1>1, <1>2, <1>3, <1>4, <1>5

LEMMA TakeStep ==
    ASSUME PoolInv, NEW w \in Workers, Take(w)
    PROVE  PoolInv'
<1>0. PoolTypeOK /\ HasJob /\ Once
  BY DEF PoolInv
<1>1. PICK task : task = Head(tasks_)
  OBVIOUS
<1>2. PICK c : c = task.caller
  OBVIOUS
<1>3. /\ UNCHANGED <<stopped_, call, at, runs, merging, index, joined, ran, thrown>>
      /\ worker[w] = "awake" /\ tasks_ # <<>>
      /\ worker' = [worker EXCEPT ![w] = "run"]
      /\ job' = [job EXCEPT ![w] = {task}]
      /\ tasks_' = Tail(tasks_)
      /\ ordered' = [ordered EXCEPT ![c] =
            (@ \ Parts(task)) \union
            IF task.from = task.middle \/ Parts(task) \subseteq @ THEN {Running(task)} ELSE {}]
  BY <1>1, <1>2 DEF Take, Untouched, frame, futures
<1>4. /\ tasks_' \in Seq(Task) /\ task \in Task /\ task \in Items(tasks_)
      /\ Items(tasks_') = Items(tasks_) \ {task}
      /\ Distinct(tasks_')
  <2>1. tasks_ \in Seq(Task) /\ tasks_ # <<>> /\ Distinct(tasks_)
    BY <1>0, <1>3 DEF PoolTypeOK, Once
  <2> QED BY <1>1, <1>3, <2>1, ItemsTail
<1>5. c \in Callers
  BY <1>2, <1>4 DEF Task
<1>6. task \in Queued /\ Queued' = Queued \ {task}
  <2>1. Queued' = Items(tasks_')
    BY DEF Queued, Items
  <2> QED BY <1>4, <2>1, QueuedIs
<1>7. job[w] = {} /\ \A v \in Workers : job'[v] = IF v = w THEN {task} ELSE job[v]
  BY <1>0, <1>3 DEF HasJob, PoolTypeOK
<1>8. Taken' = Taken \union {task}
  BY <1>7 DEF Taken
<1>9. task \notin Taken /\ task \notin ran /\ task \in Outstanding
  BY <1>0, <1>6 DEF Once, Outstanding
<1>10. Outstanding' = Outstanding /\ Issued' = Issued
  BY <1>3, <1>6, <1>8 DEF Outstanding, Issued
<1>11. PoolTypeOK'
  BY <1>0, <1>3, <1>4 DEF PoolTypeOK
<1>12. HasJob'
  BY <1>0, <1>3, <1>4, <1>7 DEF HasJob, PoolTypeOK
<1>13. Once'
  <2>1. ASSUME NEW u \in Workers, NEW v \in Workers, u # v PROVE job'[u] \intersect job'[v] = {}
    <3>1. \A x \in Workers : task \notin job[x]
      BY <1>9 DEF Taken
    <3> QED BY <1>0, <1>7, <2>1, <3>1 DEF Once
  <2>2. Queued' \intersect Taken' = {}
    BY <1>0, <1>6, <1>8 DEF Once
  <2>3. Outstanding' \intersect ran' = {}
    BY <1>0, <1>3, <1>10 DEF Once
  <2> QED BY <1>4, <2>1, <2>2, <2>3 DEF Once
<1>14. CallerInv(c) /\ Complete(c)
  BY <1>5 DEF PoolInv
<1>15. /\ Round(c)' = Round(c) /\ Within(c)' = Within(c) /\ Joins(c)' = Joins(c)
       /\ Bounded(c)' /\ Counted(c)' /\ Known(c)' /\ Awaited(c)'
  BY <1>0, <1>3, <1>5, <1>10, <1>14, SameFrame DEF Once
<1>16. PICK old, new : /\ old = ordered[c] /\ new = ordered'[c]
                       /\ new = (old \ Parts(task)) \union
                            IF task.from = task.middle \/ Parts(task) \subseteq old
                            THEN {Running(task)} ELSE {}
  BY <1>0, <1>3, <1>5 DEF PoolTypeOK
<1>17. InOrder(c)'
  <2> SUFFICES ASSUME Within(c), Joins(c) PROVE InOrder(c)'
    BY <1>15 DEF InOrder
  <2>1. PICK R, i : /\ R = Round(c) /\ i \in 1..Len(R) /\ task = R[i]
    BY <1>2, <1>5, <1>9, OutstandingInRound
  <2>2. Apart(R)
    BY <1>0, <1>5, <1>14, <2>1, RoundTasks DEF CallerInv
  <2>3. \A k \in 1..Len(R) :
            /\ merging[c] /\ R[k] \notin Taken \union ran => Parts(R[k]) \subseteq old
            /\ R[k] \in Taken => Running(R[k]) \in old
            /\ R[k] \in ran \ thrown => <<R[k].from, R[k].to>> \in old
    BY <1>14, <1>16, <2>1 DEF CallerInv, InOrder
  <2>4. PICK s : s = runs[c] /\ s \in Seq(Nat) /\ Len(s) > 0 /\ Increasing(s)
    BY <1>0, <1>5, <1>14 DEF PoolTypeOK, CallerInv, Bounded
  <2>5. merging[c] => R = RoundOf(c, s, TRUE)
    <3>1. merging[c] => merging[c] = TRUE
      BY <1>0, <1>5 DEF PoolTypeOK
    <3> QED BY <2>1, <2>4, <3>1, RoundIs
  <2>6. merging[c] => /\ \A k \in 1..Len(R) : k # i => Parts(R[k]) \intersect Parts(task) = {}
                      /\ Len(s) % 2 = 0 => <<s[Len(s) - 1], s[Len(s)]>> \notin Parts(task)
    BY <1>5, <2>1, <2>4, <2>5, MergesApart
  <2>7. Running(task) \in new
    <3>1. CASE merging[c]
      BY <1>9, <1>16, <2>1, <2>3, <3>1
    <3>2. CASE ~merging[c]
      <4>1. R = RoundOf(c, s, FALSE)
        <5>1. merging[c] = FALSE
          BY <1>0, <1>5, <3>2 DEF PoolTypeOK
        <5> QED BY <2>1, <2>4, <5>1, RoundIs
      <4>2. task = ChunkTask(c, s, i)
        BY <1>5, <2>1, <2>4, <4>1, ChunkRound
      <4>3. task.from = task.middle
        BY <4>2 DEF ChunkTask
      <4> QED BY <1>16, <4>3
    <3> QED BY <3>1, <3>2
  <2>8. ASSUME NEW k \in 1..Len(R)
        PROVE  /\ merging[c] /\ R[k] \notin Taken' \union ran => Parts(R[k]) \subseteq new
               /\ R[k] \in Taken' => Running(R[k]) \in new
               /\ R[k] \in ran \ thrown => <<R[k].from, R[k].to>> \in new
    <3>1. CASE k = i
      BY <1>8, <1>9, <2>1, <2>7, <3>1
    <3>2. CASE k # i
      <4>1. R[k] # task /\ <<R[k].from, R[k].to>> \notin Parts(task)
        BY <2>1, <2>2, <3>2 DEF Apart
      <4>2. Running(R[k]) \notin Parts(task)
        BY RunningIsNoPart
      <4>3. R[k] \in Taken' <=> R[k] \in Taken
        BY <1>8, <4>1
      <4>4. \A x : x \in old /\ x \notin Parts(task) => x \in new
        BY <1>16
      <4>5. merging[c] => Parts(R[k]) \intersect Parts(task) = {}
        BY <2>6, <3>2
      <4> QED BY <2>3, <4>1, <4>2, <4>3, <4>4, <4>5
    <3> QED BY <3>1, <3>2
  <2>9. merging[c] /\ Len(s) % 2 = 0 => <<s[Len(s) - 1], s[Len(s)]>> \in new
    BY <1>14, <1>16, <2>4, <2>6 DEF CallerInv, InOrder
  <2> QED BY <1>3, <1>15, <1>16, <2>1, <2>4, <2>8, <2>9 DEF InOrder
<1>18. Complete(c)'
  <2>1. ~(at[c] = "done" /\ Joins(c))
    BY <1>2, <1>5, <1>9, OutstandingInRound
  <2> QED BY <1>3, <2>1 DEF Complete, Joins
<1>19. ASSUME NEW d \in Callers, d # c PROVE CallerInv(d)' /\ Complete(d)'
  <2>1. ordered'[d] = ordered[d]
    BY <1>0, <1>3, <1>19 DEF PoolTypeOK
  <2>2. SameFor(d)
    BY <1>2, <1>3, <1>6, <1>8, <1>19, <2>1 DEF SameFor
  <2> QED BY <2>2, Elsewhere DEF PoolInv
<1> QED
  BY <1>11, <1>12, <1>13, <1>15, <1>17, <1>18, <1>19 DEF PoolInv, CallerInv

LEMMA FinishStep ==
    ASSUME PoolInv, NEW w \in Workers, Finish(w)
    PROVE  PoolInv'
<1>0. PoolTypeOK /\ HasJob /\ Once
  BY DEF PoolInv
<1>1. PICK task \in Task : job[w] = {task}
  BY <1>0 DEF Finish, HasJob
<1>2. PICK c : c = task.caller /\ c \in Callers
  BY DEF Task
<1>3. /\ UNCHANGED <<tasks_, stopped_, call, at, runs, merging, index, joined>>
      /\ worker[w] = "run"
      /\ worker' = [worker EXCEPT ![w] = "awake"]
      /\ job' = [job EXCEPT ![w] = {}]
      /\ ran' = ran \union {task}
  BY <1>1 DEF Finish, frame
<1>4. \/ /\ ordered' = [ordered EXCEPT ![c] =
                (@ \ {Running(task)}) \union
                IF Running(task) \in @ THEN {<<task.from, task.to>>} ELSE {}]
         /\ thrown' = thrown
      \/ /\ ordered' = [ordered EXCEPT ![c] = @ \ {Running(task)}]
         /\ thrown' = thrown \union {task}
  BY <1>1, <1>2 DEF Finish
<1>5. /\ task \in Taken /\ task \in Outstanding /\ task \notin ran
      /\ task \notin Queued /\ task \notin thrown
  <2>1. task \in Taken
    BY <1>1 DEF Taken
  <2> QED BY <1>0, <2>1 DEF Once, Outstanding, PoolTypeOK
<1>6. \A v \in Workers : job'[v] = IF v = w THEN {} ELSE job[v]
  BY <1>0, <1>3 DEF PoolTypeOK
<1>7. Taken' = Taken \ {task} /\ Queued' = Queued
  <2>1. \A v \in Workers : v # w => task \notin job[v]
    BY <1>0, <1>1 DEF Once
  <2>2. Taken' = Taken \ {task}
    BY <1>1, <1>6, <2>1 DEF Taken
  <2> QED BY <1>3, <2>2 DEF Queued
<1>8. Outstanding' = Outstanding \ {task} /\ Issued' = Issued
  BY <1>3, <1>5, <1>7 DEF Outstanding, Issued
<1>9. PoolTypeOK'
  BY <1>0, <1>3, <1>4 DEF PoolTypeOK
<1>10. HasJob'
  BY <1>0, <1>3, <1>6 DEF HasJob, PoolTypeOK
<1>11. Once'
  <2>1. \A u, v \in Workers : u # v => job'[u] \intersect job'[v] = {}
    BY <1>0, <1>6 DEF Once
  <2>2. Distinct(tasks_)' /\ Queued' \intersect Taken' = {}
    BY <1>0, <1>3, <1>7 DEF Once, Distinct
  <2>3. Outstanding' \intersect ran' = {}
    BY <1>0, <1>3, <1>8 DEF Once
  <2> QED BY <2>1, <2>2, <2>3 DEF Once
<1>12. CallerInv(c) /\ Complete(c)
  BY <1>2 DEF PoolInv
<1>13. thrown' = thrown \/ thrown' = thrown \union {task}
  BY <1>4
<1>14. /\ Round(c)' = Round(c) /\ Within(c)' = Within(c) /\ Joins(c)' = Joins(c)
       /\ Bounded(c)' /\ Counted(c)' /\ Known(c)' /\ Awaited(c)'
  <2>1. thrown \subseteq thrown' /\ thrown' \ thrown \subseteq Outstanding
    BY <1>5, <1>13
  <2> QED BY <1>0, <1>2, <1>3, <1>8, <1>12, <2>1, SameFrame DEF Once
<1>15. PICK old, new :
        /\ old = ordered[c] /\ new = ordered'[c]
        /\ \/ /\ new = (old \ {Running(task)}) \union
                    IF Running(task) \in old THEN {<<task.from, task.to>>} ELSE {}
              /\ thrown' = thrown
           \/ /\ new = old \ {Running(task)}
              /\ thrown' = thrown \union {task}
  BY <1>0, <1>2, <1>4 DEF PoolTypeOK
<1>16. InOrder(c)'
  <2> SUFFICES ASSUME Within(c), Joins(c) PROVE InOrder(c)'
    BY <1>14 DEF InOrder
  <2>1. PICK R, i : /\ R = Round(c) /\ i \in 1..Len(R) /\ task = R[i]
    BY <1>2, <1>5, OutstandingInRound
  <2>2. Apart(R)
    BY <1>0, <1>2, <1>12, <2>1, RoundTasks DEF CallerInv
  <2>3. \A k \in 1..Len(R) :
            /\ merging[c] /\ R[k] \notin Taken \union ran => Parts(R[k]) \subseteq old
            /\ R[k] \in Taken => Running(R[k]) \in old
            /\ R[k] \in ran \ thrown => <<R[k].from, R[k].to>> \in old
    BY <1>12, <1>15, <2>1 DEF CallerInv, InOrder
  <2>4. Running(task) \in old
    BY <1>5, <2>1, <2>3
  <2>5. \A x : x \in old /\ x # Running(task) => x \in new
    BY <1>15
  <2>6. ASSUME NEW k \in 1..Len(R)
        PROVE  /\ merging[c] /\ R[k] \notin Taken' \union ran' => Parts(R[k]) \subseteq new
               /\ R[k] \in Taken' => Running(R[k]) \in new
               /\ R[k] \in ran' \ thrown' => <<R[k].from, R[k].to>> \in new
    <3>1. CASE k = i
      <4>1. R[k] \in ran' /\ R[k] \notin Taken'
        BY <1>3, <1>7, <2>1, <3>1
      <4>2. R[k] \notin thrown' => <<R[k].from, R[k].to>> \in new
        BY <1>15, <2>1, <2>4, <3>1
      <4> QED BY <4>1, <4>2
    <3>2. CASE k # i
      <4>1. R[k] # task /\ Running(R[k]) # Running(task)
        BY <2>1, <2>2, <3>2 DEF Apart
      <4>2. /\ R[k] \in Taken' <=> R[k] \in Taken
            /\ R[k] \in ran' <=> R[k] \in ran
            /\ R[k] \in thrown' <=> R[k] \in thrown
        BY <1>3, <1>7, <1>13, <4>1
      <4>3. Running(task) \notin Parts(R[k]) /\ Running(task) # <<R[k].from, R[k].to>>
        BY RunningIsNoPart
      <4> QED BY <2>3, <2>5, <4>1, <4>2, <4>3
    <3> QED BY <3>1, <3>2
  <2>7. PICK s : s = runs[c]
    OBVIOUS
  <2>8. merging[c] /\ Len(s) % 2 = 0 => <<s[Len(s) - 1], s[Len(s)]>> \in new
    <3>1. Running(task) # <<s[Len(s) - 1], s[Len(s)]>>
      BY RunningIsNoPart
    <3> QED BY <1>12, <1>15, <2>5, <2>7, <3>1 DEF CallerInv, InOrder
  <2> QED BY <1>3, <1>14, <1>15, <2>1, <2>6, <2>7, <2>8 DEF InOrder
<1>17. Complete(c)'
  <2>1. ~(at[c] = "done" /\ Joins(c))
    BY <1>2, <1>5, OutstandingInRound
  <2> QED BY <1>3, <2>1 DEF Complete, Joins
<1>18. ASSUME NEW d \in Callers, d # c PROVE CallerInv(d)' /\ Complete(d)'
  <2>1. ordered'[d] = ordered[d]
    BY <1>0, <1>4, <1>18 DEF PoolTypeOK
  <2>2. SameFor(d)
    BY <1>2, <1>3, <1>7, <1>13, <1>18, <2>1 DEF SameFor
  <2> QED BY <2>2, Elsewhere DEF PoolInv
<1> QED
  BY <1>9, <1>10, <1>11, <1>14, <1>16, <1>17, <1>18 DEF PoolInv, CallerInv

\* The bounds that a round leaves.
Rest(c) == IF merging[c] THEN Merged(c) ELSE runs[c]

\* When all futures of a round are obtained no task of the caller is left, each
\* run that the round leaves is in order, and every task issued was within one.
RoundDone(c) ==
    /\ Covers(Rest(c), call[c].count) /\ Len(Rest(c)) > 1
    /\ \A task \in Outstanding : task.caller # c
    /\ \A task \in Issued : task.caller = c =>
            \E j \in 1..(Len(Rest(c)) - 1) :
                Rest(c)[j] <= task.from /\ task.to <= Rest(c)[j + 1]
    /\ \A j \in 1..(Len(Rest(c)) - 1) : <<Rest(c)[j], Rest(c)[j + 1]>> \in ordered[c]

LEMMA RoundLeaves ==
    ASSUME PoolInv, NEW c \in Callers, Joins(c), at[c] = "join", joined[c] = Len(Round(c))
    PROVE  RoundDone(c)
<1>0. PoolTypeOK /\ Once /\ CallerInv(c) /\ Within(c)
  BY DEF PoolInv, Within
<1>1. PICK R, s, m, count, done :
        /\ R = Round(c) /\ s = runs[c] /\ m = merging[c] /\ count = call[c].count
        /\ done = ordered[c]
  OBVIOUS
<1>2. Covers(s, count) /\ Len(s) > 2 /\ m \in BOOLEAN /\ s \in Seq(Nat)
  BY <1>0, <1>1 DEF CallerInv, Bounded, Covers, PoolTypeOK
<1>3. R = RoundOf(c, s, m)
  BY <1>1, RoundIs
<1>4. index[c] = Len(R) /\ \A i \in 1..Len(R) : R[i] \in ran \ thrown
  BY <1>0, <1>1 DEF CallerInv, Counted, Awaited
<1>5. \A task \in Outstanding : task.caller # c
  BY <1>0, <1>1, <1>4 DEF CallerInv, Awaited, Once
<1>6. \A i \in 1..Len(R) : <<R[i].from, R[i].to>> \in done
  BY <1>0, <1>1, <1>4 DEF CallerInv, InOrder
<1>7. \A task \in Issued : task.caller = c =>
        \/ \E i \in 1..Len(R) : task = R[i]
        \/ m /\ \E j \in 1..(Len(s) - 1) : s[j] <= task.from /\ task.to <= s[j + 1]
  BY <1>0, <1>1, <1>4 DEF CallerInv, Known
<1>8. Len(s) \in Nat /\ \A i \in 1..Len(s) : s[i] \in Nat
  BY <1>2, LenProperties, ElementOfSeq
<1>9. Issued \subseteq Task
  <2>1. Queued \subseteq Task
    BY <1>0, ElementOfSeq DEF PoolTypeOK, Queued
  <2>2. Taken \subseteq Task
    BY <1>0 DEF PoolTypeOK, Taken
  <2> QED BY <1>0, <2>1, <2>2 DEF PoolTypeOK, Issued, Outstanding
<1>10. CASE m
  <2>1. PICK t : t = MergedOf(s)
    OBVIOUS
  <2>2. Rest(c) = t
    BY <1>1, <1>10, <2>1, MergedIs DEF Rest
  <2>3. Covers(t, count) /\ Len(t) > 1
    BY <1>2, <2>1, MergedCovers
  <2>4. R = RoundOf(c, s, TRUE)
    <3>1. m = TRUE
      BY <1>2, <1>10
    <3> QED BY <1>3, <3>1
  <2>5. /\ \A j \in 1..(Len(t) - 1) :
            \/ j \in 1..Len(R) /\ t[j] = R[j].from /\ t[j + 1] = R[j].to
            \/ Len(s) % 2 = 0 /\ t[j] = s[Len(s) - 1] /\ t[j + 1] = s[Len(s)]
        /\ \A j \in 1..Len(R) :
            j \in 1..(Len(t) - 1) /\ t[j] = R[j].from /\ t[j + 1] = R[j].to
        /\ \A j \in 1..(Len(s) - 1) :
            \E k \in 1..(Len(t) - 1) : t[k] <= s[j] /\ s[j + 1] <= t[k + 1]
    BY <1>2, <2>1, <2>4, MergedRuns, ZenonT(40)
  <2>6. Len(s) % 2 = 0 => <<s[Len(s) - 1], s[Len(s)]>> \in done
    BY <1>0, <1>1, <1>10 DEF CallerInv, InOrder
  <2>7. ASSUME NEW j \in 1..(Len(t) - 1) PROVE <<t[j], t[j + 1]>> \in done
    <3>1. CASE j \in 1..Len(R) /\ t[j] = R[j].from /\ t[j + 1] = R[j].to
      BY <1>6, <3>1
    <3>2. CASE Len(s) % 2 = 0 /\ t[j] = s[Len(s) - 1] /\ t[j + 1] = s[Len(s)]
      BY <2>6, <3>2
    <3> QED BY <2>5, <3>1, <3>2
  <2>8. Len(t) \in Nat /\ \A i \in 1..Len(t) : t[i] \in Nat
    BY <2>3, LenProperties, ElementOfSeq DEF Covers
  <2>9. ASSUME NEW task \in Issued, task.caller = c
        PROVE  \E j \in 1..(Len(t) - 1) : t[j] <= task.from /\ task.to <= t[j + 1]
    <3>0. task.from \in Nat /\ task.to \in Nat
      BY <1>9 DEF Task
    <3>1. CASE \E i \in 1..Len(R) : task = R[i]
      <4>1. PICK i \in 1..Len(R) : task = R[i]
        BY <3>1
      <4>2. i \in 1..(Len(t) - 1) /\ t[i] = task.from /\ t[i + 1] = task.to
        BY <2>5, <4>1
      <4> QED BY <3>0, <4>2
    <3>2. CASE \E j \in 1..(Len(s) - 1) : s[j] <= task.from /\ task.to <= s[j + 1]
      <4>1. PICK j \in 1..(Len(s) - 1) : s[j] <= task.from /\ task.to <= s[j + 1]
        BY <3>2
      <4>2. PICK k \in 1..(Len(t) - 1) : t[k] <= s[j] /\ s[j + 1] <= t[k + 1]
        BY <2>5
      <4>3. s[j] \in Nat /\ s[j + 1] \in Nat /\ t[k] \in Nat /\ t[k + 1] \in Nat
        <5>1. j \in 1..Len(s) /\ j + 1 \in 1..Len(s) /\ k \in 1..Len(t) /\ k + 1 \in 1..Len(t)
          BY <1>8, <2>8
        <5> QED BY <1>8, <2>8, <5>1
      <4>4. t[k] <= task.from /\ task.to <= t[k + 1]
        BY <3>0, <4>1, <4>2, <4>3, SMTT(30)
      <4> QED BY <4>4
    <3> QED BY <1>7, <2>9, <3>1, <3>2
  <2> QED BY <1>1, <1>5, <2>2, <2>3, <2>7, <2>9 DEF RoundDone
<1>11. CASE ~m
  <2>1. Rest(c) = s
    BY <1>1, <1>11 DEF Rest
  <2>2. R = RoundOf(c, s, FALSE)
    <3>1. m = FALSE
      BY <1>2, <1>11
    <3> QED BY <1>3, <3>1
  <2>3. Len(R) = Len(s) - 1 /\ \A i \in 1..Len(R) : R[i] = ChunkTask(c, s, i)
    <3>1. Len(s) > 0
      BY <1>2, <1>8
    <3> QED BY <1>2, <2>2, <3>1, ChunkRound
  <2>4. \A i \in 1..(Len(s) - 1) : R[i].from = s[i] /\ R[i].to = s[i + 1]
    <3>1. \A i : ChunkTask(c, s, i).from = s[i] /\ ChunkTask(c, s, i).to = s[i + 1]
      BY DEF ChunkTask
    <3> QED BY <2>3, <3>1
  <2>5. \A j \in 1..(Len(s) - 1) : <<s[j], s[j + 1]>> \in done
    BY <1>6, <2>3, <2>4
  <2>6. ASSUME NEW task \in Issued, task.caller = c
        PROVE  \E j \in 1..(Len(s) - 1) : s[j] <= task.from /\ task.to <= s[j + 1]
    <3>0. task.from \in Nat /\ task.to \in Nat
      BY <1>9 DEF Task
    <3>1. PICK i \in 1..(Len(s) - 1) : task = R[i]
      BY <1>7, <1>11, <2>3, <2>6
    <3>2. s[i] = task.from /\ s[i + 1] = task.to
      BY <2>4, <3>1
    <3> QED BY <3>0, <3>2
  <2>7. Len(s) > 1
    BY <1>2, <1>8
  <2> QED BY <1>1, <1>2, <1>5, <2>1, <2>5, <2>6, <2>7 DEF RoundDone
<1> QED
  BY <1>2, <1>10, <1>11

LEMMA RoundEndsStep ==
    ASSUME PoolInv, NEW c \in Callers, RoundEnds(c)
    PROVE  PoolInv'
<1>0. /\ UNCHANGED <<tasks_, stopped_, worker, job, call, ran, thrown, ordered>>
      /\ at[c] = "join" /\ joined[c] = Len(Round(c))
      /\ index' = [index EXCEPT ![c] = 0]
      /\ joined' = [joined EXCEPT ![c] = 0]
  BY DEF RoundEnds, pool, futures
<1>1. PICK rest, more :
        /\ rest = Rest(c) /\ more \in BOOLEAN
        /\ more <=> call[c].kind = "sort" /\ Len(rest) > 2
        /\ at' = [at EXCEPT ![c] = IF more THEN "fork" ELSE "done"]
        /\ merging' = [merging EXCEPT ![c] = @ \/ more]
        /\ runs' = [runs EXCEPT ![c] = rest]
  <2> DEFINE more == call[c].kind = "sort" /\ Len(Rest(c)) > 2
  <2>1. more \in BOOLEAN
    OBVIOUS
  <2>2. /\ at' = [at EXCEPT ![c] = IF more THEN "fork" ELSE "done"]
        /\ merging' = [merging EXCEPT ![c] = @ \/ more]
        /\ runs' = [runs EXCEPT ![c] = Rest(c)]
    BY Zenon DEF RoundEnds, Rest
  <2> QED BY <2>1, <2>2
<1>2. PoolTypeOK /\ CallerInv(c) /\ Within(c)
  BY <1>0 DEF PoolInv, Within
<1>3. PICK s, count, m, n : s = runs[c] /\ count = call[c].count /\ m = merging[c] /\ n = Len(rest)
  OBVIOUS
<1>4. ~Joins(c) => rest = s
  BY <1>1, <1>2, <1>3 DEF CallerInv, Bounded, Joins, Rest
<1>5. Joins(c) =>
        /\ Covers(rest, count) /\ n > 1 /\ n \in Nat
        /\ \A task \in Outstanding : task.caller # c
        /\ \A task \in Issued : task.caller = c =>
            \E j \in 1..(n - 1) : rest[j] <= task.from /\ task.to <= rest[j + 1]
        /\ \A j \in 1..(n - 1) : <<rest[j], rest[j + 1]>> \in ordered[c]
  <2> SUFFICES ASSUME Joins(c) PROVE
        /\ Covers(rest, count) /\ n > 1 /\ n \in Nat
        /\ \A task \in Outstanding : task.caller # c
        /\ \A task \in Issued : task.caller = c =>
            \E j \in 1..(n - 1) : rest[j] <= task.from /\ task.to <= rest[j + 1]
        /\ \A j \in 1..(n - 1) : <<rest[j], rest[j + 1]>> \in ordered[c]
    OBVIOUS
  <2>1. RoundDone(c)
    BY <1>0, RoundLeaves
  <2>2. Covers(rest, count) => n \in Nat
    BY <1>3, LenProperties DEF Covers
  <2> QED BY <1>1, <1>3, <2>1, <2>2 DEF RoundDone
<1>6. rest \in Seq(Nat) /\ Increasing(rest)
  BY <1>2, <1>3, <1>4, <1>5 DEF Covers, PoolTypeOK, CallerInv, Bounded
<1>7. /\ at'[c] = (IF more THEN "fork" ELSE "done")
      /\ runs'[c] = rest /\ index'[c] = 0 /\ joined'[c] = 0
      /\ merging'[c] = (m \/ more)
  BY <1>0, <1>1, <1>2, <1>3 DEF PoolTypeOK
<1>8. PoolTypeOK'
  BY <1>0, <1>1, <1>2, <1>6 DEF PoolTypeOK
<1>9. /\ Outstanding' = Outstanding /\ Issued' = Issued /\ Taken' = Taken
      /\ Joins(c)' = Joins(c)
  BY <1>0 DEF Outstanding, Issued, Queued, Taken, Joins
<1>10. CASE more
  <2>1. /\ Joins(c) /\ call[c].kind = "sort" /\ n > 2 /\ at'[c] = "fork" /\ merging'[c] = TRUE
        /\ Within(c)'
    BY <1>1, <1>3, <1>7, <1>10 DEF Joins, Within
  <2>2. Bounded(c)'
    BY <1>0, <1>3, <1>5, <1>7, <2>1 DEF Bounded, Covers, Increasing
  <2>3. (PoolTypeOK /\ Bounded(c) /\ Within(c) => OwnTasks(c))'
    BY RoundOwn, PTL
  <2>4. PICK R : R = Round(c)'
    OBVIOUS
  <2>5. R = RoundOf(c, rest, TRUE)
    <3>1. Round(c)' = RoundOf(c, runs'[c], merging'[c])
      BY Zenon DEF Round, RoundOf, MergeTask, ChunkTask
    <3> QED BY <1>7, <2>1, <2>4, <3>1
  <2>6. rest \in Seq(Nat) /\ Len(rest) > 0
    BY <1>3, <1>5, <2>1 DEF Covers
  <2>7. /\ R \in Seq(Task)
        /\ \A i \in 1..Len(R) :
            /\ R[i] = MergeTask(c, rest, i)
            /\ 2 * i - 1 \in 1..n /\ 2 * i \in 1..n /\ 2 * i + 1 \in 1..n
    BY <1>3, <2>5, <2>6, MergeRound
  <2>8. Len(R) \in Nat
    BY <2>7, LenProperties
  <2>9. Counted(c)'
    BY <1>7, <2>1, <2>4, <2>8 DEF Counted
  <2>10. Known(c)'
    BY <1>3, <1>5, <1>7, <1>9, <2>1 DEF Known
  <2>11. Awaited(c)'
    BY <1>5, <1>7, <1>9, <2>1 DEF Awaited
  <2>12. ASSUME NEW i \in 1..Len(R) PROVE R[i] \notin Taken \union ran
    <3>1. R[i].caller = c
      BY <1>8, <2>1, <2>2, <2>3, <2>4 DEF OwnTasks
    <3>2. \A j \in 1..(n - 1) : ~(rest[j] <= R[i].from /\ R[i].to <= rest[j + 1])
      BY <1>3, <1>6, <2>5, <2>6, MergesApart
    <3>3. R[i] \notin Issued
      BY <1>5, <2>1, <3>1, <3>2
    <3> QED BY <3>3 DEF Issued, Outstanding
  <2>13. ASSUME NEW i \in 1..Len(R) PROVE Parts(R[i]) \subseteq ordered[c]
    <3>1. 2 * i - 1 \in 1..(n - 1) /\ 2 * i \in 1..(n - 1) /\ (2 * i - 1) + 1 = 2 * i
      BY <1>5, <2>1, <2>7
    <3>2. <<rest[2 * i - 1], rest[2 * i]>> \in ordered[c] /\ <<rest[2 * i], rest[2 * i + 1]>> \in ordered[c]
      BY <1>5, <2>1, <3>1
    <3>3. R[i] = MergeTask(c, rest, i)
      BY <2>7
    <3>4. Parts(R[i]) = {<<rest[2 * i - 1], rest[2 * i]>>, <<rest[2 * i], rest[2 * i + 1]>>}
      BY <3>3 DEF MergeTask, Parts
    <3> QED BY <3>2, <3>4
  <2>14. <<rest[n - 1], rest[n]>> \in ordered[c]
    <3>1. n - 1 \in 1..(n - 1) /\ (n - 1) + 1 = n
      BY <1>5, <2>1
    <3> QED BY <1>5, <2>1, <3>1
  <2>15. InOrder(c)'
    BY <1>0, <1>3, <1>7, <1>9, <2>4, <2>12, <2>13, <2>14 DEF InOrder
  <2>16. Complete(c)'
    BY <2>1 DEF Complete
  <2> QED BY <2>2, <2>9, <2>10, <2>11, <2>15, <2>16, <1>0, <1>1, <1>2, <1>8, CallerOnly
          DEF CallerInv, PoolTypeOK
<1>11. CASE ~more
  <2>1. at'[c] = "done" /\ ~Within(c)'
    BY <1>7, <1>11 DEF Within
  <2>2. Bounded(c)' /\ Counted(c)' /\ Known(c)' /\ InOrder(c)'
    BY <1>6, <1>7, <2>1 DEF Bounded, Counted, Known, InOrder, Increasing
  <2>3. Awaited(c)'
    BY <1>5, <1>9, <2>1 DEF Awaited
  <2>4. Complete(c)'
    <3> SUFFICES ASSUME Joins(c)
                 PROVE  /\ \A e \in 0..(count - 1) :
                            \E r \in ordered[c] : Len(r) = 2 /\ r[1] <= e /\ e < r[2]
                        /\ call[c].kind = "sort" => <<0, count>> \in ordered[c]
      BY <1>0, <1>3 DEF Complete, Joins
    <3>1. rest[1] = 0 /\ rest[n] = count /\ rest \in Seq(Nat) /\ Len(rest) > 0 /\ n = Len(rest)
      BY <1>3, <1>5 DEF Covers
    <3>2. count \in Nat
      <4>1. call[c] \in [kind : {"submit", "each", "sort"}, count : Nat, floor : Nat \ {0}]
        BY <1>2, PoolAssumption DEF PoolTypeOK
      <4> QED BY <1>3, <4>1
    <3>3. ASSUME NEW e \in 0..(count - 1)
          PROVE  \E r \in ordered[c] : Len(r) = 2 /\ r[1] <= e /\ e < r[2]
      <4>1. e \in Nat /\ rest[1] <= e /\ e < rest[Len(rest)]
        BY <3>1, <3>2
      <4>2. PICK i \in 1..(n - 1) : rest[i] <= e /\ e < rest[i + 1]
        BY <3>1, <4>1, FirstAbove
      <4>3. PICK r : r = <<rest[i], rest[i + 1]>>
        OBVIOUS
      <4>4. Len(r) = 2 /\ r[1] = rest[i] /\ r[2] = rest[i + 1]
        BY <4>3
      <4>5. r \in ordered[c]
        BY <1>5, <4>3
      <4> QED BY <4>2, <4>4, <4>5
    <3>4. ASSUME call[c].kind = "sort" PROVE <<0, count>> \in ordered[c]
      <4>1. n = 2
        BY <1>1, <1>3, <1>5, <1>11, <3>4
      <4>2. 1 \in 1..(n - 1) /\ 1 + 1 = 2
        BY <4>1
      <4>3. <<rest[1], rest[2]>> \in ordered[c]
        BY <1>5, <4>2
      <4> QED BY <3>1, <4>1, <4>3
    <3> QED BY <3>3, <3>4
  <2> QED BY <2>2, <2>3, <2>4, <1>0, <1>1, <1>2, <1>8, CallerOnly DEF CallerInv, PoolTypeOK
<1> QED
  BY <1>1, <1>10, <1>11

LEMMA PoolStep ==
    ASSUME PoolInv, [Next]_vars
    PROVE  PoolInv'
<1>1. ASSUME NEW w \in Workers, work(w) \/ Spurious(w) PROVE PoolInv'
  BY <1>1, WorkerSteps, TakeStep, FinishStep DEF work
<1>2. ASSUME NEW c \in Callers, Step(c) PROVE PoolInv'
  BY <1>2, BeginStep, SubmitStep, ForkedStep, GetStep, RoundEndsStep DEF Step
<1> QED
  BY <1>1, <1>2, WorkerSteps DEF Next, Destroyed

-------------------------------------------------------------------------------
(* What the runs check, for any workers, callers and calls.                *)

LEMMA PoolAlways == Spec => []PoolInv
<1>1. Init => PoolInv
  BY PoolInitially
<1>2. PoolInv /\ [Next]_vars => PoolInv'
  BY PoolStep
<1> QED
  BY <1>1, <1>2, PTL DEF Spec

\* When a call returns every element of its range is processed, and after a sort
\* the whole range is in order, whatever the count, the floor and the number of
\* workers, and whichever tasks of other calls throw (bounds, chunked, sort).
THEOREM ResultsComplete == Spec => []ResultComplete
<1>1. PoolInv => ResultComplete
  BY DEF PoolInv, Complete, ResultComplete
<1> QED
  BY <1>1, PoolAlways, PTL

\* A task is never queued twice, run by two workers, or queued again when it has
\* run: each is popped by one worker (work, submit).
THEOREM TasksRunOnce == Spec => []Once
<1>1. PoolInv => Once
  BY DEF PoolInv
<1> QED
  BY <1>1, PoolAlways, PTL

\* As long as no exception has left a call, a call returns only when none of its
\* tasks is queued or runs any more (chunked, sort).  A call that an exception
\* leaves does not wait, which is what the run pool_throw shows.
THEOREM WaitsUnlessThrown ==
    Spec => []((\A c \in Callers : at[c] # "threw") => WaitsForAll)
<1>1. PoolInv => ((\A c \in Callers : at[c] # "threw") => WaitsForAll)
  <2> SUFFICES ASSUME PoolInv, NEW c \in Callers, at[c] # "threw", Left(c), Joins(c)
               PROVE  \A task \in Outstanding : task.caller # c
    BY DEF WaitsForAll, Joins, Outstanding
  <2>1. at[c] = "done"
    BY DEF Left
  <2> QED BY <2>1 DEF PoolInv, CallerInv, Awaited
<1> QED
  BY <1>1, PoolAlways, PTL

LEMMA WorkerSets ==
    /\ Awake \subseteq Workers /\ IsFiniteSet(Awake) /\ Cardinality(Awake) \in Nat
<1>1. Awake \subseteq Workers
  BY DEF Awake
<1> QED
  BY <1>1, PoolAssumption, FS_Subset, FS_CardinalityType

LEMMA WorkerSetsNext == (IsFiniteSet(Awake) /\ Cardinality(Awake) \in Nat)'
  BY WorkerSets, PTL

LEMMA NotifyEnough ==
    ASSUME PoolInv, NoIdleWorker, [Next]_vars
    PROVE  NoIdleWorker'
<1>0. PoolTypeOK /\ Distinct(tasks_)
  BY DEF PoolInv, Once
<1>1. tasks_ \in Seq(Task) /\ Len(tasks_) \in Nat /\ Len(<<>>) = 0
  BY <1>0, LenProperties, EmptySeq DEF PoolTypeOK
<1>2. worker \in [Workers -> {"awake", "asleep", "run", "exit"}]
  BY <1>0 DEF PoolTypeOK
<1>3. /\ IsFiniteSet(Awake) /\ Cardinality(Awake) \in Nat
      /\ IsFiniteSet(Awake') /\ Cardinality(Awake') \in Nat
  BY WorkerSets, WorkerSetsNext
\* As many tasks as before, and no worker fewer for them.
<1>4. ASSUME Awake \subseteq Awake', Asleep' \subseteq Asleep, tasks_' = tasks_
      PROVE  NoIdleWorker'
  <2>1. Cardinality(Awake) <= Cardinality(Awake')
    BY <1>3, <1>4, FS_Subset
  <2> QED BY <1>1, <1>3, <1>4, <2>1 DEF NoIdleWorker
<1>5. ASSUME tasks_' = <<>> PROVE NoIdleWorker'
  BY <1>1, <1>3, <1>5 DEF NoIdleWorker
<1>6. ASSUME NEW w \in Workers, work(w) \/ Spurious(w) PROVE NoIdleWorker'
  <2>1. CASE Sleep(w) \/ Exit(w)
    BY <1>5, <2>1 DEF Sleep, Exit
  <2>2. CASE Take(w)
    <3>1. Awake' = Awake \ {w} /\ w \in Awake /\ Asleep' = Asleep
      BY <1>2, <2>2 DEF Take, Awake, Asleep
    <3>2. Cardinality(Awake') = Cardinality(Awake) - 1
      BY <1>3, <3>1, FS_RemoveElement
    <3>3. Len(tasks_) = Len(tasks_') + 1 /\ Len(tasks_') \in Nat
      <4>1. tasks_ # <<>> /\ tasks_' = Tail(tasks_)
        BY <2>2 DEF Take
      <4> QED BY <1>0, <1>1, <4>1, ItemsTail
    <3> QED BY <1>1, <1>3, <3>1, <3>2, <3>3 DEF NoIdleWorker
  <2>3. CASE Finish(w)
    <3>1. Awake \subseteq Awake' /\ Asleep' \subseteq Asleep /\ tasks_' = tasks_
      BY <1>2, <2>3 DEF Finish, Awake, Asleep
    <3> QED BY <1>4, <3>1
  <2>4. CASE Spurious(w)
    <3>1. Awake \subseteq Awake' /\ Asleep' \subseteq Asleep /\ tasks_' = tasks_
      BY <1>2, <2>4 DEF Spurious, Awake, Asleep
    <3> QED BY <1>4, <3>1
  <2> QED BY <1>6, <2>1, <2>2, <2>3, <2>4 DEF work
<1>7. ASSUME NEW c \in Callers, submit(c) PROVE NoIdleWorker'
  <2>1. CASE Asleep = {} /\ worker' = worker
    BY <2>1 DEF NoIdleWorker, Asleep
  <2>2. CASE \E v \in Asleep : worker' = [worker EXCEPT ![v] = "awake"]
    <3>1. PICK v \in Asleep : worker' = [worker EXCEPT ![v] = "awake"]
      BY <2>2
    <3>2. v \notin Awake /\ Awake' = Awake \union {v}
      BY <1>2, <3>1 DEF Awake, Asleep
    <3>3. Cardinality(Awake') = Cardinality(Awake) + 1
      BY <1>3, <3>2, FS_AddElement
    <3>4. Len(tasks_') = Len(tasks_) + 1
      <4>1. at[c] = "fork" /\ index[c] < Len(Round(c)) /\ CallerInv(c)
        BY <1>7 DEF submit, PoolInv
      <4>2. Round(c)[index[c] + 1] \in Task
        BY <1>0, <4>1, NextIsFresh
      <4>3. tasks_' = Append(tasks_, Round(c)[index[c] + 1])
        BY <1>7 DEF submit
      <4> QED BY <1>1, <4>2, <4>3, ItemsAppend
    <3>5. Asleep # {}
      BY <3>1
    <3> QED BY <1>1, <1>3, <3>3, <3>4, <3>5 DEF NoIdleWorker
  <2> QED BY <1>7, <2>1, <2>2 DEF submit, notify_one
<1>8. ASSUME UNCHANGED <<tasks_, worker>> PROVE NoIdleWorker'
  BY <1>8 DEF NoIdleWorker, Asleep, Awake
<1>9. ASSUME NEW c \in Callers, Step(c) PROVE NoIdleWorker'
  <2>1. CASE submit(c)
    BY <1>7, <2>1
  <2>2. CASE Begin(c) \/ Forked(c) \/ Get(c) \/ RoundEnds(c)
    <3>1. UNCHANGED pool
      BY <2>2 DEF Begin, Forked, Get, RoundEnds
    <3> QED BY <1>8, <3>1 DEF pool
  <2> QED BY <1>9, <2>1, <2>2 DEF Step
<1>10. CASE Stop
  <2>1. Asleep' = {}
    BY <1>2, <1>10 DEF Stop, Asleep
  <2> QED BY <2>1 DEF NoIdleWorker
<1>11. CASE Join \/ Destroyed \/ UNCHANGED vars
  BY <1>8, <1>11 DEF Join, Destroyed, vars, pool
<1> QED
  BY <1>6, <1>9, <1>10, <1>11 DEF Next

\* A worker sleeps only if each queued task has an awake worker of its own, for
\* any number of workers and callers: no notification of submit is lost, though
\* a worker may be between its task and the wait (submit, work).
THEOREM NoIdle == Spec => []NoIdleWorker
<1>1. Init => NoIdleWorker
  <2> SUFFICES ASSUME Init PROVE NoIdleWorker
    OBVIOUS
  <2>1. Asleep = {}
    BY DEF Init, Asleep
  <2> QED BY <2>1 DEF NoIdleWorker
<1>2. PoolInv /\ NoIdleWorker /\ [Next]_vars => NoIdleWorker'
  BY NotifyEnough
<1> QED
  BY <1>1, <1>2, PoolAlways, PTL DEF Spec
===============================================================================
