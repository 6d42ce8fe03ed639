------------------------ MODULE SignatureCaptureProofs ------------------------
(***************************************************************************)
(* Proofs about BatchVerify and SignatureCapture, for any blocks, threads, *)
(* chunk sizes and numbers of rows.                                        *)
(***************************************************************************)
EXTENDS SignatureCapture, FiniteSetTheorems, SequenceTheorems,
        NaturalsInduction, WellFoundedInduction, TLAPS

-------------------------------------------------------------------------------
(* Numbers.                                                                *)

\* A set with zero and the successor of each of its numbers has every number.
LEMMA SuccessorsFill ==
    ASSUME NEW S, 0 \in S, \A n \in Nat : n \in S => n + 1 \in S
    PROVE  Nat \subseteq S
<1> DEFINE T == Nat \ S
<1> SUFFICES ASSUME T # {} PROVE FALSE
  OBVIOUS
<1>1. T \subseteq Nat
  OBVIOUS
<1>2. PICK n \in T : \A m \in T : ~(<<m, n>> \in OpToRel(<, Nat))
  <2> HIDE DEF T
  <2> QED BY <1>1, NatLessThanWellFounded, WFMin
<1>3. \A m \in T : ~(m < n)
  BY <1>1, <1>2 DEF OpToRel
<1>4. n \in Nat /\ n # 0 /\ n - 1 \in Nat /\ n - 1 < n /\ (n - 1) + 1 = n
  OBVIOUS
<1>5. n - 1 \in S
  BY <1>3, <1>4
<1> QED
  BY <1>4, <1>5

LEMMA Ordered ==
    ASSUME NEW k \in Nat, NEW a \in Int, NEW b \in Int, a <= b
    PROVE  a * k <= b * k
  OBVIOUS

LEMMA DividedBy ==
    ASSUME NEW a \in Nat, NEW k \in Nat \ {0}
    PROVE  /\ a \div k \in Nat
           /\ (a \div k) * k <= a
           /\ a < (a \div k) * k + k
           /\ a % k \in 0..(k - 1)
  OBVIOUS

\* Every row is in a chunk: the chunks are as many as their ceiling says.
LEMMA ChunkOf ==
    ASSUME NEW n \in Nat, NEW k \in Nat \ {0}, NEW i \in 1..n
    PROVE  (i - 1) \div k + 1 \in 1..ceilinged_divide(n, k)
<1> DEFINE q == (i - 1) \div k
           p == (n + k - 1) \div k
<1>1. i - 1 \in Nat /\ n + k - 1 \in Nat
  OBVIOUS
<1>2. q \in Nat /\ q * k <= i - 1
  BY <1>1, DividedBy
<1>3. p \in Nat /\ n + k - 1 < p * k + k
  BY <1>1, DividedBy
<1>4. ASSUME p <= q PROVE FALSE
  <2>1. p * k <= q * k
    BY <1>2, <1>3, <1>4, Ordered
  <2> DEFINE x == p * k
             y == q * k
  <2>2. x \in Nat /\ y \in Nat
    BY <1>2, <1>3
  <2>3. x <= y /\ y <= i - 1 /\ n + k - 1 < x + k
    BY <1>2, <1>3, <2>1
  <2> HIDE DEF x, y
  <2> QED BY <2>2, <2>3
<1>5. ceilinged_divide(n, k) = p
  BY DEF ceilinged_divide
<1> HIDE DEF p, q
<1>6. q + 1 \in 1..p
  BY <1>2, <1>3, <1>4
<1> QED
  BY <1>5, <1>6 DEF q

-------------------------------------------------------------------------------
(* Sequences.                                                              *)

LEMMA FunctionIsSeq ==
    ASSUME NEW S, NEW k \in Int, NEW f, f = [i \in 1..k |-> f[i]],
           \A i \in 1..k : f[i] \in S
    PROVE  f \in Seq(S)
<1>1. CASE k >= 0
  <2>1. k \in Nat /\ f \in [1..k -> S]
    BY <1>1
  <2> QED BY <2>1, SeqDef
<1>2. CASE k < 0
  <2>1. 1..k = 1..0
    BY <1>2
  <2>2. f \in [1..0 -> S] /\ 0 \in Nat
    BY <2>1
  <2> QED BY <2>2, SeqDef
<1> QED
  BY <1>1, <1>2

\* What flatten is given the sequences before (FlattenSeq).
FlatFrom(f, seqs) ==
    [i \in 1..Len(seqs) |-> IF i = 1 THEN seqs[i] ELSE f[i - 1] \o seqs[i]]

LEMMA FlatIs ==
    ASSUME NEW S, NEW seqs \in Seq(Seq(S))
    PROVE  LET f == CHOOSE f : f = FlatFrom(f, seqs)
           IN  f = FlatFrom(f, seqs) /\ \A i \in 1..Len(seqs) : f[i] \in Seq(S)
<1>0. Len(seqs) \in Nat /\ \A i \in 1..Len(seqs) : seqs[i] \in Seq(S)
  BY LenProperties, ElementOfSeq
<1> DEFINE Flat(f, n) == [i \in 1..n |-> IF i = 1 THEN seqs[i] ELSE f[i - 1] \o seqs[i]]
           X == {n \in Nat : \E f : f = Flat(f, n)}
           f == CHOOSE f : f = FlatFrom(f, seqs)
<1>1. 0 \in X
  <2> DEFINE g == [i \in 1..0 |-> 0]
  <2>1. g = Flat(g, 0)
    OBVIOUS
  <2> QED BY <2>1
<1>2. ASSUME NEW n \in Nat, n \in X PROVE n + 1 \in X
  <2>1. PICK h : h = Flat(h, n)
    BY <1>2
  <2> DEFINE g == [i \in 1..(n + 1) |->
                    IF i <= n THEN h[i] ELSE IF i = 1 THEN seqs[i] ELSE h[i - 1] \o seqs[i]]
  <2>2. \A i \in 1..n : h[i] = IF i = 1 THEN seqs[i] ELSE h[i - 1] \o seqs[i]
    BY <2>1
  <2>3. ASSUME NEW i \in 1..(n + 1)
        PROVE  g[i] = IF i = 1 THEN seqs[i] ELSE g[i - 1] \o seqs[i]
    <3>1. g[i] = IF i <= n THEN h[i] ELSE IF i = 1 THEN seqs[i] ELSE h[i - 1] \o seqs[i]
      OBVIOUS
    <3>2. g[i] = IF i = 1 THEN seqs[i] ELSE h[i - 1] \o seqs[i]
      BY <2>2, <3>1
    <3>3. i # 1 => i - 1 \in 1..(n + 1) /\ i - 1 <= n
      OBVIOUS
    <3>4. i # 1 => g[i - 1] = h[i - 1]
      BY <3>3
    <3> HIDE DEF g
    <3> QED BY <3>2, <3>4
  <2>4. g = [i \in 1..(n + 1) |-> g[i]]
    OBVIOUS
  <2>5. g = Flat(g, n + 1)
    <3> HIDE DEF g
    <3> QED BY <2>3, <2>4
  <2>6. n + 1 \in Nat
    OBVIOUS
  <2> HIDE DEF g, Flat
  <2>7. \E k : k = Flat(k, n + 1)
    BY <2>5
  <2> QED BY <2>6, <2>7
<1>3. Nat \subseteq X
  <2> HIDE DEF X
  <2> QED BY <1>1, <1>2, SuccessorsFill
<1>4. \E g : g = FlatFrom(g, seqs)
  <2>1. PICK g : g = Flat(g, Len(seqs))
    BY <1>0, <1>3
  <2> QED BY <2>1 DEF FlatFrom
<1>5. f = FlatFrom(f, seqs)
  BY <1>4
<1>6. \A i \in 1..Len(seqs) : f[i] = IF i = 1 THEN seqs[i] ELSE f[i - 1] \o seqs[i]
  <2> HIDE DEF f
  <2> QED BY <1>5 DEF FlatFrom
<1> HIDE DEF f
<1> DEFINE Y == {n \in Nat : n \in 1..Len(seqs) => f[n] \in Seq(S)}
<1>7. 0 \in Y
  OBVIOUS
<1>8. ASSUME NEW n \in Nat, n \in Y PROVE n + 1 \in Y
  <2> SUFFICES ASSUME n + 1 \in 1..Len(seqs) PROVE f[n + 1] \in Seq(S)
    OBVIOUS
  <2>1. (n + 1) - 1 = n /\ (n + 1 # 1 => n \in 1..Len(seqs))
    BY <1>0
  <2>2. f[n + 1] = IF n + 1 = 1 THEN seqs[n + 1] ELSE f[n] \o seqs[n + 1]
    BY <1>6, <2>1
  <2>3. seqs[n + 1] \in Seq(S)
    BY <1>0
  <2>4. n + 1 # 1 => f[n] \in Seq(S)
    BY <1>8, <2>1
  <2> QED BY <2>2, <2>3, <2>4, ConcatProperties
<1>9. Nat \subseteq Y
  <2> HIDE DEF Y
  <2> QED BY <1>7, <1>8, SuccessorsFill
<1>10. \A i \in 1..Len(seqs) : f[i] \in Seq(S)
  BY <1>9, <1>0
<1> QED
  BY <1>5, <1>10 DEF f

LEMMA FlattenIsSeq ==
    ASSUME NEW S, NEW seqs \in Seq(Seq(S))
    PROVE  FlattenSeq(seqs) \in Seq(S)
<1> DEFINE f == CHOOSE f : f = FlatFrom(f, seqs)
<1>0. Len(seqs) \in Nat
  BY LenProperties
<1>1. CASE Len(seqs) = 0
  <2>1. FlattenSeq(seqs) = seqs
    BY <1>1 DEF FlattenSeq
  <2>2. seqs = <<>>
    BY <1>1, EmptySeq
  <2> QED BY <2>1, <2>2, EmptySeq
<1>2. CASE Len(seqs) # 0
  <2>1. FlattenSeq(seqs) = f[Len(seqs)]
    BY <1>2, Zenon DEF FlattenSeq, FlatFrom
  <2>2. Len(seqs) \in 1..Len(seqs)
    BY <1>0, <1>2
  <2>3. \A i \in 1..Len(seqs) : f[i] \in Seq(S)
    BY FlatIs
  <2> HIDE DEF f
  <2> QED BY <2>1, <2>2, <2>3
<1> QED
  BY <1>1, <1>2

-------------------------------------------------------------------------------
(* The invariant.                                                          *)

Group == [m : Nat, n : Nat, match : SUBSET (Nat \X Nat)]
RowOf(ids) ==
    [id : ids \union {Terminal}, group : Nat, sig : Nat, key : Nat, ok : BOOLEAN]
Row == RowOf(Ids)

CaptureTypeOK ==
    /\ blocks \in BlockSets
    /\ verdict \in [Ids -> {"new", "connecting", "deferred", "valid", "invalid"}]
    /\ thread \in [Threads -> [block : Ids \union {Terminal}, input : Nat \ {0},
                               at : Nat \ {0}, count : Nat, pending : Nat]]
    /\ ecdsa \in [Threads -> Seq(Group)]
    /\ schnorr \in [Threads -> Seq(BOOLEAN)]
    /\ tables \in [Kinds -> Seq(Row)]
    /\ outstanding \in [Ids -> SUBSET Kinds]

BatchTypeOK ==
    /\ cancel \in BOOLEAN
    /\ use_gpu \in BOOLEAN
    /\ stage \in {"idle", "device", "chunks", "joined", "correlated", "returned"}
    /\ batch \in [kind : {"none", "ecdsa", "schnorr", "silent"}, rows : Seq(Row)]
    /\ failed \in BOOLEAN
    /\ written \in BOOLEAN

\* The rows that an open cursor must still meet: those of the elements from here
\* on that are not empty, and what is not empty below them.
Open(elements, at) == {i \in DOMAIN elements : i >= at /\ elements[i] # "empty"}
CursorOf(t) ==
    IsBusy(t) /\ thread[t].pending # 0 =>
        /\ HasInput(t)
        /\ Input(t).kind = "threshold"
        /\ thread[t].pending = Input(t).junk + Cardinality(Open(Input(t).elements, thread[t].at))
Cursors == \A t \in Threads : CursorOf(t)

\* What a chunk that has ended, and was not canceled, has done.
Done(c) ==
    /\ \A i \in Slice(c) : results[i] = to_int(batch.kind = "silent" \/ batch.rows[i].ok)
    /\ (\E i \in Slice(c) : ~batch.rows[i].ok) => failed

\* While rows are verified there is a chunk and a result for each of them, and
\* failed says no more than the rows do.
Chunked ==
    stage \in {"device", "chunks"} =>
        /\ chunks \in [Chunks(batch.rows) -> {"ready", "verifying", "ended"}]
        /\ results = [i \in Rows |-> results[i]]
        /\ failed => ~AllValid
        /\ ~cancel => \A c \in DOMAIN chunks : chunks[c] = "ended" => Done(c)
Untouched ==
    stage = "device" => ~failed /\ \A c \in DOMAIN chunks : chunks[c] = "ready"
Computed ==
    stage = "joined" /\ batch.kind = "silent" /\ ~cancel => \A i \in Rows : results[i] = 1

BatchInv == BatchTypeOK /\ Chunked /\ Untouched /\ Computed /\ ResultsTrue
CaptureInv == CaptureTypeOK /\ Cursors /\ BatchInv
-------------------------------------------------------------------------------
(* Rows.                                                                   *)

LEMMA BandedAreRows ==
    ASSUME NEW ids, NEW id \in ids, NEW ordinal \in Nat, NEW group \in Group
    PROVE  BandedRows(id, ordinal, group) \in Seq(RowOf(ids))
<1> DEFINE band == group.n - group.m + 1
           k == group.m * band
           f == BandedRows(id, ordinal, group)
           row(r) == LET s == (r - 1) \div band
                         key == s + ((r - 1) % band)
                     IN  [id |-> id, group |-> ordinal, sig |-> s, key |-> key,
                          ok |-> <<s, key>> \in group.match]
<1>1. group.m \in Nat /\ band \in Int
  BY DEF Group
<1>2. k \in Int
  <2> HIDE DEF band
  <2> QED BY <1>1
<1>3. f = [r \in 1..k |-> row(r)]
  BY DEF BandedRows
<1>4. ASSUME NEW r \in 1..k PROVE row(r) \in RowOf(ids)
  <2>1. r - 1 \in Nat /\ k >= 1
    BY <1>2
  <2>2. band \in Nat \ {0}
    <3> SUFFICES ASSUME band <= 0 PROVE FALSE
      BY <1>1
    <3> HIDE DEF band
    <3> DEFINE m == group.m
    <3>1. m \in Nat /\ band \in Int /\ band <= 0 /\ k = m * band
      BY <1>1
    <3> HIDE DEF m, k
    <3>2. band * m <= 0 * m
      BY <3>1, Ordered
    <3> QED BY <2>1, <3>1, <3>2
  <2> HIDE DEF band, k
  <2> DEFINE s == (r - 1) \div band
             e == (r - 1) % band
             ok == <<s, s + e>> \in group.match
  <2>3. s \in Nat /\ e \in Nat /\ s + e \in Nat
    <3>1. s \in Nat /\ e \in 0..(band - 1)
      BY <2>1, <2>2, DividedBy
    <3> HIDE DEF s, e
    <3> QED BY <2>2, <3>1
  <2>4. ok \in BOOLEAN
    OBVIOUS
  <2>5. row(r) = [id |-> id, group |-> ordinal, sig |-> s, key |-> s + e, ok |-> ok]
    OBVIOUS
  <2> HIDE DEF s, e, ok, row
  <2> QED BY <2>3, <2>4, <2>5 DEF RowOf
<1> HIDE DEF k, f, row
<1>5. f = [i \in 1..k |-> f[i]] /\ \A i \in 1..k : f[i] \in RowOf(ids)
  BY <1>3, <1>4
<1>6. f \in Seq(RowOf(ids))
  BY <1>2, <1>5, FunctionIsSeq
<1> QED
  BY <1>6 DEF f

LEMMA EcdsaAreRows ==
    ASSUME NEW ids, NEW id \in ids, NEW groups \in Seq(Group)
    PROVE  EcdsaRows(id, groups) \in Seq(RowOf(ids))
<1> DEFINE f == [g \in DOMAIN groups |-> BandedRows(id, g - 1, groups[g])]
<1>1. Len(groups) \in Nat /\ DOMAIN groups = 1..Len(groups)
      /\ \A g \in 1..Len(groups) : groups[g] \in Group
  BY LenProperties, ElementOfSeq
<1>2. ASSUME NEW g \in 1..Len(groups) PROVE f[g] \in Seq(RowOf(ids))
  <2>1. g - 1 \in Nat /\ groups[g] \in Group
    BY <1>1
  <2>2. BandedRows(id, g - 1, groups[g]) \in Seq(RowOf(ids))
    BY <2>1, BandedAreRows
  <2> QED BY <1>1, <2>2
<1>3. f = [g \in 1..Len(groups) |-> f[g]]
  BY <1>1
<1>4. EcdsaRows(id, groups) = FlattenSeq(f)
  BY DEF EcdsaRows
<1> HIDE DEF f
<1>5. f \in Seq(Seq(RowOf(ids)))
  BY <1>1, <1>2, <1>3, FunctionIsSeq
<1> QED
  BY <1>4, <1>5, FlattenIsSeq

LEMMA SchnorrAreRows ==
    ASSUME NEW ids, NEW id \in ids, NEW oks \in Seq(BOOLEAN)
    PROVE  SchnorrRows(id, oks) \in Seq(RowOf(ids))
<1> DEFINE f == SchnorrRows(id, oks)
<1>1. Len(oks) \in Nat /\ DOMAIN oks = 1..Len(oks) /\ \A r \in 1..Len(oks) : oks[r] \in BOOLEAN
  BY LenProperties, ElementOfSeq
<1>2. f = [r \in 1..Len(oks) |-> f[r]] /\ \A r \in 1..Len(oks) : f[r] \in RowOf(ids)
  BY <1>1 DEF SchnorrRows, RowOf
<1> HIDE DEF f
<1>3. f \in Seq(RowOf(ids))
  BY <1>1, <1>2, FunctionIsSeq
<1> QED
  BY <1>3 DEF f

LEMMA StoredAreRows ==
    ASSUME CaptureTypeOK, NEW t \in Threads, IsBusy(t), NEW kind \in Kinds
    PROVE  Rows_(t)[kind] \in Seq(Row)
<1>1. thread[t].block \in Ids /\ ecdsa[t] \in Seq(Group) /\ schnorr[t] \in Seq(BOOLEAN)
  BY DEF CaptureTypeOK, IsBusy
<1>2. EcdsaRows(thread[t].block, ecdsa[t]) \in Seq(Row)
  BY <1>1, EcdsaAreRows DEF Row
<1>3. SchnorrRows(thread[t].block, schnorr[t]) \in Seq(Row)
  BY <1>1, SchnorrAreRows DEF Row
<1> QED
  BY <1>2, <1>3 DEF Rows_
-------------------------------------------------------------------------------
(* Threads.                                                                *)

ThreadOf(ids) ==
    [block : ids \union {Terminal}, input : Nat \ {0}, at : Nat \ {0}, count : Nat, pending : Nat]

LEMMA NextInput ==
    ASSUME NEW b, NEW i
    PROVE  [Idle EXCEPT !.block = b, !.input = i]
                = [block |-> b, input |-> i, at |-> 1, count |-> 0, pending |-> 0]
<1> DEFINE n == [Idle EXCEPT !.block = b]
<1>1. n = [block |-> b, input |-> 1, at |-> 1, count |-> 0, pending |-> 0]
  BY DEF Idle
<1>2. [Idle EXCEPT !.block = b, !.input = i] = [n EXCEPT !.input = i]
  BY Zenon
<1> HIDE DEF n
<1>3. [n EXCEPT !.input = i] = [block |-> b, input |-> i, at |-> 1, count |-> 0, pending |-> 0]
  BY <1>1
<1> QED
  BY <1>2, <1>3

\* A thread after an element (ThresholdSignature).
Advanced(th, q) == [th EXCEPT !.at = @ + 1, !.count = @ + 1, !.pending = q]

LEMMA NextElement ==
    ASSUME NEW ids, NEW th \in ThreadOf(ids), NEW q \in Nat
    PROVE  /\ Advanced(th, q) \in ThreadOf(ids)
           /\ Advanced(th, q).at = th.at + 1 /\ Advanced(th, q).count = th.count + 1
           /\ Advanced(th, q).pending = q
           /\ Advanced(th, q).block = th.block /\ Advanced(th, q).input = th.input
<1> DEFINE n1 == [th EXCEPT !.at = @ + 1]
           n2 == [n1 EXCEPT !.count = @ + 1]
           n3 == [n2 EXCEPT !.pending = q]
<1>1. n1 \in ThreadOf(ids) /\ n1.at = th.at + 1 /\ n1.count = th.count /\ n1.block = th.block
      /\ n1.input = th.input
  BY DEF ThreadOf
<1>2. n2 \in ThreadOf(ids) /\ n2.at = n1.at /\ n2.count = n1.count + 1 /\ n2.block = n1.block
      /\ n2.input = n1.input
  <2> HIDE DEF n1
  <2> QED BY <1>1 DEF ThreadOf
<1>3. n3 \in ThreadOf(ids) /\ n3.at = n2.at /\ n3.count = n2.count /\ n3.block = n2.block
      /\ n3.input = n2.input /\ n3.pending = q
  <2> HIDE DEF n2
  <2> QED BY <1>2 DEF ThreadOf
<1>4. n3 = Advanced(th, q)
  BY Zenon DEF Advanced
<1> HIDE DEF n1, n2, n3
<1> QED
  BY <1>1, <1>2, <1>3, <1>4

LEMMA InputTyped ==
    ASSUME CaptureTypeOK, NEW t \in Threads, HasInput(t)
    PROVE  /\ thread[t].block \in Ids
           /\ thread[t] \in ThreadOf(Ids)
           /\ thread[t].input \in 1..Len(Connected(t))
           /\ IsScript(Input(t))
<1>1. thread[t] \in ThreadOf(Ids) /\ thread[t].block \in Ids
  BY DEF CaptureTypeOK, ThreadOf, HasInput, IsBusy
<1>2. IsBlock(Connected(t))
  BY <1>1, CaptureAssumption DEF CaptureTypeOK, Ids, Connected
<1>3. thread[t].input \in Nat \ {0} /\ thread[t].input <= Len(Connected(t))
  BY <1>1 DEF HasInput, ThreadOf
<1>4. Len(Connected(t)) \in Nat /\ DOMAIN Connected(t) = 1..Len(Connected(t))
      /\ \A i \in DOMAIN Connected(t) : IsScript(Connected(t)[i])
  BY <1>2 DEF IsBlock
<1>5. thread[t].input \in 1..Len(Connected(t))
  BY <1>3, <1>4
<1>6. IsScript(Input(t))
  BY <1>4, <1>5 DEF Input
<1> QED
  BY <1>1, <1>5, <1>6

LEMMA CursorFrame ==
    ASSUME Cursors, blocks' = blocks, NEW t \in Threads,
           \A u \in Threads \ {t} : thread'[u] = thread[u],
           thread'[t].pending = 0 \/ CursorOf(t)'
    PROVE  Cursors'
<1>1. ASSUME NEW u \in Threads \ {t} PROVE CursorOf(u)'
  <2>1. CursorOf(u) /\ thread'[u] = thread[u]
    BY DEF Cursors
  <2> QED BY <2>1 DEF CursorOf, IsBusy, HasInput, Input, Connected
<1>2. CursorOf(t)'
  BY DEF CursorOf
<1> QED
  BY <1>1, <1>2 DEF Cursors

\* A script has passed, or failed.
Went(t) ==
    \/ /\ thread' = [thread EXCEPT ![t] = [Idle EXCEPT !.block = thread[t].block,
                                                       !.input = thread[t].input + 1]]
       /\ verdict' = verdict
    \/ /\ thread' = [thread EXCEPT ![t] = Idle]
       /\ verdict' = [verdict EXCEPT ![thread[t].block] = "invalid"]

LEMMA WentOn ==
    ASSUME CaptureTypeOK, Cursors, blocks' = blocks, NEW t \in Threads, HasInput(t), Went(t)
    PROVE  /\ thread' \in [Threads -> ThreadOf(Ids)]
           /\ verdict' \in [Ids -> {"new", "connecting", "deferred", "valid", "invalid"}]
           /\ Cursors'
<1>1. thread[t].block \in Ids /\ thread[t] \in ThreadOf(Ids)
  BY InputTyped
<1> DEFINE next == [Idle EXCEPT !.block = thread[t].block, !.input = thread[t].input + 1]
<1>2. next \in ThreadOf(Ids) /\ next.pending = 0
  <2> DEFINE b == thread[t].block
             i == thread[t].input + 1
  <2>1. b \in Ids /\ i \in Nat \ {0}
    BY <1>1 DEF ThreadOf
  <2>2. next = [block |-> b, input |-> i, at |-> 1, count |-> 0, pending |-> 0]
    BY NextInput, Zenon
  <2> HIDE DEF b, i, next
  <2> QED BY <2>1, <2>2 DEF ThreadOf
<1>3. Idle \in ThreadOf(Ids) /\ Idle.pending = 0
  BY DEF Idle, ThreadOf
<1>4. thread \in [Threads -> ThreadOf(Ids)]
  BY DEF CaptureTypeOK, ThreadOf
<1>5. PICK e \in ThreadOf(Ids) : thread' = [thread EXCEPT ![t] = e] /\ e.pending = 0
  <2> HIDE DEF next
  <2>1. thread' = [thread EXCEPT ![t] = next] \/ thread' = [thread EXCEPT ![t] = Idle]
    BY DEF Went, next
  <2> QED BY <1>2, <1>3, <2>1
<1>6. thread' \in [Threads -> ThreadOf(Ids)] /\ thread'[t] = e
      /\ \A u \in Threads \ {t} : thread'[u] = thread[u]
  BY <1>4, <1>5
<1>7. Cursors'
  BY <1>5, <1>6, CursorFrame
<1>8. verdict' \in [Ids -> {"new", "connecting", "deferred", "valid", "invalid"}]
  BY <1>1 DEF Went, CaptureTypeOK
<1> QED
  BY <1>6, <1>7, <1>8

\* What a step of a thread changes has its type, with the same blocks.
LEMMA TypedAgain ==
    ASSUME CaptureTypeOK, blocks' = blocks,
           thread' \in [Threads -> ThreadOf(Ids)],
           verdict' \in [Ids -> {"new", "connecting", "deferred", "valid", "invalid"}],
           ecdsa' \in [Threads -> Seq(Group)],
           schnorr' \in [Threads -> Seq(BOOLEAN)],
           tables' \in [Kinds -> Seq(Row)],
           outstanding' \in [Ids -> SUBSET Kinds]
    PROVE  CaptureTypeOK'
<1>1. Ids' = Ids
  BY DEF Ids
<1>2. Row' = Row
  BY <1>1 DEF Row
<1>3. thread' \in [Threads -> [block : Ids \union {Terminal}, input : Nat \ {0},
                               at : Nat \ {0}, count : Nat, pending : Nat]]
  BY DEF ThreadOf
<1> QED
  BY <1>1, <1>2, <1>3 DEF CaptureTypeOK

LEMMA EcdsaStep ==
    ASSUME CaptureTypeOK, Cursors, NEW t \in Threads,
           verify_ecdsa_signature(t) \/ op_check_multisig(t)
    PROVE  CaptureTypeOK' /\ Cursors'
<1>1. HasInput(t) /\ Input(t).kind \in {"ecdsa", "multisig"}
      /\ UNCHANGED <<blocks, schnorr, tables, outstanding>>
  BY DEF verify_ecdsa_signature, op_check_multisig
<1>2. Went(t)
  BY Zenon DEF verify_ecdsa_signature, op_check_multisig, Goes, Went
<1>3. ecdsa' = ecdsa \/ \E g \in Group : ecdsa' = [ecdsa EXCEPT ![t] = Append(@, g)]
  <2>1. CASE verify_ecdsa_signature(t)
    <3> DEFINE g == [m |-> 1, n |-> 1, match |-> IF Input(t).ok THEN {<<0, 0>>} ELSE {}]
    <3>1. g \in Group
      BY DEF Group
    <3>2. ecdsa' = ecdsa \/ ecdsa' = [ecdsa EXCEPT ![t] = Append(@, g)]
      BY <2>1 DEF verify_ecdsa_signature
    <3> HIDE DEF g
    <3> QED BY <3>1, <3>2
  <2>2. CASE op_check_multisig(t)
    <3> DEFINE g == [m |-> Input(t).m, n |-> Input(t).n, match |-> Input(t).match]
    <3>1. IsScript(Input(t)) /\ Input(t).kind = "multisig"
      BY <1>1, <2>2, InputTyped DEF op_check_multisig
    <3>2. g \in Group
      BY <3>1 DEF Group, IsScript
    <3>3. ecdsa' = ecdsa \/ ecdsa' = [ecdsa EXCEPT ![t] = Append(@, g)]
      BY <2>2 DEF op_check_multisig
    <3> HIDE DEF g
    <3> QED BY <3>2, <3>3
  <2> QED BY <2>1, <2>2
<1>4. ecdsa' \in [Threads -> Seq(Group)]
  <2>1. ecdsa \in [Threads -> Seq(Group)]
    BY DEF CaptureTypeOK
  <2>2. ASSUME NEW g \in Group PROVE Append(ecdsa[t], g) \in Seq(Group)
    BY <2>1, AppendProperties
  <2> QED BY <1>3, <2>1, <2>2
<1>5. thread' \in [Threads -> ThreadOf(Ids)]
      /\ verdict' \in [Ids -> {"new", "connecting", "deferred", "valid", "invalid"}] /\ Cursors'
  BY <1>1, <1>2, WentOn
<1>6. blocks' = blocks /\ schnorr' \in [Threads -> Seq(BOOLEAN)]
      /\ tables' \in [Kinds -> Seq(Row)] /\ outstanding' \in [Ids -> SUBSET Kinds]
  BY <1>1 DEF CaptureTypeOK
<1> QED
  BY <1>4, <1>5, <1>6, TypedAgain

LEMMA SchnorrStep ==
    ASSUME CaptureTypeOK, Cursors, NEW t \in Threads, verify_schnorr_signature(t)
    PROVE  CaptureTypeOK' /\ Cursors'
<1>1. HasInput(t) /\ Input(t).kind = "schnorr" /\ UNCHANGED <<blocks, ecdsa, tables, outstanding>>
  BY DEF verify_schnorr_signature
<1>2. Went(t)
  BY Zenon DEF verify_schnorr_signature, Goes, Went
<1>3. Input(t).ok \in BOOLEAN
  BY <1>1, InputTyped DEF IsScript
<1>4. schnorr' \in [Threads -> Seq(BOOLEAN)]
  <2>1. schnorr \in [Threads -> Seq(BOOLEAN)]
    BY DEF CaptureTypeOK
  <2>2. Append(schnorr[t], Input(t).ok) \in Seq(BOOLEAN)
    BY <1>3, <2>1, AppendProperties
  <2>3. schnorr' = schnorr \/ schnorr' = [schnorr EXCEPT ![t] = Append(@, Input(t).ok)]
    BY DEF verify_schnorr_signature
  <2> QED BY <2>1, <2>2, <2>3
<1>5. thread' \in [Threads -> ThreadOf(Ids)]
      /\ verdict' \in [Ids -> {"new", "connecting", "deferred", "valid", "invalid"}] /\ Cursors'
  BY <1>1, <1>2, WentOn
<1>6. blocks' = blocks /\ ecdsa' \in [Threads -> Seq(Group)]
      /\ tables' \in [Kinds -> Seq(Row)] /\ outstanding' \in [Ids -> SUBSET Kinds]
  BY <1>1 DEF CaptureTypeOK
<1> QED
  BY <1>4, <1>5, <1>6, TypedAgain
\* Passing an element takes it off what is open, if it is not empty.
LEMMA OpenAdvances ==
    ASSUME NEW elements \in Seq({"good", "bad", "empty", "malformed"}),
           NEW at \in 1..Len(elements)
    PROVE  /\ Cardinality(Open(elements, at)) \in Nat
           /\ Cardinality(Open(elements, at + 1)) \in Nat
           /\ elements[at] = "empty" =>
                Cardinality(Open(elements, at)) = Cardinality(Open(elements, at + 1))
           /\ elements[at] # "empty" =>
                Cardinality(Open(elements, at)) = Cardinality(Open(elements, at + 1)) + 1
<1>1. Len(elements) \in Nat /\ DOMAIN elements = 1..Len(elements)
  BY LenProperties
<1>2. IsFiniteSet(1..Len(elements))
  BY <1>1, FS_Interval
<1>3. Open(elements, at) \subseteq 1..Len(elements) /\ Open(elements, at + 1) \subseteq 1..Len(elements)
  BY <1>1 DEF Open
<1>4. IsFiniteSet(Open(elements, at)) /\ IsFiniteSet(Open(elements, at + 1))
  BY <1>2, <1>3, FS_Subset
<1>5. CASE elements[at] = "empty"
  <2>1. Open(elements, at) = Open(elements, at + 1)
    BY <1>1, <1>5 DEF Open
  <2> QED BY <1>4, <1>5, <2>1, FS_CardinalityType
<1>6. CASE elements[at] # "empty"
  <2>1. Open(elements, at) = Open(elements, at + 1) \union {at}
    BY <1>1, <1>6 DEF Open
  <2>2. at \notin Open(elements, at + 1)
    BY <1>1 DEF Open
  <2> QED BY <1>4, <1>6, <2>1, <2>2, FS_CardinalityType, FS_AddElement
<1> QED
  BY <1>5, <1>6

LEMMA ElementTyped ==
    ASSUME CaptureTypeOK, NEW t \in Threads, HasElement(t)
    PROVE  /\ Input(t).elements \in Seq({"good", "bad", "empty", "malformed"})
           /\ Input(t).junk \in Nat
           /\ thread[t].at \in 1..Len(Input(t).elements)
           /\ stack_nonempty(t) =
                Input(t).junk + Cardinality(Open(Input(t).elements, thread[t].at + 1))
<1>1. IsScript(Input(t)) /\ thread[t] \in ThreadOf(Ids) /\ Input(t).kind = "threshold"
  BY InputTyped DEF HasElement
<1>2. Input(t).elements \in Seq({"good", "bad", "empty", "malformed"}) /\ Input(t).junk \in Nat
  BY <1>1 DEF IsScript
<1>3. thread[t].at \in Nat \ {0} /\ thread[t].at <= Len(Input(t).elements)
  BY <1>1 DEF HasElement, ThreadOf
<1>4. Len(Input(t).elements) \in Nat /\ DOMAIN Input(t).elements = 1..Len(Input(t).elements)
  BY <1>2, LenProperties
<1>5. thread[t].at \in 1..Len(Input(t).elements)
  BY <1>3, <1>4
<1> DEFINE x == thread[t].at
           e == Input(t).elements
<1>6. {i \in DOMAIN e : i > x /\ e[i] # "empty"} = Open(e, x + 1)
  BY <1>3, <1>4 DEF Open
<1> QED
  BY <1>2, <1>5, <1>6 DEF stack_nonempty

LEMMA ThresholdStep ==
    ASSUME CaptureTypeOK, Cursors, NEW t \in Threads, ThresholdSignature(t)
    PROVE  CaptureTypeOK' /\ Cursors'
<1>1. /\ HasElement(t) /\ HasInput(t) /\ Input(t).kind = "threshold" /\ Element(t) \in {"good", "bad"}
      /\ UNCHANGED <<blocks, ecdsa, tables, outstanding>>
  BY DEF ThresholdSignature, HasElement
<1> DEFINE p == is_threshold_batchable(t)
           e == Input(t).elements
           x == thread[t].at
           left == Input(t).junk + Cardinality(Open(e, x + 1))
<1>2. CASE Went(t) /\ schnorr' = schnorr
  <2>1. thread' \in [Threads -> ThreadOf(Ids)]
        /\ verdict' \in [Ids -> {"new", "connecting", "deferred", "valid", "invalid"}] /\ Cursors'
    BY <1>1, <1>2, WentOn
  <2>2. blocks' = blocks /\ ecdsa' \in [Threads -> Seq(Group)]
        /\ schnorr' \in [Threads -> Seq(BOOLEAN)]
        /\ tables' \in [Kinds -> Seq(Row)] /\ outstanding' \in [Ids -> SUBSET Kinds]
    BY <1>1, <1>2 DEF CaptureTypeOK
  <2> QED BY <2>1, <2>2, TypedAgain
<1>3. CASE /\ thread' = [thread EXCEPT ![t].at = @ + 1, ![t].count = @ + 1,
                            ![t].pending = IF p = 0 THEN 0 ELSE p - 1]
           /\ schnorr' = [schnorr EXCEPT ![t] = IF p = 0 THEN @ ELSE Append(@, Element(t) = "good")]
           /\ verdict' = verdict
  <2>1. /\ e \in Seq({"good", "bad", "empty", "malformed"}) /\ x \in 1..Len(e) /\ x \in Nat \ {0}
        /\ Input(t).junk \in Nat /\ stack_nonempty(t) = left
        /\ thread[t] \in ThreadOf(Ids) /\ thread[t].block \in Ids
    BY <1>1, ElementTyped, InputTyped DEF ThreadOf
  <2>2. Cardinality(Open(e, x)) = Cardinality(Open(e, x + 1)) + 1
        /\ Cardinality(Open(e, x + 1)) \in Nat
    <3>1. e[x] # "empty"
      BY <1>1 DEF Element
    <3> QED BY <2>1, <3>1, OpenAdvances
  <2>3. left \in Nat /\ Expected(t) = left + 1
    BY <2>1, <2>2 DEF Expected
  <2>4. p = 0 \/ p = left + 1
    <3>1. CASE thread[t].pending # 0
      <4>1. p = thread[t].pending
        BY <3>1 DEF is_threshold_batchable
      <4>2. thread[t].pending = Input(t).junk + Cardinality(Open(e, x))
        BY <1>1, <3>1 DEF Cursors, CursorOf, HasInput
      <4> HIDE DEF p, e, x
      <4> QED BY <2>1, <2>2, <4>1, <4>2
    <3>2. CASE thread[t].pending = 0
      BY <2>3, <3>2 DEF is_threshold_batchable
    <3> QED BY <3>1, <3>2
  <2> DEFINE q == IF p = 0 THEN 0 ELSE p - 1
             new == Advanced(thread[t], q)
  <2>5. q \in Nat /\ (q = 0 \/ q = left)
    <3> HIDE DEF p, left
    <3> QED BY <2>3, <2>4
  <2>6. /\ new \in ThreadOf(Ids) /\ new.at = x + 1 /\ new.pending = q
        /\ new.block = thread[t].block /\ new.input = thread[t].input
    <3>1. thread[t] \in ThreadOf(Ids) /\ q \in Nat
      BY <2>1, <2>5
    <3> HIDE DEF q
    <3> QED BY <3>1, NextElement
  <2>7. thread \in [Threads -> ThreadOf(Ids)]
    BY DEF CaptureTypeOK, ThreadOf
  <2>8. /\ thread' \in [Threads -> ThreadOf(Ids)] /\ thread'[t] = new
        /\ \A u \in Threads \ {t} : thread'[u] = thread[u]
    <3>1. thread' = [thread EXCEPT ![t] = new]
      BY <1>3, <2>7 DEF Advanced
    <3> HIDE DEF new
    <3> QED BY <2>6, <2>7, <3>1
  <2>9. Cursors'
    <3>1. CASE q = 0
      <4>1. thread'[t].pending = 0
        <5> HIDE DEF new, q
        <5> QED BY <2>6, <2>8, <3>1
      <4> QED BY <1>1, <2>8, <4>1, CursorFrame
    <3>2. CASE q = left
      <4>1. /\ thread'[t].block = thread[t].block /\ thread'[t].input = thread[t].input
            /\ thread'[t].at = x + 1 /\ thread'[t].pending = left
        <5> HIDE DEF new, q, left, x
        <5> QED BY <2>6, <2>8, <3>2
      <4>2. Input(t)' = Input(t) /\ HasInput(t)'
        BY <1>1, <4>1 DEF Input, Connected, HasInput, IsBusy
      <4>3. CursorOf(t)'
        BY <1>1, <4>1, <4>2 DEF CursorOf
      <4> QED BY <1>1, <2>8, <4>3, CursorFrame
    <3> QED BY <2>5, <3>1, <3>2
  <2>10. schnorr' \in [Threads -> Seq(BOOLEAN)]
    <3>1. schnorr \in [Threads -> Seq(BOOLEAN)]
      BY DEF CaptureTypeOK
    <3>2. Append(schnorr[t], Element(t) = "good") \in Seq(BOOLEAN)
      <4>1. (Element(t) = "good") \in BOOLEAN
        OBVIOUS
      <4> QED BY <3>1, <4>1, AppendProperties
    <3> HIDE DEF p
    <3> QED BY <1>3, <3>1, <3>2
  <2>11. verdict' \in [Ids -> {"new", "connecting", "deferred", "valid", "invalid"}]
        /\ blocks' = blocks /\ ecdsa' \in [Threads -> Seq(Group)]
        /\ tables' \in [Kinds -> Seq(Row)] /\ outstanding' \in [Ids -> SUBSET Kinds]
    BY <1>1, <1>3 DEF CaptureTypeOK
  <2> QED BY <2>8, <2>9, <2>10, <2>11, TypedAgain
<1> QED
  BY <1>2, <1>3, Zenon DEF ThresholdSignature, Goes, Went
LEMMA ThresholdOtherStep ==
    ASSUME CaptureTypeOK, Cursors, NEW t \in Threads, ThresholdOther(t)
    PROVE  CaptureTypeOK' /\ Cursors'
<1>1. /\ HasElement(t) /\ HasInput(t) /\ Input(t).kind = "threshold"
      /\ Element(t) \in {"empty", "malformed"}
      /\ UNCHANGED <<blocks, ecdsa, schnorr, tables, outstanding>>
  BY DEF ThresholdOther, HasElement
<1>0. blocks' = blocks /\ ecdsa' \in [Threads -> Seq(Group)]
      /\ schnorr' \in [Threads -> Seq(BOOLEAN)]
      /\ tables' \in [Kinds -> Seq(Row)] /\ outstanding' \in [Ids -> SUBSET Kinds]
  BY <1>1 DEF CaptureTypeOK
<1>2. CASE Went(t)
  <2>1. thread' \in [Threads -> ThreadOf(Ids)]
        /\ verdict' \in [Ids -> {"new", "connecting", "deferred", "valid", "invalid"}] /\ Cursors'
    BY <1>1, <1>2, WentOn
  <2> QED BY <1>0, <2>1, TypedAgain
<1>3. CASE /\ Element(t) = "empty" /\ thread' = [thread EXCEPT ![t].at = @ + 1]
           /\ verdict' = verdict
  <2> DEFINE e == Input(t).elements
             x == thread[t].at
             new == [thread[t] EXCEPT !.at = @ + 1]
  <2>1. /\ e \in Seq({"good", "bad", "empty", "malformed"}) /\ x \in 1..Len(e) /\ x \in Nat \ {0}
        /\ thread[t] \in ThreadOf(Ids) /\ thread[t].block \in Ids
    BY <1>1, ElementTyped, InputTyped DEF ThreadOf
  <2>2. Cardinality(Open(e, x)) = Cardinality(Open(e, x + 1))
    <3>1. e[x] = "empty"
      BY <1>3 DEF Element
    <3> QED BY <2>1, <3>1, OpenAdvances
  <2>3. /\ new \in ThreadOf(Ids) /\ new.at = x + 1 /\ new.pending = thread[t].pending
        /\ new.block = thread[t].block /\ new.input = thread[t].input
    BY <2>1 DEF ThreadOf
  <2>4. thread \in [Threads -> ThreadOf(Ids)]
    BY DEF CaptureTypeOK, ThreadOf
  <2>5. /\ thread' \in [Threads -> ThreadOf(Ids)] /\ thread'[t] = new
        /\ \A u \in Threads \ {t} : thread'[u] = thread[u]
    <3>1. thread' = [thread EXCEPT ![t] = new]
      BY <1>3, <2>4
    <3> HIDE DEF new
    <3> QED BY <2>3, <2>4, <3>1
  <2>6. CursorOf(t)'
    <3>1. /\ thread'[t].block = thread[t].block /\ thread'[t].input = thread[t].input
          /\ thread'[t].at = x + 1 /\ thread'[t].pending = thread[t].pending
      <4> HIDE DEF new, x
      <4> QED BY <2>3, <2>5
    <3>2. Input(t)' = Input(t) /\ HasInput(t)'
      BY <1>1, <3>1 DEF Input, Connected, HasInput, IsBusy
    <3>3. IsBusy(t)
      BY <1>1 DEF HasInput
    <3>4. thread[t].pending # 0 => thread[t].pending = Input(t).junk + Cardinality(Open(e, x))
      BY <3>3 DEF Cursors, CursorOf
    <3>5. thread'[t].pending # 0 =>
            thread'[t].pending = Input(t)'.junk + Cardinality(Open(Input(t)'.elements, thread'[t].at))
      BY <2>2, <3>1, <3>2, <3>4
    <3> QED BY <1>1, <3>2, <3>5 DEF CursorOf
  <2>7. Cursors'
    BY <1>1, <2>5, <2>6, CursorFrame
  <2>8. verdict' \in [Ids -> {"new", "connecting", "deferred", "valid", "invalid"}]
    BY <1>3 DEF CaptureTypeOK
  <2> QED BY <1>0, <2>5, <2>7, <2>8, TypedAgain
<1> QED
  BY <1>1, <1>2, <1>3, Zenon DEF ThresholdOther, Goes, Went

LEMMA ThresholdEndsStep ==
    ASSUME CaptureTypeOK, Cursors, NEW t \in Threads, ThresholdEnds(t)
    PROVE  CaptureTypeOK' /\ Cursors'
<1>1. HasInput(t) /\ UNCHANGED <<blocks, ecdsa, schnorr, tables, outstanding>>
  BY DEF ThresholdEnds
<1>2. Went(t)
  BY Zenon DEF ThresholdEnds, Goes, Went
<1>3. thread' \in [Threads -> ThreadOf(Ids)]
      /\ verdict' \in [Ids -> {"new", "connecting", "deferred", "valid", "invalid"}] /\ Cursors'
  BY <1>1, <1>2, WentOn
<1>4. blocks' = blocks /\ ecdsa' \in [Threads -> Seq(Group)]
      /\ schnorr' \in [Threads -> Seq(BOOLEAN)]
      /\ tables' \in [Kinds -> Seq(Row)] /\ outstanding' \in [Ids -> SUBSET Kinds]
  BY <1>1 DEF CaptureTypeOK
<1> QED
  BY <1>3, <1>4, TypedAgain

LEMMA ConnectStep ==
    ASSUME CaptureTypeOK, Cursors, NEW t \in Threads, NEW b \in Ids, Connect(t, b)
    PROVE  CaptureTypeOK' /\ Cursors'
<1> DEFINE new == [Idle EXCEPT !.block = b]
<1>1. new \in ThreadOf(Ids) /\ new.pending = 0
  BY DEF Idle, ThreadOf
<1>2. thread \in [Threads -> ThreadOf(Ids)]
  BY DEF CaptureTypeOK, ThreadOf
<1>3. /\ thread' \in [Threads -> ThreadOf(Ids)] /\ thread'[t].pending = 0
      /\ \A u \in Threads \ {t} : thread'[u] = thread[u]
  <2>1. thread' = [thread EXCEPT ![t] = new]
    BY DEF Connect
  <2> HIDE DEF new
  <2> QED BY <1>1, <1>2, <2>1
<1>4. Cursors' /\ blocks' = blocks
  BY <1>3, CursorFrame DEF Connect
<1>5. ecdsa' \in [Threads -> Seq(Group)] /\ schnorr' \in [Threads -> Seq(BOOLEAN)]
  <2>1. <<>> \in Seq(Group) /\ <<>> \in Seq(BOOLEAN)
    BY EmptySeq
  <2> QED BY <2>1 DEF Connect, CaptureTypeOK
<1>6. verdict' \in [Ids -> {"new", "connecting", "deferred", "valid", "invalid"}]
      /\ tables' \in [Kinds -> Seq(Row)] /\ outstanding' \in [Ids -> SUBSET Kinds]
  BY DEF Connect, CaptureTypeOK
<1> QED
  BY <1>3, <1>4, <1>5, <1>6, TypedAgain

\* A thread is done with its block.
LEMMA IdleAgain ==
    ASSUME CaptureTypeOK, Cursors, blocks' = blocks, NEW t \in Threads,
           thread' = [thread EXCEPT ![t] = Idle]
    PROVE  Cursors' /\ thread' \in [Threads -> ThreadOf(Ids)]
<1>1. Idle \in ThreadOf(Ids) /\ Idle.pending = 0
  BY DEF Idle, ThreadOf
<1>2. thread \in [Threads -> ThreadOf(Ids)]
  BY DEF CaptureTypeOK, ThreadOf
<1>3. /\ thread' \in [Threads -> ThreadOf(Ids)] /\ thread'[t].pending = 0
      /\ \A u \in Threads \ {t} : thread'[u] = thread[u]
  BY <1>1, <1>2
<1> QED
  BY <1>3, CursorFrame

LEMMA CommitStep ==
    ASSUME CaptureTypeOK, Cursors, NEW t \in Threads, Commit(t)
    PROVE  CaptureTypeOK' /\ Cursors'
<1>1. blocks' = blocks /\ ecdsa' = ecdsa /\ schnorr' = schnorr /\ IsBusy(t)
      /\ thread' = [thread EXCEPT ![t] = Idle]
  BY DEF Commit, IsConnected
<1>2. Cursors' /\ thread' \in [Threads -> ThreadOf(Ids)]
  BY <1>1, IdleAgain
<1>3. tables' \in [Kinds -> Seq(Row)]
  <2>1. tables' = [kind \in Kinds |-> tables[kind] \o Rows_(t)[kind]]
    BY DEF Commit
  <2>2. ASSUME NEW kind \in Kinds PROVE tables[kind] \o Rows_(t)[kind] \in Seq(Row)
    <3>1. tables[kind] \in Seq(Row) /\ Rows_(t)[kind] \in Seq(Row)
      BY <1>1, StoredAreRows DEF CaptureTypeOK
    <3> QED BY <3>1, ConcatProperties
  <2> QED BY <2>1, <2>2
<1>4. thread[t].block \in Ids
  BY <1>1 DEF CaptureTypeOK, IsBusy
<1>5. outstanding' \in [Ids -> SUBSET Kinds]
  <2> DEFINE kinds == {kind \in Kinds : Rows_(t)[kind] # <<>>}
  <2>1. outstanding' = [outstanding EXCEPT ![thread[t].block] = kinds]
    BY DEF Commit
  <2>2. kinds \in SUBSET Kinds
    OBVIOUS
  <2> HIDE DEF kinds
  <2> QED BY <1>4, <2>1, <2>2 DEF CaptureTypeOK
<1>6. verdict' \in [Ids -> {"new", "connecting", "deferred", "valid", "invalid"}]
  <2>1. \/ verdict' = [verdict EXCEPT ![thread[t].block] = "valid"]
        \/ verdict' = [verdict EXCEPT ![thread[t].block] = "deferred"]
    BY Zenon DEF Commit
  <2> QED BY <1>4, <2>1 DEF CaptureTypeOK
<1>7. ecdsa' \in [Threads -> Seq(Group)] /\ schnorr' \in [Threads -> Seq(BOOLEAN)]
  BY <1>1 DEF CaptureTypeOK
<1> QED
  BY <1>1, <1>2, <1>3, <1>5, <1>6, <1>7, TypedAgain

LEMMA CommitFailsStep ==
    ASSUME CaptureTypeOK, Cursors, NEW t \in Threads, CommitFails(t)
    PROVE  CaptureTypeOK' /\ Cursors'
<1>1. blocks' = blocks /\ ecdsa' = ecdsa /\ schnorr' = schnorr /\ outstanding' = outstanding
      /\ IsBusy(t) /\ thread' = [thread EXCEPT ![t] = Idle]
  BY DEF CommitFails, IsConnected
<1>2. Cursors' /\ thread' \in [Threads -> ThreadOf(Ids)]
  BY <1>1, IdleAgain
<1>3. tables' \in [Kinds -> Seq(Row)]
  <2>1. PICK kind \in Kinds :
            /\ Rows_(t)[kind] # <<>>
            /\ tables' = tables \/ tables' = [tables EXCEPT ![kind] =
                            Append(@, [Rows_(t)[kind][1] EXCEPT !.id = Terminal, !.ok = FALSE])]
    BY Zenon DEF CommitFails
  <2> DEFINE first == Rows_(t)[kind][1]
             row == [first EXCEPT !.id = Terminal, !.ok = FALSE]
  <2>2. Rows_(t)[kind] \in Seq(Row)
    BY <1>1, StoredAreRows
  <2>3. first \in Row
    <3>0. Rows_(t)[kind] # <<>>
      BY <2>1, Zenon
    <3>1. Len(Rows_(t)[kind]) \in Nat \ {0}
      BY <2>2, <3>0, EmptySeq
    <3>2. 1 \in 1..Len(Rows_(t)[kind])
      BY <3>1
    <3> QED BY <2>2, <3>2, ElementOfSeq
  <2>4. row \in Row
    <3> DEFINE r == [first EXCEPT !.id = Terminal]
    <3>1. r \in RowOf(Ids)
      BY <2>3 DEF Row, RowOf
    <3>2. row = [r EXCEPT !.ok = FALSE]
      BY Zenon
    <3> HIDE DEF r, row, first
    <3> QED BY <3>1, <3>2 DEF Row, RowOf
  <2>5. tables \in [Kinds -> Seq(Row)] /\ tables[kind] \in Seq(Row)
    BY DEF CaptureTypeOK
  <2>6. Append(tables[kind], row) \in Seq(Row)
    <3> HIDE DEF row
    <3> QED BY <2>4, <2>5, AppendProperties
  <2> QED BY <2>1, <2>5, <2>6
<1>4. thread[t].block \in Ids
  BY <1>1 DEF CaptureTypeOK, IsBusy
<1>6. verdict' \in [Ids -> {"new", "connecting", "deferred", "valid", "invalid"}]
  <2>1. \/ verdict' = [verdict EXCEPT ![thread[t].block] = "valid"]
        \/ verdict' = [verdict EXCEPT ![thread[t].block] = "invalid"]
    BY Zenon DEF CommitFails
  <2> QED BY <1>4, <2>1 DEF CaptureTypeOK
<1>7. ecdsa' \in [Threads -> Seq(Group)] /\ schnorr' \in [Threads -> Seq(BOOLEAN)]
      /\ outstanding' \in [Ids -> SUBSET Kinds]
  BY <1>1 DEF CaptureTypeOK
<1> QED
  BY <1>1, <1>2, <1>3, <1>6, <1>7, TypedAgain
-------------------------------------------------------------------------------
(* Batches.                                                                *)

\* The rows of a batch, and the chunk of each.
LEMMA BatchRows ==
    ASSUME BatchTypeOK
    PROVE  /\ batch.rows \in Seq(Row)
           /\ Len(batch.rows) \in Nat
           /\ Rows = 1..Len(batch.rows)
           /\ \A i \in Rows : batch.rows[i].ok \in BOOLEAN
           /\ \A i \in Rows : \E c \in Chunks(batch.rows) : i \in Slice(c)
<1>1. batch.rows \in Seq(Row)
  BY DEF BatchTypeOK
<1>2. Len(batch.rows) \in Nat /\ DOMAIN batch.rows = 1..Len(batch.rows)
      /\ \A i \in 1..Len(batch.rows) : batch.rows[i] \in Row
  BY <1>1, LenProperties, ElementOfSeq
<1>3. ASSUME NEW i \in Rows PROVE \E c \in Chunks(batch.rows) : i \in Slice(c)
  <2> DEFINE n == Len(batch.rows)
             q == (i - 1) \div ChunkRows
  <2>1. n \in Nat /\ i \in 1..n /\ ChunkRows \in Nat \ {0} /\ i - 1 \in Nat
    BY <1>2, BatchAssumption DEF Rows
  <2>2. q + 1 \in 1..ceilinged_divide(n, ChunkRows)
    <3> HIDE DEF n
    <3> QED BY <2>1, ChunkOf
  <2>3. q \in Nat
    <3> HIDE DEF n
    <3> QED BY <2>1, DividedBy
  <2>4. q + 1 \in Chunks(batch.rows)
    BY <2>2 DEF Chunks
  <2>5. i \in Slice(q + 1)
    <3>1. (q + 1) - 1 = q
      <4> HIDE DEF q
      <4> QED BY <2>3
    <3> QED BY <3>1, Zenon DEF Slice
  <2> HIDE DEF q
  <2> QED BY <2>4, <2>5
<1>4. \A i \in Rows : batch.rows[i].ok \in BOOLEAN
  BY <1>2 DEF Rows, Row, RowOf
<1> QED
  BY <1>1, <1>2, <1>3, <1>4 DEF Rows

LEMMA BeginStep ==
    ASSUME BatchInv, blocks' = blocks, NEW kind \in {"ecdsa", "schnorr", "silent"},
           NEW rows \in Seq(Row), NEW any, rows = any
    PROVE  Begin(kind, any) => BatchInv'
<1> SUFFICES ASSUME Begin(kind, any) PROVE BatchInv'
  OBVIOUS
<1>1. Row' = Row
  BY DEF Row, Ids
<1>2. batch' = [kind |-> kind, rows |-> rows] /\ stage' \in {"device", "chunks"}
      /\ chunks' = [c \in Chunks(rows) |-> "ready"] /\ results' = [i \in DOMAIN rows |-> 0]
      /\ failed' = FALSE /\ written' = FALSE /\ cancel' = cancel /\ use_gpu' = use_gpu
  BY DEF Begin
<1>3. batch'.rows = rows /\ Rows' = DOMAIN rows
  BY <1>2 DEF Rows
<1>4. BatchTypeOK'
  BY <1>1, <1>2 DEF BatchInv, BatchTypeOK
<1>5. Chunked' /\ Untouched'
  BY <1>2, <1>3 DEF Chunked, Untouched, Chunks
<1>6. Computed' /\ ResultsTrue'
  BY <1>2 DEF Computed, ResultsTrue
<1> QED
  BY <1>4, <1>5, <1>6 DEF BatchInv

LEMMA CancelStep ==
    ASSUME BatchInv, blocks' = blocks, Cancel
    PROVE  BatchInv'
<1>1. Row' = Row
  BY DEF Row, Ids
<1>2. cancel' = TRUE /\ UNCHANGED <<use_gpu, stage, batch, chunks, results, failed, links, written>>
  BY DEF Cancel
<1>3. BatchTypeOK'
  BY <1>1, <1>2 DEF BatchInv, BatchTypeOK
<1>4. Chunked' /\ Untouched' /\ Computed' /\ ResultsTrue'
  BY <1>2 DEF BatchInv, Chunked, Untouched, Computed, ResultsTrue, Rows, AllValid, Chunks
<1> QED
  BY <1>3, <1>4 DEF BatchInv

LEMMA DeviceStep ==
    ASSUME BatchInv, blocks' = blocks, Device
    PROVE  BatchInv'
<1>1. Row' = Row
  BY DEF Row, Ids
<1>2. stage = "device" /\ UNCHANGED <<cancel, batch, chunks, failed, links, written>>
  BY DEF Device
<1>3. Rows' = Rows /\ (AllValid)' = AllValid
  BY <1>2 DEF Rows, AllValid
<1>4. CASE stage' = "joined" /\ use_gpu' = use_gpu /\ Device /\ ~Lost
  <2>1. BatchTypeOK'
    BY <1>1, <1>2, <1>4 DEF BatchInv, BatchTypeOK
  <2>2. Chunked' /\ Untouched'
    BY <1>4 DEF Chunked, Untouched
  <2>3. ~cancel /\ batch.kind = "silent" => \A i \in Rows : results'[i] = 1
    <3> SUFFICES ASSUME ~cancel, batch.kind = "silent" PROVE \A i \in Rows : results'[i] = 1
      OBVIOUS
    <3>1. PICK n \in {Len(batch.rows)} : results' = [i \in Rows |-> to_int(i <= n)]
      BY <1>4, Zenon DEF Device
    <3>2. Rows = 1..Len(batch.rows) /\ Len(batch.rows) \in Nat
      BY BatchRows DEF BatchInv
    <3>3. \A i \in Rows : i <= n
      BY <3>1, <3>2
    <3> QED BY <3>1, <3>3 DEF to_int
  <2>4. ~cancel /\ batch.kind # "silent" =>
            results' = IF AllValid THEN <<>> ELSE [i \in Rows |-> to_int(batch.rows[i].ok)]
    BY <1>4, Zenon DEF Device
  <2>5. Computed'
    BY <1>2, <1>3, <2>3 DEF Computed
  <2>6. ResultsTrue'
    BY <1>2, <1>3, <1>4, <2>4 DEF ResultsTrue
  <2> QED BY <2>1, <2>2, <2>5, <2>6 DEF BatchInv
<1>5. CASE Lost
  <2>1. stage' = "chunks" /\ use_gpu' = FALSE /\ results' = results
    BY <1>5 DEF Lost
  <2>2. BatchTypeOK'
    BY <1>1, <1>2, <2>1 DEF BatchInv, BatchTypeOK
  <2>3. Chunked'
    BY <1>2, <1>3, <2>1 DEF BatchInv, Chunked, Untouched, Chunks
  <2>4. Untouched' /\ Computed' /\ ResultsTrue'
    BY <2>1 DEF Untouched, Computed, ResultsTrue
  <2> QED BY <2>2, <2>3, <2>4 DEF BatchInv
<1> QED
  BY <1>4, <1>5, Zenon DEF Device

LEMMA StartChunkStep ==
    ASSUME BatchInv, blocks' = blocks, NEW c \in DOMAIN chunks, StartChunk(c)
    PROVE  BatchInv'
<1>1. Row' = Row
  BY DEF Row, Ids
<1>2. /\ stage = "chunks" /\ UNCHANGED <<cancel, use_gpu, stage, batch, results, failed, links, written>>
      /\ chunks' = [chunks EXCEPT ![c] = IF cancel THEN "ended" ELSE "verifying"]
  BY DEF StartChunk
<1>3. BatchTypeOK'
  BY <1>1, <1>2 DEF BatchInv, BatchTypeOK
<1>4. Rows' = Rows /\ (AllValid)' = AllValid /\ Chunks(batch.rows)' = Chunks(batch.rows)
  BY <1>2 DEF Rows, AllValid, Chunks
<1>5. Chunked'
  <2>1. Chunked /\ stage = "chunks"
    BY <1>2 DEF BatchInv
  <2>2. chunks' \in [Chunks(batch.rows) -> {"ready", "verifying", "ended"}]
    BY <1>2, <2>1 DEF Chunked
  <2>3. results' = [i \in Rows' |-> results'[i]] /\ (failed' => ~AllValid')
    BY <1>2, <1>4, <2>1 DEF Chunked
  <2>4. ASSUME ~cancel, NEW d \in DOMAIN chunks', chunks'[d] = "ended" PROVE Done(d)'
    <3>1. d \in DOMAIN chunks /\ chunks[d] = "ended"
      BY <1>2, <2>1, <2>4 DEF Chunked
    <3>2. Done(d)
      BY <2>1, <2>4, <3>1 DEF Chunked
    <3> QED BY <1>2, <3>2 DEF Done, Slice, Rows
  <2> QED BY <1>2, <1>4, <2>2, <2>3, <2>4 DEF Chunked
<1>6. Untouched' /\ Computed' /\ ResultsTrue'
  BY <1>2 DEF Untouched, Computed, ResultsTrue
<1> QED
  BY <1>3, <1>5, <1>6 DEF BatchInv
LEMMA EndChunkStep ==
    ASSUME BatchInv, blocks' = blocks, NEW c \in DOMAIN chunks, EndChunk(c)
    PROVE  BatchInv'
<1>1. Row' = Row
  BY DEF Row, Ids
<1>2. /\ stage = "chunks" /\ chunks' = [chunks EXCEPT ![c] = "ended"] /\ failed' = Fails(c)
      /\ results' = [i \in Rows |->
                        IF i \in Slice(c) THEN to_int(batch.kind = "silent" \/ batch.rows[i].ok)
                                          ELSE results[i]]
      /\ UNCHANGED <<cancel, use_gpu, stage, batch, links, written>>
  BY DEF EndChunk
<1>3. Rows' = Rows /\ (AllValid)' = AllValid /\ Chunks(batch.rows)' = Chunks(batch.rows)
  BY <1>2 DEF Rows, AllValid, Chunks
<1>4. failed' \in BOOLEAN /\ (failed => failed')
      /\ ((\E i \in Slice(c) : ~batch.rows[i].ok) => failed')
  BY <1>2 DEF Fails
<1>5. BatchTypeOK'
  BY <1>1, <1>2, <1>4 DEF BatchInv, BatchTypeOK
<1>6. Chunked /\ BatchTypeOK
  BY DEF BatchInv
<1>7. Chunked'
  <2>1. chunks' \in [Chunks(batch.rows) -> {"ready", "verifying", "ended"}]
    BY <1>2, <1>6 DEF Chunked
  <2>2. results' = [i \in Rows' |-> results'[i]]
    BY <1>2, <1>3
  <2>3. failed' => ~AllValid'
    <3> SUFFICES ASSUME failed' PROVE ~AllValid
      BY <1>3
    <3>1. failed \/ \E i \in Slice(c) : ~batch.rows[i].ok
      BY <1>2 DEF Fails
    <3> QED BY <1>2, <1>6, <3>1 DEF Chunked, AllValid, Slice
  <2>4. ASSUME ~cancel, NEW d \in DOMAIN chunks', chunks'[d] = "ended" PROVE Done(d)'
    <3>1. Slice(d)' = Slice(d) /\ Slice(d) \subseteq Rows
      BY <1>2 DEF Slice, Rows
    <3>2. CASE d = c
      <4>1. \A i \in Slice(d) : results'[i] = to_int(batch.kind = "silent" \/ batch.rows[i].ok)
        BY <1>2, <3>1, <3>2
      <4> QED BY <1>2, <1>4, <3>1, <3>2, <4>1 DEF Done
    <3>3. CASE d # c
      <4>1. d \in DOMAIN chunks /\ chunks[d] = "ended"
        BY <1>2, <1>6, <2>4, <3>3 DEF Chunked
      <4>2. Done(d)
        BY <1>2, <1>6, <2>4, <4>1 DEF Chunked
      <4>3. \A i \in Slice(d) : results'[i] = to_int(batch.kind = "silent" \/ batch.rows[i].ok)
        BY <1>2, <3>1, <4>2 DEF Done
      <4> QED BY <1>2, <1>4, <3>1, <4>2, <4>3 DEF Done
    <3> QED BY <3>2, <3>3
  <2> QED BY <1>2, <1>3, <2>1, <2>2, <2>3, <2>4 DEF Chunked
<1>8. Untouched' /\ Computed' /\ ResultsTrue'
  BY <1>2 DEF Untouched, Computed, ResultsTrue
<1> QED
  BY <1>5, <1>7, <1>8 DEF BatchInv

LEMMA JoinStep ==
    ASSUME BatchInv, blocks' = blocks, Join
    PROVE  BatchInv'
<1>1. Row' = Row
  BY DEF Row, Ids
<1>2. /\ stage = "chunks" /\ stage' = "joined" /\ \A c \in DOMAIN chunks : chunks[c] = "ended"
      /\ results' = IF batch.kind # "silent" /\ (cancel \/ ~failed) THEN <<>> ELSE results
      /\ UNCHANGED <<cancel, use_gpu, batch, chunks, failed, links, written>>
  BY DEF Join
<1>3. Rows' = Rows /\ (AllValid)' = AllValid
  BY <1>2 DEF Rows, AllValid
<1>4. Chunked /\ BatchTypeOK
  BY DEF BatchInv
<1>5. BatchTypeOK'
  BY <1>1, <1>2, <1>4 DEF BatchTypeOK
<1>6. ASSUME ~cancel
      PROVE  /\ \A i \in Rows : results[i] = to_int(batch.kind = "silent" \/ batch.rows[i].ok)
             /\ failed = ~AllValid
  <2>1. \A c \in Chunks(batch.rows) : Done(c)
    BY <1>2, <1>4, <1>6 DEF Chunked
  <2>2. \A i \in Rows : \E c \in Chunks(batch.rows) : i \in Slice(c)
    BY <1>4, BatchRows
  <2>3. \A i \in Rows : results[i] = to_int(batch.kind = "silent" \/ batch.rows[i].ok)
    BY <2>1, <2>2 DEF Done
  <2>4. ~AllValid => failed
    BY <2>1, <2>2 DEF Done, AllValid
  <2>5. failed => ~AllValid
    BY <1>2, <1>4 DEF Chunked
  <2>6. failed \in BOOLEAN
    BY <1>4 DEF BatchTypeOK
  <2> QED BY <2>3, <2>4, <2>5, <2>6
<1>7. Computed'
  <2> SUFFICES ASSUME batch.kind = "silent", ~cancel PROVE \A i \in Rows : results'[i] = 1
    BY <1>2, <1>3 DEF Computed
  <2>1. results' = results
    BY <1>2
  <2>2. \A i \in Rows : results[i] = to_int(TRUE)
    BY <1>6
  <2> QED BY <2>1, <2>2 DEF to_int
<1>8. ResultsTrue'
  <2> SUFFICES ASSUME batch.kind \in {"ecdsa", "schnorr"}, ~cancel
               PROVE  results' = IF AllValid THEN <<>> ELSE [i \in Rows |-> to_int(batch.rows[i].ok)]
    BY <1>2, <1>3 DEF ResultsTrue
  <2>1. results' = IF ~failed THEN <<>> ELSE results
    BY <1>2
  <2>2. \A i \in Rows : results[i] = to_int(batch.rows[i].ok)
    BY <1>6 DEF to_int
  <2>3. results = [i \in Rows |-> results[i]]
    BY <1>2, <1>4 DEF Chunked
  <2>4. results = [i \in Rows |-> to_int(batch.rows[i].ok)]
    BY <2>2, <2>3
  <2> QED BY <1>6, <2>1, <2>4
<1>9. Chunked' /\ Untouched'
  BY <1>2 DEF Chunked, Untouched
<1> QED
  BY <1>5, <1>7, <1>8, <1>9 DEF BatchInv

LEMMA WriteStep ==
    ASSUME BatchInv, blocks' = blocks, Write
    PROVE  BatchInv'
<1>1. Row' = Row
  BY DEF Row, Ids
<1>2. stage # "returned" /\ written' = TRUE
      /\ UNCHANGED <<cancel, use_gpu, stage, batch, chunks, results, failed, links>>
  BY DEF Write
<1>3. BatchTypeOK'
  BY <1>1, <1>2 DEF BatchInv, BatchTypeOK
<1>4. Chunked' /\ Untouched' /\ Computed' /\ ResultsTrue'
  BY <1>2 DEF BatchInv, Chunked, Untouched, Computed, ResultsTrue, Rows, AllValid, Chunks, Done, Slice
<1> QED
  BY <1>3, <1>4 DEF BatchInv

\* A call is correlated, or returned, or done with.
LEMMA LateStep ==
    ASSUME BatchInv, blocks' = blocks, Correlate \/ Return
    PROVE  BatchInv'
<1>1. Row' = Row
  BY DEF Row, Ids
<1>2. stage = "joined" /\ stage' \in {"correlated", "returned", "idle"}
      /\ UNCHANGED <<cancel, use_gpu, batch, chunks, results, failed, written>>
  BY DEF Correlate, Return
<1>3. BatchTypeOK'
  BY <1>1, <1>2 DEF BatchInv, BatchTypeOK
<1>4. stage' = "returned" => written /\ \A i \in Rows : results[i] = 1
  BY DEF Correlate, Return, Returned, BatchInv, Computed
<1>5. Chunked' /\ Untouched' /\ Computed' /\ ResultsTrue'
  BY <1>2, <1>4 DEF Chunked, Untouched, Computed, ResultsTrue, Rows
<1> QED
  BY <1>3, <1>5 DEF BatchInv

LEMMA IdleStep ==
    ASSUME BatchInv, blocks' = blocks, stage' = "idle",
           UNCHANGED <<cancel, use_gpu, batch, chunks, results, failed, links, written>>
    PROVE  BatchInv'
<1>1. Row' = Row
  BY DEF Row, Ids
<1> QED
  BY <1>1 DEF BatchInv, BatchTypeOK, Chunked, Untouched, Computed, ResultsTrue

LEMMA BatchFrame ==
    ASSUME BatchInv, blocks' = blocks, UNCHANGED batchVars
    PROVE  BatchInv'
<1>1. Row' = Row
  BY DEF Row, Ids
<1>2. UNCHANGED <<cancel, use_gpu, stage, batch, chunks, results, failed, links, written>>
  BY DEF batchVars
<1>3. BatchTypeOK'
  BY <1>1, <1>2 DEF BatchInv, BatchTypeOK
<1>4. Chunked' /\ Untouched' /\ Computed' /\ ResultsTrue'
  BY <1>2 DEF BatchInv, Chunked, Untouched, Computed, ResultsTrue, Rows, AllValid, Chunks, Done, Slice
<1> QED
  BY <1>3, <1>4 DEF BatchInv

LEMMA CaptureFrame ==
    ASSUME CaptureTypeOK, Cursors, UNCHANGED captureVars
    PROVE  CaptureTypeOK' /\ Cursors'
<1>1. UNCHANGED <<blocks, verdict, thread, ecdsa, schnorr, tables, outstanding>>
  BY DEF captureVars
<1>2. CaptureTypeOK'
  BY <1>1 DEF CaptureTypeOK, Ids, Row
<1>3. Cursors'
  BY <1>1 DEF Cursors, CursorOf, IsBusy, HasInput, Input, Connected
<1> QED
  BY <1>2, <1>3

LEMMA ResolveStep ==
    ASSUME CaptureInv, Resolve
    PROVE  CaptureInv'
<1>1. /\ blocks' = blocks /\ thread' = thread /\ ecdsa' = ecdsa /\ schnorr' = schnorr
      /\ stage' = "idle"
      /\ UNCHANGED <<cancel, use_gpu, batch, chunks, results, failed, links, written>>
  BY DEF Resolve
<1>2. CaptureTypeOK /\ Cursors /\ BatchInv
  BY DEF CaptureInv
<1>3. BatchInv'
  BY <1>1, <1>2, IdleStep
<1>4. Cursors'
  BY <1>1, <1>2 DEF Cursors, CursorOf, IsBusy, HasInput, Input, Connected
<1>5. CASE cancel
  <2>1. verdict' = verdict /\ tables' = tables /\ outstanding' = outstanding
    BY <1>5 DEF Resolve
  <2>2. CaptureTypeOK'
    BY <1>1, <1>2, <2>1 DEF CaptureTypeOK, Ids, Row
  <2> QED BY <1>3, <1>4, <2>2 DEF CaptureInv
<1>6. CASE ~cancel
  <2> DEFINE waits == {b \in Ids : verdict[b] = "deferred" /\ \E i \in Rows : batch.rows[i].id = b}
             left == [b \in Ids |-> IF b \in waits THEN outstanding[b] \ {batch.kind}
                                                   ELSE outstanding[b]]
             n == Len(batch.rows) + 1
  <2>1. /\ outstanding' = left
        /\ tables' = [tables EXCEPT ![batch.kind] = SubSeq(@, n, Len(@))]
        /\ verdict' = [b \in Ids |-> IF b \notin waits THEN verdict[b]
                                     ELSE IF b \in links THEN "invalid"
                                     ELSE IF left[b] = {} THEN "valid"
                                     ELSE "deferred"]
    BY <1>6 DEF Resolve
  <2>2. outstanding' \in [Ids -> SUBSET Kinds]
    <3> HIDE DEF waits
    <3> QED BY <1>2, <2>1 DEF CaptureTypeOK
  <2>3. verdict' \in [Ids -> {"new", "connecting", "deferred", "valid", "invalid"}]
    <3> HIDE DEF waits, left
    <3> QED BY <1>2, <2>1 DEF CaptureTypeOK
  <2>4. tables' \in [Kinds -> Seq(Row)]
    <3>1. tables \in [Kinds -> Seq(Row)]
      BY <1>2 DEF CaptureTypeOK
    <3>2. n \in Nat \ {0}
      BY <1>2, BatchRows DEF BatchInv
    <3>3. ASSUME NEW kind \in Kinds PROVE SubSeq(tables[kind], n, Len(tables[kind])) \in Seq(Row)
      <4>1. tables[kind] \in Seq(Row) /\ Len(tables[kind]) \in Nat
            /\ \A i \in 1..Len(tables[kind]) : tables[kind][i] \in Row
        BY <3>1, LenProperties, ElementOfSeq
      <4> HIDE DEF n
      <4>2. \A i \in n..Len(tables[kind]) : tables[kind][i] \in Row
        BY <3>2, <4>1
      <4> QED BY <3>2, <4>1, <4>2, SubSeqProperties
    <3> HIDE DEF n
    <3> QED BY <2>1, <3>1, <3>3
  <2>5. thread' \in [Threads -> ThreadOf(Ids)] /\ ecdsa' \in [Threads -> Seq(Group)]
        /\ schnorr' \in [Threads -> Seq(BOOLEAN)]
    BY <1>1, <1>2 DEF CaptureTypeOK, ThreadOf
  <2>6. CaptureTypeOK'
    BY <1>1, <1>2, <2>2, <2>3, <2>4, <2>5, TypedAgain
  <2> QED BY <1>3, <1>4, <2>6 DEF CaptureInv
<1> QED
  BY <1>5, <1>6
-------------------------------------------------------------------------------
LEMMA CaptureStarts ==
    ASSUME Init
    PROVE  CaptureInv
<1>1. blocks \in BlockSets /\ verdict = [b \in Ids |-> "new"] /\ thread = [t \in Threads |-> Idle]
      /\ ecdsa = [t \in Threads |-> <<>>] /\ schnorr = [t \in Threads |-> <<>>]
      /\ tables = [kind \in Kinds |-> <<>>] /\ outstanding = [b \in Ids |-> {}]
  BY DEF Init
<1>2. cancel = FALSE /\ use_gpu \in BOOLEAN /\ stage = "idle" /\ batch = None
      /\ failed = FALSE /\ written = FALSE
  BY DEF Init, BatchInit
<1>3. <<>> \in Seq(Group) /\ <<>> \in Seq(BOOLEAN) /\ <<>> \in Seq(Row)
  BY EmptySeq
<1>4. Idle \in ThreadOf(Ids) /\ Idle.pending = 0
  BY DEF Idle, ThreadOf
<1>5. thread \in [Threads -> ThreadOf(Ids)]
  BY <1>1, <1>4
<1>6. CaptureTypeOK
  BY <1>1, <1>3, <1>5 DEF CaptureTypeOK, ThreadOf
<1>7. Cursors
  BY <1>1, <1>4 DEF Cursors, CursorOf
<1>8. BatchTypeOK
  BY <1>2, <1>3 DEF BatchTypeOK, None
<1>9. Chunked /\ Untouched /\ Computed /\ ResultsTrue
  BY <1>2 DEF Chunked, Untouched, Computed, ResultsTrue
<1> QED
  BY <1>6, <1>7, <1>8, <1>9 DEF CaptureInv, BatchInv

LEMMA RunStep ==
    ASSUME CaptureInv, NEW t \in Threads, Runs(t)
    PROVE  CaptureInv'
<1>1. CaptureTypeOK /\ Cursors /\ BatchInv
  BY DEF CaptureInv
<1>2. blocks' = blocks /\ UNCHANGED batchVars
  BY DEF Runs, verify_ecdsa_signature, op_check_multisig, verify_schnorr_signature,
         ThresholdSignature, ThresholdOther, ThresholdEnds, Commit, CommitFails, Connect
<1>3. BatchInv'
  BY <1>1, <1>2, BatchFrame
<1>4. CASE verify_ecdsa_signature(t) \/ op_check_multisig(t)
  BY <1>1, <1>3, <1>4, EcdsaStep DEF CaptureInv
<1>5. CASE verify_schnorr_signature(t)
  BY <1>1, <1>3, <1>5, SchnorrStep DEF CaptureInv
<1>6. CASE ThresholdSignature(t)
  BY <1>1, <1>3, <1>6, ThresholdStep DEF CaptureInv
<1>7. CASE ThresholdOther(t)
  BY <1>1, <1>3, <1>7, ThresholdOtherStep DEF CaptureInv
<1>8. CASE ThresholdEnds(t)
  BY <1>1, <1>3, <1>8, ThresholdEndsStep DEF CaptureInv
<1>9. CASE Commit(t)
  BY <1>1, <1>3, <1>9, CommitStep DEF CaptureInv
<1>10. CASE CommitFails(t)
  BY <1>1, <1>3, <1>10, CommitFailsStep DEF CaptureInv
<1>11. CASE \E b \in Ids : Connect(t, b)
  BY <1>1, <1>3, <1>11, ConnectStep DEF CaptureInv
<1> QED
  BY <1>4, <1>5, <1>6, <1>7, <1>8, <1>9, <1>10, <1>11 DEF Runs

LEMMA CallStep ==
    ASSUME CaptureInv, UNCHANGED captureVars,
           \/ Verifying \/ Cancel
           \/ \E kind \in Kinds : Begin(kind, tables[kind])
           \/ Begin("silent", [i \in 1..SilentRows |->
                [id |-> Terminal, group |-> 0, sig |-> 0, key |-> 0, ok |-> TRUE]])
           \/ /\ stage' = "idle"
              /\ UNCHANGED <<cancel, use_gpu, batch, chunks, results, failed, links, written>>
    PROVE  CaptureInv'
<1>1. CaptureTypeOK /\ Cursors /\ BatchInv
  BY DEF CaptureInv
<1>2. CaptureTypeOK' /\ Cursors'
  BY <1>1, CaptureFrame
<1>3. blocks' = blocks
  BY DEF captureVars
<1>4. CASE Verifying
  <2>1. CASE Device \/ Join \/ Write \/ Correlate \/ Return
    BY <1>1, <1>2, <1>3, <2>1, DeviceStep, JoinStep, WriteStep, LateStep DEF CaptureInv
  <2>2. CASE \E c \in DOMAIN chunks : StartChunk(c) \/ EndChunk(c)
    BY <1>1, <1>2, <1>3, <2>2, StartChunkStep, EndChunkStep DEF CaptureInv
  <2> QED BY <1>4, <2>1, <2>2 DEF Verifying
<1>5. CASE Cancel
  BY <1>1, <1>2, <1>3, <1>5, CancelStep DEF CaptureInv
<1>6. CASE \E kind \in Kinds : Begin(kind, tables[kind])
  <2>1. PICK kind \in Kinds : Begin(kind, tables[kind])
    BY <1>6
  <2>2. tables[kind] \in Seq(Row) /\ kind \in {"ecdsa", "schnorr", "silent"}
    BY <1>1 DEF CaptureTypeOK, Kinds
  <2>3. BatchInv'
    BY <1>1, <1>3, <2>1, <2>2, BeginStep
  <2> QED BY <1>2, <2>3 DEF CaptureInv
<1>7. CASE Begin("silent", [i \in 1..SilentRows |->
                [id |-> Terminal, group |-> 0, sig |-> 0, key |-> 0, ok |-> TRUE]])
  <2> DEFINE rows == [i \in 1..SilentRows |->
                [id |-> Terminal, group |-> 0, sig |-> 0, key |-> 0, ok |-> TRUE]]
  <2>1. SilentRows \in Int
    BY CaptureAssumption
  <2>2. rows = [i \in 1..SilentRows |-> rows[i]] /\ \A i \in 1..SilentRows : rows[i] \in Row
    BY DEF Row, RowOf
  <2>3. Begin("silent", rows)
    BY <1>7
  <2> HIDE DEF rows
  <2>4. rows \in Seq(Row)
    BY <2>1, <2>2, FunctionIsSeq
  <2>5. BatchInv'
    BY <1>1, <1>3, <2>3, <2>4, BeginStep
  <2> QED BY <1>2, <2>5 DEF CaptureInv
<1>8. CASE /\ stage' = "idle"
           /\ UNCHANGED <<cancel, use_gpu, batch, chunks, results, failed, links, written>>
  BY <1>1, <1>2, <1>3, <1>8, IdleStep DEF CaptureInv
<1> QED
  BY <1>4, <1>5, <1>6, <1>7, <1>8

LEMMA CaptureSteps ==
    ASSUME CaptureInv, [Next]_vars
    PROVE  CaptureInv'
<1>1. CASE \E t \in Threads : Runs(t)
  BY <1>1, RunStep
<1>2. CASE Drains
  <2>1. CASE Resolve
    BY <2>1, ResolveStep
  <2>2. CASE Release
    BY <2>2, CallStep DEF Release
  <2>3. CASE \E kind \in Kinds : Drain(kind)
    BY <2>3, CallStep DEF Drain
  <2> QED BY <1>2, <2>1, <2>2, <2>3 DEF Drains
<1>3. CASE Verifies
  BY <1>3, CallStep DEF Verifies
<1>4. CASE Compute
  BY <1>4, CallStep DEF Compute
<1>5. CASE Cancel /\ UNCHANGED captureVars
  BY <1>5, CallStep
<1>6. CASE UNCHANGED vars
  <2>1. UNCHANGED captureVars /\ UNCHANGED batchVars
    BY <1>6 DEF vars
  <2>2. CaptureTypeOK /\ Cursors /\ BatchInv /\ blocks' = blocks
    BY <2>1 DEF CaptureInv, captureVars
  <2>3. CaptureTypeOK' /\ Cursors'
    BY <2>1, <2>2, CaptureFrame
  <2>4. BatchInv'
    BY <2>1, <2>2, BatchFrame
  <2> QED BY <2>3, <2>4 DEF CaptureInv
<1> QED
  BY <1>1, <1>2, <1>3, <1>4, <1>5, <1>6 DEF Next

LEMMA CaptureInvHolds == Spec => []CaptureInv
<1>1. Init => CaptureInv
  BY CaptureStarts
<1>2. CaptureInv /\ [Next]_vars => CaptureInv'
  BY CaptureSteps
<1> QED
  BY <1>1, <1>2, PTL DEF Spec

\* For any rows, chunks and interleaving with the stopper, the results of a call
\* that was not canceled say which rows are valid, empty only if all are, and a
\* computation that returns true has computed and written all (batch_verify_,
\* compute).
THEOREM BatchResultsTrue == Spec => []ResultsTrue
<1>1. CaptureInv => ResultsTrue
  BY DEF CaptureInv, BatchInv
<1> QED
  BY <1>1, CaptureInvHolds, PTL

\* For any threshold scripts and stacks, one whose comparison will succeed has met
\* every row that it captured its cursor for (cursor, is_threshold_batchable).
THEOREM CursorsConsumed == Spec => []CursorConsumed
<1>1. ASSUME CaptureInv PROVE CursorConsumed
  <2> SUFFICES ASSUME NEW t \in Threads, HasInput(t), Input(t).kind = "threshold",
                      thread[t].at > Len(Input(t).elements), Input(t).junk = 0,
                      thread[t].pending # 0
               PROVE  FALSE
    BY DEF CursorConsumed
  <2> DEFINE e == Input(t).elements
             x == thread[t].at
  <2>1. CaptureTypeOK /\ CursorOf(t) /\ IsBusy(t)
    BY <1>1 DEF CaptureInv, Cursors, HasInput
  <2>2. e \in Seq({"good", "bad", "empty", "malformed"}) /\ x \in Nat \ {0}
        /\ thread[t].pending \in Nat
    BY <2>1, InputTyped DEF IsScript, ThreadOf
  <2>3. Len(e) \in Nat /\ DOMAIN e = 1..Len(e) /\ x > Len(e)
    BY <2>2, LenProperties
  <2>4. Open(e, x) = {}
    BY <2>2, <2>3 DEF Open
  <2>5. Cardinality(Open(e, x)) = 0
    BY <2>4, FS_EmptySet
  <2>6. thread[t].pending = Input(t).junk + Cardinality(Open(e, x))
    BY <2>1 DEF CursorOf
  <2> QED BY <2>2, <2>5, <2>6
<1>2. CaptureInv => CursorConsumed
  BY <1>1
<1> QED
  BY <1>2, CaptureInvHolds, PTL

-------------------------------------------------------------------------------
(* Assignments of signatures to keys.                                      *)

\* The first s signatures have keys, in their order, among the first k.
Chosen(f, s, k, match) ==
    /\ f \in [0..(s - 1) -> 0..(k - 1)]
    /\ \A i \in 0..(s - 1) : <<i, f[i]>> \in match
    /\ \A i, j \in 0..(s - 1) : i < j => f[i] < f[j]
Assigns(s, k, match) == \E f : Chosen(f, s, k, match)

\* A key leaves as many before it, and after it, as there are signatures.
LEMMA ChosenInBand ==
    ASSUME NEW m \in Nat, NEW n \in Nat, NEW match, NEW f, Chosen(f, m, n, match),
           NEW i \in 0..(m - 1)
    PROVE  f[i] \in i..(n - m + i)
<1>0. /\ \A j \in 0..(m - 1) : f[j] \in 0..(n - 1)
      /\ \A j, k \in 0..(m - 1) : j < k => f[j] < f[k]
  BY DEF Chosen
<1> DEFINE X == {j \in Nat : j \in 0..(m - 1) => f[j] >= j}
           Y == {d \in Nat : (m - 1) - d \in 0..(m - 1) => f[(m - 1) - d] + d <= n - 1}
<1>1. 0 \in X /\ 0 \in Y
  BY <1>0
<1>2. ASSUME NEW j \in Nat, j \in X PROVE j + 1 \in X
  <2> SUFFICES ASSUME j + 1 \in 0..(m - 1) PROVE f[j + 1] >= j + 1
    OBVIOUS
  <2>1. j \in 0..(m - 1) /\ j < j + 1
    OBVIOUS
  <2> DEFINE a == f[j]
             b == f[j + 1]
  <2>2. a \in Int /\ b \in Int /\ a >= j /\ a < b
    BY <1>0, <1>2, <2>1
  <2> HIDE DEF a, b
  <2>3. b >= j + 1
    BY <2>2
  <2> QED BY <2>3 DEF b
<1>3. ASSUME NEW d \in Nat, d \in Y PROVE d + 1 \in Y
  <2> SUFFICES ASSUME (m - 1) - (d + 1) \in 0..(m - 1)
               PROVE  f[(m - 1) - (d + 1)] + (d + 1) <= n - 1
    OBVIOUS
  <2>1. (m - 1) - d \in 0..(m - 1) /\ (m - 1) - (d + 1) < (m - 1) - d
    OBVIOUS
  <2> DEFINE a == f[(m - 1) - (d + 1)]
             b == f[(m - 1) - d]
  <2>2. a \in Int /\ b \in Int /\ a < b
    BY <1>0, <2>1
  <2>3. b + d <= n - 1
    BY <1>3, <2>1
  <2> HIDE DEF a, b
  <2>4. a + (d + 1) <= n - 1
    BY <2>2, <2>3
  <2> QED BY <2>4 DEF a
<1> HIDE DEF X, Y
<1>4. Nat \subseteq X /\ Nat \subseteq Y
  <2>1. Nat \subseteq X
    BY <1>1, <1>2, SuccessorsFill
  <2>2. Nat \subseteq Y
    BY <1>1, <1>3, SuccessorsFill
  <2> QED BY <2>1, <2>2
<1> DEFINE d == (m - 1) - i
<1>5. i \in Nat /\ d \in Nat /\ (m - 1) - d = i
  OBVIOUS
<1>6. f[i] >= i
  BY <1>4, <1>5 DEF X
<1>7. f[i] + d <= n - 1
  BY <1>4, <1>5 DEF Y
<1> DEFINE a == f[i]
<1>8. a \in Int /\ a >= i /\ a + ((m - 1) - i) <= n - 1
  BY <1>0, <1>6, <1>7
<1> HIDE DEF a
<1>9. a \in i..(n - m + i)
  BY <1>8
<1> QED
  BY <1>9 DEF a

\* Only matches within the band count.
LEMMA BandDecides ==
    ASSUME NEW m \in Nat, NEW n \in Nat, NEW match, NEW banded,
           \A i \in 0..(m - 1) : \A k \in i..(n - m + i) :
                <<i, k>> \in banded <=> <<i, k>> \in match
    PROVE  Assigns(m, n, banded) <=> Assigns(m, n, match)
<1>1. ASSUME NEW f, Chosen(f, m, n, banded) PROVE Chosen(f, m, n, match)
  BY <1>1, ChosenInBand DEF Chosen
<1>2. ASSUME NEW f, Chosen(f, m, n, match) PROVE Chosen(f, m, n, banded)
  BY <1>2, ChosenInBand DEF Chosen
<1> QED
  BY <1>1, <1>2 DEF Assigns

\* A count of signatures that takes a key whenever it matches the next one, at
\* least while there are keys enough.
Greedy(sig, m, n, match) ==
    /\ sig[0] = 0
    /\ \A k \in 0..(n - 1) :
        /\ \/ sig[k + 1] = sig[k]
           \/ sig[k + 1] = sig[k] + 1 /\ sig[k] < m /\ <<sig[k], k>> \in match
        /\ sig[k] < m /\ n - k >= m - sig[k] /\ <<sig[k], k>> \in match =>
                sig[k + 1] = sig[k] + 1

LEMMA GreedyBounds ==
    ASSUME NEW m \in Nat, NEW n \in Nat, NEW match, NEW sig, Greedy(sig, m, n, match)
    PROVE  \A k \in 0..n : sig[k] \in 0..m
<1> DEFINE X == {k \in Nat : k <= n => sig[k] \in 0..m}
<1>1. 0 \in X
  BY DEF Greedy
<1>2. ASSUME NEW k \in Nat, k \in X PROVE k + 1 \in X
  <2> SUFFICES ASSUME k + 1 <= n PROVE sig[k + 1] \in 0..m
    OBVIOUS
  <2>1. k \in 0..(n - 1) /\ k \in 0..n /\ sig[k] \in 0..m
    BY <1>2
  <2>2. sig[k + 1] = sig[k] \/ (sig[k + 1] = sig[k] + 1 /\ sig[k] < m)
    BY <2>1 DEF Greedy
  <2> QED BY <2>1, <2>2
<1> HIDE DEF X
<1>3. Nat \subseteq X
  BY <1>1, <1>2, SuccessorsFill
<1> QED
  BY <1>3 DEF X

\* More keys do no harm.
LEMMA AssignsMore ==
    ASSUME NEW s \in Nat, NEW k \in Nat, NEW n \in Nat, k <= n, NEW match, Assigns(s, k, match)
    PROVE  Assigns(s, n, match)
<1>1. PICK f : Chosen(f, s, k, match)
  BY DEF Assigns
<1>2. 0..(k - 1) \subseteq 0..(n - 1)
  OBVIOUS
<1>3. Chosen(f, s, n, match)
  BY <1>1, <1>2 DEF Chosen
<1> QED
  BY <1>3 DEF Assigns

\* The next key is one for the next signature.
LEMMA AssignsNext ==
    ASSUME NEW s \in Nat, NEW k \in Nat, NEW match, Assigns(s, k, match), <<s, k>> \in match
    PROVE  Assigns(s + 1, k + 1, match)
<1>0. PICK f : Chosen(f, s, k, match)
  BY DEF Assigns
<1> DEFINE g == [i \in 0..((s + 1) - 1) |-> IF i < s THEN f[i] ELSE k]
<1>1. /\ \A i \in 0..(s - 1) : f[i] \in 0..(k - 1) /\ <<i, f[i]>> \in match
      /\ \A i, j \in 0..(s - 1) : i < j => f[i] < f[j]
  BY <1>0 DEF Chosen
<1>2. \A i \in 0..((s + 1) - 1) : i = s \/ (i < s /\ i \in 0..(s - 1))
  OBVIOUS
<1>3. \A i \in 0..((s + 1) - 1) : g[i] \in 0..((k + 1) - 1) /\ <<i, g[i]>> \in match
  <2> TAKE i \in 0..((s + 1) - 1)
  <2>1. CASE i = s
    <3>1. g[i] = k /\ k \in 0..((k + 1) - 1)
      BY <2>1
    <3> QED BY <2>1, <3>1
  <2>2. CASE i < s /\ i \in 0..(s - 1)
    <3>1. g[i] = f[i] /\ 0..(k - 1) \subseteq 0..((k + 1) - 1)
      BY <2>2
    <3> QED BY <1>1, <2>2, <3>1
  <2> QED BY <1>2, <2>1, <2>2
<1>4. \A i, j \in 0..((s + 1) - 1) : i < j => g[i] < g[j]
  <2> TAKE i, j \in 0..((s + 1) - 1)
  <2> HAVE i < j
  <2>1. i \in 0..(s - 1) /\ i < s
    OBVIOUS
  <2>2. g[i] = f[i] /\ f[i] \in 0..(k - 1)
    BY <1>1, <2>1
  <2>3. CASE j = s
    <3>1. g[j] = k
      BY <2>3
    <3> HIDE DEF g
    <3> QED BY <2>2, <3>1
  <2>4. CASE j < s /\ j \in 0..(s - 1)
    <3>1. g[j] = f[j]
      BY <2>4
    <3> QED BY <1>1, <2>1, <2>2, <2>4, <3>1
  <2> QED BY <1>2, <2>3, <2>4
<1>5. g = [i \in 0..((s + 1) - 1) |-> g[i]]
  OBVIOUS
<1> HIDE DEF g
<1>6. Chosen(g, s + 1, k + 1, match)
  BY <1>3, <1>4, <1>5 DEF Chosen
<1> QED BY <1>6 DEF Assigns

\* What it has counted is assigned.
LEMMA GreedyAssigns ==
    ASSUME NEW m \in Nat, NEW n \in Nat, NEW match, NEW sig, Greedy(sig, m, n, match)
    PROVE  Assigns(sig[n], n, match)
<1>0. \A k \in 0..n : sig[k] \in 0..m
  BY GreedyBounds
<1> DEFINE X == {k \in Nat : k <= n => Assigns(sig[k], k, match)}
<1>1. 0 \in X
  <2> DEFINE f == [i \in 0..(0 - 1) |-> 0]
  <2>1. 0..(0 - 1) = {}
    OBVIOUS
  <2>2. Chosen(f, 0, 0, match)
    BY <2>1 DEF Chosen
  <2>3. Assigns(sig[0], 0, match)
    BY <2>2 DEF Assigns, Greedy
  <2> QED BY <2>3
<1>2. ASSUME NEW k \in Nat, k \in X PROVE k + 1 \in X
  <2> SUFFICES ASSUME k + 1 <= n PROVE Assigns(sig[k + 1], k + 1, match)
    OBVIOUS
  <2> DEFINE s == sig[k]
  <2>1. k \in 0..(n - 1) /\ k \in 0..n /\ s \in Nat
    BY <1>0
  <2>2. Assigns(s, k, match)
    BY <1>2, <2>1
  <2>3. sig[k + 1] = s \/ (sig[k + 1] = s + 1 /\ <<s, k>> \in match)
    BY <2>1 DEF Greedy
  <2> HIDE DEF s
  <2>4. k + 1 \in Nat /\ k <= k + 1
    OBVIOUS
  <2> QED BY <2>1, <2>2, <2>3, <2>4, AssignsMore, AssignsNext
<1> HIDE DEF X
<1>3. Nat \subseteq X
  BY <1>1, <1>2, SuccessorsFill
<1> QED
  BY <1>3 DEF X

\* It counts all, if all can be assigned.
LEMMA GreedySucceeds ==
    ASSUME NEW m \in Nat, NEW n \in Nat, NEW match, NEW sig, Greedy(sig, m, n, match)
    PROVE  sig[n] = m <=> Assigns(m, n, match)
<1>0. \A k \in 0..n : sig[k] \in 0..m
  BY GreedyBounds
<1>1. sig[n] = m => Assigns(m, n, match)
  BY GreedyAssigns
<1>2. ASSUME NEW f, Chosen(f, m, n, match) PROVE sig[n] = m
  <2>1. /\ \A i \in 0..(m - 1) : f[i] \in 0..(n - 1) /\ <<i, f[i]>> \in match
        /\ \A i, j \in 0..(m - 1) : i < j => f[i] < f[j]
    BY <1>2 DEF Chosen
  <2> DEFINE X == {k \in Nat : k <= n => \A i \in 0..(m - 1) : f[i] < k => sig[k] > i}
  <2>2. 0 \in X
    <3> SUFFICES ASSUME NEW i \in 0..(m - 1), f[i] < 0 PROVE FALSE
      OBVIOUS
    <3> DEFINE a == f[i]
    <3>1. a \in 0..(n - 1) /\ a < 0
      BY <2>1
    <3> HIDE DEF a
    <3> QED BY <3>1
  <2>3. ASSUME NEW k \in Nat, k \in X PROVE k + 1 \in X
    <3> SUFFICES ASSUME k + 1 <= n, NEW i \in 0..(m - 1), f[i] < k + 1
                 PROVE  sig[k + 1] > i
      OBVIOUS
    <3> DEFINE s == sig[k]
               z == sig[k + 1]
    <3>1. k \in 0..(n - 1) /\ k \in 0..n /\ k \in 0..n /\ s \in 0..m /\ z \in 0..m
      BY <1>0
    <3>2. /\ (z = s \/ z = s + 1)
          /\ s < m /\ n - k >= m - s /\ <<s, k>> \in match => z = s + 1
      BY <3>1 DEF Greedy
    <3>3. \A j \in 0..(m - 1) : f[j] < k => s > j
      BY <2>3, <3>1
    <3>4. CASE f[i] < k
      <4>1. s > i
        BY <3>3, <3>4
      <4> HIDE DEF s, z
      <4> QED BY <3>1, <3>2, <4>1 DEF z
    <3>5. CASE f[i] = k
      <4>1. s >= i
        <5>1. CASE i = 0
          BY <3>1, <5>1
        <5>2. CASE i # 0
          <6>1. i - 1 \in 0..(m - 1) /\ i - 1 < i
            BY <5>2
          <6>2. f[i - 1] < k
            BY <2>1, <3>5, <6>1
          <6>3. s > i - 1
            BY <3>3, <6>1, <6>2
          <6> HIDE DEF s
          <6> QED BY <3>1, <6>3
        <5> QED BY <5>1, <5>2
      <4>2. k \in i..(n - m + i)
        BY <1>2, <3>5, ChosenInBand
      <4>3. n - k >= m - i
        BY <4>2
      <4>4. CASE s = i
        <5>1. <<s, k>> \in match
          BY <2>1, <3>5, <4>4
        <5>2. z = s + 1
          <6> HIDE DEF s, z
          <6> QED BY <3>1, <3>2, <4>3, <4>4, <5>1
        <5> HIDE DEF s
        <5> QED BY <3>1, <4>4, <5>2
      <4>5. CASE s > i
        <5> HIDE DEF s
        <5> QED BY <3>1, <3>2, <4>5
      <4> HIDE DEF s
      <4> QED BY <3>1, <4>1, <4>4, <4>5
    <3>6. f[i] < k \/ f[i] = k
      <4> DEFINE a == f[i]
      <4>1. a \in 0..(n - 1)
        BY <2>1
      <4>3. a < k + 1
        OBVIOUS
      <4> HIDE DEF a
      <4>2. a < k \/ a = k
        BY <4>1, <4>3
      <4> QED BY <4>2 DEF a
    <3> QED BY <3>4, <3>5, <3>6
  <2> HIDE DEF X
  <2>4. Nat \subseteq X
    BY <2>2, <2>3, SuccessorsFill
  <2>5. \A i \in 0..(m - 1) : f[i] < n => sig[n] > i
    BY <2>4 DEF X
  <2>6. CASE m = 0
    BY <1>0, <2>6
  <2>7. CASE m # 0
    <3>1. m - 1 \in 0..(m - 1)
      BY <2>7
    <3>2. f[m - 1] < n
      <4> DEFINE a == f[m - 1]
      <4>1. a \in 0..(n - 1)
        BY <2>1, <3>1
      <4> HIDE DEF a
      <4>2. a < n
        BY <4>1
      <4> QED BY <4>2 DEF a
    <3>3. sig[n] > m - 1
      BY <2>5, <3>1, <3>2
    <3>4. sig[n] \in 0..m
      BY <1>0
    <3> QED BY <3>3, <3>4
  <2> QED BY <2>6, <2>7
<1> QED
  BY <1>1, <1>2 DEF Assigns

\* What the recursive definitions say of their values up to n (op_check_multisig,
\* verify_group, meets_threshold).
TrialFrom(f, m, match, n) ==
    [d \in 0..n |->
        IF d = 0 THEN 0
        ELSE IF f[d - 1] < m /\ <<f[d - 1], d - 1>> \in match THEN f[d - 1] + 1 ELSE f[d - 1]]
GroupFrom(f, group, n) ==
    [d \in 0..n |->
        IF d = 0 THEN 0
        ELSE IF /\ f[d - 1] < group.m
                /\ group.n - (d - 1) >= group.m - f[d - 1]
                /\ <<f[d - 1], d - 1>> \in group.match
             THEN f[d - 1] + 1 ELSE f[d - 1]]
Matched(last, s, keys, match) == {k \in last..(keys - 1) : <<s - 1, k>> \in match}
NextFrom(f, keys, match, n) ==
    [d \in 0..n |->
        IF d = 0 THEN 0
        ELSE IF Matched(f[d - 1], d, keys, match) = {} THEN keys + 1
             ELSE Min(Matched(f[d - 1], d, keys, match)) + 1]

\* There are functions of these values.
LEMMA TrialsExist ==
    ASSUME NEW m, NEW match
    PROVE  \A n \in Nat : \E f : f = TrialFrom(f, m, match, n)
<1> DEFINE X == {n \in Nat : \E f : f = TrialFrom(f, m, match, n)}
<1>1. 0 \in X
  <2> DEFINE g == [d \in 0..0 |-> 0]
  <2>1. g = TrialFrom(g, m, match, 0)
    BY DEF TrialFrom
  <2> QED BY <2>1
<1>2. ASSUME NEW n \in Nat, n \in X PROVE n + 1 \in X
  <2>1. PICK h : h = TrialFrom(h, m, match, n)
    BY <1>2
  <2> DEFINE g == [d \in 0..(n + 1) |-> IF d <= n THEN h[d] ELSE IF h[n] < m /\ <<h[n], n + 1 - 1>> \in match THEN h[n] + 1 ELSE h[n]]
  <2>2. \A d \in 0..n : h[d] = IF d = 0 THEN 0 ELSE IF h[d - 1] < m /\ <<h[d - 1], d - 1>> \in match THEN h[d - 1] + 1 ELSE h[d - 1]
    BY <2>1 DEF TrialFrom
  <2>3. \A d \in 0..n : g[d] = h[d]
    OBVIOUS
  <2>4. g[n + 1] = IF h[n] < m /\ <<h[n], n + 1 - 1>> \in match THEN h[n] + 1 ELSE h[n]
    OBVIOUS
  <2>5. g = [d \in 0..(n + 1) |-> g[d]]
    OBVIOUS
  <2> HIDE DEF g
  <2>6. ASSUME NEW d \in 0..(n + 1)
        PROVE  g[d] = IF d = 0 THEN 0 ELSE IF g[d - 1] < m /\ <<g[d - 1], d - 1>> \in match THEN g[d - 1] + 1 ELSE g[d - 1]
    <3>1. CASE d = 0
      <4>1. d \in 0..n
        BY <3>1
      <4>2. h[d] = 0
        BY <2>2, <3>1, <4>1
      <4>3. g[d] = 0
        BY <2>3, <4>1, <4>2
      <4> QED BY <3>1, <4>3
    <3>2. CASE d \in 1..n
      <4>1. d \in 0..n /\ d - 1 \in 0..n /\ d # 0
        BY <3>2
      <4> QED BY <2>2, <2>3, <4>1
    <3>3. CASE d = n + 1
      <4>1. d - 1 = n /\ n \in 0..n /\ d # 0
        BY <3>3
      <4> QED BY <2>3, <2>4, <3>3, <4>1
    <3> QED BY <3>1, <3>2, <3>3
  <2>7. g = TrialFrom(g, m, match, n + 1)
    BY <2>5, <2>6 DEF TrialFrom
  <2> QED BY <2>7
<1> HIDE DEF X
<1>3. Nat \subseteq X
  BY <1>1, <1>2, SuccessorsFill
<1> QED
  BY <1>3 DEF X


LEMMA GroupsExist ==
    ASSUME NEW group
    PROVE  \A n \in Nat : \E f : f = GroupFrom(f, group, n)
<1> DEFINE X == {n \in Nat : \E f : f = GroupFrom(f, group, n)}
<1>1. 0 \in X
  <2> DEFINE g == [d \in 0..0 |-> 0]
  <2>1. g = GroupFrom(g, group, 0)
    BY DEF GroupFrom
  <2> QED BY <2>1
<1>2. ASSUME NEW n \in Nat, n \in X PROVE n + 1 \in X
  <2>1. PICK h : h = GroupFrom(h, group, n)
    BY <1>2
  <2> DEFINE g == [d \in 0..(n + 1) |-> IF d <= n THEN h[d] ELSE IF h[n] < group.m /\ group.n - (n + 1 - 1) >= group.m - h[n] /\ <<h[n], n + 1 - 1>> \in group.match THEN h[n] + 1 ELSE h[n]]
  <2>2. \A d \in 0..n : h[d] = IF d = 0 THEN 0 ELSE IF h[d - 1] < group.m /\ group.n - (d - 1) >= group.m - h[d - 1] /\ <<h[d - 1], d - 1>> \in group.match THEN h[d - 1] + 1 ELSE h[d - 1]
    BY <2>1 DEF GroupFrom
  <2>3. \A d \in 0..n : g[d] = h[d]
    OBVIOUS
  <2>4. g[n + 1] = IF h[n] < group.m /\ group.n - (n + 1 - 1) >= group.m - h[n] /\ <<h[n], n + 1 - 1>> \in group.match THEN h[n] + 1 ELSE h[n]
    OBVIOUS
  <2>5. g = [d \in 0..(n + 1) |-> g[d]]
    OBVIOUS
  <2> HIDE DEF g
  <2>6. ASSUME NEW d \in 0..(n + 1)
        PROVE  g[d] = IF d = 0 THEN 0 ELSE IF g[d - 1] < group.m /\ group.n - (d - 1) >= group.m - g[d - 1] /\ <<g[d - 1], d - 1>> \in group.match THEN g[d - 1] + 1 ELSE g[d - 1]
    <3>1. CASE d = 0
      <4>1. d \in 0..n
        BY <3>1
      <4>2. h[d] = 0
        BY <2>2, <3>1, <4>1
      <4>3. g[d] = 0
        BY <2>3, <4>1, <4>2
      <4> QED BY <3>1, <4>3
    <3>2. CASE d \in 1..n
      <4>1. d \in 0..n /\ d - 1 \in 0..n /\ d # 0
        BY <3>2
      <4> QED BY <2>2, <2>3, <4>1
    <3>3. CASE d = n + 1
      <4>1. d - 1 = n /\ n \in 0..n /\ d # 0
        BY <3>3
      <4> QED BY <2>3, <2>4, <3>3, <4>1
    <3> QED BY <3>1, <3>2, <3>3
  <2>7. g = GroupFrom(g, group, n + 1)
    BY <2>5, <2>6 DEF GroupFrom
  <2> QED BY <2>7
<1> HIDE DEF X
<1>3. Nat \subseteq X
  BY <1>1, <1>2, SuccessorsFill
<1> QED
  BY <1>3 DEF X


LEMMA NextsExist ==
    ASSUME NEW keys, NEW match
    PROVE  \A n \in Nat : \E f : f = NextFrom(f, keys, match, n)
<1> DEFINE X == {n \in Nat : \E f : f = NextFrom(f, keys, match, n)}
<1>1. 0 \in X
  <2> DEFINE g == [d \in 0..0 |-> 0]
  <2>1. g = NextFrom(g, keys, match, 0)
    BY DEF NextFrom
  <2> QED BY <2>1
<1>2. ASSUME NEW n \in Nat, n \in X PROVE n + 1 \in X
  <2>1. PICK h : h = NextFrom(h, keys, match, n)
    BY <1>2
  <2> DEFINE g == [d \in 0..(n + 1) |-> IF d <= n THEN h[d] ELSE IF Matched(h[n], n + 1, keys, match) = {} THEN keys + 1 ELSE Min(Matched(h[n], n + 1, keys, match)) + 1]
  <2>2. \A d \in 0..n : h[d] = IF d = 0 THEN 0 ELSE IF Matched(h[d - 1], d, keys, match) = {} THEN keys + 1 ELSE Min(Matched(h[d - 1], d, keys, match)) + 1
    BY <2>1 DEF NextFrom
  <2>3. \A d \in 0..n : g[d] = h[d]
    OBVIOUS
  <2>4. g[n + 1] = IF Matched(h[n], n + 1, keys, match) = {} THEN keys + 1 ELSE Min(Matched(h[n], n + 1, keys, match)) + 1
    OBVIOUS
  <2>5. g = [d \in 0..(n + 1) |-> g[d]]
    OBVIOUS
  <2> HIDE DEF g
  <2>6. ASSUME NEW d \in 0..(n + 1)
        PROVE  g[d] = IF d = 0 THEN 0 ELSE IF Matched(g[d - 1], d, keys, match) = {} THEN keys + 1 ELSE Min(Matched(g[d - 1], d, keys, match)) + 1
    <3>1. CASE d = 0
      <4>1. d \in 0..n
        BY <3>1
      <4>2. h[d] = 0
        BY <2>2, <3>1, <4>1
      <4>3. g[d] = 0
        BY <2>3, <4>1, <4>2
      <4> QED BY <3>1, <4>3
    <3>2. CASE d \in 1..n
      <4>1. d \in 0..n /\ d - 1 \in 0..n /\ d # 0
        BY <3>2
      <4> QED BY <2>2, <2>3, <4>1
    <3>3. CASE d = n + 1
      <4>1. d - 1 = n /\ n \in 0..n /\ d # 0
        BY <3>3
      <4> QED BY <2>3, <2>4, <3>3, <4>1
    <3> QED BY <3>1, <3>2, <3>3
  <2>7. g = NextFrom(g, keys, match, n + 1)
    BY <2>5, <2>6 DEF NextFrom
  <2> QED BY <2>7
<1> HIDE DEF X
<1>3. Nat \subseteq X
  BY <1>1, <1>2, SuccessorsFill
<1> QED
  BY <1>3 DEF X

\* The trial of op_check_multisig, each key in its order with the signature that is
\* next, succeeds exactly if the signatures have matching keys in their order.
THEOREM TrialDecides ==
    ASSUME NEW m \in Nat, NEW n \in Nat, NEW match
    PROVE  Trial(m, n, match) <=> Assigns(m, n, match)
<1> DEFINE sig == CHOOSE f : f = TrialFrom(f, m, match, n)
<1>1. Trial(m, n, match) <=> sig[n] = m
  BY Zenon DEF Trial, TrialFrom
<1>2. sig = TrialFrom(sig, m, match, n)
  BY TrialsExist
<1> HIDE DEF sig
<1>3. \A d \in 0..n : sig[d] =
        IF d = 0 THEN 0
        ELSE IF sig[d - 1] < m /\ <<sig[d - 1], d - 1>> \in match THEN sig[d - 1] + 1
             ELSE sig[d - 1]
  BY <1>2 DEF TrialFrom
<1>4. Greedy(sig, m, n, match)
  <2>1. sig[0] = 0
    <3>1. 0 \in 0..n
      OBVIOUS
    <3> QED BY <1>3, <3>1
  <2>2. ASSUME NEW k \in 0..(n - 1)
        PROVE  sig[k + 1] = IF sig[k] < m /\ <<sig[k], k>> \in match THEN sig[k] + 1 ELSE sig[k]
    <3>1. k + 1 \in 0..n /\ k + 1 # 0 /\ (k + 1) - 1 = k
      OBVIOUS
    <3> QED BY <1>3, <3>1
  <2> QED BY <2>1, <2>2 DEF Greedy
<1>5. sig[n] = m <=> Assigns(m, n, match)
  BY <1>4, GreedySucceeds
<1> QED
  BY <1>1, <1>5

\* And so does verify_group, which gives up a signature that has too few keys left.
THEOREM GroupDecides ==
    ASSUME NEW group \in Group
    PROVE  verify_group(group) <=> Assigns(group.m, group.n, group.match)
<1> DEFINE m == group.m
           n == group.n
           match == group.match
           sig == CHOOSE f : f = GroupFrom(f, group, n)
<1>0. m \in Nat /\ n \in Nat
  BY DEF Group
<1>1. verify_group(group) <=> sig[n] = m
  BY Zenon DEF verify_group, GroupFrom
<1>2. sig = GroupFrom(sig, group, n)
  BY <1>0, GroupsExist
<1> HIDE DEF sig
<1>3. \A d \in 0..n : sig[d] =
        IF d = 0 THEN 0
        ELSE IF sig[d - 1] < m /\ n - (d - 1) >= m - sig[d - 1] /\ <<sig[d - 1], d - 1>> \in match
             THEN sig[d - 1] + 1 ELSE sig[d - 1]
  BY <1>2 DEF GroupFrom
<1> HIDE DEF m, n, match
<1>4. Greedy(sig, m, n, match)
  <2>1. sig[0] = 0
    <3>1. 0 \in 0..n
      BY <1>0
    <3> QED BY <1>3, <3>1
  <2>2. ASSUME NEW k \in 0..(n - 1)
        PROVE  sig[k + 1] = IF sig[k] < m /\ n - k >= m - sig[k] /\ <<sig[k], k>> \in match
                            THEN sig[k] + 1 ELSE sig[k]
    <3>1. k + 1 \in 0..n /\ k + 1 # 0 /\ (k + 1) - 1 = k
      BY <1>0
    <3> QED BY <1>3, <3>1
  <2> QED BY <2>1, <2>2 DEF Greedy
<1>5. sig[n] = m <=> Assigns(m, n, match)
  BY <1>0, <1>4, GreedySucceeds
<1> QED
  BY <1>1, <1>5 DEF m, n, match

\* The least of some numbers.
LEMMA LeastOf ==
    ASSUME NEW S, S \subseteq Nat, S # {}
    PROVE  Min(S) \in S /\ \A x \in S : Min(S) <= x
<1>1. PICK n \in S : \A m \in S : ~(<<m, n>> \in OpToRel(<, Nat))
  BY NatLessThanWellFounded, WFMin
<1>2. \A m \in S : ~(m < n)
  BY <1>1 DEF OpToRel
<1>3. \A m \in S : n <= m
  BY <1>2
<1> QED
  BY <1>3 DEF Min

LEMMA AssignsNone ==
    ASSUME NEW n \in Nat, NEW match
    PROVE  Assigns(0, n, match)
<1> DEFINE f == [i \in 0..(0 - 1) |-> 0]
<1>1. 0..(0 - 1) = {}
  OBVIOUS
<1>2. Chosen(f, 0, n, match)
  BY <1>1 DEF Chosen
<1> QED
  BY <1>2 DEF Assigns

\* And meets_threshold, where each signature takes the first of the keys after the
\* last that it has matched.
THEOREM ThresholdDecides ==
    ASSUME NEW s \in Nat, NEW keys \in Nat, NEW match
    PROVE  meets_threshold(s, keys, match) <=> Assigns(s, keys, match)
<1> DEFINE next == CHOOSE f : f = NextFrom(f, keys, match, s)
<1>1. meets_threshold(s, keys, match) <=> s <= keys /\ next[s] <= keys
  BY Zenon DEF meets_threshold, NextFrom, Matched
<1>2. next = NextFrom(next, keys, match, s)
  BY NextsExist
<1> HIDE DEF next
<1>3. 0 \in 0..s /\ s \in 0..s
  OBVIOUS
<1>4. next[0] = 0
  BY <1>2, <1>3 DEF NextFrom
<1>5. ASSUME NEW d \in 0..(s - 1)
      PROVE  next[d + 1] = IF Matched(next[d], d + 1, keys, match) = {} THEN keys + 1
                           ELSE Min(Matched(next[d], d + 1, keys, match)) + 1
  <2>1. d + 1 \in 0..s /\ d + 1 # 0 /\ (d + 1) - 1 = d
    OBVIOUS
  <2> QED BY <1>2, <2>1 DEF NextFrom
<1>6. ASSUME NEW d \in 0..(s - 1), NEW last \in Nat
      PROVE  /\ \A k : k \in Matched(last, d + 1, keys, match) <=>
                        k \in last..(keys - 1) /\ <<d, k>> \in match
             /\ Matched(last, d + 1, keys, match) \subseteq Nat
  <2>1. (d + 1) - 1 = d /\ last..(keys - 1) \subseteq Nat
    OBVIOUS
  <2> QED BY <2>1 DEF Matched
<1>7. ASSUME NEW d \in 0..(s - 1), next[d] \in Nat, next[d + 1] <= keys
      PROVE  next[d + 1] - 1 \in next[d]..(keys - 1) /\ <<d, next[d + 1] - 1>> \in match
  <2> DEFINE S == Matched(next[d], d + 1, keys, match)
  <2>1. S # {}
    BY <1>5, <1>7
  <2>2. S \subseteq Nat
    BY <1>6, <1>7
  <2>3. Min(S) \in S
    BY <2>1, <2>2, LeastOf
  <2>4. Min(S) \in Nat /\ Min(S) \in next[d]..(keys - 1) /\ <<d, Min(S)>> \in match
    BY <1>6, <1>7, <2>2, <2>3
  <2>5. next[d + 1] = Min(S) + 1
    BY <1>5, <2>1
  <2> HIDE DEF S
  <2>6. next[d + 1] - 1 = Min(S)
    BY <2>4, <2>5
  <2> QED BY <2>4, <2>6
<1>8. ASSUME NEW d \in 0..(s - 1), next[d] \in Nat, NEW k \in next[d]..(keys - 1),
             <<d, k>> \in match
      PROVE  next[d + 1] <= k + 1
  <2> DEFINE S == Matched(next[d], d + 1, keys, match)
  <2>1. k \in S /\ S \subseteq Nat
    BY <1>6, <1>8
  <2>2. Min(S) \in Nat /\ Min(S) <= k
    BY <2>1, LeastOf
  <2>3. next[d + 1] = Min(S) + 1
    BY <1>5, <2>1
  <2> HIDE DEF S
  <2>4. k \in Nat
    BY <1>8
  <2> QED BY <2>2, <2>3, <2>4
<1>9. \A d \in 0..s : next[d] \in Nat
  <2> DEFINE X == {d \in Nat : d <= s => next[d] \in Nat}
  <2>1. 0 \in X
    BY <1>4
  <2>2. ASSUME NEW d \in Nat, d \in X PROVE d + 1 \in X
    <3> SUFFICES ASSUME d + 1 <= s PROVE next[d + 1] \in Nat
      OBVIOUS
    <3>1. d \in 0..(s - 1) /\ next[d] \in Nat
      BY <2>2
    <3> DEFINE S == Matched(next[d], d + 1, keys, match)
    <3>2. S \subseteq Nat
      BY <1>6, <3>1
    <3>3. S # {} => Min(S) \in Nat
      BY <3>2, LeastOf
    <3>4. next[d + 1] = IF S = {} THEN keys + 1 ELSE Min(S) + 1
      BY <1>5, <3>1
    <3> HIDE DEF S
    <3>5. keys + 1 \in Nat /\ \A x \in Nat : x + 1 \in Nat
      OBVIOUS
    <3> QED BY <3>3, <3>4, <3>5
  <2> HIDE DEF X
  <2>3. Nat \subseteq X
    BY <2>1, <2>2, SuccessorsFill
  <2> QED BY <2>3 DEF X
<1>10. ASSUME next[s] <= keys PROVE Assigns(s, keys, match)
  \* No signature before is without a key: there is none after it.
  <2> DEFINE Y == {d \in Nat : d <= s => next[s - d] <= keys}
             X == {d \in Nat : d <= s => Assigns(d, next[d], match)}
  <2>1. 0 \in Y
    BY <1>10
  <2>2. ASSUME NEW d \in Nat, d \in Y PROVE d + 1 \in Y
    <3> SUFFICES ASSUME d + 1 <= s PROVE next[s - (d + 1)] <= keys
      OBVIOUS
    <3> DEFINE e == s - (d + 1)
    <3>1. e \in 0..(s - 1) /\ e \in 0..s /\ e + 1 = s - d /\ d <= s
      OBVIOUS
    <3>2. next[e] \in Nat /\ next[e + 1] <= keys
      BY <1>9, <2>2, <3>1
    <3>3. next[e + 1] - 1 \in next[e]..(keys - 1)
      BY <1>7, <3>1, <3>2
    <3> HIDE DEF e
    <3>4. next[e] <= keys
      BY <3>2, <3>3
    <3> QED BY <3>4 DEF e
  <2>3. 0 \in X
    BY <1>4, AssignsNone
  <2> HIDE DEF Y
  <2>4. Nat \subseteq Y
    BY <2>1, <2>2, SuccessorsFill
  <2>5. ASSUME NEW d \in Nat, d \in X PROVE d + 1 \in X
    <3> SUFFICES ASSUME d + 1 <= s PROVE Assigns(d + 1, next[d + 1], match)
      OBVIOUS
    <3>1. d \in 0..(s - 1) /\ d \in 0..s /\ d + 1 \in 0..s /\ d <= s
      OBVIOUS
    <3>2. next[d] \in Nat /\ next[d + 1] \in Nat /\ Assigns(d, next[d], match)
      BY <1>9, <2>5, <3>1
    <3>3. next[d + 1] <= keys
      <4>1. s - (d + 1) \in Nat /\ s - (d + 1) <= s /\ s - (s - (d + 1)) = d + 1
        OBVIOUS
      <4>2. s - (d + 1) \in Y
        BY <2>4, <4>1
      <4> QED BY <4>1, <4>2 DEF Y
    <3> DEFINE k == next[d + 1] - 1
    <3>4. k \in next[d]..(keys - 1) /\ <<d, k>> \in match
      BY <1>7, <3>1, <3>2, <3>3
    <3>5. next[d + 1] = k + 1
      BY <3>2
    <3> HIDE DEF k
    <3>6. k \in Nat /\ next[d] <= k
      BY <3>2, <3>4
    <3>7. Assigns(d, k, match)
      BY <3>2, <3>6, AssignsMore
    <3>8. Assigns(d + 1, k + 1, match)
      BY <3>4, <3>6, <3>7, AssignsNext
    <3> QED BY <3>5, <3>8
  <2> HIDE DEF X
  <2>6. Nat \subseteq X
    BY <2>3, <2>5, SuccessorsFill
  <2>7. Assigns(s, next[s], match)
    BY <2>6 DEF X
  <2> QED BY <1>3, <1>9, <1>10, <2>7, AssignsMore
<1>11. ASSUME NEW f, Chosen(f, s, keys, match) PROVE s <= keys /\ next[s] <= keys
  <2>1. /\ \A i \in 0..(s - 1) : f[i] \in 0..(keys - 1) /\ <<i, f[i]>> \in match
        /\ \A i, j \in 0..(s - 1) : i < j => f[i] < f[j]
    BY <1>11 DEF Chosen
  <2> DEFINE X == {d \in Nat : d <= s => \A k \in Nat : (d # 0 => f[d - 1] < k) => next[d] <= k}
  <2>2. 0 \in X
    BY <1>4
  <2>3. ASSUME NEW d \in Nat, d \in X PROVE d + 1 \in X
    <3> SUFFICES ASSUME d + 1 <= s, NEW k \in Nat, f[d] < k PROVE next[d + 1] <= k
      <4>1. (d + 1) - 1 = d /\ d + 1 # 0
        OBVIOUS
      <4> QED BY <4>1
    <3> DEFINE a == f[d]
    <3>1. d \in 0..(s - 1) /\ d \in 0..s /\ d + 1 \in 0..s /\ d <= s
      OBVIOUS
    <3>2. a \in 0..(keys - 1) /\ <<d, a>> \in match /\ a \in Nat /\ a < k
      BY <2>1, <3>1
    <3>3. next[d] <= a
      <4>1. d # 0 => d - 1 \in 0..(s - 1) /\ d - 1 < d
        OBVIOUS
      <4>2. d # 0 => f[d - 1] < a
        BY <2>1, <3>1, <4>1
      <4> HIDE DEF a
      <4> QED BY <2>3, <3>1, <3>2, <4>2
    <3>4. next[d] \in Nat /\ next[d + 1] \in Nat
      BY <1>9, <3>1
    <3> HIDE DEF a
    <3>5. a \in next[d]..(keys - 1)
      BY <3>2, <3>3, <3>4
    <3>6. next[d + 1] <= a + 1
      BY <1>8, <3>1, <3>2, <3>4, <3>5
    <3> QED BY <3>2, <3>4, <3>6
  <2> HIDE DEF X
  <2>4. Nat \subseteq X
    BY <2>2, <2>3, SuccessorsFill
  <2>5. CASE s = 0
    BY <1>4, <2>5
  <2>6. CASE s # 0
    <3>1. s - 1 \in 0..(s - 1)
      BY <2>6
    <3> DEFINE a == f[s - 1]
    <3>2. a \in 0..(keys - 1) /\ a \in (s - 1)..(keys - s + (s - 1))
      BY <1>11, <2>1, <3>1, ChosenInBand
    <3> HIDE DEF a
    <3>3. a < keys /\ s <= keys
      BY <3>2
    <3>4. next[s] <= keys
      BY <2>4, <3>3 DEF X, a
    <3> QED BY <3>3, <3>4
  <2> QED BY <2>5, <2>6
<1>12. Assigns(s, keys, match) => s <= keys /\ next[s] <= keys
  BY <1>11 DEF Assigns
<1> QED
  BY <1>1, <1>10, <1>12

LEMMA AssignsOne ==
    ASSUME NEW match
    PROVE  Assigns(1, 1, match) <=> <<0, 0>> \in match
<1>1. ASSUME NEW f, Chosen(f, 1, 1, match) PROVE <<0, 0>> \in match
  <2>1. f[0] \in 0..(1 - 1) /\ <<0, f[0]>> \in match
    BY <1>1 DEF Chosen
  <2>2. f[0] = 0
    BY <2>1
  <2> QED BY <2>1, <2>2
<1>2. ASSUME <<0, 0>> \in match PROVE Assigns(1, 1, match)
  <2>1. Assigns(0, 0, match)
    BY AssignsNone
  <2>2. Assigns(0 + 1, 0 + 1, match)
    BY <1>2, <2>1, AssignsNext
  <2> QED BY <2>2
<1> QED
  BY <1>1, <1>2 DEF Assigns

-------------------------------------------------------------------------------
(* The rows of a group.                                                    *)

LEMMA Quotient ==
    ASSUME NEW k \in Nat \ {0}, NEW s \in Nat, NEW q \in 0..(k - 1)
    PROVE  s * k + q \in Nat /\ (s * k + q) \div k = s /\ (s * k + q) % k = q
<1> DEFINE p == s * k
           a == p + q
           d == a \div k
           e == d * k
<1>0. p \in Nat /\ a \in Nat
  OBVIOUS
<1>1. d \in Nat /\ e <= a /\ a < e + k /\ e \in Nat
  <2>1. a \in Nat
    BY <1>0
  <2> HIDE DEF a
  <2>2. d \in Nat /\ e <= a /\ a < e + k
    BY <2>1, DividedBy
  <2> HIDE DEF d
  <2> QED BY <2>2
<1>2. (d + 1) * k = e + k
  BY <1>1
<1>3. (s + 1) * k = p + k
  OBVIOUS
<1>4. ASSUME d < s PROVE FALSE
  <2>1. (d + 1) * k <= s * k
    <3> HIDE DEF d
    <3> QED BY <1>1, <1>4, Ordered
  <2> HIDE DEF d, e, p
  <2>2. e + k <= p
    BY <1>2, <2>1 DEF p
  <2> QED BY <1>0, <1>1, <2>2
<1>5. ASSUME s < d PROVE FALSE
  <2>1. (s + 1) * k <= d * k
    <3> HIDE DEF d
    <3> QED BY <1>1, <1>5, Ordered
  <2> HIDE DEF d, e, p
  <2>2. p + k <= e
    BY <1>3, <2>1 DEF e
  <2> QED BY <1>0, <1>1, <2>2
<1>6. d = s
  <2> HIDE DEF d
  <2> QED BY <1>1, <1>4, <1>5
<1>7. a % k = a - d * k
  <2> HIDE DEF d, p
  <2>1. a \in Nat
    BY <1>0
  <2> HIDE DEF a
  <2> QED BY <2>1 DEF d
<1>8. a - s * k = q
  <2> HIDE DEF d
  <2>1. a - p = q
    <3> HIDE DEF p
    <3> QED BY <1>0
  <2> HIDE DEF a
  <2> QED BY <2>1
<1>9. a % k = q
  BY <1>6, <1>7, <1>8
<1> QED
  BY <1>0, <1>6, <1>9

\* The row of a signature and a key.
Tried(id, ordinal, group, s, k) ==
    [id |-> id, group |-> ordinal, sig |-> s, key |-> k, ok |-> <<s, k>> \in group.match]

LEMMA TriedIs ==
    ASSUME NEW id, NEW ordinal, NEW group, NEW s, NEW k
    PROVE  /\ Tried(id, ordinal, group, s, k).id = id
           /\ Tried(id, ordinal, group, s, k).group = ordinal
           /\ Tried(id, ordinal, group, s, k).sig = s
           /\ Tried(id, ordinal, group, s, k).key = k
           /\ Tried(id, ordinal, group, s, k).ok <=> <<s, k>> \in group.match
<1> DEFINE ok == <<s, k>> \in group.match
           row == [id |-> id, group |-> ordinal, sig |-> s, key |-> k, ok |-> ok]
<1>1. row = Tried(id, ordinal, group, s, k)
  BY DEF Tried
<1>2. (ok <=> <<s, k>> \in group.match) /\ ok \in BOOLEAN
  OBVIOUS
<1> HIDE DEF ok
<1>3. row.id = id /\ row.group = ordinal /\ row.sig = s /\ row.key = k /\ row.ok = ok
  OBVIOUS
<1> HIDE DEF row
<1> QED
  BY <1>1, <1>2, <1>3

LEMMA TriedFor ==
    \A id, ordinal, group, s, k :
        /\ Tried(id, ordinal, group, s, k).id = id
        /\ Tried(id, ordinal, group, s, k).group = ordinal
<1> TAKE id, ordinal, group, s, k
<1>1. /\ Tried(id, ordinal, group, s, k).id = id
      /\ Tried(id, ordinal, group, s, k).group = ordinal
      /\ Tried(id, ordinal, group, s, k).sig = s
      /\ Tried(id, ordinal, group, s, k).key = k
      /\ Tried(id, ordinal, group, s, k).ok <=> <<s, k>> \in group.match
  BY TriedIs
<1> QED
  BY <1>1

\* Each signature is tried with the keys of its band, and nothing else.
LEMMA BandedAt ==
    ASSUME NEW id, NEW ordinal, NEW group \in Group, group.m <= group.n
    PROVE  /\ Len(BandedRows(id, ordinal, group)) \in Nat
           /\ group.m # 0 => Len(BandedRows(id, ordinal, group)) # 0
           /\ \A s \in 0..(group.m - 1), q \in 0..(group.n - group.m) :
                \E r \in 1..Len(BandedRows(id, ordinal, group)) :
                    BandedRows(id, ordinal, group)[r] = Tried(id, ordinal, group, s, s + q)
           /\ \A r \in 1..Len(BandedRows(id, ordinal, group)) :
                \E s \in 0..(group.m - 1), q \in 0..(group.n - group.m) :
                    BandedRows(id, ordinal, group)[r] = Tried(id, ordinal, group, s, s + q)
<1> DEFINE m == group.m
           n == group.n
           band == n - m + 1
           z == m * band
           B == BandedRows(id, ordinal, group)
           row(s, q) == Tried(id, ordinal, group, s, s + q)
<1>1. m \in Nat /\ n \in Nat /\ band \in Nat \ {0} /\ m <= n
  BY DEF Group
<1>2. B = [r \in 1..z |-> row((r - 1) \div band, (r - 1) % band)]
  BY DEF BandedRows, Tried
<1> HIDE DEF row, band, m, B
<1>3. z \in Nat
  BY <1>1
<1>4. Len(B) = z
  BY <1>2, <1>3
<1>5. m # 0 => z # 0
  <2> SUFFICES ASSUME m # 0 PROVE z # 0
    OBVIOUS
  <2>1. 1 * band <= m * band
    BY <1>1, Ordered
  <2> QED BY <1>1, <2>1
<1>6. ASSUME NEW s \in 0..(m - 1), NEW q \in 0..(band - 1)
      PROVE  \E r \in 1..z : B[r] = row(s, q)
  <2> DEFINE p == s * band
             r == p + q + 1
  <2>1. s \in Nat /\ q \in Nat /\ s + 1 <= m /\ q + 1 <= band
    BY <1>1
  <2>2. p + q \in Nat /\ (p + q) \div band = s /\ (p + q) % band = q
    BY <1>1, <2>1, Quotient
  <2>3. (s + 1) * band <= m * band
    BY <1>1, <2>1, Ordered
  <2>4. (s + 1) * band = p + band /\ p \in Nat
    BY <1>1, <2>1
  <2> HIDE DEF p
  <2>5. p + band <= z
    BY <2>3, <2>4
  <2> HIDE DEF z
  <2>6. r \in 1..z
    BY <1>1, <1>3, <2>1, <2>4, <2>5
  <2>7. r - 1 = p + q
    BY <2>1, <2>4
  <2> HIDE DEF r
  <2>8. B[r] = row(s, q)
    BY <1>2, <2>2, <2>6, <2>7
  <2> QED BY <2>6, <2>8
<1>7. ASSUME NEW r \in 1..z
      PROVE  \E s \in 0..(m - 1), q \in 0..(band - 1) : B[r] = row(s, q)
  <2> DEFINE s == (r - 1) \div band
             q == (r - 1) % band
  <2>1. r - 1 \in Nat /\ r <= z
    BY <1>3
  <2>2. s \in Nat /\ s * band <= r - 1 /\ q \in 0..(band - 1)
    BY <1>1, <2>1, DividedBy
  <2>3. B[r] = row(s, q)
    BY <1>2
  <2> HIDE DEF s, q
  <2>4. ASSUME m <= s PROVE FALSE
    <3>1. m * band <= s * band
      BY <1>1, <2>2, <2>4, Ordered
    <3> DEFINE x == s * band
    <3>2. x \in Nat /\ z <= x /\ x <= r - 1
      BY <1>1, <2>2, <3>1
    <3> HIDE DEF x, z
    <3> QED BY <1>3, <2>1, <3>2
  <2>5. s \in 0..(m - 1)
    BY <1>1, <2>2, <2>4
  <2> QED BY <2>2, <2>3, <2>5
<1>8. band - 1 = group.n - m
  BY <1>1 DEF band
<1> HIDE DEF z
<1> QED
  BY <1>3, <1>4, <1>5, <1>8, <1>6, <1>7 DEF m, B, row

\* The rows from after a on are those of a group.
Shows(rows, a, id, ordinal, group) ==
    \A r \in 1..Len(BandedRows(id, ordinal, group)) :
        rows[a + r] = BandedRows(id, ordinal, group)[r]

\* The rows of a group fail if its signatures cannot be assigned (meets_threshold
\* of the largest positions).
LEMMA GroupVerdict ==
    ASSUME NEW id, NEW ordinal, NEW group \in Group, group.m <= group.n, group.m # 0,
           NEW rows, NEW out, NEW a \in Nat, Shows(rows, a, id, ordinal, group),
           \A i \in (a + 1)..(a + Len(BandedRows(id, ordinal, group))) : out[i] = to_int(rows[i].ok)
    PROVE  GroupFails(rows, out, a + 1, a + Len(BandedRows(id, ordinal, group)))
                <=> ~Assigns(group.m, group.n, group.match)
<1> DEFINE m == group.m
           n == group.n
           match == group.match
           B == BandedRows(id, ordinal, group)
           L == Len(B)
           of == (a + 1)..(a + L)
           sigs == {rows[i].sig : i \in of}
           keys == {rows[i].key : i \in of}
           successes == {<<rows[i].sig, rows[i].key>> : i \in {k \in of : out[k] = 1}}
<1>1. m \in Nat /\ n \in Nat /\ m <= n /\ m # 0
  BY DEF Group
<1>2. /\ L \in Nat /\ L # 0
      /\ \A s \in 0..(m - 1), q \in 0..(n - m) : \E r \in 1..L :
            B[r] = Tried(id, ordinal, group, s, s + q)
      /\ \A r \in 1..L : \E s \in 0..(m - 1), q \in 0..(n - m) :
            B[r] = Tried(id, ordinal, group, s, s + q)
  BY BandedAt
<1>3. \A r \in 1..L : rows[a + r] = B[r]
  BY DEF Shows
<1>4. \A i \in of : out[i] = to_int(rows[i].ok)
  OBVIOUS
<1> HIDE DEF B, L, m, n, match
<1>5. \A i \in of : i - a \in 1..L /\ a + (i - a) = i
  BY <1>2
<1>6. \A r \in 1..L : a + r \in of
  BY <1>2
<1>7. ASSUME NEW i \in of
      PROVE  \E s \in 0..(m - 1), q \in 0..(n - m) :
                rows[i].sig = s /\ rows[i].key = s + q /\ (rows[i].ok <=> <<s, s + q>> \in match)
  <2>1. i - a \in 1..L /\ rows[i] = B[i - a]
    BY <1>3, <1>5
  <2>2. PICK s \in 0..(m - 1), q \in 0..(n - m) :
            B[i - a] = Tried(id, ordinal, group, s, s + q)
    BY <1>2, <2>1
  <2> DEFINE row == Tried(id, ordinal, group, s, s + q)
  <2>3. row.sig = s /\ row.key = s + q /\ (row.ok <=> <<s, s + q>> \in match)
    BY TriedIs DEF match
  <2>4. rows[i] = row
    BY <2>1, <2>2
  <2> HIDE DEF row
  <2>5. rows[i].sig = s /\ rows[i].key = s + q /\ (rows[i].ok <=> <<s, s + q>> \in match)
    BY <2>3, <2>4
  <2> QED BY <2>5
<1>8. ASSUME NEW s \in 0..(m - 1), NEW q \in 0..(n - m)
      PROVE  \E i \in of : rows[i].sig = s /\ rows[i].key = s + q
                           /\ (rows[i].ok <=> <<s, s + q>> \in match)
  <2>1. PICK r \in 1..L :
            B[r] = Tried(id, ordinal, group, s, s + q)
    BY <1>2
  <2>2. a + r \in of /\ rows[a + r] = B[r]
    BY <1>3, <1>6
  <2> DEFINE row == Tried(id, ordinal, group, s, s + q)
             i == a + r
  <2>3. row.sig = s /\ row.key = s + q /\ (row.ok <=> <<s, s + q>> \in match)
    BY TriedIs DEF match
  <2>4. i \in of /\ rows[i] = row
    BY <2>1, <2>2
  <2> HIDE DEF row, i
  <2>5. rows[i].sig = s /\ rows[i].key = s + q /\ (rows[i].ok <=> <<s, s + q>> \in match)
    BY <2>3, <2>4
  <2> QED BY <2>4, <2>5
<1>12. \E i \in of : rows[i].sig = m - 1 /\ rows[i].key = (m - 1) + (n - m)
  <2> DEFINE s == m - 1
             q == n - m
  <2>1. s \in 0..(m - 1) /\ q \in 0..(n - m)
    BY <1>1
  <2>2. \E i \in of : rows[i].sig = s /\ rows[i].key = s + q
    <3> HIDE DEF s, q
    <3> QED BY <1>8, <2>1
  <2> QED BY <2>2
<1>9. \A i \in of : out[i] = 1 <=> rows[i].ok
  BY <1>4 DEF to_int
<1>10. CASE L = 1
  <2>1. of = {a + 1} /\ a + 1 \in of
    BY <1>10
  <2>2. 0 \in 0..(m - 1) /\ m - 1 \in 0..(m - 1) /\ 0 \in 0..(n - m) /\ n - m \in 0..(n - m)
    BY <1>1
  <2>3. rows[a + 1].sig = 0 /\ (rows[a + 1].ok <=> <<0, 0>> \in match)
    BY <1>8, <2>1, <2>2
  <2>4. rows[a + 1].key = 0 + 0
    <3>1. PICK i \in of : rows[i].key = 0 + 0
      BY <1>8, <2>2, Zenon
    <3>2. i = a + 1
      BY <2>1
    <3> QED BY <3>1, <3>2
  <2>5. rows[a + 1].sig = m - 1 /\ rows[a + 1].key = (m - 1) + (n - m)
    <3>1. PICK i \in of : rows[i].sig = m - 1 /\ rows[i].key = (m - 1) + (n - m)
      BY <1>12, <2>2
    <3>2. i = a + 1
      BY <2>1
    <3> QED BY <3>1, <3>2
  <2>6. m = 1 /\ n = m
    BY <1>1, <2>3, <2>4, <2>5
  <2>7. n = 1
    BY <1>1, <2>6
  <2>8. rows[a + 1].ok <=> <<0, 0>> \in match
    BY <2>1, <2>2, <2>3
  <2>9. out[a + 1] = 0 <=> ~rows[a + 1].ok
    BY <1>4, <2>1 DEF to_int
  <2>10. GroupFails(rows, out, a + 1, a + L) <=> ~(<<0, 0>> \in match)
    BY <1>10, <2>8, <2>9 DEF GroupFails
  <2>11. Assigns(m, n, match) <=> <<0, 0>> \in match
    BY <2>6, <2>7, AssignsOne
  <2> QED BY <2>10, <2>11 DEF m, n, match, L, B
<1>11. CASE L # 1
  <2>1. GroupFails(rows, out, a + 1, a + L) <=> ~meets_threshold(Max(sigs) + 1, Max(keys) + 1, successes)
    <3>1. a + 1 # a + L
      BY <1>2, <1>11
    <3> QED BY <3>1, Zenon DEF GroupFails
  <2>2. m - 1 \in 0..(m - 1) /\ 0 \in 0..(n - m) /\ n - m \in 0..(n - m)
    BY <1>1
  <2>3. m - 1 \in sigs /\ \A s \in sigs : s \in 0..(m - 1)
    <3>1. m - 1 \in sigs
      BY <1>8, <2>2
    <3>2. \A s \in sigs : s \in 0..(m - 1)
      BY <1>7
    <3> QED BY <3>1, <3>2
  <2>4. n - 1 \in keys /\ \A k \in keys : k \in Int /\ k <= n - 1
    <3>1. (m - 1) + (n - m) \in keys
      <4>1. PICK i \in of : rows[i].key = (m - 1) + (n - m)
        BY <1>12
      <4> QED BY <4>1
    <3>2. (m - 1) + (n - m) = n - 1
      BY <1>1
    <3>3. ASSUME NEW i \in of PROVE rows[i].key \in Int /\ rows[i].key <= n - 1
      <4>1. PICK s \in 0..(m - 1), q \in 0..(n - m) : rows[i].key = s + q
        BY <1>7
      <4>2. s + q \in Int /\ s + q <= n - 1
        BY <1>1
      <4> QED BY <4>1, <4>2
    <3> QED BY <3>1, <3>2, <3>3
  <2>5. Max(sigs) = m - 1
    <3>1. \A s \in sigs : m - 1 >= s
      BY <1>1, <2>3
    <3>2. \A x \in sigs : (\A s \in sigs : x >= s) => x = m - 1
      <4> TAKE x \in sigs
      <4> HAVE \A s \in sigs : x >= s
      <4>1. x >= m - 1 /\ x \in 0..(m - 1)
        BY <2>3
      <4> QED BY <1>1, <4>1
    <3> HIDE DEF sigs
    <3> QED BY <2>3, <3>1, <3>2 DEF Max
  <2>6. Max(keys) = n - 1
    <3>1. \A s \in keys : n - 1 >= s
      BY <1>1, <2>4
    <3>2. \A x \in keys : (\A s \in keys : x >= s) => x = n - 1
      <4> TAKE x \in keys
      <4> HAVE \A s \in keys : x >= s
      <4>1. x >= n - 1 /\ x \in Int /\ x <= n - 1
        BY <2>4
      <4> QED BY <1>1, <4>1
    <3> HIDE DEF keys
    <3> QED BY <2>4, <3>1, <3>2 DEF Max
  <2>7. ASSUME NEW s \in 0..(m - 1), NEW k \in s..(n - m + s)
        PROVE  <<s, k>> \in successes <=> <<s, k>> \in match
    <3> DEFINE q == k - s
    <3>1. q \in 0..(n - m) /\ s + q = k
      BY <1>1
    <3>2. ASSUME <<s, k>> \in match PROVE <<s, k>> \in successes
      <4>1. PICK i \in of : rows[i].sig = s /\ rows[i].key = k /\ rows[i].ok
        <5> HIDE DEF q
        <5> QED BY <1>8, <3>1, <3>2
      <4>2. out[i] = 1
        BY <1>9, <4>1
      <4> QED BY <4>1, <4>2
    <3>3. ASSUME <<s, k>> \in successes PROVE <<s, k>> \in match
      <4>1. PICK i \in of : out[i] = 1 /\ <<s, k>> = <<rows[i].sig, rows[i].key>>
        BY <3>3
      <4>2. rows[i].sig = s /\ rows[i].key = k /\ rows[i].ok
        BY <1>9, <4>1
      <4>3. PICK c \in 0..(m - 1), d \in 0..(n - m) :
                rows[i].sig = c /\ rows[i].key = c + d /\ (rows[i].ok <=> <<c, c + d>> \in match)
        BY <1>7
      <4> QED BY <4>2, <4>3
    <3> QED BY <3>2, <3>3
  <2>8. Assigns(m, n, successes) <=> Assigns(m, n, match)
    <3> HIDE DEF successes
    <3> QED BY <1>1, <2>7, BandDecides
  <2>9. (m - 1) + 1 = m /\ (n - 1) + 1 = n
    BY <1>1
  <2>10. meets_threshold(m, n, successes) <=> Assigns(m, n, successes)
    <3> HIDE DEF successes
    <3> QED BY <1>1, ThresholdDecides
  <2> HIDE DEF successes, sigs, keys
  <2>11. GroupFails(rows, out, a + 1, a + L) <=> ~Assigns(m, n, match)
    BY <2>1, <2>5, <2>6, <2>8, <2>9, <2>10
  <2> QED BY <2>11 DEF m, n, match, L, B
<1> QED
  BY <1>10, <1>11

-------------------------------------------------------------------------------
(* Where the sequences of a flattened one lie.                             *)

\* A sequence lies in another after its first a elements.
LiesAt(whole, a, part) ==
    a + Len(part) <= Len(whole) /\ \A r \in 1..Len(part) : whole[a + r] = part[r]

LEMMA LiesBefore ==
    ASSUME NEW S, NEW whole \in Seq(S), NEW more \in Seq(S), NEW part \in Seq(S), NEW a \in Nat,
           LiesAt(whole, a, part)
    PROVE  LiesAt(whole \o more, a, part)
<1>1. Len(whole) \in Nat /\ Len(more) \in Nat /\ Len(part) \in Nat
  BY LenProperties
<1>2. /\ Len(whole \o more) = Len(whole) + Len(more)
      /\ \A i \in 1..(Len(whole) + Len(more)) :
            (whole \o more)[i] = IF i <= Len(whole) THEN whole[i] ELSE more[i - Len(whole)]
  BY ConcatProperties
<1>3. a + Len(part) <= Len(whole) /\ \A r \in 1..Len(part) : whole[a + r] = part[r]
  BY DEF LiesAt
<1>4. \A r \in 1..Len(part) : a + r \in 1..(Len(whole) + Len(more)) /\ a + r <= Len(whole)
  BY <1>1, <1>3
<1>5. a + Len(part) <= Len(whole \o more)
  BY <1>1, <1>2, <1>3
<1>6. \A r \in 1..Len(part) : (whole \o more)[a + r] = part[r]
  BY <1>2, <1>3, <1>4
<1> QED
  BY <1>5, <1>6 DEF LiesAt

LEMMA LiesAfter ==
    ASSUME NEW S, NEW whole \in Seq(S), NEW more \in Seq(S)
    PROVE  LiesAt(whole \o more, Len(whole), more)
<1>1. Len(whole) \in Nat /\ Len(more) \in Nat
  BY LenProperties
<1>2. /\ Len(whole \o more) = Len(whole) + Len(more)
      /\ \A i \in 1..(Len(whole) + Len(more)) :
            (whole \o more)[i] = IF i <= Len(whole) THEN whole[i] ELSE more[i - Len(whole)]
  BY ConcatProperties
<1>3. \A r \in 1..Len(more) : /\ Len(whole) + r \in 1..(Len(whole) + Len(more))
                              /\ ~(Len(whole) + r <= Len(whole))
                              /\ (Len(whole) + r) - Len(whole) = r
  BY <1>1
<1>4. \A r \in 1..Len(more) : (whole \o more)[Len(whole) + r] = more[r]
  BY <1>2, <1>3
<1> QED
  BY <1>1, <1>2, <1>4 DEF LiesAt

LEMMA FlatPlaces ==
    ASSUME NEW S, NEW seqs \in Seq(Seq(S))
    PROVE  \E start :
            /\ \A g \in 1..Len(seqs) : start[g] \in Nat /\ LiesAt(FlattenSeq(seqs), start[g], seqs[g])
            /\ \A i \in 1..Len(FlattenSeq(seqs)) : \E g \in 1..Len(seqs) :
                    i \in (start[g] + 1)..(start[g] + Len(seqs[g]))
<1> DEFINE f == CHOOSE f : f = FlatFrom(f, seqs)
           start == [g \in 1..Len(seqs) |-> IF g = 1 THEN 0 ELSE Len(f[g - 1])]
<1>0. Len(seqs) \in Nat /\ \A g \in 1..Len(seqs) : seqs[g] \in Seq(S) /\ Len(seqs[g]) \in Nat
  BY LenProperties, ElementOfSeq
<1>1. f = FlatFrom(f, seqs) /\ \A i \in 1..Len(seqs) : f[i] \in Seq(S)
  BY FlatIs
<1>2. CASE Len(seqs) = 0
  <2>1. FlattenSeq(seqs) = <<>>
    BY <1>2, EmptySeq DEF FlattenSeq
  <2>2. Len(FlattenSeq(seqs)) = 0 /\ 1..Len(seqs) = {} /\ 1..0 = {}
    BY <1>2, <2>1, EmptySeq
  <2> QED BY <2>2
<1>3. CASE Len(seqs) # 0
  <2>1. FlattenSeq(seqs) = f[Len(seqs)]
    BY <1>3, Zenon DEF FlattenSeq, FlatFrom
  <2> HIDE DEF f
  <2>2. /\ f[1] = seqs[1]
        /\ \A n \in Nat : n # 0 /\ n + 1 \in 1..Len(seqs) => f[n + 1] = f[n] \o seqs[n + 1]
    <3>1. \A i \in 1..Len(seqs) : f[i] = IF i = 1 THEN seqs[i] ELSE f[i - 1] \o seqs[i]
      BY <1>1 DEF FlatFrom
    <3>2. 1 \in 1..Len(seqs)
      BY <1>0, <1>3
    <3>3. \A n \in Nat : n # 0 => n + 1 # 1 /\ (n + 1) - 1 = n
      OBVIOUS
    <3> QED BY <3>1, <3>2, <3>3
  <2>3. \A g \in 1..Len(seqs) : start[g] \in Nat
    <3>1. \A g \in 1..Len(seqs) : g = 1 \/ (g - 1 \in 1..Len(seqs) /\ Len(f[g - 1]) \in Nat)
      BY <1>0, <1>1, LenProperties
    <3> QED BY <3>1
  <2> DEFINE Holds(n) ==
                /\ \A g \in 1..n : LiesAt(f[n], start[g], seqs[g])
                /\ \A i \in 1..Len(f[n]) : \E g \in 1..n :
                        i \in (start[g] + 1)..(start[g] + Len(seqs[g]))
             X == {n \in Nat : n + 1 <= Len(seqs) => Holds(n + 1)}
  <2>4. 1 \in 1..Len(seqs) /\ start[1] = 0
    BY <1>0, <1>3
  <2>5. \A n \in Nat : n # 0 /\ n + 1 \in 1..Len(seqs) => start[n + 1] = Len(f[n])
    <3>1. \A n \in Nat : n # 0 => n + 1 # 1 /\ (n + 1) - 1 = n
      OBVIOUS
    <3> QED BY <3>1
  <2> HIDE DEF start
  <2>6. Holds(1)
    <3>1. LiesAt(seqs[1], 0, seqs[1])
      <4>1. \A r \in 1..Len(seqs[1]) : 0 + r = r
        BY <1>0, <2>4
      <4> QED BY <1>0, <2>4, <4>1 DEF LiesAt
    <3>2. \A i \in 1..Len(seqs[1]) : i \in (0 + 1)..(0 + Len(seqs[1]))
      BY <1>0, <2>4
    <3>3. \A g \in 1..1 : g = 1
      OBVIOUS
    <3> QED BY <2>2, <2>4, <3>1, <3>2, <3>3
  <2>7. 0 \in X
    BY <2>6
  <2>8. ASSUME NEW n \in Nat, n \in X PROVE n + 1 \in X
    <3> SUFFICES ASSUME (n + 1) + 1 <= Len(seqs) PROVE Holds((n + 1) + 1)
      OBVIOUS
    <3> DEFINE k == n + 1
    <3>1. k \in Nat /\ k # 0 /\ k \in 1..Len(seqs) /\ k + 1 \in 1..Len(seqs)
      BY <1>0
    <3>2. Holds(k)
      BY <1>0, <2>8
    <3>3. f[k + 1] = f[k] \o seqs[k + 1] /\ start[k + 1] = Len(f[k])
      BY <2>2, <2>5, <3>1
    <3>4. f[k] \in Seq(S) /\ seqs[k + 1] \in Seq(S)
      BY <1>0, <1>1, <3>1
    <3> HIDE DEF k
    <3>5. ASSUME NEW g \in 1..(k + 1) PROVE LiesAt(f[k + 1], start[g], seqs[g])
      <4>1. CASE g \in 1..k
        <5>1. g \in 1..Len(seqs)
          BY <1>0, <3>1
        <5>2. LiesAt(f[k], start[g], seqs[g]) /\ start[g] \in Nat /\ seqs[g] \in Seq(S)
          BY <1>0, <2>3, <3>2, <4>1, <5>1
        <5> QED BY <3>3, <3>4, <5>2, LiesBefore
      <4>2. CASE g = k + 1
        BY <3>3, <3>4, <4>2, LiesAfter
      <4> QED BY <3>1, <4>1, <4>2
    <3>6. ASSUME NEW i \in 1..Len(f[k + 1])
          PROVE  \E g \in 1..(k + 1) : i \in (start[g] + 1)..(start[g] + Len(seqs[g]))
      <4>1. /\ Len(f[k]) \in Nat /\ Len(seqs[k + 1]) \in Nat
            /\ Len(f[k + 1]) = Len(f[k]) + Len(seqs[k + 1])
        BY <3>3, <3>4, LenProperties, ConcatProperties
      <4>2. CASE i \in 1..Len(f[k])
        <5>1. PICK g \in 1..k : i \in (start[g] + 1)..(start[g] + Len(seqs[g]))
          BY <3>2, <4>2
        <5>2. g \in 1..(k + 1)
          BY <3>1
        <5> QED BY <5>1, <5>2
      <4>3. CASE i \notin 1..Len(f[k])
        <5> DEFINE a == Len(f[k])
                   c == Len(seqs[k + 1])
        <5>3. a \in Nat /\ c \in Nat /\ i \in 1..(a + c) /\ i \notin 1..a
          BY <4>1, <4>3
        <5> HIDE DEF a, c
        <5>4. i \in (a + 1)..(a + c)
          BY <5>3
        <5>1. i \in (start[k + 1] + 1)..(start[k + 1] + Len(seqs[k + 1]))
          BY <3>3, <5>4 DEF a, c
        <5>2. k + 1 \in 1..(k + 1)
          BY <3>1
        <5> QED BY <5>1, <5>2
      <4> QED BY <4>2, <4>3
    <3>7. Holds(k + 1)
      BY <3>5, <3>6
    <3> QED BY <3>7 DEF k
  <2> HIDE DEF X
  <2>9. Nat \subseteq X
    BY <2>7, <2>8, SuccessorsFill
  <2>10. Holds(Len(seqs))
    <3>1. Len(seqs) - 1 \in Nat /\ (Len(seqs) - 1) + 1 = Len(seqs) /\ Len(seqs) <= Len(seqs)
      BY <1>0, <1>3
    <3>2. Len(seqs) - 1 \in X
      BY <2>9, <3>1
    <3> HIDE DEF Holds
    <3> QED BY <3>1, <3>2 DEF X
  <2> QED BY <2>1, <2>3, <2>10
<1> QED
  BY <1>2, <1>3

LEMMA LiesWithin ==
    ASSUME NEW whole, NEW part, NEW piece, NEW p \in Nat, NEW a \in Nat,
           Len(whole) \in Nat, Len(part) \in Nat, Len(piece) \in Nat,
           LiesAt(whole, p, part), LiesAt(part, a, piece)
    PROVE  LiesAt(whole, p + a, piece)
<1>1. p + Len(part) <= Len(whole) /\ a + Len(piece) <= Len(part)
  BY DEF LiesAt
<1>2. (p + a) + Len(piece) <= Len(whole)
  BY <1>1
<1>3. ASSUME NEW r \in 1..Len(piece) PROVE whole[(p + a) + r] = piece[r]
  <2>1. a + r \in 1..Len(part) /\ p + (a + r) = (p + a) + r
    BY <1>1
  <2>2. part[a + r] = piece[r] /\ whole[p + (a + r)] = part[a + r]
    BY <2>1 DEF LiesAt
  <2> QED BY <2>1, <2>2
<1> QED
  BY <1>2, <1>3 DEF LiesAt

-------------------------------------------------------------------------------
(* The failures of a table.                                                *)

LastOf(rows, first, count) ==
    Min({i \in first..count : i = Len(rows) \/ Begins(rows, i + 1)} \union {count + 1})

\* The rows of a group are those after the first a.
Spans(rows, id, ordinal, a, k) ==
    /\ a + k <= Len(rows)
    /\ \A i \in 1..Len(rows) :
            rows[i].id = id /\ rows[i].group = ordinal <=> i \in (a + 1)..(a + k)

\* Where the rows of a group begin, and end.
LEMMA GroupSpan ==
    ASSUME NEW rows, Len(rows) \in Nat, NEW id, NEW ordinal,
           NEW a \in Nat, NEW k \in Nat \ {0}, Spans(rows, id, ordinal, a, k)
    PROVE  /\ Begins(rows, a + 1)
           /\ \A i \in (a + 1)..(a + k) : Begins(rows, i) => i = a + 1
           /\ LastOf(rows, a + 1, Len(rows)) = a + k
<1> DEFINE n == Len(rows)
           In(i) == rows[i].id = id /\ rows[i].group = ordinal
           S == {i \in (a + 1)..n : i = n \/ Begins(rows, i + 1)} \union {n + 1}
<1>0. n \in Nat /\ a + k <= n
  BY DEF Spans
<1>1. \A i \in 1..n : In(i) <=> i \in (a + 1)..(a + k)
  BY DEF Spans
<1>2. ASSUME NEW i \in 1..n, i # 1, In(i), ~In(i - 1) PROVE Begins(rows, i)
  BY <1>2 DEF Begins
<1>3. ASSUME NEW i \in 1..n, i # 1, In(i), In(i - 1) PROVE ~Begins(rows, i)
  BY <1>3 DEF Begins
<1>4. ASSUME NEW i \in 1..n, i # 1, ~In(i), In(i - 1) PROVE Begins(rows, i)
  BY <1>4 DEF Begins
<1> HIDE DEF n, In
<1>5. Begins(rows, a + 1)
  <2>1. CASE a = 0
    BY <2>1 DEF Begins
  <2>2. CASE a # 0
    <3>1. a + 1 \in 1..n /\ a + 1 # 1 /\ a + 1 \in (a + 1)..(a + k) /\ (a + 1) - 1 = a
          /\ a \in 1..n /\ a \notin (a + 1)..(a + k)
      BY <1>0, <2>2
    <3>2. In(a + 1) /\ ~In((a + 1) - 1)
      BY <1>1, <3>1
    <3> QED BY <1>2, <3>1, <3>2
  <2> QED BY <2>1, <2>2
<1>6. ASSUME NEW i \in (a + 1)..(a + k), i # a + 1 PROVE ~Begins(rows, i)
  <2>1. i \in 1..n /\ i # 1 /\ i - 1 \in 1..n /\ i - 1 \in (a + 1)..(a + k)
    BY <1>0, <1>6
  <2>2. In(i) /\ In(i - 1)
    BY <1>1, <2>1
  <2> QED BY <1>3, <2>1, <2>2
<1>7. a + k \in S
  <2>1. CASE a + k = n
    BY <1>0, <2>1
  <2>2. CASE a + k # n
    <3>1. /\ a + k + 1 \in 1..n /\ a + k + 1 # 1 /\ a + k + 1 \notin (a + 1)..(a + k)
          /\ (a + k + 1) - 1 = a + k /\ a + k \in 1..n /\ a + k \in (a + 1)..(a + k)
      BY <1>0, <2>2
    <3>2. ~In(a + k + 1) /\ In((a + k + 1) - 1)
      BY <1>1, <3>1
    <3>3. Begins(rows, a + k + 1)
      BY <1>4, <3>1, <3>2
    <3>4. a + k \in (a + 1)..n
      BY <1>0
    <3> QED BY <3>3, <3>4
  <2> QED BY <2>1, <2>2
<1>8. ASSUME NEW i \in S, i < a + k PROVE FALSE
  <2>1. i \in (a + 1)..n /\ i # n /\ i + 1 \in (a + 1)..(a + k) /\ i + 1 # a + 1
    BY <1>0, <1>8
  <2>2. Begins(rows, i + 1)
    BY <1>0, <1>8, <2>1
  <2> QED BY <1>6, <2>1, <2>2
<1>9. S \subseteq Nat
  BY <1>0
<1> HIDE DEF S
<1>10. Min(S) \in S /\ Min(S) \in Nat /\ Min(S) <= a + k
  BY <1>7, <1>9, LeastOf
<1>11. Min(S) = a + k
  BY <1>8, <1>10
<1>12. LastOf(rows, a + 1, n) = Min(S)
  BY DEF LastOf, S, n
<1> QED
  BY <1>5, <1>6, <1>11, <1>12 DEF n

LEMMA EcdsaFails ==
    ASSUME NEW rows, NEW out, NEW count, NEW id, id # Terminal
    PROVE  id \in EcdsaFailures(rows, out, count) <=>
                \E first \in 1..count :
                    /\ rows[first].id = id
                    /\ Begins(rows, first)
                    /\ LastOf(rows, first, count) <= count
                    /\ GroupFails(rows, out, first, LastOf(rows, first, count))
<1> DEFINE firsts == {i \in 1..count : /\ Begins(rows, i)
                                       /\ LastOf(rows, i, count) <= count
                                       /\ GroupFails(rows, out, i, LastOf(rows, i, count))}
<1>1. EcdsaFailures(rows, out, count) = push_fail({rows[first].id : first \in firsts})
  BY Zenon DEF EcdsaFailures, LastOf
<1>2. id \in EcdsaFailures(rows, out, count) <=> \E first \in firsts : rows[first].id = id
  <2> HIDE DEF firsts
  <2> QED BY <1>1 DEF push_fail
<1> QED
  BY <1>2

Fitting(groups) == \A g \in 1..Len(groups) : groups[g].m <= groups[g].n
AllAssigned(groups) ==
    \A g \in 1..Len(groups) : Assigns(groups[g].m, groups[g].n, groups[g].match)

\* All rows of a block lie after the first p.
OnlyAt(rows, p, part, id) ==
    /\ LiesAt(rows, p, part)
    /\ \A i \in 1..Len(rows) : rows[i].id = id => i \in (p + 1)..(p + Len(part))

\* The groups of a block are after the first at[g].
GroupsAt(rows, at, id, groups) ==
    /\ \A g \in 1..Len(groups) :
        /\ at[g] \in Nat
        /\ LiesAt(rows, at[g], BandedRows(id, g - 1, groups[g]))
        /\ Spans(rows, id, g - 1, at[g], Len(BandedRows(id, g - 1, groups[g])))
    /\ \A i \in 1..Len(rows) : rows[i].id = id => \E g \in 1..Len(groups) :
            i \in (at[g] + 1)..(at[g] + Len(BandedRows(id, g - 1, groups[g])))

\* Where the groups of a block are.
LEMMA EcdsaPlaces ==
    ASSUME NEW ids, NEW id \in ids, NEW groups \in Seq(Group), Fitting(groups),
           NEW rows, Len(rows) \in Nat, NEW p \in Nat, OnlyAt(rows, p, EcdsaRows(id, groups), id)
    PROVE  \E at : GroupsAt(rows, at, id, groups)
<1> DEFINE banded == [g \in DOMAIN groups |-> BandedRows(id, g - 1, groups[g])]
           flat == EcdsaRows(id, groups)
<1>1. Len(groups) \in Nat /\ DOMAIN groups = 1..Len(groups)
      /\ \A g \in 1..Len(groups) : groups[g] \in Group
  BY LenProperties, ElementOfSeq
<1>2. ASSUME NEW g \in 1..Len(groups)
      PROVE  /\ banded[g] = BandedRows(id, g - 1, groups[g]) /\ banded[g] \in Seq(RowOf(ids))
             /\ \A r \in 1..Len(banded[g]) : banded[g][r].id = id /\ banded[g][r].group = g - 1
  <2>1. g - 1 \in Nat /\ groups[g] \in Group /\ banded[g] = BandedRows(id, g - 1, groups[g])
        /\ groups[g].m <= groups[g].n
    BY <1>1 DEF Fitting
  <2>2. BandedRows(id, g - 1, groups[g]) \in Seq(RowOf(ids))
    BY <2>1, BandedAreRows
  <2>3. ASSUME NEW r \in 1..Len(BandedRows(id, g - 1, groups[g]))
        PROVE  /\ BandedRows(id, g - 1, groups[g])[r].id = id
               /\ BandedRows(id, g - 1, groups[g])[r].group = g - 1
    <3>1. PICK s, k : BandedRows(id, g - 1, groups[g])[r] = Tried(id, g - 1, groups[g], s, k)
      BY <2>1, BandedAt
    <3> DEFINE o == g - 1
               group == groups[g]
               row == Tried(id, o, group, s, k)
    <3>2. BandedRows(id, o, groups[g])[r] = row
      BY <3>1
    <3> HIDE DEF o, group
    <3>3. row.id = id /\ row.group = o
      BY TriedFor
    <3> HIDE DEF row
    <3>4. BandedRows(id, o, groups[g])[r].id = id /\ BandedRows(id, o, groups[g])[r].group = o
      BY <3>2, <3>3
    <3> QED BY <3>4 DEF o
  <2> HIDE DEF banded
  <2> QED BY <2>1, <2>2, <2>3
<1>3. flat = FlattenSeq(banded) /\ banded = [g \in 1..Len(groups) |-> banded[g]]
  BY <1>1 DEF EcdsaRows
<1> HIDE DEF banded, flat
<1>4. banded \in Seq(Seq(RowOf(ids)))
  BY <1>1, <1>2, <1>3, FunctionIsSeq
<1>5. Len(banded) = Len(groups)
  <2>1. DOMAIN banded = 1..Len(groups) /\ DOMAIN banded = 1..Len(banded) /\ Len(banded) \in Nat
    BY <1>3, <1>4, LenProperties
  <2> QED BY <1>1, <2>1
<1>6. flat \in Seq(RowOf(ids)) /\ Len(flat) \in Nat
  BY <1>3, <1>4, FlattenIsSeq, LenProperties
<1>7. PICK start :
            /\ \A g \in 1..Len(groups) : start[g] \in Nat /\ LiesAt(flat, start[g], banded[g])
            /\ \A i \in 1..Len(flat) : \E g \in 1..Len(groups) :
                    i \in (start[g] + 1)..(start[g] + Len(banded[g]))
  BY <1>3, <1>4, <1>5, FlatPlaces
<1>8. /\ LiesAt(rows, p, flat)
      /\ \A i \in 1..Len(rows) : rows[i].id = id => i \in (p + 1)..(p + Len(flat))
  BY DEF OnlyAt, flat
<1> DEFINE at == [g \in 1..Len(groups) |-> p + start[g]]
<1>9. ASSUME NEW g \in 1..Len(groups)
      PROVE  /\ at[g] \in Nat /\ at[g] = p + start[g] /\ Len(banded[g]) \in Nat
             /\ LiesAt(rows, at[g], banded[g])
  <2>1. at[g] = p + start[g] /\ start[g] \in Nat /\ Len(banded[g]) \in Nat
    BY <1>2, <1>7, LenProperties
  <2>2. LiesAt(flat, start[g], banded[g])
    BY <1>7
  <2>3. LiesAt(rows, p + start[g], banded[g])
    BY <1>6, <1>8, <2>1, <2>2, LiesWithin
  <2> HIDE DEF at
  <2> QED BY <2>1, <2>3
<1> HIDE DEF at
<1>10. ASSUME NEW i \in 1..Len(rows), rows[i].id = id
       PROVE  \E g \in 1..Len(groups) : i \in (at[g] + 1)..(at[g] + Len(banded[g]))
  <2>1. i \in (p + 1)..(p + Len(flat))
    BY <1>8, <1>10
  <2>2. i - p \in 1..Len(flat)
    BY <1>6, <2>1
  <2>3. PICK g \in 1..Len(groups) : i - p \in (start[g] + 1)..(start[g] + Len(banded[g]))
    BY <1>7, <2>2
  <2>4. start[g] \in Nat /\ at[g] = p + start[g] /\ Len(banded[g]) \in Nat
    BY <1>7, <1>9
  <2> DEFINE x == start[g]
             k == Len(banded[g])
  <2>5. x \in Nat /\ k \in Nat /\ i - p \in (x + 1)..(x + k) /\ i \in Nat
    BY <2>3, <2>4
  <2> HIDE DEF x, k
  <2>6. i \in ((p + x) + 1)..((p + x) + k)
    BY <2>5
  <2> QED BY <2>4, <2>6 DEF x, k
<1>11. ASSUME NEW g \in 1..Len(groups), NEW i \in (at[g] + 1)..(at[g] + Len(banded[g]))
       PROVE  rows[i].id = id /\ rows[i].group = g - 1
  <2> DEFINE a == at[g]
             k == Len(banded[g])
             r == i - a
  <2>1. a \in Nat /\ k \in Nat /\ i \in (a + 1)..(a + k)
    BY <1>9, <1>11
  <2> HIDE DEF a, k
  <2>2. r \in 1..k /\ a + r = i
    BY <2>1
  <2> HIDE DEF r
  <2>3. rows[i] = banded[g][r]
    BY <1>9, <2>2 DEF LiesAt, a, k
  <2> QED BY <1>2, <2>2, <2>3 DEF k
<1>12. ASSUME NEW g \in 1..Len(groups), NEW i \in 1..Len(rows), rows[i].id = id, rows[i].group = g - 1
       PROVE  i \in (at[g] + 1)..(at[g] + Len(banded[g]))
  <2>1. PICK h \in 1..Len(groups) : i \in (at[h] + 1)..(at[h] + Len(banded[h]))
    BY <1>10, <1>12
  <2>2. rows[i].group = h - 1
    BY <1>11, <2>1
  <2>3. g = h
    BY <1>1, <1>12, <2>2
  <2> QED BY <2>1, <2>3
<1>13. \A g \in 1..Len(groups) : banded[g] = BandedRows(id, g - 1, groups[g])
  BY <1>2
<1>14. \A g \in 1..Len(groups) :
            /\ at[g] \in Nat
            /\ LiesAt(rows, at[g], banded[g])
            /\ Spans(rows, id, g - 1, at[g], Len(banded[g]))
  BY <1>9, <1>11, <1>12 DEF LiesAt, Spans
<1>15. GroupsAt(rows, at, id, groups)
  BY <1>10, <1>13, <1>14, Zenon DEF GroupsAt
<1> QED
  BY <1>15

\* A block fails if signatures of one of its groups cannot be assigned.
LEMMA EcdsaVerdict ==
    ASSUME NEW ids, NEW id \in ids, id # Terminal, NEW groups \in Seq(Group), Fitting(groups),
           NEW rows, Len(rows) \in Nat, NEW p \in Nat, OnlyAt(rows, p, EcdsaRows(id, groups), id),
           NEW out, \A i \in 1..Len(rows) : out[i] = to_int(rows[i].ok)
    PROVE  id \in EcdsaFailures(rows, out, Len(rows)) <=> ~AllAssigned(groups)
<1> DEFINE B(g) == BandedRows(id, g - 1, groups[g])
           n == Len(rows)
<1>0. PICK at : GroupsAt(rows, at, id, groups)
  BY EcdsaPlaces
<1>1. /\ \A g \in 1..Len(groups) :
            at[g] \in Nat /\ LiesAt(rows, at[g], B(g)) /\ Spans(rows, id, g - 1, at[g], Len(B(g)))
      /\ \A i \in 1..n : rows[i].id = id => \E g \in 1..Len(groups) :
                i \in (at[g] + 1)..(at[g] + Len(B(g)))
  BY <1>0, Zenon DEF GroupsAt
<1>2. \A g \in 1..Len(groups) :
        /\ groups[g] \in Group /\ groups[g].m <= groups[g].n
        /\ groups[g].m \in Nat /\ groups[g].n \in Nat
  <2>1. \A g \in 1..Len(groups) : groups[g] \in Group
    BY ElementOfSeq
  <2> QED BY <2>1 DEF Fitting, Group
<1>3. ASSUME NEW g \in 1..Len(groups)
      PROVE  Len(B(g)) \in Nat /\ (groups[g].m # 0 <=> Len(B(g)) # 0)
  <2>1. /\ Len(B(g)) \in Nat
        /\ groups[g].m # 0 => Len(B(g)) # 0
        /\ \A r \in 1..Len(B(g)) : \E s \in 0..(groups[g].m - 1) : TRUE
    BY <1>2, BandedAt
  <2>2. ASSUME Len(B(g)) # 0, groups[g].m = 0 PROVE FALSE
    <3>1. 1 \in 1..Len(B(g)) /\ 0..(0 - 1) = {}
      BY <2>1, <2>2
    <3> QED BY <2>1, <2>2, <3>1
  <2> HIDE DEF B
  <2> QED BY <2>1, <2>2
<1>4. ASSUME NEW g \in 1..Len(groups), Len(B(g)) # 0
      PROVE  /\ at[g] + 1 \in 1..n
             /\ rows[at[g] + 1].id = id
             /\ Begins(rows, at[g] + 1)
             /\ \A i \in (at[g] + 1)..(at[g] + Len(B(g))) : Begins(rows, i) => i = at[g] + 1
             /\ LastOf(rows, at[g] + 1, n) = at[g] + Len(B(g))
             /\ LastOf(rows, at[g] + 1, n) <= n
             /\ GroupFails(rows, out, at[g] + 1, at[g] + Len(B(g)))
                    <=> ~Assigns(groups[g].m, groups[g].n, groups[g].match)
  <2> DEFINE a == at[g]
             k == Len(B(g))
  <2>1. a \in Nat /\ k \in Nat \ {0}
    BY <1>1, <1>3, <1>4
  <2>2. a + k <= n /\ \A r \in 1..k : rows[a + r] = B(g)[r]
    <3>1. LiesAt(rows, a, B(g))
      BY <1>1
    <3> QED BY <3>1 DEF LiesAt
  <2>0. Spans(rows, id, g - 1, a, k)
    BY <1>1
  <2>3. \A i \in 1..n : rows[i].id = id /\ rows[i].group = g - 1 <=> i \in (a + 1)..(a + k)
    BY <2>0 DEF Spans
  <2>4. \A i \in (a + 1)..(a + k) : out[i] = to_int(rows[i].ok)
    <3>1. \A i \in (a + 1)..(a + k) : i \in 1..Len(rows)
      <4> HIDE DEF a, k
      <4> QED BY <2>1, <2>2
    <3> QED BY <3>1
  <2>5. groups[g] \in Group /\ groups[g].m <= groups[g].n /\ groups[g].m # 0
    BY <1>2, <1>3, <1>4
  <2>6. Shows(rows, a, id, g - 1, groups[g])
    BY <2>2 DEF Shows
  <2>7. GroupFails(rows, out, a + 1, a + k) <=> ~Assigns(groups[g].m, groups[g].n, groups[g].match)
    <3> HIDE DEF a
    <3> QED BY <2>1, <2>4, <2>5, <2>6, GroupVerdict
  <2>8. /\ Begins(rows, a + 1)
        /\ \A i \in (a + 1)..(a + k) : Begins(rows, i) => i = a + 1
        /\ LastOf(rows, a + 1, n) = a + k
    <3> DEFINE o == g - 1
    <3>1. Spans(rows, id, o, a, k)
      BY <2>0
    <3> HIDE DEF a, k, o
    <3> QED BY <2>1, <3>1, GroupSpan
  <2>9. a + 1 \in 1..n /\ a + 1 \in (a + 1)..(a + k)
    <3> HIDE DEF a, k
    <3> QED BY <2>1, <2>2
  <2>10. rows[a + 1].id = id
    BY <2>3, <2>9
  <2> QED BY <2>2, <2>7, <2>8, <2>9, <2>10
<1>5. id \in EcdsaFailures(rows, out, n) <=>
        \E first \in 1..n :
            /\ rows[first].id = id
            /\ Begins(rows, first)
            /\ LastOf(rows, first, n) <= n
            /\ GroupFails(rows, out, first, LastOf(rows, first, n))
  BY EcdsaFails
<1> HIDE DEF n, B
<1>6. ASSUME NEW first \in 1..n, rows[first].id = id, Begins(rows, first),
             GroupFails(rows, out, first, LastOf(rows, first, n))
      PROVE  ~AllAssigned(groups)
  <2>1. PICK g \in 1..Len(groups) : first \in (at[g] + 1)..(at[g] + Len(B(g)))
    BY <1>1, <1>6
  <2>2. Len(B(g)) # 0
    <3> DEFINE a == at[g]
               k == Len(B(g))
    <3>1. a \in Nat /\ k \in Nat /\ first \in (a + 1)..(a + k)
      BY <1>1, <1>3, <2>1
    <3> HIDE DEF a, k
    <3>2. k # 0
      BY <3>1
    <3> QED BY <3>2 DEF k
  <2>3. first = at[g] + 1
    BY <1>4, <1>6, <2>1, <2>2
  <2>4. ~Assigns(groups[g].m, groups[g].n, groups[g].match)
    BY <1>4, <1>6, <2>2, <2>3
  <2> QED BY <2>4 DEF AllAssigned
<1>7. ASSUME NEW g \in 1..Len(groups), ~Assigns(groups[g].m, groups[g].n, groups[g].match)
      PROVE  id \in EcdsaFailures(rows, out, n)
  <2>1. groups[g].m # 0
    BY <1>2, <1>7, AssignsNone
  <2>2. Len(B(g)) # 0
    BY <1>3, <2>1
  <2> QED BY <1>4, <1>5, <1>7, <2>2
<1> QED
  BY <1>5, <1>6, <1>7 DEF AllAssigned, n

\* With all rows of a block valid, each signature has the key of its position.
LEMMA EcdsaValid ==
    ASSUME NEW ids, NEW id \in ids, NEW groups \in Seq(Group), Fitting(groups),
           NEW rows, Len(rows) \in Nat, NEW p \in Nat, OnlyAt(rows, p, EcdsaRows(id, groups), id),
           \A i \in 1..Len(rows) : rows[i].ok
    PROVE  AllAssigned(groups)
<1> SUFFICES ASSUME NEW g \in 1..Len(groups)
             PROVE  Assigns(groups[g].m, groups[g].n, groups[g].match)
  BY DEF AllAssigned
<1> DEFINE m == groups[g].m
           n == groups[g].n
           match == groups[g].match
           B == BandedRows(id, g - 1, groups[g])
<1>1. groups[g] \in Group /\ m \in Nat /\ n \in Nat /\ m <= n
  <2>1. groups[g] \in Group
    BY ElementOfSeq
  <2> QED BY <2>1 DEF Fitting, Group
<1>2. PICK a \in Nat : LiesAt(rows, a, B)
  <2>1. PICK at : \A h \in 1..Len(groups) :
            at[h] \in Nat /\ LiesAt(rows, at[h], BandedRows(id, h - 1, groups[h]))
    BY EcdsaPlaces, Zenon DEF GroupsAt
  <2> QED BY <2>1
<1>3. ASSUME NEW s \in 0..(m - 1) PROVE <<s, s>> \in match
  <2>1. Len(B) \in Nat /\ \A q \in 0..(n - m) : \E r \in 1..Len(B) :
            B[r] = Tried(id, g - 1, groups[g], s, s + q)
    BY <1>1, BandedAt
  <2>2. 0 \in 0..(n - m) /\ s + 0 = s
    BY <1>1
  <2>3. PICK r \in 1..Len(B) : B[r] = Tried(id, g - 1, groups[g], s, s)
    <3> HIDE DEF B, m, n
    <3> QED BY <2>1, <2>2
  <2>4. a + r \in 1..Len(rows) /\ rows[a + r] = B[r]
    <3> HIDE DEF B
    <3>1. a + Len(B) <= Len(rows) /\ rows[a + r] = B[r]
      BY <1>2 DEF LiesAt
    <3> QED BY <2>1, <3>1
  <2> DEFINE row == Tried(id, g - 1, groups[g], s, s)
  <2>5. row.ok <=> <<s, s>> \in match
    BY TriedIs
  <2>6. rows[a + r] = row /\ rows[a + r].ok
    BY <2>3, <2>4
  <2> HIDE DEF row
  <2> QED BY <2>5, <2>6
<1> HIDE DEF m, n, match
<1> DEFINE f == [i \in 0..(m - 1) |-> i]
<1>4. 0..(m - 1) \subseteq 0..(n - 1)
  BY <1>1
<1>5. Chosen(f, m, n, match)
  BY <1>3, <1>4 DEF Chosen
<1>6. Assigns(m, n, match)
  BY <1>5 DEF Assigns
<1> QED
  BY <1>6 DEF m, n, match

AllTrue(oks) == \A r \in 1..Len(oks) : oks[r]

LEMMA SchnorrAt ==
    ASSUME NEW id, NEW oks \in Seq(BOOLEAN)
    PROVE  /\ Len(SchnorrRows(id, oks)) = Len(oks) /\ Len(oks) \in Nat
           /\ \A r \in 1..Len(oks) :
                /\ SchnorrRows(id, oks)[r].id = id
                /\ SchnorrRows(id, oks)[r].ok = oks[r] /\ oks[r] \in BOOLEAN
<1>1. Len(oks) \in Nat /\ DOMAIN oks = 1..Len(oks) /\ \A r \in 1..Len(oks) : oks[r] \in BOOLEAN
  BY LenProperties, ElementOfSeq
<1> DEFINE f == SchnorrRows(id, oks)
<1>2. f = [r \in 1..Len(oks) |-> [id |-> id, group |-> 0, sig |-> 0, key |-> 0, ok |-> oks[r]]]
  BY <1>1 DEF SchnorrRows
<1> HIDE DEF f
<1>3. Len(f) = Len(oks)
  BY <1>1, <1>2
<1>4. \A r \in 1..Len(oks) : f[r].id = id /\ f[r].ok = oks[r]
  BY <1>2
<1> QED
  BY <1>1, <1>3, <1>4 DEF f

LEMMA SchnorrVerdict ==
    ASSUME NEW id, id # Terminal, NEW oks \in Seq(BOOLEAN),
           NEW rows, Len(rows) \in Nat, NEW p \in Nat, OnlyAt(rows, p, SchnorrRows(id, oks), id),
           NEW out, \A i \in 1..Len(rows) : out[i] = to_int(rows[i].ok)
    PROVE  id \in SchnorrFailures(rows, out, Len(rows)) <=> ~AllTrue(oks)
<1> DEFINE n == Len(rows)
           k == Len(oks)
           f == SchnorrRows(id, oks)
<1>1. Len(f) = k /\ k \in Nat /\ \A r \in 1..k : f[r].ok = oks[r]
  BY SchnorrAt
<1>2. /\ p + k <= n
      /\ \A r \in 1..k : rows[p + r] = f[r]
      /\ \A i \in 1..n : rows[i].id = id => i \in (p + 1)..(p + k)
  BY <1>1 DEF OnlyAt, LiesAt
<1>3. \A r \in 1..k : f[r].id = id
  BY SchnorrAt
<1>4. \A i \in 1..n : out[i] = 0 <=> ~rows[i].ok
  BY DEF to_int
<1>5. id \in SchnorrFailures(rows, out, n) <=> \E i \in 1..n : out[i] = 0 /\ rows[i].id = id
  BY DEF SchnorrFailures, push_fail
<1> HIDE DEF n, k, f
<1>6. n \in Nat
  BY DEF n
<1>7. ASSUME NEW i \in 1..n, out[i] = 0, rows[i].id = id PROVE \E r \in 1..k : ~oks[r]
  <2> DEFINE r == i - p
  <2>1. i \in (p + 1)..(p + k)
    BY <1>2, <1>7
  <2>2. r \in 1..k /\ p + r = i
    BY <1>1, <2>1
  <2> HIDE DEF r
  <2>3. rows[i] = f[r] /\ ~rows[i].ok
    BY <1>2, <1>4, <1>7, <2>2
  <2>4. ~oks[r]
    BY <1>1, <2>2, <2>3
  <2> QED BY <2>2, <2>4
<1>8. ASSUME NEW r \in 1..k, ~oks[r] PROVE \E i \in 1..n : out[i] = 0 /\ rows[i].id = id
  <2> DEFINE i == p + r
  <2>1. i \in 1..n
    BY <1>1, <1>2, <1>6
  <2>2. rows[i] = f[r] /\ ~f[r].ok
    BY <1>1, <1>2, <1>8
  <2> HIDE DEF i
  <2>3. out[i] = 0 /\ rows[i].id = id
    BY <1>3, <1>4, <2>1, <2>2
  <2> QED BY <2>1, <2>3
<1> QED
  BY <1>5, <1>7, <1>8 DEF AllTrue, n, k

LEMMA SchnorrValid ==
    ASSUME NEW id, NEW oks \in Seq(BOOLEAN),
           NEW rows, Len(rows) \in Nat, NEW p \in Nat, OnlyAt(rows, p, SchnorrRows(id, oks), id),
           \A i \in 1..Len(rows) : rows[i].ok
    PROVE  AllTrue(oks)
<1> SUFFICES ASSUME NEW r \in 1..Len(oks) PROVE oks[r]
  BY DEF AllTrue
<1> DEFINE f == SchnorrRows(id, oks)
<1>1. Len(f) = Len(oks) /\ Len(oks) \in Nat /\ f[r].ok = oks[r]
  BY SchnorrAt
<1>2. p + Len(f) <= Len(rows) /\ rows[p + r] = f[r]
  BY <1>1 DEF OnlyAt, LiesAt
<1> HIDE DEF f
<1>3. p + r \in 1..Len(rows)
  BY <1>1, <1>2
<1> QED
  BY <1>1, <1>2, <1>3

\* The rows of a block for a table, and whether what they stand for is so.
BlockRows(kind, id, groups, oks) ==
    IF kind = "ecdsa" THEN EcdsaRows(id, groups) ELSE SchnorrRows(id, oks)
Meets(kind, groups, oks) == IF kind = "ecdsa" THEN AllAssigned(groups) ELSE AllTrue(oks)

\* The failures of a call that has not been canceled.
Failing(kind, rows) ==
    get_failures(kind, rows, IF \A i \in DOMAIN rows : rows[i].ok THEN <<>>
                             ELSE [i \in DOMAIN rows |-> to_int(rows[i].ok)], Len(rows))

LEMMA FailingVerdict ==
    ASSUME NEW ids, NEW id \in ids, id # Terminal, NEW groups \in Seq(Group), Fitting(groups),
           NEW oks \in Seq(BOOLEAN), NEW kind \in Kinds,
           NEW rows \in Seq(RowOf(ids)), NEW p \in Nat,
           OnlyAt(rows, p, BlockRows(kind, id, groups, oks), id)
    PROVE  id \in Failing(kind, rows) <=> ~Meets(kind, groups, oks)
<1> DEFINE out == [i \in DOMAIN rows |-> to_int(rows[i].ok)]
           valid == \A i \in DOMAIN rows : rows[i].ok
<1>1. Len(rows) \in Nat /\ DOMAIN rows = 1..Len(rows)
  BY LenProperties
<1>2. CASE valid
  <2>1. \A i \in 1..Len(rows) : rows[i].ok
    BY <1>1, <1>2
  <2>2. Failing(kind, rows) = {}
    BY <1>2, Zenon DEF Failing, get_failures
  <2>3. Meets(kind, groups, oks)
    <3>1. CASE kind = "ecdsa"
      <4>1. OnlyAt(rows, p, EcdsaRows(id, groups), id)
        BY <3>1 DEF BlockRows
      <4>2. AllAssigned(groups)
        BY <1>1, <2>1, <4>1, EcdsaValid
      <4> QED BY <3>1, <4>2 DEF Meets
    <3>2. CASE kind # "ecdsa"
      <4>1. OnlyAt(rows, p, SchnorrRows(id, oks), id)
        BY <3>2 DEF BlockRows
      <4>2. AllTrue(oks)
        BY <1>1, <2>1, <4>1, SchnorrValid
      <4> QED BY <3>2, <4>2 DEF Meets
    <3> QED BY <3>1, <3>2
  <2> QED BY <2>2, <2>3
<1>3. CASE ~valid
  <2>1. out # <<>>
    <3>1. PICK i \in 1..Len(rows) : TRUE
      BY <1>1, <1>3
    <3>2. i \in DOMAIN out
      BY <1>1
    <3>3. DOMAIN <<>> = {}
      <4>1. <<>> \in Seq(Nat) /\ Len(<<>>) = 0
        BY EmptySeq
      <4>2. DOMAIN <<>> = 1..0
        BY <4>1, LenProperties
      <4> QED BY <4>2
    <3> QED BY <3>2, <3>3
  <2>2. \A i \in 1..Len(rows) : out[i] = to_int(rows[i].ok)
    BY <1>1
  <2>3. Failing(kind, rows) = get_failures(kind, rows, out, Len(rows))
    BY <1>3, Zenon DEF Failing
  <2> HIDE DEF out
  <2>4. CASE kind = "ecdsa"
    <3>1. OnlyAt(rows, p, EcdsaRows(id, groups), id)
      BY <2>4 DEF BlockRows
    <3>2. id \in EcdsaFailures(rows, out, Len(rows)) <=> ~AllAssigned(groups)
      BY <1>1, <2>2, <3>1, EcdsaVerdict
    <3>3. get_failures(kind, rows, out, Len(rows)) = EcdsaFailures(rows, out, Len(rows))
      BY <2>1, <2>4 DEF get_failures
    <3> QED BY <2>3, <2>4, <3>2, <3>3 DEF Meets
  <2>5. CASE kind # "ecdsa"
    <3>1. OnlyAt(rows, p, SchnorrRows(id, oks), id)
      BY <2>5 DEF BlockRows
    <3>2. id \in SchnorrFailures(rows, out, Len(rows)) <=> ~AllTrue(oks)
      BY <1>1, <2>2, <3>1, SchnorrVerdict
    <3>3. get_failures(kind, rows, out, Len(rows)) = SchnorrFailures(rows, out, Len(rows))
      BY <2>1, <2>5 DEF get_failures
    <3> QED BY <2>3, <2>5, <3>2, <3>3 DEF Meets
  <2> QED BY <2>4, <2>5
<1> QED
  BY <1>2, <1>3

\* With no rows there is nothing to fail.
LEMMA NoRowsMeet ==
    ASSUME NEW id, NEW groups \in Seq(Group), Fitting(groups), NEW oks \in Seq(BOOLEAN),
           NEW kind \in Kinds, BlockRows(kind, id, groups, oks) = <<>>
    PROVE  Meets(kind, groups, oks)
<1> DEFINE rows == <<>>
           part == BlockRows(kind, id, groups, oks)
<1>0. id \in {id} /\ 0 \in Nat
  OBVIOUS
<1>1. Len(rows) = 0 /\ Len(rows) \in Nat /\ 1..0 = {} /\ 0 + 0 = 0
  BY EmptySeq
<1>2. OnlyAt(rows, 0, part, id)
  BY <1>1 DEF OnlyAt, LiesAt
<1>3. \A i \in 1..Len(rows) : rows[i].ok
  BY <1>1
<1> HIDE DEF rows, part
<1>4. CASE kind = "ecdsa"
  <2>1. OnlyAt(rows, 0, EcdsaRows(id, groups), id)
    BY <1>2, <1>4 DEF part, BlockRows
  <2>2. AllAssigned(groups)
    BY <1>0, <1>1, <1>3, <2>1, EcdsaValid
  <2> QED BY <1>4, <2>2 DEF Meets
<1>5. CASE kind # "ecdsa"
  <2>1. OnlyAt(rows, 0, SchnorrRows(id, oks), id)
    BY <1>2, <1>5 DEF part, BlockRows
  <2>2. AllTrue(oks)
    BY <1>0, <1>1, <1>3, <2>1, SchnorrValid
  <2> QED BY <1>5, <2>2 DEF Meets
<1> QED
  BY <1>4, <1>5

\* All rows are of the block.
LEMMA BlockRowsOf ==
    ASSUME NEW ids, NEW id \in ids, NEW groups \in Seq(Group), Fitting(groups),
           NEW oks \in Seq(BOOLEAN), NEW kind \in Kinds
    PROVE  /\ BlockRows(kind, id, groups, oks) \in Seq(RowOf(ids))
           /\ \A r \in 1..Len(BlockRows(kind, id, groups, oks)) :
                BlockRows(kind, id, groups, oks)[r].id = id
<1> DEFINE S == {row \in RowOf(ids) : row.id = id}
           banded == [g \in DOMAIN groups |-> BandedRows(id, g - 1, groups[g])]
<1>1. Len(groups) \in Nat /\ DOMAIN groups = 1..Len(groups)
      /\ \A g \in 1..Len(groups) : groups[g] \in Group
  BY LenProperties, ElementOfSeq
<1>2. ASSUME NEW g \in 1..Len(groups) PROVE banded[g] \in Seq(S)
  <2> DEFINE o == g - 1
             group == groups[g]
             rows == BandedRows(id, o, group)
  <2>1. o \in Nat /\ group \in Group /\ group.m <= group.n
    BY <1>1 DEF Fitting
  <2> HIDE DEF o, group
  <2>2. rows \in Seq(RowOf(ids)) /\ \A r \in 1..Len(rows) : \E s, k : rows[r] = Tried(id, o, group, s, k)
    <3>1. rows \in Seq(RowOf(ids))
      BY <2>1, BandedAreRows
    <3>2. \A r \in 1..Len(rows) : \E s \in 0..(group.m - 1), q \in 0..(group.n - group.m) :
            rows[r] = Tried(id, o, group, s, s + q)
      BY <2>1, BandedAt
    <3> HIDE DEF rows
    <3> QED BY <3>1, <3>2
  <2>3. ASSUME NEW r \in 1..Len(rows) PROVE rows[r] \in S
    <3>1. PICK s, k : rows[r] = Tried(id, o, group, s, k)
      BY <2>2
    <3>2. rows[r].id = id
      BY <3>1, TriedFor
    <3>3. rows[r] \in RowOf(ids)
      BY <2>2, ElementOfSeq
    <3> HIDE DEF rows
    <3> QED BY <3>2, <3>3
  <2>4. Len(rows) \in Nat /\ rows = [r \in 1..Len(rows) |-> rows[r]]
    BY <2>2, LenProperties
  <2> HIDE DEF rows, S
  <2>5. rows \in Seq(S)
    BY <2>3, <2>4, FunctionIsSeq
  <2> QED BY <1>1, <2>5 DEF rows, o, group
<1>3. banded = [g \in 1..Len(groups) |-> banded[g]] /\ EcdsaRows(id, groups) = FlattenSeq(banded)
  BY <1>1 DEF EcdsaRows
<1> HIDE DEF banded, S
<1>4. banded \in Seq(Seq(S))
  BY <1>1, <1>2, <1>3, FunctionIsSeq
<1>5. EcdsaRows(id, groups) \in Seq(S)
  BY <1>3, <1>4, FlattenIsSeq
<1>6. \A r \in 1..Len(EcdsaRows(id, groups)) : EcdsaRows(id, groups)[r].id = id
  BY <1>5, ElementOfSeq DEF S
<1>7. \A r \in 1..Len(SchnorrRows(id, oks)) : SchnorrRows(id, oks)[r].id = id
  BY SchnorrAt
<1>8. EcdsaRows(id, groups) \in Seq(RowOf(ids)) /\ SchnorrRows(id, oks) \in Seq(RowOf(ids))
  BY EcdsaAreRows, SchnorrAreRows
<1> QED
  BY <1>6, <1>7, <1>8, Zenon DEF BlockRows

-------------------------------------------------------------------------------
(* What a thread has found out.                                            *)

Before(block, i) == \A j \in 1..Len(block) : j < i => Satisfied(block[j])
BlockValid(block) == \A i \in DOMAIN block : Satisfied(block[i])

\* The script is a threshold: at has passed over elements, and has counted those
\* that are signatures.
Signed(elements, at) == {i \in 1..Len(elements) : i < at /\ elements[i] \in {"good", "bad"}}
NoneBad(in, at) ==
    in.kind = "threshold" => \A i \in 1..Len(in.elements) : i < at => in.elements[i] # "bad"
Counted(in, at, count) ==
    in.kind = "threshold" =>
        /\ at <= Len(in.elements) + 1
        /\ \A i \in 1..Len(in.elements) : i < at =>
                in.elements[i] # "malformed" /\ (in.op = "checksig" => in.elements[i] # "empty")
        /\ count = Cardinality(Signed(in.elements, at))

\* The scripts so far are satisfied exactly if what the thread has accumulated is
\* so: signatures that were not captured were verified.
ProgressOf(block, th, groups, oks) ==
    /\ Fitting(groups)
    /\ th.input <= Len(block) => Counted(block[th.input], th.at, th.count)
    /\ /\ Before(block, th.input)
       /\ th.input <= Len(block) => NoneBad(block[th.input], th.at)
       <=> AllAssigned(groups) /\ AllTrue(oks)

LEMMA ScriptTyped ==
    ASSUME NEW in, IsScript(in), in.kind = "threshold"
    PROVE  /\ in.elements \in Seq({"good", "bad", "empty", "malformed"})
           /\ Len(in.elements) \in Nat /\ DOMAIN in.elements = 1..Len(in.elements)
           /\ \A i \in 1..Len(in.elements) :
                in.elements[i] \in {"good", "bad", "empty", "malformed"}
           /\ in.junk \in Nat /\ (in.op = "checksig" => in.min = Len(in.elements))
<1>1. in.elements \in Seq({"good", "bad", "empty", "malformed"}) /\ in.junk \in Nat
      /\ (in.op = "checksig" => in.min = Len(in.elements))
  BY DEF IsScript
<1> QED
  BY <1>1, LenProperties, ElementOfSeq

LEMMA BlockTyped ==
    ASSUME NEW block, IsBlock(block)
    PROVE  /\ Len(block) \in Nat /\ DOMAIN block = 1..Len(block)
           /\ \A i \in 1..Len(block) : IsScript(block[i])
  BY DEF IsBlock

\* A thread at the start of a script.
LEMMA Started ==
    ASSUME NEW block, IsBlock(block), NEW th, th.input \in Nat \ {0}, th.at = 1, th.count = 0,
           NEW groups, Fitting(groups), NEW oks,
           Before(block, th.input) <=> AllAssigned(groups) /\ AllTrue(oks)
    PROVE  ProgressOf(block, th, groups, oks)
<1> DEFINE in == block[th.input]
<1>1. th.input <= Len(block) => Counted(in, 1, 0) /\ NoneBad(in, 1)
  <2> SUFFICES ASSUME th.input <= Len(block), in.kind = "threshold"
               PROVE  Counted(in, 1, 0) /\ NoneBad(in, 1)
    BY DEF Counted, NoneBad
  <2>1. IsScript(in)
    BY BlockTyped
  <2> HIDE DEF in
  <2>2. Len(in.elements) \in Nat
    BY <2>1, ScriptTyped
  <2>3. \A i \in 1..Len(in.elements) : ~(i < 1)
    BY <2>2
  <2>4. Signed(in.elements, 1) = {}
    BY <2>3 DEF Signed
  <2>5. Cardinality(Signed(in.elements, 1)) = 0
    BY <2>4, FS_EmptySet
  <2>6. 1 <= Len(in.elements) + 1
    BY <2>2
  <2> QED BY <2>3, <2>5, <2>6 DEF Counted, NoneBad
<1> QED
  BY <1>1 DEF ProgressOf

LEMMA BeforeNext ==
    ASSUME NEW block, IsBlock(block), NEW i \in 1..Len(block)
    PROVE  Before(block, i + 1) <=> Before(block, i) /\ Satisfied(block[i])
<1>1. Len(block) \in Nat
  BY BlockTyped
<1>2. \A j \in 1..Len(block) : j < i + 1 <=> j < i \/ j = i
  BY <1>1
<1>3. i < i + 1
  BY <1>1
<1> QED
  BY <1>2, <1>3 DEF Before

LEMMA BeforeAll ==
    ASSUME NEW block, IsBlock(block), NEW i \in Nat, i > Len(block)
    PROVE  Before(block, i) <=> BlockValid(block)
<1>1. Len(block) \in Nat /\ DOMAIN block = 1..Len(block)
  BY BlockTyped
<1>2. \A j \in 1..Len(block) : j < i
  BY <1>1
<1> QED
  BY <1>1, <1>2 DEF Before, BlockValid

LEMMA BeforeNone ==
    ASSUME NEW block, IsBlock(block)
    PROVE  Before(block, 1)
<1>1. Len(block) \in Nat
  BY BlockTyped
<1>2. \A j \in 1..Len(block) : ~(j < 1)
  BY <1>1
<1> QED
  BY <1>2 DEF Before

LEMMA MultisigSatisfied ==
    ASSUME NEW in, in.kind = "multisig"
    PROVE  Satisfied(in) <=> Assigns(in.m, in.n, in.match)
<1>1. Satisfied(in) <=>
        \E f \in [0..(in.m - 1) -> 0..(in.n - 1)] :
            \A i \in DOMAIN f : <<i, f[i]>> \in in.match
                                /\ \A j \in DOMAIN f : i < j => f[i] < f[j]
  BY DEF Satisfied
<1> DEFINE S == 0..(in.m - 1)
           T == 0..(in.n - 1)
<1> HIDE DEF S, T
<1>2. \A f \in [S -> T] :
        (\A i \in DOMAIN f : <<i, f[i]>> \in in.match /\ \A j \in DOMAIN f : i < j => f[i] < f[j])
            <=> (/\ \A i \in S : <<i, f[i]>> \in in.match
                 /\ \A i, j \in S : i < j => f[i] < f[j])
  OBVIOUS
<1>3. Satisfied(in) <=>
        \E f \in [S -> T] : /\ \A i \in S : <<i, f[i]>> \in in.match
                            /\ \A i, j \in S : i < j => f[i] < f[j]
  BY <1>1, <1>2 DEF S, T
<1> QED
  BY <1>3, Zenon DEF Assigns, Chosen, S, T

\* The comparison at the end of a threshold.
Compared(in, count) == in.junk = 0 /\ is_satisfied(in.op, count, in.min, in.max)

LEMMA ThresholdSatisfied ==
    ASSUME NEW in, IsScript(in), in.kind = "threshold",
           NEW at \in Nat, at > Len(in.elements), NEW count, Counted(in, at, count)
    PROVE  Satisfied(in) <=> NoneBad(in, at) /\ Compared(in, count)
<1> DEFINE e == in.elements
           is(x) == {i \in DOMAIN e : e[i] = x}
<1>1. /\ Len(e) \in Nat /\ DOMAIN e = 1..Len(e)
      /\ \A i \in 1..Len(e) : e[i] \in {"good", "bad", "empty", "malformed"}
  BY ScriptTyped
<1>2. \A i \in 1..Len(e) : i < at
  BY <1>1
<1>3. Satisfied(in) <=> /\ is("bad") = {} /\ is("malformed") = {} /\ in.junk = 0
                        /\ is_satisfied(in.op, Cardinality(is("good")), in.min, in.max)
  BY DEF Satisfied
<1>4. (\A i \in 1..Len(e) : e[i] # "malformed") /\ count = Cardinality(Signed(e, at))
  BY <1>2 DEF Counted
<1>5. NoneBad(in, at) <=> \A i \in 1..Len(e) : e[i] # "bad"
  BY <1>2 DEF NoneBad
<1> HIDE DEF e
<1>6. is("malformed") = {}
  BY <1>1, <1>4
<1>7. NoneBad(in, at) <=> is("bad") = {}
  BY <1>1, <1>5
<1>8. NoneBad(in, at) => Signed(e, at) = is("good")
  BY <1>1, <1>2, <1>5 DEF Signed
<1> HIDE DEF is
<1> QED
  BY <1>3, <1>4, <1>6, <1>7, <1>8 DEF Compared

\* What ends a threshold before its end.
LEMMA ThresholdUnsatisfied ==
    ASSUME NEW in, IsScript(in), in.kind = "threshold", NEW i \in 1..Len(in.elements),
           \/ in.elements[i] \in {"bad", "malformed"}
           \/ in.op = "checksig" /\ in.elements[i] = "empty"
    PROVE  ~Satisfied(in)
<1> DEFINE e == in.elements
           is(x) == {j \in DOMAIN e : e[j] = x}
<1>1. Len(e) \in Nat /\ DOMAIN e = 1..Len(e) /\ (in.op = "checksig" => in.min = Len(e))
  BY ScriptTyped
<1>2. Satisfied(in) => /\ is("bad") = {} /\ is("malformed") = {}
                       /\ is_satisfied(in.op, Cardinality(is("good")), in.min, in.max)
  BY DEF Satisfied
<1>3. CASE in.elements[i] \in {"bad", "malformed"}
  BY <1>1, <1>2, <1>3
<1>4. CASE in.op = "checksig" /\ in.elements[i] = "empty"
  <2>1. is_satisfied(in.op, Cardinality(is("good")), in.min, in.max) <=> Cardinality(is("good")) = Len(e)
    <3> HIDE DEF is, e
    <3> QED BY <1>1, <1>4 DEF is_satisfied
  <2>2. IsFiniteSet(1..Len(e)) /\ Cardinality(1..Len(e)) = Len(e)
    BY <1>1, FS_Interval
  <2>3. is("good") \subseteq 1..Len(e) /\ i \in 1..Len(e) /\ i \notin is("good")
    BY <1>1, <1>4
  <2> HIDE DEF is, e
  <2>4. Cardinality(is("good")) = Cardinality(1..Len(e)) => is("good") = 1..Len(e)
    BY <2>2, <2>3, FS_Subset
  <2> QED BY <1>2, <2>1, <2>2, <2>3, <2>4
<1> QED
  BY <1>3, <1>4

LEMMA AssignedAgain ==
    ASSUME NEW groups \in Seq(Group), NEW g \in Group
    PROVE  /\ AllAssigned(Append(groups, g)) <=> AllAssigned(groups) /\ Assigns(g.m, g.n, g.match)
           /\ Fitting(groups) /\ g.m <= g.n => Fitting(Append(groups, g))
<1> DEFINE n == Len(groups)
           more == Append(groups, g)
<1>1. n \in Nat /\ Len(more) = n + 1 /\ (\A i \in 1..n : more[i] = groups[i]) /\ more[n + 1] = g
  BY LenProperties, AppendProperties
<1> HIDE DEF n, more
<1>2. 1..(n + 1) = 1..n \union {n + 1}
  BY <1>1
<1>3. AllAssigned(more) <=> AllAssigned(groups) /\ Assigns(g.m, g.n, g.match)
  BY <1>1, <1>2 DEF AllAssigned, n
<1>4. Fitting(groups) /\ g.m <= g.n => Fitting(more)
  BY <1>1, <1>2 DEF Fitting, n
<1> QED
  BY <1>3, <1>4 DEF more

LEMMA TrueAgain ==
    ASSUME NEW oks \in Seq(BOOLEAN), NEW ok \in BOOLEAN
    PROVE  AllTrue(Append(oks, ok)) <=> AllTrue(oks) /\ ok
<1> DEFINE n == Len(oks)
           more == Append(oks, ok)
<1>1. n \in Nat /\ Len(more) = n + 1 /\ (\A i \in 1..n : more[i] = oks[i]) /\ more[n + 1] = ok
  BY LenProperties, AppendProperties
<1> HIDE DEF n, more
<1>2. 1..(n + 1) = 1..n \union {n + 1}
  BY <1>1
<1>3. AllTrue(more) <=> AllTrue(oks) /\ ok
  BY <1>1, <1>2 DEF AllTrue, n
<1> QED
  BY <1>3 DEF more

\* A signature is counted, and any element passed.
LEMMA SignedAgain ==
    ASSUME NEW in, IsScript(in), in.kind = "threshold", NEW at \in 1..Len(in.elements),
           NEW count, Counted(in, at, count)
    PROVE  /\ in.elements[at] \in {"good", "bad"} => Counted(in, at + 1, count + 1)
           /\ in.elements[at] = "empty" /\ in.op # "checksig" => Counted(in, at + 1, count)
           /\ NoneBad(in, at + 1) <=> NoneBad(in, at) /\ in.elements[at] # "bad"
<1> DEFINE e == in.elements
<1>1. Len(e) \in Nat
  BY ScriptTyped
<1>2. \A i \in 1..Len(e) : i < at + 1 <=> i < at \/ i = at
  BY <1>1
<1>3. at < at + 1 /\ at + 1 <= Len(e) + 1 /\ at \in 1..Len(e)
  BY <1>1
<1>4. count = Cardinality(Signed(e, at))
  BY DEF Counted
<1>5. IsFiniteSet(Signed(e, at))
  <2>1. IsFiniteSet(1..Len(e))
    BY <1>1, FS_Interval
  <2>2. Signed(e, at) \subseteq 1..Len(e)
    BY DEF Signed
  <2> QED BY <2>1, <2>2, FS_Subset
<1>6. NoneBad(in, at + 1) <=> NoneBad(in, at) /\ e[at] # "bad"
  BY <1>2, <1>3 DEF NoneBad
<1>7. \A i \in 1..Len(e) : i < at => e[i] # "malformed" /\ (in.op = "checksig" => e[i] # "empty")
  BY DEF Counted
<1>8. ASSUME e[at] \in {"good", "bad"} PROVE Counted(in, at + 1, count + 1)
  <2>1. Signed(e, at + 1) = Signed(e, at) \union {at}
    BY <1>2, <1>3, <1>8 DEF Signed
  <2>2. at \notin Signed(e, at)
    BY <1>3 DEF Signed
  <2>3. Cardinality(Signed(e, at + 1)) = count + 1
    BY <1>4, <1>5, <2>1, <2>2, FS_AddElement
  <2> QED BY <1>2, <1>3, <1>7, <1>8, <2>3 DEF Counted
<1>9. ASSUME e[at] = "empty", in.op # "checksig" PROVE Counted(in, at + 1, count)
  <2>1. Signed(e, at + 1) = Signed(e, at)
    BY <1>2, <1>9 DEF Signed
  <2> QED BY <1>2, <1>3, <1>4, <1>7, <1>9, <2>1 DEF Counted
<1> QED
  BY <1>6, <1>8, <1>9

-------------------------------------------------------------------------------
(* What is known of blocks, threads and tables.                            *)

Verified == {"device", "chunks", "joined", "correlated"}

\* The rows of a table that the batch has.
FrontRows(kind) == IF stage \in Verified /\ batch.kind = kind THEN Len(batch.rows) ELSE 0
Fronted(kind) ==
    FrontRows(kind) # 0 =>
        /\ FrontRows(kind) = Len(batch.rows)
        /\ FrontRows(kind) <= Len(tables[kind])
        /\ \A i \in 1..FrontRows(kind) : batch.rows[i] = tables[kind][i]

\* The rows of a block follow each other in a table, all in the batch or none.
Stands(table, front, id, part) ==
    /\ part # <<>>
    /\ \E p \in Nat : /\ OnlyAt(table, p, part, id)
                      /\ p + Len(part) <= front \/ p >= front
Absent(table, id) == \A i \in 1..Len(table) : table[i].id # id

\* A table with rows of a block has yet to decide, and one without has.
Answers(kind, table, front, waits, id, groups, oks) ==
    IF waits THEN Stands(table, front, id, BlockRows(kind, id, groups, oks))
    ELSE Absent(table, id) /\ Meets(kind, groups, oks)
AwaitsOf(id) ==
    \E groups \in Seq(Group), oks \in Seq(BOOLEAN) :
        /\ Fitting(groups)
        /\ BlockValid(blocks[id]) <=> AllAssigned(groups) /\ AllTrue(oks)
        /\ \A kind \in Kinds :
            Answers(kind, tables[kind], FrontRows(kind), kind \in outstanding[id], id, groups, oks)

BlockInv(id) ==
    /\ verdict[id] \in {"new", "connecting"} => \A kind \in Kinds : Absent(tables[kind], id)
    /\ verdict[id] = "deferred" => AwaitsOf(id)
    /\ verdict[id] = "valid" => BlockValid(blocks[id])
    /\ verdict[id] = "invalid" => ~BlockValid(blocks[id])
ThreadInv(t) ==
    IsBusy(t) =>
        /\ verdict[thread[t].block] = "connecting"
        /\ \A u \in Threads : IsBusy(u) /\ u # t => thread[u].block # thread[t].block
        /\ ProgressOf(Connected(t), thread[t], ecdsa[t], schnorr[t])
Linked ==
    stage = "correlated" /\ ~cancel => batch.kind \in Kinds /\ links = Failing(batch.kind, batch.rows)

DeferInv ==
    /\ \A id \in Ids : BlockInv(id)
    /\ \A t \in Threads : ThreadInv(t)
    /\ \A kind \in Kinds : Fronted(kind)
    /\ Linked

LEMMA DeferInvDecides ==
    ASSUME CaptureInv, DeferInv
    PROVE  DeferredAgrees
<1> SUFFICES ASSUME NEW b \in Ids, verdict[b] \in {"valid", "invalid"}
             PROVE  (verdict[b] = "valid") = \A i \in DOMAIN blocks[b] : Satisfied(blocks[b][i])
  BY DEF DeferredAgrees
<1>1. BlockInv(b)
  BY DEF DeferInv
<1>2. (verdict[b] = "valid") <=> BlockValid(blocks[b])
  BY <1>1 DEF BlockInv
<1> QED
  BY <1>2 DEF BlockValid

LEMMA DeferStarts ==
    ASSUME Init
    PROVE  DeferInv
<1>1. /\ verdict = [b \in Ids |-> "new"] /\ thread = [t \in Threads |-> Idle]
      /\ tables = [kind \in Kinds |-> <<>>] /\ stage = "idle"
  BY DEF Init, BatchInit
<1>2. Len(<<>>) = 0
  BY EmptySeq
<1>3. \A id \in Ids : BlockInv(id)
  BY <1>1, <1>2 DEF BlockInv, Absent
<1>4. \A t \in Threads : ThreadInv(t)
  BY <1>1 DEF ThreadInv, IsBusy, Idle
<1>5. \A kind \in Kinds : Fronted(kind)
  BY <1>1 DEF Fronted, FrontRows, Verified
<1>6. Linked
  BY <1>1 DEF Linked
<1> QED
  BY <1>3, <1>4, <1>5, <1>6 DEF DeferInv

\* What a thread does to itself: it goes on, or is done with its block.
ThreadGoes(t, th) == thread' = [thread EXCEPT ![t] = th]

\* The other threads are as they were.
LEMMA OthersStay ==
    ASSUME CaptureTypeOK, DeferInv, blocks' = blocks, NEW t \in Threads, NEW th, ThreadGoes(t, th),
           NEW v, IsBusy(t), verdict' = verdict \/ verdict' = [verdict EXCEPT ![thread[t].block] = v],
           th.block = thread[t].block \/ th.block = Terminal,
           NEW u \in Threads, u # t, ecdsa'[u] = ecdsa[u], schnorr'[u] = schnorr[u]
    PROVE  ThreadInv(u)'
<1>1. /\ thread'[u] = thread[u] /\ thread'[t] = th
      /\ \A w \in Threads : thread'[w].block = thread[w].block \/ thread'[w].block = Terminal
  BY DEF CaptureTypeOK, ThreadGoes
<1> SUFFICES ASSUME IsBusy(u)
             PROVE  /\ verdict'[thread'[u].block] = "connecting"
                    /\ \A w \in Threads : IsBusy(w)' /\ w # u => thread'[w].block # thread'[u].block
                    /\ ProgressOf(blocks'[thread'[u].block], thread'[u], ecdsa'[u], schnorr'[u])
  BY <1>1 DEF ThreadInv, IsBusy, Connected
<1>2. /\ verdict[thread[u].block] = "connecting"
      /\ \A w \in Threads : IsBusy(w) /\ w # u => thread[w].block # thread[u].block
      /\ ProgressOf(blocks[thread[u].block], thread[u], ecdsa[u], schnorr[u])
  BY DEF DeferInv, ThreadInv, Connected
<1>3. verdict'[thread[u].block] = "connecting"
  <2>1. thread[u].block \in Ids /\ thread[u].block # thread[t].block
    BY <1>2 DEF CaptureTypeOK, IsBusy
  <2> QED BY <1>2, <2>1 DEF CaptureTypeOK
<1>4. \A w \in Threads : IsBusy(w)' /\ w # u => thread'[w].block # thread'[u].block
  BY <1>1, <1>2 DEF IsBusy
<1> QED
  BY <1>1, <1>2, <1>3, <1>4

\* A block is as it was when its rows and what is verified are.
LEMMA BlockKept ==
    ASSUME UNCHANGED <<blocks, tables, outstanding>>, UNCHANGED batchVars,
           NEW id, BlockInv(id), verdict'[id] = verdict[id]
    PROVE  BlockInv(id)'
<1>1. UNCHANGED <<stage, batch>>
  BY DEF batchVars
<1>2. ASSUME NEW kind PROVE FrontRows(kind)' = FrontRows(kind)
  BY <1>1 DEF FrontRows
<1>3. ASSUME AwaitsOf(id) PROVE AwaitsOf(id)'
  <2>1. PICK groups \in Seq(Group), oks \in Seq(BOOLEAN) :
            /\ Fitting(groups)
            /\ BlockValid(blocks[id]) <=> AllAssigned(groups) /\ AllTrue(oks)
            /\ \A kind \in Kinds :
                Answers(kind, tables[kind], FrontRows(kind), kind \in outstanding[id], id, groups, oks)
    BY <1>3 DEF AwaitsOf
  <2>2. \A kind \in Kinds :
            Answers(kind, tables'[kind], FrontRows(kind)', kind \in outstanding'[id], id, groups, oks)
    BY <1>2, <2>1
  <2> QED BY <2>1, <2>2 DEF AwaitsOf
<1> QED
  BY <1>3 DEF BlockInv

\* A thread goes on with its block, or has found it invalid.
LEMMA RunsOn ==
    ASSUME CaptureTypeOK, DeferInv, NEW t \in Threads, IsBusy(t), NEW th, ThreadGoes(t, th),
           UNCHANGED <<blocks, tables, outstanding>>, UNCHANGED batchVars,
           \A u \in Threads : u # t => ecdsa'[u] = ecdsa[u] /\ schnorr'[u] = schnorr[u],
           \/ /\ th.block = thread[t].block
              /\ verdict' = verdict
              /\ ProgressOf(Connected(t), th, ecdsa'[t], schnorr'[t])
           \/ /\ th = Idle
              /\ verdict' = [verdict EXCEPT ![thread[t].block] = "invalid"]
              /\ ~BlockValid(Connected(t))
    PROVE  DeferInv'
<1> DEFINE b == thread[t].block
<1>1. b \in Ids /\ Ids' = Ids /\ UNCHANGED <<stage, batch, cancel, links>>
  BY DEF CaptureTypeOK, IsBusy, batchVars, Ids
<1>2. thread'[t] = th /\ th.block \in {b, Terminal}
  BY DEF CaptureTypeOK, ThreadGoes, Idle
<1>3. ASSUME NEW id \in Ids PROVE BlockInv(id)'
  <2>1. BlockInv(id)
    BY DEF DeferInv
  <2>2. CASE verdict'[id] = verdict[id]
    BY <2>1, <2>2, BlockKept
  <2>3. CASE verdict'[id] # verdict[id]
    <3>1. id = b /\ verdict'[id] = "invalid" /\ ~BlockValid(blocks[b])
      BY <2>3 DEF CaptureTypeOK, Connected
    <3> QED BY <3>1 DEF BlockInv
  <2> QED BY <2>2, <2>3
<1>4. ASSUME NEW u \in Threads PROVE ThreadInv(u)'
  <2>1. CASE u # t
    <3>1. ecdsa'[u] = ecdsa[u] /\ schnorr'[u] = schnorr[u]
      BY <2>1
    <3>2. verdict' = verdict \/ verdict' = [verdict EXCEPT ![thread[t].block] = "invalid"]
      OBVIOUS
    <3>3. th.block = thread[t].block \/ th.block = Terminal
      BY <1>2
    <3>4. blocks' = blocks
      OBVIOUS
    <3> QED BY <2>1, <3>1, <3>2, <3>3, <3>4, OthersStay
  <2>2. CASE u = t /\ th = Idle
    BY <1>2, <2>2 DEF ThreadInv, IsBusy, Idle
  <2>3. CASE u = t /\ th # Idle
    <3>1. ThreadInv(t) /\ th.block = b /\ verdict' = verdict
          /\ ProgressOf(Connected(t), th, ecdsa'[t], schnorr'[t])
      BY <2>3 DEF DeferInv
    <3>2. \A w \in Threads : w # t => thread'[w] = thread[w]
      BY DEF CaptureTypeOK, ThreadGoes
    <3>3. verdict[b] = "connecting" /\ \A w \in Threads : IsBusy(w) /\ w # t => thread[w].block # b
      BY <3>1 DEF ThreadInv
    <3>4. \A w \in Threads : IsBusy(w)' /\ w # t => thread'[w].block # b
      BY <3>2, <3>3 DEF IsBusy
    <3>5. Connected(t)' = Connected(t) /\ verdict'[thread'[t].block] = "connecting"
      BY <1>2, <3>1, <3>3 DEF Connected
    <3>6. \A w \in Threads : IsBusy(w)' /\ w # t => thread'[w].block # thread'[t].block
      BY <1>2, <3>1, <3>4
    <3>7. ProgressOf(Connected(t)', thread'[t], ecdsa'[t], schnorr'[t])
      BY <1>2, <3>1, <3>5
    <3> HIDE DEF b
    <3> QED BY <2>3, <3>5, <3>6, <3>7 DEF ThreadInv
  <2> QED BY <2>1, <2>2, <2>3
<1>5. \A kind \in Kinds : Fronted(kind)'
  BY <1>1 DEF DeferInv, Fronted, FrontRows
<1>6. Linked'
  BY <1>1 DEF DeferInv, Linked
<1> QED
  BY <1>1, <1>3, <1>4, <1>5, <1>6 DEF DeferInv

\* What a thread knows of the input that it is at.
LEMMA ProgressAt ==
    ASSUME CaptureTypeOK, DeferInv, NEW t \in Threads, HasInput(t)
    PROVE  /\ IsBusy(t) /\ IsBlock(Connected(t)) /\ IsScript(Input(t))
           /\ thread[t].block \in Ids /\ thread[t].input \in 1..Len(Connected(t))
           /\ thread[t].at \in Nat \ {0} /\ thread[t].count \in Nat
           /\ ecdsa[t] \in Seq(Group) /\ schnorr[t] \in Seq(BOOLEAN) /\ Fitting(ecdsa[t])
           /\ Counted(Input(t), thread[t].at, thread[t].count)
           /\ Before(Connected(t), thread[t].input) /\ NoneBad(Input(t), thread[t].at)
                <=> AllAssigned(ecdsa[t]) /\ AllTrue(schnorr[t])
<1>1. IsBusy(t) /\ thread[t].block \in Ids /\ IsScript(Input(t)) /\ thread[t] \in ThreadOf(Ids)
      /\ thread[t].input \in 1..Len(Connected(t)) /\ thread[t].input <= Len(Connected(t))
  BY InputTyped DEF HasInput
<1>2. IsBlock(Connected(t))
  BY <1>1, CaptureAssumption DEF CaptureTypeOK, Ids, Connected
<1>3. ProgressOf(Connected(t), thread[t], ecdsa[t], schnorr[t])
  BY <1>1 DEF DeferInv, ThreadInv
<1>4. ecdsa[t] \in Seq(Group) /\ schnorr[t] \in Seq(BOOLEAN)
      /\ thread[t].at \in Nat \ {0} /\ thread[t].count \in Nat
  BY <1>1 DEF CaptureTypeOK, ThreadOf
<1>5. /\ Fitting(ecdsa[t])
      /\ Counted(Input(t), thread[t].at, thread[t].count)
      /\ Before(Connected(t), thread[t].input) /\ NoneBad(Input(t), thread[t].at)
                <=> AllAssigned(ecdsa[t]) /\ AllTrue(schnorr[t])
  BY <1>1, <1>3 DEF ProgressOf, Input
<1> QED
  BY <1>1, <1>2, <1>4, <1>5

\* A script has passed or failed, and has accumulated what it stands for.
LEMMA PassesOn ==
    ASSUME CaptureTypeOK, DeferInv, NEW t \in Threads, HasInput(t), NEW passes \in BOOLEAN,
           Goes(t, passes), UNCHANGED <<blocks, tables, outstanding>>, UNCHANGED batchVars,
           \A u \in Threads : u # t => ecdsa'[u] = ecdsa[u] /\ schnorr'[u] = schnorr[u],
           passes => /\ Fitting(ecdsa'[t])
                     /\ Before(Connected(t), thread[t].input) /\ Satisfied(Input(t))
                            <=> AllAssigned(ecdsa'[t]) /\ AllTrue(schnorr'[t]),
           ~passes => ~Satisfied(Input(t))
    PROVE  DeferInv'
<1> DEFINE block == Connected(t)
           i == thread[t].input
           j == i + 1
           next == [Idle EXCEPT !.block = thread[t].block, !.input = j]
<1>1. IsBusy(t) /\ IsBlock(block) /\ i \in 1..Len(block)
  BY ProgressAt
<1>2. CASE passes
  <2>1. ThreadGoes(t, next) /\ verdict' = verdict
    BY <1>2 DEF Goes, ThreadGoes
  <2>2. next = [block |-> thread[t].block, input |-> j, at |-> 1, count |-> 0, pending |-> 0]
    BY NextInput, Zenon
  <2>3. j \in Nat \ {0}
    <3>1. Len(block) \in Nat
      BY <1>1, BlockTyped
    <3> HIDE DEF block, i
    <3> QED BY <1>1, <3>1
  <2>4. Before(block, j) <=> AllAssigned(ecdsa'[t]) /\ AllTrue(schnorr'[t])
    <3>1. Before(block, j) <=> Before(block, i) /\ Satisfied(block[i])
      BY <1>1, BeforeNext
    <3> QED BY <1>2, <3>1 DEF Input
  <2> HIDE DEF next, j, i, block
  <2>5. next.input \in Nat \ {0} /\ next.at = 1 /\ next.count = 0 /\ next.input = j
        /\ next.block = thread[t].block
    BY <2>2, <2>3
  <2>6. ProgressOf(block, next, ecdsa'[t], schnorr'[t])
    BY <1>1, <1>2, <2>4, <2>5, Started
  <2> QED BY <1>1, <2>1, <2>5, <2>6, RunsOn DEF block
<1>3. CASE ~passes
  <2>1. ThreadGoes(t, Idle) /\ verdict' = [verdict EXCEPT ![thread[t].block] = "invalid"]
    BY <1>3 DEF Goes, ThreadGoes
  <2>2. ~BlockValid(block)
    BY <1>1, <1>3, BlockTyped DEF BlockValid, Input
  <2> QED BY <1>1, <2>1, <2>2, RunsOn
<1> QED
  BY <1>2, <1>3

\* The signatures of an input that is not a threshold.
LEMMA EcdsaDefers ==
    ASSUME CaptureTypeOK, DeferInv, NEW t \in Threads, verify_ecdsa_signature(t)
    PROVE  DeferInv'
<1> DEFINE g == [m |-> 1, n |-> 1, match |-> IF Input(t).ok THEN {<<0, 0>>} ELSE {}]
           in == Input(t)
<1>1. /\ HasInput(t) /\ in.kind = "ecdsa" /\ schnorr' = schnorr
      /\ UNCHANGED <<blocks, tables, outstanding>> /\ UNCHANGED batchVars
  BY DEF verify_ecdsa_signature
<1>2. /\ IsScript(in) /\ ecdsa[t] \in Seq(Group) /\ Fitting(ecdsa[t])
      /\ Before(Connected(t), thread[t].input) /\ NoneBad(in, thread[t].at)
                <=> AllAssigned(ecdsa[t]) /\ AllTrue(schnorr[t])
  BY <1>1, ProgressAt
<1>3. in.ok \in BOOLEAN /\ (Satisfied(in) <=> in.ok) /\ NoneBad(in, thread[t].at)
  BY <1>1, <1>2 DEF IsScript, Satisfied, NoneBad
<1>4. g \in Group /\ g.m = 1 /\ g.n = 1 /\ g.m <= g.n /\ (Assigns(g.m, g.n, g.match) <=> in.ok)
  <2>1. g \in Group /\ g.m = 1 /\ g.n = 1 /\ g.match = IF in.ok THEN {<<0, 0>>} ELSE {}
    BY DEF Group
  <2>2. Assigns(1, 1, g.match) <=> <<0, 0>> \in g.match
    BY AssignsOne
  <2>3. <<0, 0>> \in g.match <=> in.ok
    BY <1>3, <2>1
  <2> HIDE DEF g
  <2> QED BY <2>1, <2>2, <2>3
<1> HIDE DEF g
<1>5. CASE ecdsa' = [ecdsa EXCEPT ![t] = Append(@, g)] /\ Goes(t, TRUE)
  <2>1. /\ ecdsa'[t] = Append(ecdsa[t], g)
        /\ \A u \in Threads : u # t => ecdsa'[u] = ecdsa[u]
    BY <1>5 DEF CaptureTypeOK
  <2>2. /\ AllAssigned(ecdsa'[t]) <=> AllAssigned(ecdsa[t]) /\ Assigns(g.m, g.n, g.match)
        /\ Fitting(ecdsa'[t])
    BY <1>2, <1>4, <2>1, AssignedAgain
  <2>3. Before(Connected(t), thread[t].input) /\ Satisfied(Input(t))
            <=> AllAssigned(ecdsa'[t]) /\ AllTrue(schnorr'[t])
    BY <1>1, <1>2, <1>3, <1>4, <2>2
  <2>4. \A u \in Threads : u # t => ecdsa'[u] = ecdsa[u] /\ schnorr'[u] = schnorr[u]
    BY <1>1, <2>1
  <2> QED BY <1>1, <1>5, <2>2, <2>3, <2>4, PassesOn
<1>6. CASE ecdsa' = ecdsa /\ Goes(t, in.ok)
  <2>1. \A u \in Threads : u # t => ecdsa'[u] = ecdsa[u] /\ schnorr'[u] = schnorr[u]
    BY <1>1, <1>6
  <2>2. in.ok => /\ Fitting(ecdsa'[t])
                 /\ Before(Connected(t), thread[t].input) /\ Satisfied(Input(t))
                        <=> AllAssigned(ecdsa'[t]) /\ AllTrue(schnorr'[t])
    BY <1>1, <1>2, <1>3, <1>6
  <2>3. ~in.ok => ~Satisfied(Input(t))
    BY <1>3
  <2> DEFINE ok == in.ok
  <2>4. ok \in BOOLEAN /\ Goes(t, ok)
    BY <1>3, <1>6
  <2>5. ok => /\ Fitting(ecdsa'[t])
              /\ Before(Connected(t), thread[t].input) /\ Satisfied(Input(t))
                        <=> AllAssigned(ecdsa'[t]) /\ AllTrue(schnorr'[t])
    BY <2>2
  <2>6. ~ok => ~Satisfied(Input(t))
    BY <2>3
  <2> HIDE DEF ok
  <2> QED BY <1>1, <2>1, <2>4, <2>5, <2>6, PassesOn
<1>7. \/ ecdsa' = [ecdsa EXCEPT ![t] = Append(@, g)] /\ Goes(t, TRUE)
      \/ ecdsa' = ecdsa /\ Goes(t, in.ok)
  BY Zenon DEF verify_ecdsa_signature, g
<1> QED
  BY <1>5, <1>6, <1>7

LEMMA MultisigDefers ==
    ASSUME CaptureTypeOK, DeferInv, NEW t \in Threads, op_check_multisig(t)
    PROVE  DeferInv'
<1> DEFINE in == Input(t)
           g == [m |-> in.m, n |-> in.n, match |-> in.match]
<1>1. /\ HasInput(t) /\ in.kind = "multisig" /\ schnorr' = schnorr
      /\ UNCHANGED <<blocks, tables, outstanding>> /\ UNCHANGED batchVars
  BY DEF op_check_multisig
<1>2. /\ IsScript(in) /\ ecdsa[t] \in Seq(Group) /\ Fitting(ecdsa[t])
      /\ Before(Connected(t), thread[t].input) /\ NoneBad(in, thread[t].at)
                <=> AllAssigned(ecdsa[t]) /\ AllTrue(schnorr[t])
  BY <1>1, ProgressAt
<1>3. /\ in.m \in Nat /\ in.n \in Nat /\ in.m <= in.n /\ in.match \subseteq Nat \X Nat
      /\ NoneBad(in, thread[t].at)
  BY <1>1, <1>2 DEF IsScript, NoneBad
<1>4. Satisfied(in) <=> Assigns(in.m, in.n, in.match)
  BY <1>1, MultisigSatisfied
<1>5. g \in Group /\ g.m = in.m /\ g.n = in.n /\ g.match = in.match
  BY <1>3 DEF Group
<1> HIDE DEF g
<1>6. CASE ecdsa' = [ecdsa EXCEPT ![t] = Append(@, g)] /\ Goes(t, TRUE)
  <2>1. /\ ecdsa'[t] = Append(ecdsa[t], g)
        /\ \A u \in Threads : u # t => ecdsa'[u] = ecdsa[u]
    BY <1>6 DEF CaptureTypeOK
  <2>2. /\ AllAssigned(ecdsa'[t]) <=> AllAssigned(ecdsa[t]) /\ Assigns(g.m, g.n, g.match)
        /\ Fitting(ecdsa'[t])
    BY <1>2, <1>3, <1>5, <2>1, AssignedAgain
  <2>3. Before(Connected(t), thread[t].input) /\ Satisfied(Input(t))
            <=> AllAssigned(ecdsa'[t]) /\ AllTrue(schnorr'[t])
    BY <1>1, <1>2, <1>3, <1>4, <1>5, <2>2
  <2>4. \A u \in Threads : u # t => ecdsa'[u] = ecdsa[u] /\ schnorr'[u] = schnorr[u]
    BY <1>1, <2>1
  <2> QED BY <1>1, <1>6, <2>2, <2>3, <2>4, PassesOn
<1>7. CASE ecdsa' = ecdsa /\ Goes(t, Trial(in.m, in.n, in.match))
  <2> DEFINE ok == Trial(in.m, in.n, in.match)
  <2>1. ok <=> Satisfied(in)
    BY <1>3, <1>4, TrialDecides
  <2>2. ok \in BOOLEAN
    BY Zenon DEF Trial
  <2>3. Goes(t, ok)
    BY <1>7
  <2> HIDE DEF ok
  <2>4. \A u \in Threads : u # t => ecdsa'[u] = ecdsa[u] /\ schnorr'[u] = schnorr[u]
    BY <1>1, <1>7
  <2>5. ok => /\ Fitting(ecdsa'[t])
              /\ Before(Connected(t), thread[t].input) /\ Satisfied(Input(t))
                        <=> AllAssigned(ecdsa'[t]) /\ AllTrue(schnorr'[t])
    BY <1>1, <1>2, <1>3, <1>7, <2>1
  <2>6. ~ok => ~Satisfied(Input(t))
    BY <2>1
  <2> QED BY <1>1, <2>2, <2>3, <2>4, <2>5, <2>6, PassesOn
<1>8. \/ ecdsa' = [ecdsa EXCEPT ![t] = Append(@, g)] /\ Goes(t, TRUE)
      \/ ecdsa' = ecdsa /\ Goes(t, Trial(in.m, in.n, in.match))
  BY Zenon DEF op_check_multisig, g
<1> QED
  BY <1>6, <1>7, <1>8

LEMMA SchnorrDefers ==
    ASSUME CaptureTypeOK, DeferInv, NEW t \in Threads, verify_schnorr_signature(t)
    PROVE  DeferInv'
<1> DEFINE in == Input(t)
           ok == in.ok
<1>1. /\ HasInput(t) /\ in.kind = "schnorr" /\ ecdsa' = ecdsa
      /\ UNCHANGED <<blocks, tables, outstanding>> /\ UNCHANGED batchVars
  BY DEF verify_schnorr_signature
<1>2. /\ IsScript(in) /\ schnorr[t] \in Seq(BOOLEAN) /\ Fitting(ecdsa[t])
      /\ Before(Connected(t), thread[t].input) /\ NoneBad(in, thread[t].at)
                <=> AllAssigned(ecdsa[t]) /\ AllTrue(schnorr[t])
  BY <1>1, ProgressAt
<1>3. ok \in BOOLEAN /\ (Satisfied(in) <=> ok) /\ NoneBad(in, thread[t].at)
  BY <1>1, <1>2 DEF IsScript, Satisfied, NoneBad
<1>4. \/ schnorr' = [schnorr EXCEPT ![t] = Append(@, ok)] /\ Goes(t, TRUE)
      \/ schnorr' = schnorr /\ Goes(t, ok)
  BY Zenon DEF verify_schnorr_signature
<1> HIDE DEF ok
<1>5. CASE schnorr' = [schnorr EXCEPT ![t] = Append(@, ok)] /\ Goes(t, TRUE)
  <2>1. /\ schnorr'[t] = Append(schnorr[t], ok)
        /\ \A u \in Threads : u # t => schnorr'[u] = schnorr[u]
    BY <1>5 DEF CaptureTypeOK
  <2>2. AllTrue(schnorr'[t]) <=> AllTrue(schnorr[t]) /\ ok
    BY <1>2, <1>3, <2>1, TrueAgain
  <2>3. /\ Before(Connected(t), thread[t].input) /\ Satisfied(Input(t))
            <=> AllAssigned(ecdsa'[t]) /\ AllTrue(schnorr'[t])
        /\ Fitting(ecdsa'[t])
    BY <1>1, <1>2, <1>3, <2>2
  <2>4. \A u \in Threads : u # t => ecdsa'[u] = ecdsa[u] /\ schnorr'[u] = schnorr[u]
    BY <1>1, <2>1
  <2> QED BY <1>1, <1>5, <2>3, <2>4, PassesOn
<1>6. CASE schnorr' = schnorr /\ Goes(t, ok)
  <2>1. \A u \in Threads : u # t => ecdsa'[u] = ecdsa[u] /\ schnorr'[u] = schnorr[u]
    BY <1>1, <1>6
  <2>2. ok => /\ Fitting(ecdsa'[t])
              /\ Before(Connected(t), thread[t].input) /\ Satisfied(Input(t))
                        <=> AllAssigned(ecdsa'[t]) /\ AllTrue(schnorr'[t])
    BY <1>1, <1>2, <1>3, <1>6
  <2>3. ~ok => ~Satisfied(Input(t))
    BY <1>3
  <2> QED BY <1>1, <1>3, <1>6, <2>1, <2>2, <2>3, PassesOn
<1> QED
  BY <1>4, <1>5, <1>6

\* A thread passes an element of a threshold.
LEMMA ElementPasses ==
    ASSUME CaptureTypeOK, DeferInv, NEW t \in Threads, HasElement(t), NEW th,
           ThreadGoes(t, th), verdict' = verdict,
           UNCHANGED <<blocks, tables, outstanding>>, UNCHANGED batchVars,
           \A u \in Threads : u # t => ecdsa'[u] = ecdsa[u] /\ schnorr'[u] = schnorr[u],
           th.block = thread[t].block, th.input = thread[t].input, th.at = thread[t].at + 1,
           th.count = thread[t].count + (IF Element(t) = "empty" THEN 0 ELSE 1),
           Element(t) \in {"good", "bad", "empty"},
           Element(t) = "empty" => Input(t).op # "checksig",
           ecdsa'[t] = ecdsa[t],
           AllTrue(schnorr'[t]) <=> AllTrue(schnorr[t]) /\ Element(t) # "bad"
    PROVE  DeferInv'
<1> DEFINE in == Input(t)
           at == thread[t].at
           count == thread[t].count
<1>1. HasInput(t) /\ in.kind = "threshold" /\ at \in 1..Len(in.elements)
      /\ Element(t) = in.elements[at]
  BY ElementTyped DEF HasElement, Element
<1>2. /\ IsBusy(t) /\ IsBlock(Connected(t)) /\ IsScript(in) /\ count \in Nat /\ Fitting(ecdsa[t])
      /\ Counted(in, at, count) /\ thread[t].input \in 1..Len(Connected(t))
      /\ Before(Connected(t), thread[t].input) /\ NoneBad(in, at)
                <=> AllAssigned(ecdsa[t]) /\ AllTrue(schnorr[t])
  BY <1>1, ProgressAt
<1>3. Input(t) = Connected(t)[th.input] /\ th.input <= Len(Connected(t))
  BY <1>1 DEF Input, HasInput
<1> HIDE DEF in, at, count
<1>4. /\ in.elements[at] \in {"good", "bad"} => Counted(in, at + 1, count + 1)
      /\ in.elements[at] = "empty" /\ in.op # "checksig" => Counted(in, at + 1, count)
      /\ NoneBad(in, at + 1) <=> NoneBad(in, at) /\ in.elements[at] # "bad"
  BY <1>1, <1>2, SignedAgain
<1>5. count + 0 = count
  BY <1>2
<1>6. Counted(in, th.at, th.count)
  <2>1. CASE Element(t) = "empty"
    <3>1. th.count = count /\ th.at = at + 1
      BY <1>5, <2>1 DEF count, at
    <3> QED BY <1>1, <1>4, <2>1, <3>1 DEF in
  <2>2. CASE Element(t) # "empty"
    <3>1. th.count = count + 1 /\ th.at = at + 1
      BY <2>2 DEF count, at
    <3> QED BY <1>1, <1>4, <2>2, <3>1
  <2> QED BY <2>1, <2>2
<1>7. NoneBad(in, th.at) <=> NoneBad(in, at) /\ Element(t) # "bad"
  BY <1>1, <1>4 DEF at
<1>8. ProgressOf(Connected(t), th, ecdsa'[t], schnorr'[t])
  BY <1>2, <1>3, <1>6, <1>7 DEF ProgressOf, in
<1> QED
  BY <1>2, <1>8, RunsOn

LEMMA ThresholdDefers ==
    ASSUME CaptureTypeOK, DeferInv, NEW t \in Threads, ThresholdSignature(t),
           is_threshold_batchable(t) \in Nat
    PROVE  DeferInv'
<1> DEFINE p == is_threshold_batchable(t)
           q == IF p = 0 THEN 0 ELSE p - 1
           th == Advanced(thread[t], q)
           ok == Element(t) = "good"
<1>1. /\ HasElement(t) /\ HasInput(t) /\ Input(t).kind = "threshold" /\ Element(t) \in {"good", "bad"}
      /\ ecdsa' = ecdsa /\ UNCHANGED <<blocks, tables, outstanding>> /\ UNCHANGED batchVars
  BY DEF ThresholdSignature, HasElement
<1>2. IsScript(Input(t)) /\ schnorr[t] \in Seq(BOOLEAN) /\ Fitting(ecdsa[t])
      /\ thread[t] \in ThreadOf(Ids) /\ thread[t].count \in Nat
  BY <1>1, ProgressAt, InputTyped
<1>3. CASE p = 0 /\ Element(t) = "bad" /\ Goes(t, FALSE) /\ schnorr' = schnorr
  <2>1. thread[t].at \in 1..Len(Input(t).elements) /\ Element(t) = Input(t).elements[thread[t].at]
    BY <1>1, ElementTyped DEF Element
  <2>2. ~Satisfied(Input(t))
    BY <1>1, <1>2, <1>3, <2>1, ThresholdUnsatisfied
  <2>3. \A u \in Threads : u # t => ecdsa'[u] = ecdsa[u] /\ schnorr'[u] = schnorr[u]
    BY <1>1, <1>3
  <2> QED BY <1>1, <1>3, <2>2, <2>3, PassesOn
<1>4. CASE /\ ~(p = 0 /\ Element(t) = "bad")
           /\ thread' = [thread EXCEPT ![t].at = @ + 1, ![t].count = @ + 1, ![t].pending = q]
           /\ schnorr' = [schnorr EXCEPT ![t] = IF p = 0 THEN @ ELSE Append(@, ok)]
           /\ verdict' = verdict
  <2> HIDE DEF p
  <2>1. q \in Nat
    BY DEF p
  <2> HIDE DEF q
  <2>2. /\ th.at = thread[t].at + 1 /\ th.count = thread[t].count + 1
        /\ th.block = thread[t].block /\ th.input = thread[t].input
    BY <1>2, <2>1, NextElement
  <2>3. ThreadGoes(t, th)
    <3>1. thread' = [thread EXCEPT ![t] = [thread[t] EXCEPT !.at = @ + 1, !.count = @ + 1, !.pending = q]]
      BY <1>4
    <3> QED BY <3>1, Zenon DEF ThreadGoes, Advanced
  <2> HIDE DEF th
  <2>4. /\ schnorr'[t] = IF p = 0 THEN schnorr[t] ELSE Append(schnorr[t], ok)
        /\ \A u \in Threads : u # t => schnorr'[u] = schnorr[u]
    BY <1>4 DEF CaptureTypeOK
  <2>5. AllTrue(schnorr'[t]) <=> AllTrue(schnorr[t]) /\ Element(t) # "bad"
    <3>1. CASE p = 0
      BY <1>1, <1>4, <2>4, <3>1
    <3>2. CASE p # 0
      <4>1. ok \in BOOLEAN /\ (ok <=> Element(t) # "bad")
        BY <1>1
      <4>2. AllTrue(Append(schnorr[t], ok)) <=> AllTrue(schnorr[t]) /\ ok
        BY <1>2, <4>1, TrueAgain
      <4> QED BY <2>4, <3>2, <4>1, <4>2
    <3> QED BY <3>1, <3>2
  <2>6. \A u \in Threads : u # t => ecdsa'[u] = ecdsa[u] /\ schnorr'[u] = schnorr[u]
    BY <1>1, <2>4
  <2>7. Element(t) # "empty" /\ th.count = thread[t].count + (IF Element(t) = "empty" THEN 0 ELSE 1)
    BY <1>1, <2>2
  <2>8. Element(t) \in {"good", "bad", "empty"} /\ ecdsa'[t] = ecdsa[t] /\ verdict' = verdict
    BY <1>1, <1>4
  <2> QED BY <1>1, <2>2, <2>3, <2>5, <2>6, <2>7, <2>8, ElementPasses
<1>5. \/ p = 0 /\ Element(t) = "bad" /\ Goes(t, FALSE) /\ schnorr' = schnorr
      \/ /\ ~(p = 0 /\ Element(t) = "bad")
         /\ thread' = [thread EXCEPT ![t].at = @ + 1, ![t].count = @ + 1, ![t].pending = q]
         /\ schnorr' = [schnorr EXCEPT ![t] = IF p = 0 THEN @ ELSE Append(@, ok)]
         /\ verdict' = verdict
  BY Zenon DEF ThresholdSignature
<1> QED
  BY <1>3, <1>4, <1>5

LEMMA BatchableIsCount ==
    ASSUME CaptureTypeOK, NEW t \in Threads, HasElement(t)
    PROVE  is_threshold_batchable(t) \in Nat
<1> DEFINE e == Input(t).elements
           x == thread[t].at
           c == Cardinality(Open(e, x + 1))
           junk == Input(t).junk
<1>1. /\ e \in Seq({"good", "bad", "empty", "malformed"}) /\ junk \in Nat
      /\ x \in 1..Len(e) /\ stack_nonempty(t) = junk + c
  BY ElementTyped
<1>2. c \in Nat
  BY <1>1, OpenAdvances
<1>3. Expected(t) = junk + c + 1
  BY <1>1 DEF Expected
<1> HIDE DEF c, junk
<1>4. Expected(t) \in Nat
  BY <1>1, <1>2, <1>3
<1>5. thread[t].pending \in Nat
  BY InputTyped DEF HasElement, ThreadOf
<1> QED
  BY <1>4, <1>5 DEF is_threshold_batchable

LEMMA ThresholdOtherDefers ==
    ASSUME CaptureTypeOK, DeferInv, NEW t \in Threads, ThresholdOther(t)
    PROVE  DeferInv'
<1>1. /\ HasElement(t) /\ HasInput(t) /\ Input(t).kind = "threshold"
      /\ Element(t) \in {"empty", "malformed"} /\ ecdsa' = ecdsa /\ schnorr' = schnorr
      /\ UNCHANGED <<blocks, tables, outstanding>> /\ UNCHANGED batchVars
  BY DEF ThresholdOther, HasElement
<1>2. \A u \in Threads : u # t => ecdsa'[u] = ecdsa[u] /\ schnorr'[u] = schnorr[u]
  BY <1>1
<1>3. CASE (Element(t) = "malformed" \/ Input(t).op = "checksig") /\ Goes(t, FALSE)
  <2>1. /\ thread[t].at \in 1..Len(Input(t).elements)
        /\ Element(t) = Input(t).elements[thread[t].at] /\ IsScript(Input(t))
    BY <1>1, ElementTyped, ProgressAt DEF Element
  <2>2. ~Satisfied(Input(t))
    BY <1>1, <1>3, <2>1, ThresholdUnsatisfied
  <2> QED BY <1>1, <1>2, <1>3, <2>2, PassesOn
<1>4. CASE /\ Element(t) = "empty" /\ Input(t).op # "checksig"
           /\ thread' = [thread EXCEPT ![t].at = @ + 1] /\ verdict' = verdict
  <2> DEFINE th == [thread[t] EXCEPT !.at = @ + 1]
  <2>1. thread[t] \in ThreadOf(Ids) /\ thread[t].count \in Nat
    BY <1>1, InputTyped, ProgressAt
  <2>2. /\ th.at = thread[t].at + 1 /\ th.count = thread[t].count
        /\ th.block = thread[t].block /\ th.input = thread[t].input
    BY <2>1 DEF ThreadOf
  <2>3. ThreadGoes(t, th)
    BY <1>4 DEF ThreadGoes
  <2>4. thread[t].count + 0 = thread[t].count
    BY <2>1
  <2> HIDE DEF th
  <2>5. th.count = thread[t].count + (IF Element(t) = "empty" THEN 0 ELSE 1)
    BY <1>4, <2>2, <2>4
  <2>6. /\ Element(t) \in {"good", "bad", "empty"} /\ ecdsa'[t] = ecdsa[t] /\ verdict' = verdict
        /\ Input(t).op # "checksig"
        /\ AllTrue(schnorr'[t]) <=> AllTrue(schnorr[t]) /\ Element(t) # "bad"
    BY <1>1, <1>4
  <2> QED BY <1>1, <1>2, <2>2, <2>3, <2>5, <2>6, ElementPasses
<1>5. \/ (Element(t) = "malformed" \/ Input(t).op = "checksig") /\ Goes(t, FALSE)
      \/ /\ ~(Element(t) = "malformed" \/ Input(t).op = "checksig")
         /\ thread' = [thread EXCEPT ![t].at = @ + 1] /\ verdict' = verdict
  BY Zenon DEF ThresholdOther
<1> QED
  BY <1>1, <1>3, <1>4, <1>5

LEMMA ThresholdEndDefers ==
    ASSUME CaptureTypeOK, DeferInv, NEW t \in Threads, ThresholdEnds(t)
    PROVE  DeferInv'
<1> DEFINE in == Input(t)
           at == thread[t].at
           count == thread[t].count
           ok == Compared(in, count)
<1>1. /\ HasInput(t) /\ in.kind = "threshold" /\ at > Len(in.elements)
      /\ ecdsa' = ecdsa /\ schnorr' = schnorr
      /\ UNCHANGED <<blocks, tables, outstanding>> /\ UNCHANGED batchVars
  BY DEF ThresholdEnds
<1>2. /\ IsScript(in) /\ at \in Nat /\ Fitting(ecdsa[t]) /\ Counted(in, at, count)
      /\ Before(Connected(t), thread[t].input) /\ NoneBad(in, at)
                <=> AllAssigned(ecdsa[t]) /\ AllTrue(schnorr[t])
  BY <1>1, ProgressAt
<1>3. Goes(t, ok)
  BY Zenon DEF ThresholdEnds, Compared
<1>4. Satisfied(in) <=> NoneBad(in, at) /\ ok
  <2> HIDE DEF in, at, count
  <2> QED BY <1>1, <1>2, ThresholdSatisfied
<1>5. ok \in BOOLEAN
  BY Zenon DEF Compared
<1>6. \A u \in Threads : u # t => ecdsa'[u] = ecdsa[u] /\ schnorr'[u] = schnorr[u]
  BY <1>1
<1> HIDE DEF ok
<1>7. ok => /\ Fitting(ecdsa'[t])
            /\ Before(Connected(t), thread[t].input) /\ Satisfied(Input(t))
                    <=> AllAssigned(ecdsa'[t]) /\ AllTrue(schnorr'[t])
  BY <1>1, <1>2, <1>4
<1>8. ~ok => ~Satisfied(Input(t))
  BY <1>4
<1> QED
  BY <1>1, <1>3, <1>5, <1>6, <1>7, <1>8, PassesOn

\* A thread takes a block.
LEMMA ConnectDefers ==
    ASSUME CaptureTypeOK, DeferInv, NEW t \in Threads, NEW b \in Ids, Connect(t, b)
    PROVE  DeferInv'
<1> DEFINE th == [Idle EXCEPT !.block = b]
<1>1. /\ ~IsBusy(t) /\ verdict[b] = "new" /\ verdict' = [verdict EXCEPT ![b] = "connecting"]
      /\ thread' = [thread EXCEPT ![t] = th]
      /\ ecdsa' = [ecdsa EXCEPT ![t] = <<>>] /\ schnorr' = [schnorr EXCEPT ![t] = <<>>]
      /\ UNCHANGED <<blocks, tables, outstanding>> /\ UNCHANGED batchVars
  BY DEF Connect
<1>2. th.block = b /\ th.input = 1 /\ th.at = 1 /\ th.count = 0
  BY DEF Idle
<1>3. UNCHANGED <<stage, batch, cancel, links>> /\ Ids' = Ids
  BY <1>1 DEF batchVars, Ids
<1> HIDE DEF th
<1>4. ASSUME NEW id \in Ids PROVE BlockInv(id)'
  <2>1. BlockInv(id)
    BY DEF DeferInv
  <2>2. CASE id = b
    <3>1. verdict'[id] = "connecting" /\ \A kind \in Kinds : Absent(tables[kind], id)
      BY <1>1, <2>1, <2>2 DEF BlockInv, CaptureTypeOK
    <3> QED BY <1>1, <3>1 DEF BlockInv
  <2>3. CASE id # b
    <3>1. verdict'[id] = verdict[id]
      BY <1>1, <2>3 DEF CaptureTypeOK
    <3> QED BY <1>1, <2>1, <3>1, BlockKept
  <2> QED BY <2>2, <2>3
<1>5. /\ thread'[t] = th /\ ecdsa'[t] = <<>> /\ schnorr'[t] = <<>>
      /\ \A u \in Threads : u # t => /\ thread'[u] = thread[u] /\ ecdsa'[u] = ecdsa[u]
                                     /\ schnorr'[u] = schnorr[u]
  BY <1>1 DEF CaptureTypeOK
<1>6. ASSUME NEW u \in Threads, u # t, IsBusy(u)
      PROVE  thread[u].block # b /\ thread[u].block \in Ids /\ verdict[thread[u].block] = "connecting"
  BY <1>1, <1>6 DEF DeferInv, ThreadInv, CaptureTypeOK, IsBusy
<1>7. ASSUME NEW u \in Threads PROVE ThreadInv(u)'
  <2>1. CASE u = t
    <3> DEFINE block == blocks[b]
    <3>1. IsBlock(block)
      BY CaptureAssumption DEF CaptureTypeOK, Ids
    <3>2. Len(<<>>) = 0 /\ \A i \in 1..0 : FALSE
      BY EmptySeq
    <3>3. Fitting(<<>>) /\ AllAssigned(<<>>) /\ AllTrue(<<>>)
      BY <3>2 DEF Fitting, AllAssigned, AllTrue
    <3> HIDE DEF block
    <3>4. ProgressOf(block, th, ecdsa'[t], schnorr'[t])
      <4>1. Before(block, th.input) /\ th.input \in Nat \ {0}
        BY <1>2, <3>1, BeforeNone
      <4> QED BY <1>2, <1>5, <3>1, <3>3, <4>1, Started
    <3>5. \A w \in Threads : IsBusy(w)' /\ w # t => thread'[w].block # thread'[t].block
      BY <1>2, <1>5, <1>6 DEF IsBusy
    <3>6. verdict'[thread'[t].block] = "connecting"
      BY <1>1, <1>2, <1>5 DEF CaptureTypeOK
    <3>7. ProgressOf(Connected(t)', thread'[t], ecdsa'[t], schnorr'[t])
      BY <1>1, <1>2, <1>5, <3>4 DEF Connected, block
    <3> QED BY <2>1, <3>5, <3>6, <3>7 DEF ThreadInv
  <2>2. CASE u # t
    <3> SUFFICES ASSUME IsBusy(u)' PROVE ThreadInv(u)'
      BY DEF ThreadInv
    <3>1. IsBusy(u) /\ thread'[u] = thread[u] /\ ecdsa'[u] = ecdsa[u] /\ schnorr'[u] = schnorr[u]
      BY <1>5, <2>2 DEF IsBusy
    <3>2. /\ \A w \in Threads : IsBusy(w) /\ w # u => thread[w].block # thread[u].block
          /\ ProgressOf(Connected(u), thread[u], ecdsa[u], schnorr[u])
      BY <3>1 DEF DeferInv, ThreadInv
    <3>3. thread[u].block # b /\ thread[u].block \in Ids /\ verdict[thread[u].block] = "connecting"
      BY <1>6, <2>2, <3>1
    <3>4. verdict'[thread'[u].block] = "connecting"
      BY <1>1, <3>1, <3>3 DEF CaptureTypeOK
    <3>5. \A w \in Threads : IsBusy(w)' /\ w # u => thread'[w].block # thread'[u].block
      BY <1>2, <1>5, <3>1, <3>2, <3>3 DEF IsBusy
    <3>6. ProgressOf(Connected(u)', thread'[u], ecdsa'[u], schnorr'[u])
      BY <1>1, <3>1, <3>2 DEF Connected
    <3> QED BY <3>4, <3>5, <3>6 DEF ThreadInv
  <2> QED BY <2>1, <2>2
<1>8. \A kind \in Kinds : Fronted(kind)'
  BY <1>1, <1>3 DEF DeferInv, Fronted, FrontRows
<1>9. Linked'
  BY <1>3 DEF DeferInv, Linked
<1> QED
  BY <1>3, <1>4, <1>7, <1>8, <1>9 DEF DeferInv

-------------------------------------------------------------------------------
(* Tables.                                                                 *)

\* Rows are added, none of which is of the block.
Lengthens(whole, longer) ==
    Len(whole) <= Len(longer) /\ \A i \in 1..Len(whole) : longer[i] = whole[i]
Unlike(whole, longer, id) ==
    \A i \in 1..Len(longer) : i > Len(whole) => longer[i].id # id

LEMMA StandsOn ==
    ASSUME NEW whole, NEW longer, Len(whole) \in Nat, Len(longer) \in Nat, NEW id, NEW front,
           Lengthens(whole, longer), Unlike(whole, longer, id), NEW part, Len(part) \in Nat
    PROVE  /\ Stands(whole, front, id, part) => Stands(longer, front, id, part)
           /\ Absent(whole, id) => Absent(longer, id)
<1>1. \A i \in 1..Len(longer) : longer[i].id = id =>
            i \in 1..Len(whole) /\ whole[i].id = id
  BY DEF Lengthens, Unlike
<1>2. ASSUME NEW p \in Nat, OnlyAt(whole, p, part, id) PROVE OnlyAt(longer, p, part, id)
  <2>1. p + Len(part) <= Len(whole) /\ \A r \in 1..Len(part) : whole[p + r] = part[r]
    BY <1>2 DEF OnlyAt, LiesAt
  <2>2. \A r \in 1..Len(part) : p + r \in 1..Len(whole)
    BY <2>1
  <2>3. LiesAt(longer, p, part)
    BY <2>1, <2>2 DEF Lengthens, LiesAt
  <2> QED BY <1>1, <1>2, <2>3 DEF OnlyAt
<1>3. Stands(whole, front, id, part) => Stands(longer, front, id, part)
  BY <1>2 DEF Stands
<1> QED
  BY <1>1, <1>3 DEF Absent

\* The rows of a block, where it had none, after those of a batch.
LEMMA StandsNew ==
    ASSUME NEW S, NEW whole \in Seq(S), NEW part \in Seq(S), part # <<>>, NEW id,
           Absent(whole, id), NEW front \in Nat, front <= Len(whole)
    PROVE  Stands(whole \o part, front, id, part)
<1> DEFINE n == Len(whole)
           k == Len(part)
           longer == whole \o part
<1>1. n \in Nat /\ k \in Nat
  BY LenProperties
<1>2. /\ Len(longer) = n + k
      /\ \A i \in 1..(n + k) : longer[i] = IF i <= n THEN whole[i] ELSE part[i - n]
  BY ConcatProperties
<1>3. LiesAt(longer, n, part)
  BY LiesAfter
<1> HIDE DEF longer
<1>4. ASSUME NEW i \in 1..Len(longer), longer[i].id = id PROVE i \in (n + 1)..(n + k)
  <2>1. i \in 1..n => longer[i] = whole[i]
    BY <1>1, <1>2
  <2>2. i \notin 1..n
    BY <1>4, <2>1 DEF Absent
  <2> HIDE DEF n, k
  <2> QED BY <1>1, <1>2, <2>2
<1>5. OnlyAt(longer, n, part, id)
  BY <1>3, <1>4 DEF OnlyAt
<1>6. n >= front
  BY <1>1
<1> HIDE DEF n, k
<1>7. Stands(longer, front, id, part)
  BY <1>1, <1>5, <1>6 DEF Stands
<1> QED
  BY <1>7 DEF longer

\* A block of which nothing is added.
LEMMA BlockPassed ==
    ASSUME CaptureTypeOK, tables' \in [Kinds -> Seq(Row)], blocks' = blocks, UNCHANGED batchVars,
           NEW id \in Ids, BlockInv(id), verdict'[id] = verdict[id],
           outstanding'[id] = outstanding[id],
           \A kind \in Kinds : /\ Lengthens(tables[kind], tables'[kind])
                               /\ Unlike(tables[kind], tables'[kind], id)
    PROVE  BlockInv(id)'
<1>1. UNCHANGED <<stage, batch>>
  BY DEF batchVars
<1>2. ASSUME NEW kind PROVE FrontRows(kind)' = FrontRows(kind)
  BY <1>1 DEF FrontRows
<1>3. \A kind \in Kinds : Len(tables[kind]) \in Nat /\ Len(tables'[kind]) \in Nat
  BY LenProperties DEF CaptureTypeOK
<1>4. ASSUME NEW kind \in Kinds, Absent(tables[kind], id) PROVE Absent(tables'[kind], id)
  <2>1. Len(<<>>) \in Nat
    BY EmptySeq
  <2> QED BY <1>3, <1>4, <2>1, StandsOn
<1>5. ASSUME AwaitsOf(id) PROVE AwaitsOf(id)'
  <2>1. PICK groups \in Seq(Group), oks \in Seq(BOOLEAN) :
            /\ Fitting(groups)
            /\ BlockValid(blocks[id]) <=> AllAssigned(groups) /\ AllTrue(oks)
            /\ \A kind \in Kinds :
                Answers(kind, tables[kind], FrontRows(kind), kind \in outstanding[id], id, groups, oks)
    BY <1>5 DEF AwaitsOf
  <2>2. ASSUME NEW kind \in Kinds
        PROVE  Answers(kind, tables'[kind], FrontRows(kind)', kind \in outstanding'[id], id, groups, oks)
    <3> DEFINE part == BlockRows(kind, id, groups, oks)
    <3>1. Answers(kind, tables[kind], FrontRows(kind), kind \in outstanding[id], id, groups, oks)
      BY <2>1
    <3>2. CASE kind \in outstanding[id]
      <4>1. Stands(tables[kind], FrontRows(kind), id, part)
        BY <3>1, <3>2 DEF Answers
      <4>2. part \in Seq(RowOf(Ids))
        BY <2>1, BlockRowsOf
      <4>3. Len(part) \in Nat
        BY <4>2, LenProperties
      <4> HIDE DEF part
      <4>4. Stands(tables'[kind], FrontRows(kind), id, part)
        BY <1>3, <4>1, <4>3, StandsOn
      <4> QED BY <1>2, <3>2, <4>4 DEF Answers, part
    <3>3. CASE kind \notin outstanding[id]
      BY <1>4, <3>1, <3>3 DEF Answers
    <3> QED BY <3>2, <3>3
  <2> QED BY <2>1, <2>2 DEF AwaitsOf
<1> QED
  BY <1>4, <1>5 DEF BlockInv

LEMMA FrontKept ==
    ASSUME CaptureTypeOK, BatchTypeOK, tables' \in [Kinds -> Seq(Row)], UNCHANGED batchVars,
           NEW kind \in Kinds, Fronted(kind), Lengthens(tables[kind], tables'[kind])
    PROVE  Fronted(kind)'
<1>1. UNCHANGED <<stage, batch>>
  BY DEF batchVars
<1>2. Len(tables[kind]) \in Nat /\ Len(tables'[kind]) \in Nat
  BY LenProperties DEF CaptureTypeOK
<1>3. Len(batch.rows) \in Nat
  BY BatchRows
<1> DEFINE k == FrontRows(kind)
           n == Len(batch.rows)
<1>4. k \in Nat /\ FrontRows(kind)' = k
  BY <1>1, <1>3 DEF FrontRows
<1>5. k # 0 => k = n /\ k <= Len(tables[kind]) /\ \A i \in 1..k : batch.rows[i] = tables[kind][i]
  BY DEF Fronted
<1>6. Len(tables[kind]) <= Len(tables'[kind])
      /\ \A i \in 1..Len(tables[kind]) : tables'[kind][i] = tables[kind][i]
  BY DEF Lengthens
<1> HIDE DEF k, n
<1>7. k # 0 => /\ k = n /\ k <= Len(tables'[kind])
               /\ \A i \in 1..k : batch.rows[i] = tables'[kind][i]
  BY <1>2, <1>4, <1>5, <1>6
<1> QED
  BY <1>1, <1>4, <1>7 DEF Fronted, n

-------------------------------------------------------------------------------
(* A thread is done with its block, and adds rows.                         *)

LEMMA BlockDone ==
    ASSUME CaptureTypeOK, BatchTypeOK, DeferInv, NEW t \in Threads, IsBusy(t),
           NEW b, b = thread[t].block, ThreadGoes(t, Idle), blocks' = blocks, ecdsa' = ecdsa, schnorr' = schnorr,
           UNCHANGED batchVars, tables' \in [Kinds -> Seq(Row)],
           NEW v, verdict' = [verdict EXCEPT ![b] = v], BlockInv(b)',
           \A kind \in Kinds : Lengthens(tables[kind], tables'[kind]),
           \A id \in Ids : id # b =>
                /\ outstanding'[id] = outstanding[id]
                /\ \A kind \in Kinds : Unlike(tables[kind], tables'[kind], id)
    PROVE  DeferInv'
<1>1. b \in Ids /\ Ids' = Ids /\ UNCHANGED <<stage, batch, cancel, links>> /\ thread'[t] = Idle
  BY DEF CaptureTypeOK, IsBusy, batchVars, Ids, ThreadGoes
<1>2. ASSUME NEW id \in Ids, id # b PROVE BlockInv(id)'
  <2>1. BlockInv(id) /\ verdict'[id] = verdict[id]
    BY <1>2 DEF DeferInv, CaptureTypeOK
  <2>2. outstanding'[id] = outstanding[id]
        /\ \A kind \in Kinds : /\ Lengthens(tables[kind], tables'[kind])
                               /\ Unlike(tables[kind], tables'[kind], id)
    BY <1>2
  <2> QED BY <2>1, <2>2, BlockPassed
<1>4. \A id \in Ids : BlockInv(id)'
  BY <1>2
<1>5. ASSUME NEW u \in Threads PROVE ThreadInv(u)'
  <2>1. CASE u = t
    BY <1>1, <2>1 DEF ThreadInv, IsBusy, Idle
  <2>2. CASE u # t
    <3>1. ecdsa'[u] = ecdsa[u] /\ schnorr'[u] = schnorr[u]
          /\ (Idle.block = thread[t].block \/ Idle.block = Terminal)
      BY DEF Idle
    <3> QED BY <2>2, <3>1, OthersStay
  <2> QED BY <2>1, <2>2
<1>6. ASSUME NEW kind \in Kinds PROVE Fronted(kind)'
  <2>1. Fronted(kind)
    BY DEF DeferInv
  <2> QED BY <2>1, FrontKept
<1>7. Linked'
  BY <1>1 DEF DeferInv, Linked
<1> QED
  BY <1>1, <1>4, <1>5, <1>6, <1>7 DEF DeferInv

\* What a thread knows of a block whose scripts have all passed.
LEMMA ProgressDone ==
    ASSUME CaptureTypeOK, DeferInv, NEW t \in Threads, IsConnected(t)
    PROVE  /\ IsBusy(t) /\ thread[t].block \in Ids /\ thread[t].block # Terminal
           /\ ecdsa[t] \in Seq(Group) /\ schnorr[t] \in Seq(BOOLEAN) /\ Fitting(ecdsa[t])
           /\ BlockValid(Connected(t)) <=> AllAssigned(ecdsa[t]) /\ AllTrue(schnorr[t])
           /\ \A kind \in Kinds :
                /\ Absent(tables[kind], thread[t].block)
                /\ Rows_(t)[kind] = BlockRows(kind, thread[t].block, ecdsa[t], schnorr[t])
<1> DEFINE block == Connected(t)
           i == thread[t].input
<1>1. IsBusy(t) /\ ~(i <= Len(block)) /\ thread[t].block \in Ids /\ i \in Nat
      /\ thread[t].block # Terminal /\ ecdsa[t] \in Seq(Group) /\ schnorr[t] \in Seq(BOOLEAN)
  BY DEF IsConnected, HasInput, CaptureTypeOK, IsBusy
<1>2. IsBlock(block)
  BY <1>1, CaptureAssumption DEF CaptureTypeOK, Ids, Connected
<1>3. ProgressOf(block, thread[t], ecdsa[t], schnorr[t]) /\ verdict[thread[t].block] = "connecting"
  BY <1>1 DEF DeferInv, ThreadInv
<1>4. Fitting(ecdsa[t]) /\ (Before(block, i) <=> AllAssigned(ecdsa[t]) /\ AllTrue(schnorr[t]))
  BY <1>1, <1>3 DEF ProgressOf
<1>5. i > Len(block)
  BY <1>1, <1>2, BlockTyped
<1> HIDE DEF block, i
<1>6. Before(block, i) <=> BlockValid(block)
  BY <1>1, <1>2, <1>5, BeforeAll
<1>7. \A kind \in Kinds : Absent(tables[kind], thread[t].block)
  BY <1>1, <1>3 DEF DeferInv, BlockInv
<1>8. \A kind \in Kinds : Rows_(t)[kind] = BlockRows(kind, thread[t].block, ecdsa[t], schnorr[t])
  BY DEF Rows_, BlockRows
<1> QED
  BY <1>1, <1>4, <1>6, <1>7, <1>8 DEF block

LEMMA FrontWithin ==
    ASSUME CaptureTypeOK, BatchTypeOK, NEW kind \in Kinds, Fronted(kind)
    PROVE  FrontRows(kind) \in Nat /\ Len(tables[kind]) \in Nat /\ FrontRows(kind) <= Len(tables[kind])
<1>1. Len(tables[kind]) \in Nat
  BY LenProperties DEF CaptureTypeOK
<1>2. Len(batch.rows) \in Nat
  BY BatchRows
<1> QED
  BY <1>1, <1>2 DEF Fronted, FrontRows

\* Rows are put after those of a table.
LEMMA LengthensBy ==
    ASSUME NEW S, NEW whole \in Seq(S), NEW more \in Seq(S)
    PROVE  /\ Lengthens(whole, whole \o more)
           /\ \A id : (\A r \in 1..Len(more) : more[r].id # id) => Unlike(whole, whole \o more, id)
<1> DEFINE n == Len(whole)
           k == Len(more)
           longer == whole \o more
<1>1. n \in Nat /\ k \in Nat
  BY LenProperties
<1>2. /\ Len(longer) = n + k
      /\ \A i \in 1..(n + k) : longer[i] = IF i <= n THEN whole[i] ELSE more[i - n]
  BY ConcatProperties
<1> HIDE DEF longer, n, k
<1>3. n <= Len(longer) /\ \A i \in 1..n : longer[i] = whole[i]
  BY <1>1, <1>2
<1>4. \A i \in 1..Len(longer) : i > n => i - n \in 1..k /\ longer[i] = more[i - n]
  BY <1>1, <1>2
<1> QED
  BY <1>3, <1>4 DEF Lengthens, Unlike, n, k, longer

LEMMA CommitDefers ==
    ASSUME CaptureTypeOK, CaptureTypeOK', BatchTypeOK, DeferInv, NEW t \in Threads, Commit(t)
    PROVE  DeferInv'
<1>0. PICK b : b = thread[t].block
  OBVIOUS
<1> DEFINE rows == Rows_(t)
           kinds == {kind \in Kinds : rows[kind] # <<>>}
           v == IF kinds = {} THEN "valid" ELSE "deferred"
<1>1. /\ IsConnected(t) /\ ThreadGoes(t, Idle)
      /\ tables' = [kind \in Kinds |-> tables[kind] \o rows[kind]]
      /\ outstanding' = [outstanding EXCEPT ![b] = kinds]
      /\ verdict' = [verdict EXCEPT ![b] = v]
      /\ blocks' = blocks /\ ecdsa' = ecdsa /\ schnorr' = schnorr /\ UNCHANGED batchVars
  BY <1>0 DEF Commit, ThreadGoes
<1>2. /\ IsBusy(t) /\ b \in Ids /\ b # Terminal
      /\ ecdsa[t] \in Seq(Group) /\ schnorr[t] \in Seq(BOOLEAN) /\ Fitting(ecdsa[t])
      /\ BlockValid(blocks[b]) <=> AllAssigned(ecdsa[t]) /\ AllTrue(schnorr[t])
      /\ \A kind \in Kinds : Absent(tables[kind], b)
                             /\ rows[kind] = BlockRows(kind, b, ecdsa[t], schnorr[t])
  BY <1>0, <1>1, ProgressDone DEF Connected
<1> HIDE DEF rows
<1>3. ASSUME NEW kind \in Kinds
      PROVE  /\ rows[kind] \in Seq(Row) /\ tables[kind] \in Seq(Row)
             /\ \A r \in 1..Len(rows[kind]) : rows[kind][r].id = b
             /\ tables'[kind] = tables[kind] \o rows[kind]
  <2>1. /\ BlockRows(kind, b, ecdsa[t], schnorr[t]) \in Seq(RowOf(Ids))
        /\ \A r \in 1..Len(BlockRows(kind, b, ecdsa[t], schnorr[t])) :
                BlockRows(kind, b, ecdsa[t], schnorr[t])[r].id = b
    BY <1>2, BlockRowsOf
  <2>2. tables[kind] \in Seq(Row) /\ tables'[kind] = tables[kind] \o rows[kind]
    BY <1>1 DEF CaptureTypeOK
  <2> QED BY <1>2, <2>1, <2>2 DEF Row
<1>4. ASSUME NEW kind \in Kinds
      PROVE  /\ Lengthens(tables[kind], tables'[kind])
             /\ \A id : id # b => Unlike(tables[kind], tables'[kind], id)
  BY <1>3, LengthensBy
<1>5. /\ outstanding'[b] = kinds /\ verdict'[b] = v
      /\ \A id \in Ids : id # b => outstanding'[id] = outstanding[id]
  <2> HIDE DEF kinds, v
  <2> QED BY <1>1, <1>2 DEF CaptureTypeOK
<1>6. UNCHANGED <<stage, batch>>
  BY <1>1 DEF batchVars
<1>7. ASSUME NEW kind PROVE FrontRows(kind)' = FrontRows(kind)
  BY <1>6 DEF FrontRows
<1>8. ASSUME NEW kind \in Kinds, rows[kind] = <<>> PROVE Meets(kind, ecdsa[t], schnorr[t])
  BY <1>2, <1>8, NoRowsMeet
<1>9. BlockInv(b)'
  <2>1. CASE kinds = {}
    <3>1. \A kind \in Kinds : Meets(kind, ecdsa[t], schnorr[t])
      BY <1>8, <2>1
    <3>2. AllAssigned(ecdsa[t]) /\ AllTrue(schnorr[t])
      BY <3>1 DEF Meets, Kinds
    <3> QED BY <1>1, <1>2, <1>5, <2>1, <3>2 DEF BlockInv
  <2>2. CASE kinds # {}
    <3>1. ASSUME NEW kind \in Kinds
          PROVE  Answers(kind, tables'[kind], FrontRows(kind)', kind \in outstanding'[b], b,
                         ecdsa[t], schnorr[t])
      <4>1. kind \in outstanding'[b] <=> rows[kind] # <<>>
        BY <1>5
      <4>2. CASE rows[kind] = <<>>
        <5>1. tables'[kind] = tables[kind]
          BY <1>3, <4>2, ConcatEmptySeq
        <5> QED BY <1>2, <1>8, <4>1, <4>2, <5>1 DEF Answers
      <4>3. CASE rows[kind] # <<>>
        <5>1. Fronted(kind)
          BY DEF DeferInv
        <5>2. FrontRows(kind) \in Nat /\ FrontRows(kind) <= Len(tables[kind])
          BY <5>1, FrontWithin
        <5>3. Stands(tables[kind] \o rows[kind], FrontRows(kind), b, rows[kind])
          BY <1>2, <1>3, <4>3, <5>2, StandsNew
        <5> QED BY <1>2, <1>3, <1>7, <4>1, <4>3, <5>3 DEF Answers
      <4> QED BY <4>2, <4>3
    <3>2. AwaitsOf(b)'
      BY <1>1, <1>2, <3>1 DEF AwaitsOf
    <3> QED BY <1>5, <2>2, <3>2 DEF BlockInv
  <2> QED BY <2>1, <2>2
<1> HIDE DEF kinds, v
<1>10. /\ \A kind \in Kinds : Lengthens(tables[kind], tables'[kind])
       /\ \A id \in Ids : id # b =>
                /\ outstanding'[id] = outstanding[id]
                /\ \A kind \in Kinds : Unlike(tables[kind], tables'[kind], id)
  BY <1>4, <1>5
<1>11. tables' \in [Kinds -> Seq(Row)]
  <2>1. tables' \in [Kinds -> Seq(Row')] /\ Row' = Row
    BY <1>1 DEF CaptureTypeOK, Row, Ids
  <2> QED BY <2>1
<1> QED
  BY <1>0, <1>1, <1>2, <1>9, <1>10, <1>11, BlockDone

LEMMA CommitFailsDefers ==
    ASSUME CaptureTypeOK, CaptureTypeOK', BatchTypeOK, DeferInv, NEW t \in Threads, CommitFails(t)
    PROVE  DeferInv'
<1>0. PICK b : b = thread[t].block
  OBVIOUS
<1> DEFINE holds == /\ \A g \in DOMAIN ecdsa[t] : verify_group(ecdsa[t][g])
                    /\ \A r \in DOMAIN schnorr[t] : schnorr[t][r]
           v == IF holds THEN "valid" ELSE "invalid"
<1>1. /\ IsConnected(t) /\ ThreadGoes(t, Idle) /\ verdict' = [verdict EXCEPT ![b] = v]
      /\ blocks' = blocks /\ ecdsa' = ecdsa /\ schnorr' = schnorr /\ outstanding' = outstanding
      /\ UNCHANGED batchVars
  BY <1>0 DEF CommitFails, ThreadGoes
<1>2. /\ IsBusy(t) /\ b \in Ids /\ b # Terminal
      /\ ecdsa[t] \in Seq(Group) /\ schnorr[t] \in Seq(BOOLEAN)
      /\ BlockValid(blocks[b]) <=> AllAssigned(ecdsa[t]) /\ AllTrue(schnorr[t])
  BY <1>0, <1>1, ProgressDone DEF Connected
<1>3. holds <=> BlockValid(blocks[b])
  <2>1. /\ DOMAIN ecdsa[t] = 1..Len(ecdsa[t]) /\ DOMAIN schnorr[t] = 1..Len(schnorr[t])
        /\ \A g \in 1..Len(ecdsa[t]) : ecdsa[t][g] \in Group
    BY <1>2, LenProperties, ElementOfSeq
  <2>2. \A g \in 1..Len(ecdsa[t]) : verify_group(ecdsa[t][g])
            <=> Assigns(ecdsa[t][g].m, ecdsa[t][g].n, ecdsa[t][g].match)
    BY <2>1, GroupDecides
  <2>3. holds <=> AllAssigned(ecdsa[t]) /\ AllTrue(schnorr[t])
    BY <2>1, <2>2 DEF AllAssigned, AllTrue
  <2> HIDE DEF holds
  <2> QED BY <1>2, <2>3
<1> HIDE DEF holds
<1>4. v \in {"valid", "invalid"} /\ (v = "valid" <=> BlockValid(blocks[b]))
  BY <1>3
<1> HIDE DEF v
<1>5. BlockInv(b)'
  <2>1. verdict'[b] = v /\ blocks' = blocks
    BY <1>1, <1>2 DEF CaptureTypeOK
  <2> QED BY <1>4, <2>1 DEF BlockInv
<1>6. ASSUME NEW kind \in Kinds
      PROVE  /\ Lengthens(tables[kind], tables'[kind])
             /\ \A id \in Ids : Unlike(tables[kind], tables'[kind], id)
  <2>1. tables[kind] \in Seq(Row) /\ Len(tables[kind]) \in Nat
    BY LenProperties DEF CaptureTypeOK
  <2>2. CASE tables'[kind] = tables[kind]
    BY <2>1, <2>2 DEF Lengthens, Unlike
  <2>3. CASE \E row : row.id = Terminal /\ tables'[kind] = Append(tables[kind], row)
    <3>1. PICK row : row.id = Terminal /\ tables'[kind] = Append(tables[kind], row)
      BY <2>3
    <3> DEFINE n == Len(tables[kind])
    <3>2. \A id \in Ids : id # Terminal
      BY CaptureAssumption DEF CaptureTypeOK, Ids
    <3>3. tables[kind] \in Seq(Row \union {row}) /\ row \in Row \union {row}
      <4>1. \A i \in 1..n : tables[kind][i] \in Row \union {row}
        BY <2>1, ElementOfSeq
      <4>2. tables[kind] = [i \in 1..n |-> tables[kind][i]]
        BY <2>1, LenProperties
      <4> QED BY <2>1, <4>1, <4>2, FunctionIsSeq
    <3>4. /\ Len(Append(tables[kind], row)) = n + 1
          /\ \A i \in 1..n : Append(tables[kind], row)[i] = tables[kind][i]
          /\ Append(tables[kind], row)[n + 1] = row
      BY <3>3, AppendProperties
    <3>5. \A i \in 1..(n + 1) : i > n => i = n + 1
      BY <2>1
    <3> QED BY <2>1, <3>1, <3>2, <3>4, <3>5 DEF Lengthens, Unlike
  <2>4. PICK k \in Kinds :
            /\ Rows_(t)[k] # <<>>
            /\ \/ tables' = tables
               \/ tables' = [tables EXCEPT ![k] =
                            Append(@, [Rows_(t)[k][1] EXCEPT !.id = Terminal, !.ok = FALSE])]
    BY Zenon DEF CommitFails
  <2> DEFINE first == Rows_(t)[k][1]
             part == [first EXCEPT !.id = Terminal]
             row == [part EXCEPT !.ok = FALSE]
  <2>5. [Rows_(t)[k][1] EXCEPT !.id = Terminal, !.ok = FALSE] = row
    BY Zenon
  <2>6. first \in Row
    <3>0. Rows_(t)[k] \in Seq(Row) /\ Rows_(t)[k] # <<>>
      BY <1>2, <2>4, StoredAreRows
    <3>1. Len(Rows_(t)[k]) \in Nat \ {0}
      BY <3>0, EmptySeq
    <3>2. 1 \in 1..Len(Rows_(t)[k])
      BY <3>1
    <3> QED BY <3>0, <3>2, ElementOfSeq
  <2>7. row.id = Terminal
    <3>1. part \in RowOf(Ids) /\ part.id = Terminal
      BY <2>6 DEF Row, RowOf
    <3> HIDE DEF part
    <3> QED BY <3>1 DEF RowOf
  <2>8. tables'[kind] = tables[kind] \/ tables'[kind] = Append(tables[kind], row)
    <3> HIDE DEF row
    <3> QED BY <2>4, <2>5 DEF CaptureTypeOK
  <2> HIDE DEF row
  <2> QED BY <2>2, <2>3, <2>7, <2>8
<1>7. tables' \in [Kinds -> Seq(Row)]
  <2>1. tables' \in [Kinds -> Seq(Row')] /\ Row' = Row
    BY <1>1 DEF CaptureTypeOK, Row, Ids
  <2> QED BY <2>1
<1>8. /\ \A kind \in Kinds : Lengthens(tables[kind], tables'[kind])
      /\ \A id \in Ids : id # b =>
                /\ outstanding'[id] = outstanding[id]
                /\ \A kind \in Kinds : Unlike(tables[kind], tables'[kind], id)
  BY <1>1, <1>6
<1> QED
  BY <1>0, <1>1, <1>2, <1>5, <1>7, <1>8, BlockDone

-------------------------------------------------------------------------------
(* Calls.                                                                  *)

\* A batch has all rows of a table, or none.
LEMMA StandsAgain ==
    ASSUME NEW table, Len(table) \in Nat, NEW id, NEW part, Len(part) \in Nat, NEW front, NEW f,
           f \in {front, 0, Len(table)}, Stands(table, front, id, part)
    PROVE  Stands(table, f, id, part)
<1>1. PICK p \in Nat : OnlyAt(table, p, part, id) /\ (p + Len(part) <= front \/ p >= front)
  BY DEF Stands
<1>2. p + Len(part) <= Len(table)
  BY <1>1 DEF OnlyAt, LiesAt
<1>3. p + Len(part) <= f \/ p >= f
  BY <1>1, <1>2
<1> QED
  BY <1>1, <1>3 DEF Stands

LEMMA CallDefers ==
    ASSUME CaptureTypeOK, DeferInv, UNCHANGED captureVars,
           \A kind \in Kinds : /\ FrontRows(kind)' \in {FrontRows(kind), 0, Len(tables[kind])}
                               /\ Fronted(kind)',
           Linked'
    PROVE  DeferInv'
<1>1. UNCHANGED <<blocks, verdict, thread, ecdsa, schnorr, tables, outstanding>> /\ Ids' = Ids
  BY DEF captureVars, Ids
<1>2. ASSUME NEW id \in Ids PROVE BlockInv(id)'
  <2>1. BlockInv(id)
    BY DEF DeferInv
  <2>2. ASSUME AwaitsOf(id) PROVE AwaitsOf(id)'
    <3>1. PICK groups \in Seq(Group), oks \in Seq(BOOLEAN) :
            /\ Fitting(groups)
            /\ BlockValid(blocks[id]) <=> AllAssigned(groups) /\ AllTrue(oks)
            /\ \A kind \in Kinds :
                Answers(kind, tables[kind], FrontRows(kind), kind \in outstanding[id], id, groups, oks)
      BY <2>2 DEF AwaitsOf
    <3>2. ASSUME NEW kind \in Kinds
          PROVE  Answers(kind, tables[kind], FrontRows(kind)', kind \in outstanding[id], id, groups, oks)
      <4> DEFINE part == BlockRows(kind, id, groups, oks)
                 table == tables[kind]
                 f == FrontRows(kind)'
                 front == FrontRows(kind)
      <4>1. Answers(kind, table, front, kind \in outstanding[id], id, groups, oks)
        BY <3>1
      <4>2. CASE kind \in outstanding[id]
        <5>1. Stands(table, front, id, part)
          BY <4>1, <4>2 DEF Answers
        <5>2. part \in Seq(RowOf(Ids)) /\ table \in Seq(Row)
          BY <3>1, BlockRowsOf DEF CaptureTypeOK
        <5>3. Len(part) \in Nat /\ Len(table) \in Nat
          BY <5>2, LenProperties
        <5>4. f \in {front, 0, Len(table)}
          OBVIOUS
        <5> HIDE DEF part, table, f, front
        <5>5. Stands(table, f, id, part)
          BY <5>1, <5>3, <5>4, StandsAgain
        <5> QED BY <4>2, <5>5 DEF Answers, part, table, f
      <4>3. CASE kind \notin outstanding[id]
        BY <4>1, <4>3 DEF Answers
      <4> QED BY <4>2, <4>3
    <3>3. \A kind \in Kinds :
            Answers(kind, tables'[kind], FrontRows(kind)', kind \in outstanding'[id], id, groups, oks)
      BY <1>1, <3>2
    <3> QED BY <1>1, <3>1, <3>3 DEF AwaitsOf
  <2> QED BY <1>1, <2>1, <2>2 DEF BlockInv
<1>3. \A t \in Threads : ThreadInv(t)'
  BY <1>1 DEF DeferInv, ThreadInv, IsBusy, Connected
<1> QED
  BY <1>1, <1>2, <1>3 DEF DeferInv

\* The batch stays, while it is verified or when that is over.
LEMMA BatchStays ==
    ASSUME CaptureTypeOK, DeferInv, UNCHANGED captureVars, batch' = batch,
           \/ stage \in Verified /\ stage' \in Verified
           \/ stage' \notin Verified,
           Linked'
    PROVE  DeferInv'
<1>1. tables' = tables
  BY DEF captureVars
<1>2. ASSUME NEW kind \in Kinds PROVE FrontRows(kind)' \in {FrontRows(kind), 0} /\ Fronted(kind)'
  <2>1. FrontRows(kind)' \in {FrontRows(kind), 0}
    BY DEF FrontRows
  <2>2. Fronted(kind)
    BY DEF DeferInv
  <2>3. CASE FrontRows(kind)' = 0
    BY <2>3 DEF Fronted
  <2>4. CASE FrontRows(kind)' = FrontRows(kind)
    BY <1>1, <2>2, <2>4 DEF Fronted
  <2> QED BY <2>1, <2>3, <2>4
<1> QED
  BY <1>2, CallDefers

LEMMA BeginDefers ==
    ASSUME CaptureTypeOK, DeferInv, UNCHANGED captureVars, NEW kind, NEW rows, Begin(kind, rows),
           kind \in Kinds => rows = tables[kind]
    PROVE  DeferInv'
<1>1. batch' = [kind |-> kind, rows |-> rows] /\ stage' \in {"device", "chunks"} /\ tables' = tables
  BY DEF Begin, captureVars
<1>2. batch'.kind = kind /\ batch'.rows = rows
  BY <1>1
<1>3. ASSUME NEW k \in Kinds
      PROVE  FrontRows(k)' \in {FrontRows(k), 0, Len(tables[k])} /\ Fronted(k)'
  <2>1. FrontRows(k)' = IF kind = k THEN Len(rows) ELSE 0
    BY <1>1, <1>2 DEF FrontRows, Verified
  <2>2. CASE kind = k
    <3>1. rows = tables[k] /\ FrontRows(k)' = Len(tables[k]) /\ Len(tables[k]) \in Nat
      BY <2>1, <2>2, LenProperties DEF CaptureTypeOK
    <3> QED BY <1>1, <1>2, <3>1 DEF Fronted
  <2>3. CASE kind # k
    BY <2>1, <2>3 DEF Fronted
  <2> QED BY <2>2, <2>3
<1>4. Linked'
  BY <1>1 DEF Linked
<1> QED
  BY <1>3, <1>4, CallDefers

LEMMA CorrelateDefers ==
    ASSUME CaptureTypeOK, BatchInv, DeferInv, UNCHANGED captureVars, Correlate
    PROVE  DeferInv'
<1>1. /\ stage = "joined" /\ stage' = "correlated" /\ batch.kind \in Kinds /\ batch' = batch
      /\ cancel' = cancel
  BY DEF Correlate, Kinds
<1>2. Linked'
  <2> SUFFICES ASSUME ~cancel PROVE links' = Failing(batch.kind, batch.rows)
    BY <1>1 DEF Linked
  <2>1. links' = get_failures(batch.kind, batch.rows, results, Len(batch.rows))
    BY DEF Correlate
  <2>2. results = IF AllValid THEN <<>> ELSE [i \in Rows |-> to_int(batch.rows[i].ok)]
    BY <1>1 DEF BatchInv, ResultsTrue, Kinds
  <2> QED BY <2>1, <2>2, Zenon DEF Failing, AllValid, Rows
<1> QED
  BY <1>1, <1>2, BatchStays DEF Verified

LEMMA VerifyingDefers ==
    ASSUME CaptureTypeOK, BatchInv, DeferInv, UNCHANGED captureVars, Verifying
    PROVE  DeferInv'
<1>1. CASE Correlate
  BY <1>1, CorrelateDefers
<1>2. CASE Device \/ Join \/ Write \/ \E c \in DOMAIN chunks : StartChunk(c) \/ EndChunk(c)
  <2>1. /\ batch' = batch /\ stage \in {"device", "chunks", "joined"}
        /\ stage' \in {"device", "chunks", "joined"}
    BY <1>2 DEF Device, Lost, Join, Write, StartChunk, EndChunk
  <2>2. Linked'
    BY <2>1 DEF Linked
  <2> QED BY <2>1, <2>2, BatchStays DEF Verified
<1>3. CASE Return
  <2>1. batch' = batch /\ stage' \in {"idle", "returned"}
    BY <1>3 DEF Return
  <2>2. Linked'
    BY <2>1 DEF Linked
  <2> QED BY <2>1, <2>2, BatchStays DEF Verified
<1> QED
  BY <1>1, <1>2, <1>3 DEF Verifying

LEMMA CancelDefers ==
    ASSUME CaptureTypeOK, DeferInv, UNCHANGED captureVars, Cancel
    PROVE  DeferInv'
<1>1. batch' = batch /\ stage' = stage /\ cancel' = TRUE
  BY DEF Cancel
<1>2. Linked'
  BY <1>1 DEF Linked
<1> QED
  BY <1>1, <1>2, BatchStays

LEMMA IdleDefers ==
    ASSUME CaptureTypeOK, DeferInv, UNCHANGED captureVars, batch' = batch, stage' = "idle"
    PROVE  DeferInv'
<1>1. Linked'
  BY DEF Linked
<1> QED
  BY <1>1, BatchStays DEF Verified

-------------------------------------------------------------------------------
(* A batch is resolved.                                                    *)

\* The rows of a table after its first n.
LEMMA RestOf ==
    ASSUME NEW S, NEW table \in Seq(S), NEW n \in Nat, n <= Len(table)
    PROVE  /\ Len(SubSeq(table, n + 1, Len(table))) = Len(table) - n
           /\ \A i \in 1..(Len(table) - n) : SubSeq(table, n + 1, Len(table))[i] = table[n + i]
<1> DEFINE k == Len(table)
           a == n + 1
           rest == SubSeq(table, a, k)
<1>1. k \in Nat /\ \A i \in 1..k : table[i] \in S
  BY LenProperties, ElementOfSeq
<1>2. a \in Nat /\ a \in 1..(k + 1) /\ k - a + 1 = k - n
  BY <1>1
<1>3. \A i \in a..k : table[i] \in S
  BY <1>1, <1>2
<1> HIDE DEF k, a
<1>4. /\ rest \in Seq(S)
      /\ Len(rest) = IF a <= k THEN k - a + 1 ELSE 0
      /\ \A i \in 1..(k - a + 1) : rest[i] = table[a + i - 1]
  BY <1>1, <1>2, <1>3, SubSeqProperties
<1>5. Len(rest) = k - n
  BY <1>1, <1>2, <1>4 DEF a
<1>6. ASSUME NEW i \in 1..(k - n) PROVE rest[i] = table[n + i]
  <2>1. a + i - 1 = n + i
    BY <1>1 DEF a
  <2>2. i \in 1..(k - a + 1)
    BY <1>2
  <2> QED BY <1>4, <2>1, <2>2
<1> QED
  BY <1>5, <1>6 DEF k, a, rest

\* What is left of a table after its first n rows.
IsRest(rest, table, n) ==
    Len(rest) = Len(table) - n /\ \A i \in 1..Len(rest) : rest[i] = table[n + i]

\* What stands after the batch stands in the rest.
LEMMA StandsRest ==
    ASSUME NEW table, NEW rest, NEW n \in Nat, Len(table) \in Nat, n <= Len(table),
           IsRest(rest, table, n),
           NEW id, NEW part, Len(part) \in Nat, NEW p \in Nat, p >= n, OnlyAt(table, p, part, id)
    PROVE  OnlyAt(rest, p - n, part, id) /\ p - n \in Nat
<1> DEFINE q == p - n
           k == Len(part)
           c == Len(rest)
<1>1. q \in Nat /\ k \in Nat /\ p = n + q /\ c \in Nat /\ Len(table) = n + c
  BY DEF IsRest
<1>2. p + k <= Len(table) /\ \A r \in 1..k : table[p + r] = part[r]
  BY DEF OnlyAt, LiesAt
<1>3. \A i \in 1..Len(table) : table[i].id = id => i \in (p + 1)..(p + k)
  BY DEF OnlyAt
<1>4. \A i \in 1..c : rest[i] = table[n + i]
  BY DEF IsRest
<1> HIDE DEF q, k, c
<1>5. q + k <= c
  BY <1>1, <1>2
<1>6. ASSUME NEW r \in 1..k PROVE rest[q + r] = part[r]
  <2>1. q + r \in 1..c /\ n + (q + r) = p + r
    BY <1>1, <1>5
  <2> QED BY <1>2, <1>4, <2>1
<1>7. ASSUME NEW i \in 1..c, rest[i].id = id PROVE i \in (q + 1)..(q + k)
  <2>1. n + i \in 1..Len(table) /\ table[n + i].id = id
    BY <1>1, <1>4, <1>7
  <2>2. n + i \in (p + 1)..(p + k)
    BY <1>3, <2>1
  <2> QED BY <1>1, <2>2
<1>8. OnlyAt(rest, q, part, id)
  BY <1>5, <1>6, <1>7 DEF OnlyAt, LiesAt, k, c
<1> QED
  BY <1>1, <1>8 DEF q

\* The rows of a block that are in the batch are all of them.
LEMMA StandsWithin ==
    ASSUME NEW table, NEW rows, NEW n \in Nat, Len(rows) = n, Len(table) \in Nat,
           Lengthens(rows, table),
           NEW id, NEW part, Len(part) \in Nat, Stands(table, n, id, part),
           NEW i \in 1..n, rows[i].id = id
    PROVE  /\ \E p \in Nat : OnlyAt(rows, p, part, id)
           /\ \A j \in 1..Len(table) : j > n => table[j].id # id
<1>0. n <= Len(table) /\ \A j \in 1..n : table[j] = rows[j]
  BY DEF Lengthens
<1>1. PICK p \in Nat : OnlyAt(table, p, part, id) /\ (p + Len(part) <= n \/ p >= n)
  BY DEF Stands
<1> DEFINE k == Len(part)
<1>2. p + k <= Len(table) /\ \A r \in 1..k : table[p + r] = part[r]
  BY <1>1 DEF OnlyAt, LiesAt
<1>3. \A j \in 1..Len(table) : table[j].id = id => j \in (p + 1)..(p + k)
  BY <1>1 DEF OnlyAt
<1> HIDE DEF k
<1>4. k \in Nat /\ p + k <= n
  <2>1. i \in 1..Len(table) /\ table[i].id = id
    BY <1>0
  <2>2. i \in (p + 1)..(p + k)
    BY <1>3, <2>1
  <2> QED BY <1>1, <2>2 DEF k
<1>5. \A r \in 1..k : p + r \in 1..n
  BY <1>4
<1>6. \A r \in 1..k : rows[p + r] = part[r]
  BY <1>0, <1>2, <1>5
<1>7. \A j \in 1..n : rows[j].id = id => j \in (p + 1)..(p + k)
  BY <1>0, <1>3
<1>8. OnlyAt(rows, p, part, id)
  BY <1>4, <1>6, <1>7 DEF OnlyAt, LiesAt, k
<1>9. \A j \in 1..Len(table) : j > n => table[j].id # id
  BY <1>3, <1>4
<1> QED
  BY <1>8, <1>9

\* A block of which the batch has no row has its rows after it.
LEMMA StandsBeyond ==
    ASSUME NEW table, NEW rows, NEW n \in Nat, Len(table) \in Nat, n <= Len(table),
           NEW id, \A i \in 1..n : rows[i] = table[i] /\ rows[i].id # id,
           NEW part, Len(part) \in Nat \ {0}, \A r \in 1..Len(part) : part[r].id = id,
           Stands(table, n, id, part)
    PROVE  \E p \in Nat : p >= n /\ OnlyAt(table, p, part, id)
<1>1. PICK p \in Nat : OnlyAt(table, p, part, id) /\ (p + Len(part) <= n \/ p >= n)
  BY DEF Stands
<1>2. table[p + 1] = part[1] /\ part[1].id = id
  <2>1. 1 \in 1..Len(part)
    OBVIOUS
  <2> QED BY <1>1, <2>1 DEF OnlyAt, LiesAt
<1>3. ~(p + Len(part) <= n)
  <2> SUFFICES ASSUME p + Len(part) <= n PROVE FALSE
    OBVIOUS
  <2>1. p + 1 \in 1..n
    OBVIOUS
  <2> QED BY <1>2, <2>1
<1> QED
  BY <1>1, <1>3

\* A batch that has not been canceled, and the table that it is the front of.
Resolved(kind, n) ==
    /\ kind \in Kinds /\ n \in Nat
    /\ batch.rows \in Seq(RowOf(Ids)) /\ Len(batch.rows) = n /\ Rows = 1..n
    /\ links = Failing(kind, batch.rows)
    /\ tables[kind] \in Seq(Row) /\ Len(tables[kind]) \in Nat /\ n <= Len(tables[kind])
    /\ Lengthens(batch.rows, tables[kind])
    /\ FrontRows(kind) = n
    /\ tables' = [tables EXCEPT ![kind] = SubSeq(@, n + 1, Len(@))]
    /\ IsRest(tables'[kind], tables[kind], n)

LEMMA ResolvedIs ==
    ASSUME CaptureTypeOK, BatchTypeOK, DeferInv, Resolve, ~cancel
    PROVE  Resolved(batch.kind, Len(batch.rows))
<1> DEFINE kind == batch.kind
           n == Len(batch.rows)
           table == tables[kind]
<1>1. kind \in Kinds /\ links = Failing(kind, batch.rows) /\ stage = "correlated"
  BY DEF Resolve, DeferInv, Linked
<1>2. batch.rows \in Seq(Row) /\ n \in Nat /\ Rows = 1..n
  BY BatchRows
<1>3. table \in Seq(Row) /\ Len(table) \in Nat
  BY <1>1, LenProperties DEF CaptureTypeOK
<1>4. FrontRows(kind) = n
  BY <1>1 DEF FrontRows, Verified
<1>5. n <= Len(table) /\ \A i \in 1..n : batch.rows[i] = table[i]
  <2>1. Fronted(kind)
    BY <1>1 DEF DeferInv
  <2>2. n # 0 => n <= Len(table) /\ \A i \in 1..n : batch.rows[i] = table[i]
    BY <1>4, <2>1 DEF Fronted
  <2> HIDE DEF n, table
  <2> QED BY <1>2, <1>3, <2>2
<1>6. tables' = [tables EXCEPT ![kind] = SubSeq(@, n + 1, Len(@))]
  BY DEF Resolve
<1>7. tables'[kind] = SubSeq(table, n + 1, Len(table))
  BY <1>1, <1>6 DEF CaptureTypeOK
<1>8. /\ Len(SubSeq(table, n + 1, Len(table))) = Len(table) - n
      /\ \A i \in 1..(Len(table) - n) : SubSeq(table, n + 1, Len(table))[i] = table[n + i]
  <2> HIDE DEF n, table
  <2> QED BY <1>2, <1>3, <1>5, RestOf
<1>9. Len(tables'[kind]) = Len(table) - n /\ \A i \in 1..Len(tables'[kind]) : tables'[kind][i] = table[n + i]
  <2> HIDE DEF n, table, kind
  <2> QED BY <1>7, <1>8
<1>10. Lengthens(batch.rows, table) /\ IsRest(tables'[kind], table, n)
  BY <1>5, <1>9 DEF Lengthens, IsRest
<1> QED
  BY <1>1, <1>2, <1>3, <1>4, <1>5, <1>6, <1>10 DEF Resolved, Row

\* What a batch says of a block that it has rows of, and what it leaves of one
\* that it has none of.
LEMMA AnswersNow ==
    ASSUME NEW kind, NEW n, Resolved(kind, n), NEW id \in Ids, id # Terminal,
           NEW groups \in Seq(Group), NEW oks \in Seq(BOOLEAN), Fitting(groups), NEW waits,
           Answers(kind, tables[kind], n, waits, id, groups, oks),
           NEW i \in 1..n, batch.rows[i].id = id
    PROVE  /\ id \in links <=> ~Meets(kind, groups, oks)
           /\ Absent(tables'[kind], id)
<1> DEFINE part == BlockRows(kind, id, groups, oks)
           table == tables[kind]
           rest == tables'[kind]
           rows == batch.rows
<1>1. /\ kind \in Kinds /\ n \in Nat /\ rows \in Seq(RowOf(Ids)) /\ Len(rows) = n
      /\ links = Failing(kind, rows) /\ Len(table) \in Nat /\ n <= Len(table)
      /\ Lengthens(rows, table) /\ IsRest(rest, table, n)
  BY DEF Resolved
<1>2. Len(part) \in Nat
  <2>1. part \in Seq(RowOf(Ids))
    BY <1>1, BlockRowsOf
  <2> HIDE DEF part
  <2> QED BY <2>1, LenProperties
<1> HIDE DEF table, rest, rows
<1>3. waits
  <2> SUFFICES ASSUME ~waits PROVE FALSE
    OBVIOUS
  <2>1. Absent(table, id)
    BY DEF Answers, table
  <2>2. i \in 1..Len(table) /\ table[i].id = id
    BY <1>1 DEF rows, Lengthens
  <2> QED BY <2>1, <2>2 DEF Absent
<1>4. Stands(table, n, id, part)
  BY <1>3 DEF Answers, table
<1> HIDE DEF part
<1>5. rows[i].id = id
  BY DEF rows
<1>6. /\ \E p \in Nat : OnlyAt(rows, p, part, id)
      /\ \A j \in 1..Len(table) : j > n => table[j].id # id
  BY <1>1, <1>2, <1>4, <1>5, StandsWithin
<1>7. id \in links <=> ~Meets(kind, groups, oks)
  <2>1. PICK p \in Nat : OnlyAt(rows, p, BlockRows(kind, id, groups, oks), id)
    BY <1>6 DEF part
  <2> QED BY <1>1, <2>1, FailingVerdict
<1>8. Absent(rest, id)
  <2>1. \A j \in 1..Len(rest) :
            n + j \in 1..Len(table) /\ n + j > n /\ rest[j] = table[n + j]
    BY <1>1 DEF IsRest
  <2> QED BY <1>6, <2>1 DEF Absent
<1> QED
  BY <1>7, <1>8 DEF rest

LEMMA AnswersLater ==
    ASSUME NEW kind, NEW n, Resolved(kind, n), NEW id \in Ids,
           NEW groups \in Seq(Group), NEW oks \in Seq(BOOLEAN), Fitting(groups), NEW waits,
           Answers(kind, tables[kind], n, waits, id, groups, oks),
           \A i \in 1..n : batch.rows[i].id # id
    PROVE  Answers(kind, tables'[kind], 0, waits, id, groups, oks)
<1> DEFINE part == BlockRows(kind, id, groups, oks)
           table == tables[kind]
           rest == tables'[kind]
           rows == batch.rows
<1>1. /\ kind \in Kinds /\ n \in Nat /\ Len(rows) = n /\ Len(table) \in Nat /\ n <= Len(table)
      /\ Lengthens(rows, table) /\ IsRest(rest, table, n)
  BY DEF Resolved
<1>2. \A j \in 1..n : rows[j] = table[j] /\ rows[j].id # id
  BY <1>1 DEF Lengthens
<1>3. part \in Seq(RowOf(Ids)) /\ \A r \in 1..Len(part) : part[r].id = id
  BY <1>1, BlockRowsOf
<1> HIDE DEF table, rest, rows
<1>4. CASE waits
  <2>1. Stands(table, n, id, part)
    BY <1>4 DEF Answers, table
  <2> HIDE DEF part
  <2>2. part # <<>>
    BY <2>1 DEF Stands
  <2>3. Len(part) \in Nat \ {0}
    BY <1>3, <2>2, EmptySeq
  <2>4. PICK p \in Nat : p >= n /\ OnlyAt(table, p, part, id)
    BY <1>1, <1>2, <1>3, <2>1, <2>3, StandsBeyond
  <2>5. OnlyAt(rest, p - n, part, id) /\ p - n \in Nat
    BY <1>1, <2>3, <2>4, StandsRest
  <2>6. p - n >= 0
    BY <2>5
  <2>7. Stands(rest, 0, id, part)
    BY <2>2, <2>5, <2>6 DEF Stands
  <2> QED BY <1>4, <2>7 DEF Answers, part, rest
<1>5. CASE ~waits
  <2>1. Absent(table, id) /\ Meets(kind, groups, oks)
    BY <1>5 DEF Answers, table
  <2>2. \A j \in 1..Len(rest) : n + j \in 1..Len(table) /\ rest[j] = table[n + j]
    BY <1>1 DEF IsRest
  <2>3. Absent(rest, id)
    BY <2>1, <2>2 DEF Absent
  <2> QED BY <1>5, <2>1, <2>3 DEF Answers, rest
<1> QED
  BY <1>4, <1>5

LEMMA ResolveDefers ==
    ASSUME CaptureTypeOK, BatchTypeOK, DeferInv, Resolve
    PROVE  DeferInv'
<1>1. /\ blocks' = blocks /\ thread' = thread /\ ecdsa' = ecdsa /\ schnorr' = schnorr
      /\ stage = "correlated" /\ stage' = "idle"
      /\ UNCHANGED <<cancel, use_gpu, batch, chunks, results, failed, links, written>>
      /\ Ids' = Ids
  BY DEF Resolve, Ids
<1>2. CASE cancel
  <2>1. UNCHANGED captureVars
    BY <1>1, <1>2 DEF Resolve, captureVars
  <2> QED BY <1>1, <2>1, IdleDefers
<1>3. CASE ~cancel
  <2>0. PICK kind, n : kind = batch.kind /\ n = Len(batch.rows)
    OBVIOUS
  <2> DEFINE waits == {b \in Ids : verdict[b] = "deferred" /\ \E i \in Rows : batch.rows[i].id = b}
             left == [b \in Ids |-> IF b \in waits THEN outstanding[b] \ {kind}
                                                   ELSE outstanding[b]]
  <2>1. /\ outstanding' = left
        /\ verdict' = [b \in Ids |-> IF b \notin waits THEN verdict[b]
                                     ELSE IF b \in links THEN "invalid"
                                     ELSE IF left[b] = {} THEN "valid"
                                     ELSE "deferred"]
    BY <1>3, <2>0 DEF Resolve
  <2>2. Resolved(kind, n)
    BY <1>3, <2>0, ResolvedIs
  <2>3. /\ kind \in Kinds /\ n \in Nat /\ Rows = 1..n /\ FrontRows(kind) = n
        /\ Len(tables[kind]) \in Nat /\ n <= Len(tables[kind]) /\ IsRest(tables'[kind], tables[kind], n)
    BY <2>2 DEF Resolved
  <2>4. ASSUME NEW k \in Kinds, k # kind PROVE tables'[k] = tables[k] /\ FrontRows(k) = 0
    BY <2>0, <2>2, <2>4 DEF Resolved, CaptureTypeOK, FrontRows
  <2>5. ASSUME NEW k PROVE FrontRows(k)' = 0
    BY <1>1 DEF FrontRows, Verified
  <2>6. ASSUME NEW b \in Ids, NEW k \in Kinds, Absent(tables[k], b) PROVE Absent(tables'[k], b)
    <3>1. CASE k = kind
      <4>1. \A j \in 1..Len(tables'[kind]) :
                n + j \in 1..Len(tables[kind]) /\ tables'[kind][j] = tables[kind][n + j]
        BY <2>3 DEF IsRest
      <4> QED BY <2>6, <3>1, <4>1 DEF Absent
    <3>2. CASE k # kind
      BY <2>4, <2>6, <3>2
    <3> QED BY <3>1, <3>2
  <2>7. ASSUME NEW b \in Ids PROVE BlockInv(b)'
    <3>1. BlockInv(b) /\ b # Terminal
      BY CaptureAssumption DEF DeferInv, CaptureTypeOK, Ids
    <3>2. CASE verdict[b] # "deferred"
      <4>1. verdict'[b] = verdict[b]
        BY <2>1, <3>2
      <4> QED BY <1>1, <2>6, <3>1, <3>2, <4>1 DEF BlockInv
    <3>3. CASE verdict[b] = "deferred"
      <4>1. PICK groups \in Seq(Group), oks \in Seq(BOOLEAN) :
              /\ Fitting(groups)
              /\ BlockValid(blocks[b]) <=> AllAssigned(groups) /\ AllTrue(oks)
              /\ \A k \in Kinds :
                  Answers(k, tables[k], FrontRows(k), k \in outstanding[b], b, groups, oks)
        BY <3>1, <3>3 DEF BlockInv, AwaitsOf
      <4> DEFINE Still(k) == Answers(k, tables'[k], FrontRows(k)', k \in outstanding'[b], b, groups, oks)
      <4>2. Answers(kind, tables[kind], n, kind \in outstanding[b], b, groups, oks)
        BY <2>3, <4>1
      <4>3. ASSUME NEW k \in Kinds, k # kind PROVE Still(k)
        <5>1. Answers(k, tables[k], FrontRows(k), k \in outstanding[b], b, groups, oks)
          BY <4>1
        <5>2. k \in outstanding'[b] <=> k \in outstanding[b]
          BY <2>1, <4>3
        <5> QED BY <2>4, <2>5, <4>3, <5>1, <5>2 DEF Answers
      <4>4. CASE b \in waits
        <5>1. PICK i \in 1..n : batch.rows[i].id = b
          BY <2>3, <4>4
        <5>2. (b \in links <=> ~Meets(kind, groups, oks)) /\ Absent(tables'[kind], b)
          BY <2>2, <3>1, <4>1, <4>2, <5>1, AnswersNow
        <5>3. kind \notin outstanding'[b] /\ outstanding'[b] = left[b]
          BY <2>1, <4>4
        <5>4. CASE b \in links
          <6>1. verdict'[b] = "invalid"
            BY <2>1, <4>4, <5>4
          <6>2. ~BlockValid(blocks[b])
            BY <4>1, <5>2, <5>4 DEF Meets
          <6> QED BY <1>1, <6>1, <6>2 DEF BlockInv
        <5>5. CASE b \notin links /\ left[b] = {}
          <6>1. verdict'[b] = "valid"
            BY <2>1, <4>4, <5>5
          <6>2. ASSUME NEW k \in Kinds PROVE Meets(k, groups, oks)
            <7>1. CASE k = kind
              BY <5>2, <5>5, <7>1
            <7>2. CASE k # kind
              BY <4>3, <5>3, <5>5, <7>2 DEF Answers
            <7> QED BY <7>1, <7>2
          <6>3. AllAssigned(groups) /\ AllTrue(oks)
            BY <6>2 DEF Meets, Kinds
          <6> QED BY <1>1, <4>1, <6>1, <6>3 DEF BlockInv
        <5>6. CASE b \notin links /\ left[b] # {}
          <6>1. verdict'[b] = "deferred"
            BY <2>1, <4>4, <5>6
          <6>2. Still(kind)
            BY <5>2, <5>3, <5>6 DEF Answers
          <6>3. \A k \in Kinds : Still(k)
            BY <4>3, <6>2
          <6>4. AwaitsOf(b)'
            BY <1>1, <4>1, <6>3 DEF AwaitsOf
          <6> QED BY <6>1, <6>4 DEF BlockInv
        <5> QED BY <5>4, <5>5, <5>6
      <4>5. CASE b \notin waits
        <5>1. verdict'[b] = "deferred" /\ outstanding'[b] = outstanding[b]
          BY <2>1, <3>3, <4>5
        <5>2. \A i \in 1..n : batch.rows[i].id # b
          BY <2>3, <3>3, <4>5
        <5>3. Answers(kind, tables'[kind], 0, kind \in outstanding[b], b, groups, oks)
          BY <2>2, <4>1, <4>2, <5>2, AnswersLater
        <5>4. Still(kind)
          BY <2>5, <5>1, <5>3
        <5>5. \A k \in Kinds : Still(k)
          BY <4>3, <5>4
        <5>6. AwaitsOf(b)'
          BY <1>1, <4>1, <5>5 DEF AwaitsOf
        <5> QED BY <5>1, <5>6 DEF BlockInv
      <4> QED BY <4>4, <4>5
    <3> QED BY <3>2, <3>3
  <2>8. ASSUME NEW t \in Threads PROVE ThreadInv(t)'
    <3> SUFFICES ASSUME IsBusy(t)' PROVE ThreadInv(t)'
      BY DEF ThreadInv
    <3>1. IsBusy(t) /\ ThreadInv(t)
      BY <1>1 DEF DeferInv, IsBusy
    <3>2. verdict[thread[t].block] = "connecting" /\ thread[t].block \in Ids
      BY <3>1 DEF ThreadInv, CaptureTypeOK, IsBusy
    <3>3. verdict'[thread[t].block] = "connecting"
      BY <2>1, <3>2
    <3> QED BY <1>1, <3>1, <3>3 DEF ThreadInv, IsBusy, Connected
  <2>9. \A k \in Kinds : Fronted(k)'
    BY <2>5 DEF Fronted
  <2>10. Linked'
    BY <1>1 DEF Linked
  <2> QED BY <1>1, <2>7, <2>8, <2>9, <2>10 DEF DeferInv
<1> QED
  BY <1>2, <1>3

LEMMA DeferSteps ==
    ASSUME CaptureInv, CaptureInv', DeferInv, [Next]_vars
    PROVE  DeferInv'
<1>0. CaptureTypeOK /\ CaptureTypeOK' /\ BatchInv /\ BatchTypeOK
  BY DEF CaptureInv, BatchInv
<1>1. ASSUME NEW t \in Threads, Runs(t) PROVE DeferInv'
  <2>1. CASE verify_ecdsa_signature(t)
    BY <1>0, <2>1, EcdsaDefers
  <2>2. CASE op_check_multisig(t)
    BY <1>0, <2>2, MultisigDefers
  <2>3. CASE verify_schnorr_signature(t)
    BY <1>0, <2>3, SchnorrDefers
  <2>4. CASE ThresholdSignature(t)
    <3>1. is_threshold_batchable(t) \in Nat
      BY <1>0, <2>4, BatchableIsCount DEF ThresholdSignature
    <3> QED BY <1>0, <2>4, <3>1, ThresholdDefers
  <2>5. CASE ThresholdOther(t)
    BY <1>0, <2>5, ThresholdOtherDefers
  <2>6. CASE ThresholdEnds(t)
    BY <1>0, <2>6, ThresholdEndDefers
  <2>7. CASE Commit(t)
    BY <1>0, <2>7, CommitDefers
  <2>8. CASE CommitFails(t)
    BY <1>0, <2>8, CommitFailsDefers
  <2>9. CASE \E b \in Ids : Connect(t, b)
    BY <1>0, <2>9, ConnectDefers
  <2> QED BY <1>1, <2>1, <2>2, <2>3, <2>4, <2>5, <2>6, <2>7, <2>8, <2>9 DEF Runs
<1>2. CASE Drains
  <2>1. CASE Resolve
    BY <1>0, <2>1, ResolveDefers
  <2>2. CASE Release
    BY <1>0, <2>2, IdleDefers DEF Release
  <2>3. ASSUME NEW kind \in Kinds, Drain(kind) PROVE DeferInv'
    <3>1. Begin(kind, tables[kind]) /\ UNCHANGED captureVars
      BY <2>3 DEF Drain
    <3> QED BY <1>0, <3>1, BeginDefers
  <2> QED BY <1>2, <2>1, <2>2, <2>3 DEF Drains
<1>3. CASE Verifies
  BY <1>0, <1>3, VerifyingDefers DEF Verifies
<1>4. CASE Compute
  <2> DEFINE rows == [i \in 1..SilentRows |->
                [id |-> Terminal, group |-> 0, sig |-> 0, key |-> 0, ok |-> TRUE]]
  <2>1. Begin("silent", rows) /\ UNCHANGED captureVars
    BY <1>4 DEF Compute
  <2> HIDE DEF rows
  <2>2. "silent" \notin Kinds
    BY DEF Kinds
  <2> QED BY <1>0, <2>1, <2>2, BeginDefers
<1>5. CASE Cancel /\ UNCHANGED captureVars
  BY <1>0, <1>5, CancelDefers
<1>6. CASE UNCHANGED vars
  <2>1. UNCHANGED captureVars /\ UNCHANGED <<cancel, stage, batch, links>>
    BY <1>6 DEF vars, batchVars
  <2>2. Linked'
    BY <2>1 DEF DeferInv, Linked
  <2> QED BY <1>0, <2>1, <2>2, BatchStays
<1> QED
  BY <1>1, <1>2, <1>3, <1>4, <1>5, <1>6 DEF Next

\* For any blocks of any scripts, threads, bounds and batches, a block is found
\* valid exactly if every script of it is, whether its signatures were verified as
\* its scripts ran, after the store failed, on the device or in chunks
\* (signatures, get_failures, meets_threshold, verify_group).
THEOREM DeferralAgrees == Spec => []DeferredAgrees
<1>1. Init => DeferInv
  BY DeferStarts
<1>2. CaptureInv /\ CaptureInv' /\ DeferInv /\ [Next]_vars => DeferInv'
  BY DeferSteps
<1>3. CaptureInv /\ DeferInv => DeferredAgrees
  BY DeferInvDecides
<1> QED
  BY <1>1, <1>2, <1>3, CaptureInvHolds, PTL DEF Spec
===============================================================================
