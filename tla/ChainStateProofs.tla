--------------------------- MODULE ChainStateProofs ---------------------------
(***************************************************************************)
(* Proofs about ChainState, for chains of any length, any settings of the  *)
(* networks and any lengths of periods, windows and samples.               *)
(***************************************************************************)
EXTENDS ChainState, FiniteSetTheorems, SequenceTheorems,
        NaturalsInduction, WellFoundedInduction, TLAPS

-----------------------------------------------------------------------------
(* Numbers. *)

\* A set with zero and the successor of each of its numbers has every number.
LEMMA SuccessorsFill ==
    ASSUME NEW S, 0 \in S, \A n \in Nat : n \in S => n + 1 \in S
    PROVE  Nat \subseteq S
<1> DEFINE T == Nat \ S
<1> SUFFICES ASSUME T # {} PROVE FALSE
  OBVIOUS
<1>1. T \subseteq Nat
  OBVIOUS
<1>2. PICK n \in T : \A m \in T : ~(<<m, n>> \in OpToRel(<, Nat))
  <2> HIDE DEF T
  <2> QED BY <1>1, NatLessThanWellFounded, WFMin
<1>3. \A m \in T : ~(m < n)
  BY <1>1, <1>2 DEF OpToRel
<1>4. n \in Nat /\ n # 0 /\ n - 1 \in Nat /\ n - 1 < n /\ (n - 1) + 1 = n
  OBVIOUS
<1>5. n - 1 \in S
  BY <1>3, <1>4
<1> QED
  BY <1>4, <1>5

LEMMA LesserOf ==
    ASSUME NEW a \in Int, NEW b \in Int
    PROVE  Min({a, b}) = IF a <= b THEN a ELSE b
<1> DEFINE m == IF a <= b THEN a ELSE b
<1>1. m \in {a, b} /\ \A y \in {a, b} : m <= y
  OBVIOUS
<1>2. ASSUME NEW x \in {a, b}, \A y \in {a, b} : x <= y PROVE x = m
  BY <1>2
<1> HIDE DEF m
<1>3. (CHOOSE x \in {a, b} : \A y \in {a, b} : x <= y) = m
  BY <1>1, <1>2
<1> QED
  BY <1>3 DEF Min, m

LEMMA GreaterOf ==
    ASSUME NEW a \in Int, NEW b \in Int
    PROVE  Max({a, b}) = IF a >= b THEN a ELSE b
<1> DEFINE m == IF a >= b THEN a ELSE b
<1>1. m \in {a, b} /\ \A y \in {a, b} : m >= y
  OBVIOUS
<1>2. ASSUME NEW x \in {a, b}, \A y \in {a, b} : x >= y PROVE x = m
  BY <1>2
<1> HIDE DEF m
<1>3. (CHOOSE x \in {a, b} : \A y \in {a, b} : x >= y) = m
  BY <1>1, <1>2
<1> QED
  BY <1>3 DEF Max, m

\* A set of numbers with one of them as its greatest.
LEMMA GreatestIs ==
    ASSUME NEW S, S \subseteq Int, NEW m \in S, \A y \in S : m >= y
    PROVE  Max(S) = m
<1>1. ASSUME NEW x \in S, \A y \in S : x >= y PROVE x = m
  <2>1. x >= m /\ m >= x /\ x \in Int /\ m \in Int
    BY <1>1
  <2> QED BY <2>1
<1>2. (CHOOSE x \in S : \A y \in S : x >= y) = m
  BY <1>1
<1> QED
  BY <1>2 DEF Max

\* Numbers up to a bound have a greatest.
LEMMA BoundedHasGreatest ==
    ASSUME NEW n \in Nat, NEW S, S \subseteq 0 .. n, S # {}
    PROVE  Max(S) \in S /\ \A y \in S : Max(S) >= y
<1> DEFINE T == {n - x : x \in S}
<1>1. T \subseteq Nat /\ T # {}
  <2>1. PICK x \in S : TRUE
    OBVIOUS
  <2>2. n - x \in T
    OBVIOUS
  <2>3. \A y \in S : n - y \in Nat
    OBVIOUS
  <2> QED BY <2>2, <2>3
<1>2. PICK d \in T : \A e \in T : ~(<<e, d>> \in OpToRel(<, Nat))
  <2> HIDE DEF T
  <2> QED BY <1>1, NatLessThanWellFounded, WFMin
<1>3. \A e \in T : ~(e < d)
  BY <1>1, <1>2 DEF OpToRel
<1>4. PICK m \in S : d = n - m
  BY <1>2
<1>5. ASSUME NEW y \in S PROVE m >= y
  <2>1. n - y \in T
    OBVIOUS
  <2>2. ~(n - y < n - m)
    BY <1>3, <1>4, <2>1
  <2> QED BY <2>2
<1>0. S \subseteq Int
  OBVIOUS
<1>6. Max(S) = m
  BY <1>0, <1>5, GreatestIs
<1> QED
  BY <1>5, <1>6

-----------------------------------------------------------------------------
(* Periods. *)

LEMMA Remainder ==
    ASSUME NEW a \in Nat, NEW k \in Nat \ {0}
    PROVE  a % k \in 0 .. (k - 1) /\ a \div k \in Nat /\ a = k * (a \div k) + (a % k)
  OBVIOUS

LEMMA RemainderIs ==
    ASSUME NEW k \in Nat \ {0}, NEW p \in Nat, NEW q \in Nat,
           NEW r \in 0 .. (k - 1), NEW s \in 0 .. (k - 1), k * p + r = k * q + s
    PROVE  r = s
<1>1. p < q => k * (p + 1) <= k * q /\ k * (p + 1) = k * p + k
  OBVIOUS
<1>2. q < p => k * (q + 1) <= k * p /\ k * (q + 1) = k * q + k
  OBVIOUS
<1> DEFINE x == k * p
           y == k * q
<1>3. x \in Nat /\ y \in Nat /\ (p < q => x + k <= y) /\ (q < p => y + k <= x)
      /\ (p = q => x = y) /\ x + r = y + s
  BY <1>1, <1>2
<1> HIDE DEF x, y
<1>4. x = y
  BY <1>3
<1> QED
  BY <1>3, <1>4

LEMMA RemainderNext ==
    ASSUME NEW a \in Nat, NEW k \in Nat \ {0}
    PROVE  /\ (a + 1) % k = IF a % k = k - 1 THEN 0 ELSE (a % k) + 1
           /\ a % k <= a
           /\ a % k = 0 /\ a # 0 => a >= k
           /\ 0 % k = 0
<1> DEFINE q == a \div k
           r == a % k
           u == (a + 1) \div k
           v == (a + 1) % k
<1>1. q \in Nat /\ r \in 0 .. (k - 1) /\ a = k * q + r
  BY Remainder
<1>2. u \in Nat /\ v \in 0 .. (k - 1) /\ a + 1 = k * u + v
  <2>1. a + 1 \in Nat
    OBVIOUS
  <2> QED BY <2>1, Remainder, Zenon
<1>4. 0 % k = 0
  OBVIOUS
<1> HIDE DEF q, r, u, v
<1>3. k * (q + 1) = k * q + k /\ k * q \in Nat /\ k * u \in Nat
  BY <1>1, <1>2
<1>5. ASSUME r = k - 1 PROVE v = 0
  <2>1. k * u + v = k * (q + 1) + 0
    BY <1>1, <1>2, <1>3, <1>5
  <2>2. v = 0
    <3>1. 0 \in 0 .. (k - 1) /\ q + 1 \in Nat
      BY <1>1
    <3> QED BY <1>1, <1>2, <2>1, <3>1, RemainderIs
  <2> QED BY <2>2
<1>6. ASSUME r # k - 1 PROVE v = r + 1
  <2>1. k * u + v = k * q + (r + 1)
    BY <1>1, <1>2, <1>3
  <2>2. v = r + 1
    <3>1. r + 1 \in 0 .. (k - 1)
      BY <1>1, <1>6
    <3> QED BY <1>1, <1>2, <2>1, <3>1, RemainderIs
  <2> QED BY <2>2
<1>7. r <= a
  BY <1>1, <1>3
<1>8. r = 0 /\ a # 0 => a >= k
  <2> SUFFICES ASSUME r = 0, a # 0 PROVE a >= k
    OBVIOUS
  <2>1. q # 0
    BY <1>1
  <2>2. k * q >= k
    BY <1>1, <2>1
  <2> QED BY <1>1, <1>3, <2>2
<1>9. v = IF r = k - 1 THEN 0 ELSE r + 1
  BY <1>5, <1>6
<1> QED
  BY <1>4, <1>7, <1>8, <1>9 DEF r, v

LEMMA Interval ==
    retargeting_interval \in Nat \ {0}
<1>1. retargeting_interval_seconds \in Nat /\ block_spacing_seconds \in Nat \ {0}
      /\ retargeting_interval_seconds >= block_spacing_seconds
  BY ChainConstants
<1> DEFINE q == retargeting_interval_seconds \div block_spacing_seconds
<1>2. q \in Nat /\ retargeting_interval_seconds % block_spacing_seconds \in 0 .. (block_spacing_seconds - 1)
      /\ retargeting_interval_seconds =
            block_spacing_seconds * q + (retargeting_interval_seconds % block_spacing_seconds)
  BY <1>1, Remainder
<1>3. q = 0 => block_spacing_seconds * q = 0
  BY <1>1
<1> HIDE DEF q
<1>4. q # 0
  BY <1>1, <1>2, <1>3
<1>5. q \in Nat \ {0}
  BY <1>2, <1>4
<1> QED
  BY <1>5 DEF q, retargeting_interval

-----------------------------------------------------------------------------
(* Windows. *)

\* How long a window of n is after it is pushed and, above m, popped.
Grown(n, m) == IF n + 1 > m THEN n ELSE n + 1

\* The n values up to one place.
Window(g, h, n) == [i \in 1 .. n |-> g[h - n + i]]

LEMMA Enqueued ==
    ASSUME NEW g, NEW h \in Nat, NEW n \in Nat, NEW m \in Nat,
           NEW ordered, ordered = Window(g, h, n)
    PROVE  Enqueue(ordered, g[h + 1], m) = Window(g, h + 1, Grown(n, m))
<1>0. ordered = [i \in 1 .. n |-> g[h - n + i]]
  BY DEF Window
<1> DEFINE S == {ordered[i] : i \in 1 .. n} \union {g[h + 1]}
           grown == Append(ordered, g[h + 1])
<1>1. ordered \in Seq(S) /\ Len(ordered) = n
  <2>1. ordered \in [1 .. n -> S] /\ DOMAIN ordered = 1 .. n
    BY <1>0
  <2> HIDE DEF S
  <2>2. ordered \in Seq(S)
    BY <2>1, SeqDef, Zenon
  <2>3. Len(ordered) \in Nat /\ DOMAIN ordered = 1 .. Len(ordered) /\ DOMAIN ordered = 1 .. n
    BY <2>1, <2>2, LenProperties
  <2>4. n \in 1 .. n \/ n = 0
    OBVIOUS
  <2>5. Len(ordered) \in 1 .. Len(ordered) \/ Len(ordered) = 0
    BY <2>3
  <2>6. (n \in 1 .. Len(ordered) \/ n = 0) /\ (Len(ordered) \in 1 .. n \/ Len(ordered) = 0)
    BY <2>3, <2>4, <2>5, Zenon
  <2>7. Len(ordered) = n
    <3>1. \A l \in Nat : (n \in 1 .. l \/ n = 0) /\ (l \in 1 .. n \/ l = 0) => l = n
      OBVIOUS
    <3> QED BY <2>3, <2>6, <3>1, Zenon
  <2> QED BY <2>2, <2>7
<1>2. g[h + 1] \in S
  OBVIOUS
<1>3. /\ grown \in Seq(S) /\ grown # <<>> /\ Len(grown) = n + 1
      /\ \A i \in 1 .. n : grown[i] = ordered[i]
      /\ grown[n + 1] = g[h + 1]
  <2> HIDE DEF S
  <2> QED BY <1>1, <1>2, AppendProperties
<1>4. \A i \in 1 .. (n + 1) : grown[i] = g[h - n + i]
  <2>1. ASSUME NEW i \in 1 .. (n + 1) PROVE grown[i] = g[h - n + i]
    <3>1. CASE i \in 1 .. n
      <4>1. ordered[i] = g[h - n + i]
        BY <1>0, <3>1
      <4> HIDE DEF grown
      <4> QED BY <1>3, <3>1, <4>1
    <3>2. CASE i = n + 1
      <4>1. h - n + i = h + 1
        BY <3>2
      <4> HIDE DEF grown
      <4> QED BY <1>3, <3>2, <4>1
    <3>3. i \in 1 .. n \/ i = n + 1
      OBVIOUS
    <3> QED BY <3>1, <3>2, <3>3, Zenon
  <2> QED BY <2>1
<1>5. Enqueue(ordered, g[h + 1], m) = IF Len(grown) > m THEN Tail(grown) ELSE grown
  BY DEF Enqueue
<1> HIDE DEF grown, S
<1>6. CASE n + 1 > m
  <2>1. /\ Tail(grown) \in Seq(S) /\ Len(Tail(grown)) = Len(grown) - 1
        /\ \A i \in 1 .. Len(Tail(grown)) : Tail(grown)[i] = grown[i + 1]
    BY <1>3, HeadTailProperties
  <2>2. Len(Tail(grown)) = n
    BY <1>3, <2>1
  <2>3. DOMAIN Tail(grown) = 1 .. n /\ Tail(grown) = [i \in 1 .. n |-> Tail(grown)[i]]
    BY <2>1, <2>2, LenProperties
  <2>4. ASSUME NEW i \in 1 .. n PROVE Tail(grown)[i] = g[(h + 1) - n + i]
    <3>1. Tail(grown)[i] = grown[i + 1]
      BY <2>1, <2>2
    <3>2. i + 1 \in 1 .. (n + 1) /\ h - n + (i + 1) = (h + 1) - n + i
      OBVIOUS
    <3>3. grown[i + 1] = g[h - n + (i + 1)]
      BY <1>4, <3>2
    <3> QED BY <3>1, <3>2, <3>3
  <2>5. Grown(n, m) = n /\ Enqueue(ordered, g[h + 1], m) = Tail(grown)
    BY <1>3, <1>5, <1>6 DEF Grown
  <2> QED BY <2>3, <2>4, <2>5 DEF Window
<1>7. CASE ~(n + 1 > m)
  <2>1. Grown(n, m) = n + 1 /\ Enqueue(ordered, g[h + 1], m) = grown
    BY <1>3, <1>5, <1>7 DEF Grown
  <2>2. grown = [i \in 1 .. (n + 1) |-> grown[i]]
    BY <1>3, LenProperties
  <2>3. \A i \in 1 .. (n + 1) : h - n + i = (h + 1) - (n + 1) + i
    OBVIOUS
  <2> QED BY <1>4, <2>1, <2>2, <2>3 DEF Window
<1> QED
  BY <1>6, <1>7

\* What the n blocks below a height have, in order.
BitsBelow(c, h, n) == [i \in 1 .. n |-> Block(c, h - n + i - 1).bits]
VersionsBelow(c, h, n) == [i \in 1 .. n |-> Block(c, h - n + i - 1).version]
TimesBelow(c, h, n) == [i \in 1 .. n |-> Block(c, h - n + i - 1).timestamp]

\* Pushing what the block at a height has, onto what those below it have.
LEMMA EnqueuedBelow ==
    ASSUME NEW c, NEW h \in Nat, NEW n \in 0 .. h, NEW m \in Nat
    PROVE  /\ Enqueue(BitsBelow(c, h, n), Block(c, h).bits, m) = BitsBelow(c, h + 1, Grown(n, m))
           /\ Enqueue(VersionsBelow(c, h, n), Block(c, h).version, m)
                = VersionsBelow(c, h + 1, Grown(n, m))
           /\ Enqueue(TimesBelow(c, h, n), Block(c, h).timestamp, m)
                = TimesBelow(c, h + 1, Grown(n, m))
<1> DEFINE k == Grown(n, m)
           b == [j \in 1 .. (h + 1) |-> c[j].bits]
           v == [j \in 1 .. (h + 1) |-> c[j].version]
           t == [j \in 1 .. (h + 1) |-> c[j].timestamp]
<1>1. k \in 0 .. (h + 1)
  BY DEF Grown
<1>2. h + 1 \in 1 .. (h + 1) /\ b[h + 1] = Block(c, h).bits /\ v[h + 1] = Block(c, h).version
      /\ t[h + 1] = Block(c, h).timestamp
  BY DEF Block
<1>3. \A i \in 1 .. n : h - n + i \in 1 .. (h + 1) /\ (h - n + i - 1) + 1 = h - n + i
  OBVIOUS
<1>4. \A i \in 1 .. k : (h + 1) - k + i \in 1 .. (h + 1)
                            /\ ((h + 1) - k + i - 1) + 1 = (h + 1) - k + i
  <2> HIDE DEF k
  <2> QED BY <1>1
<1>5. /\ BitsBelow(c, h, n) = [i \in 1 .. n |-> b[h - n + i]]
      /\ VersionsBelow(c, h, n) = [i \in 1 .. n |-> v[h - n + i]]
      /\ TimesBelow(c, h, n) = [i \in 1 .. n |-> t[h - n + i]]
  BY <1>3 DEF BitsBelow, VersionsBelow, TimesBelow, Block
<1>6. /\ BitsBelow(c, h + 1, k) = [i \in 1 .. k |-> b[(h + 1) - k + i]]
      /\ VersionsBelow(c, h + 1, k) = [i \in 1 .. k |-> v[(h + 1) - k + i]]
      /\ TimesBelow(c, h + 1, k) = [i \in 1 .. k |-> t[(h + 1) - k + i]]
  <2> HIDE DEF k
  <2> QED BY <1>4 DEF BitsBelow, VersionsBelow, TimesBelow, Block
<1> HIDE DEF b, v, t
<1>0. n \in Nat
  OBVIOUS
<1>7. ASSUME NEW g, NEW o, o = Window(g, h, n)
      PROVE  Enqueue(o, g[h + 1], m) = Window(g, h + 1, k)
  BY <1>0, <1>7, Enqueued, SMTT(30)
<1> HIDE DEF k
<1>8. Enqueue(BitsBelow(c, h, n), b[h + 1], m) = BitsBelow(c, h + 1, k)
  <2>1. BitsBelow(c, h, n) = Window(b, h, n)
    BY <1>5 DEF Window
  <2>2. Enqueue(BitsBelow(c, h, n), b[h + 1], m) = Window(b, h + 1, k)
    BY <1>7, <2>1, Zenon
  <2> QED BY <1>6, <2>2 DEF Window
<1>9. Enqueue(VersionsBelow(c, h, n), v[h + 1], m) = VersionsBelow(c, h + 1, k)
  <2>1. VersionsBelow(c, h, n) = Window(v, h, n)
    BY <1>5 DEF Window
  <2>2. Enqueue(VersionsBelow(c, h, n), v[h + 1], m) = Window(v, h + 1, k)
    BY <1>7, <2>1, Zenon
  <2> QED BY <1>6, <2>2 DEF Window
<1>10. Enqueue(TimesBelow(c, h, n), t[h + 1], m) = TimesBelow(c, h + 1, k)
  <2>1. TimesBelow(c, h, n) = Window(t, h, n)
    BY <1>5 DEF Window
  <2>2. Enqueue(TimesBelow(c, h, n), t[h + 1], m) = Window(t, h + 1, k)
    BY <1>7, <2>1, Zenon
  <2> QED BY <1>6, <2>2 DEF Window
<1> QED
  BY <1>2, <1>8, <1>9, <1>10 DEF k

\* What is below a height does not depend on what is added to the chain.
LEMMA BelowAppended ==
    ASSUME NEW S, NEW c \in Seq(S), NEW e \in S
    PROVE  /\ Append(c, e) \in Seq(S)
           /\ Top(Append(c, e)) = Top(c) + 1
           /\ Block(Append(c, e), Top(c) + 1) = e
           /\ \A j \in 0 .. Top(c) : Block(Append(c, e), j) = Block(c, j)
<1>1. /\ Append(c, e) \in Seq(S) /\ Len(Append(c, e)) = Len(c) + 1
      /\ Append(c, e)[Len(c) + 1] = e
      /\ \A i \in 1 .. Len(c) : Append(c, e)[i] = c[i]
  BY AppendProperties
<1>2. Len(c) \in Nat
  BY LenProperties
<1>3. \A j \in 0 .. Top(c) : j + 1 \in 1 .. Len(c)
  BY <1>2 DEF Top
<1>4. (Top(c) + 1) + 1 = Len(c) + 1 /\ Top(Append(c, e)) = Top(c) + 1
  BY <1>1, <1>2 DEF Top
<1> QED
  BY <1>1, <1>3, <1>4 DEF Block

LEMMA WindowsAppended ==
    ASSUME NEW S, NEW c \in Seq(S), NEW e \in S, NEW h \in 0 .. (Top(c) + 1), NEW n \in 0 .. h
    PROVE  /\ BitsBelow(Append(c, e), h, n) = BitsBelow(c, h, n)
           /\ VersionsBelow(Append(c, e), h, n) = VersionsBelow(c, h, n)
           /\ TimesBelow(Append(c, e), h, n) = TimesBelow(c, h, n)
<1>1. Top(c) \in Int
  BY LenProperties DEF Top
<1>2. \A i \in 1 .. n : h - n + i - 1 \in 0 .. Top(c)
  BY <1>1
<1>3. \A i \in 1 .. n : Block(Append(c, e), h - n + i - 1) = Block(c, h - n + i - 1)
  <2>1. \A j \in 0 .. Top(c) : Block(Append(c, e), j) = Block(c, j)
    BY BelowAppended
  <2> QED BY <1>2, <2>1, Zenon
<1> QED
  BY <1>3 DEF BitsBelow, VersionsBelow, TimesBelow

\* Counts of windows that grow to a size and stay there.
LEMMA Counts ==
    ASSUME NEW h \in Nat
    PROVE  /\ timestamp_count(h) = (IF h <= median_time_past_interval
                                    THEN h ELSE median_time_past_interval)
           /\ timestamp_count(h) \in 0 .. h
           /\ version_count(h) \in 0 .. h
           /\ Grown(timestamp_count(h), timestamp_count(h + 1)) = timestamp_count(h + 1)
           /\ Grown(version_count(h), version_count(h + 1)) = version_count(h + 1)
<1>1. median_time_past_interval \in Nat /\ bip34_activation_sample \in Nat
  BY ChainConstants, VersionConstants
<1>2. ASSUME NEW k \in Nat
      PROVE  /\ Min({h, k}) = IF h <= k THEN h ELSE k
             /\ Min({h + 1, k}) = IF h + 1 <= k THEN h + 1 ELSE k
  BY LesserOf
<1>3. ASSUME NEW k \in Nat
      PROVE  Min({h, k}) \in 0 .. h /\ Grown(Min({h, k}), Min({h + 1, k})) = Min({h + 1, k})
  BY <1>2 DEF Grown
<1>4. timestamp_count(h) = Min({h, median_time_past_interval})
      /\ timestamp_count(h + 1) = Min({h + 1, median_time_past_interval})
  BY DEF timestamp_count
<1>5. CASE "bip90" \in forks \/ forks \cap {"bip34", "bip65", "bip66"} = {}
  <2>1. version_count(h) = 0 /\ version_count(h + 1) = 0
    BY <1>5 DEF version_count
  <2>2. Grown(0, 0) = 0
    BY DEF Grown
  <2> QED BY <1>1, <1>2, <1>3, <1>4, <2>1, <2>2
<1>6. CASE ~("bip90" \in forks \/ forks \cap {"bip34", "bip65", "bip66"} = {})
  <2>1. version_count(h) = Min({h, bip34_activation_sample})
        /\ version_count(h + 1) = Min({h + 1, bip34_activation_sample})
    BY <1>6 DEF version_count
  <2> QED BY <1>1, <1>2, <1>3, <1>4, <2>1
<1> QED
  BY <1>5, <1>6

-----------------------------------------------------------------------------
(* What is read of the windows of bits and of the start of the period. *)

\* Sizes of the window of bits.  A promoted window is popped once at a time and
\* may be longer than a populated one; both reach what work_required reads.
Reach(h) ==
    {n \in 0 .. h :
        /\ h > 0 => n >= 1
        /\ "retarget" \notin forks \/ "difficult" \in forks => n <= 1
        /\ "retarget" \in forks /\ "difficult" \notin forks /\ h > 0 =>
            IF is_retarget_height(h)
            THEN "block_storm_patch" \in forks => n >= retargeting_interval
            ELSE h - n <= PeriodStart(h)}

\* The heights around the next, by its place in the period.
LEMMA NextInPeriod ==
    ASSUME NEW h \in Nat
    PROVE  /\ h % retargeting_interval \in 0 .. (retargeting_interval - 1)
           /\ h % retargeting_interval <= h
           /\ (h + 1) % retargeting_interval = IF h % retargeting_interval = retargeting_interval - 1
                                               THEN 0 ELSE (h % retargeting_interval) + 1
           /\ is_retarget_height(h) <=> h % retargeting_interval = 0
           /\ is_retarget_height(h + 1) <=> (h + 1) % retargeting_interval = 0
           /\ is_retarget_height(h) /\ h # 0 => h >= retargeting_interval
           /\ is_retarget_height(0)
           /\ PeriodStart(h) = h - (h % retargeting_interval)
           /\ PeriodStart(h + 1) = (h + 1) - ((h + 1) % retargeting_interval)
<1> DEFINE k == retargeting_interval
<1>1. k \in Nat \ {0}
  BY Interval
<1> HIDE DEF k
<1>2. /\ h % k \in 0 .. (k - 1)
      /\ (h + 1) % k = IF h % k = k - 1 THEN 0 ELSE (h % k) + 1
      /\ h % k <= h
      /\ h % k = 0 /\ h # 0 => h >= k
      /\ 0 % k = 0
  BY <1>1, Remainder, RemainderNext, Zenon
<1> QED
  BY <1>2 DEF k, is_retarget_height, retarget_distance, PeriodStart

LEMMA BitsCount ==
    ASSUME NEW h \in Nat \ {0}
    PROVE  /\ bits_count(h) \in 1 .. h
           /\ "retarget" \notin forks \/ "difficult" \in forks => bits_count(h) = 1
           /\ "retarget" \in forks /\ "difficult" \notin forks
              /\ ("block_storm_patch" \in forks \/ ~is_retarget_height(h)) =>
                bits_count(h) = IF h <= retargeting_interval THEN h ELSE retargeting_interval
<1> DEFINE k == retargeting_interval
<1>1. k \in Nat \ {0}
  BY Interval
<1>2. Min({h, k}) = IF h <= k THEN h ELSE k
  <2> HIDE DEF k
  <2> QED BY <1>1, LesserOf
<1>3. bits_count(h) = 1 \/ bits_count(h) = Min({h, k})
  BY DEF bits_count
<1>4. "retarget" \in forks /\ "difficult" \notin forks
      /\ ("block_storm_patch" \in forks \/ ~is_retarget_height(h)) => bits_count(h) = Min({h, k})
  BY DEF bits_count
<1> HIDE DEF k
<1>5. bits_count(h) \in 1 .. h
  BY <1>1, <1>2, <1>3
<1>6. "retarget" \in forks /\ "difficult" \notin forks
      /\ ("block_storm_patch" \in forks \/ ~is_retarget_height(h)) =>
            bits_count(h) = IF h <= k THEN h ELSE k
  BY <1>2, <1>4
<1>7. "retarget" \notin forks \/ "difficult" \in forks => bits_count(h) = 1
  BY DEF bits_count
<1> QED
  BY <1>5, <1>6, <1>7 DEF k

LEMMA PopulatedReach ==
    ASSUME NEW h \in Nat \ {0}
    PROVE  bits_count(h) \in Reach(h)
<1> DEFINE k == retargeting_interval
           r == h % k
           n == bits_count(h)
           deep == "retarget" \in forks /\ "difficult" \notin forks
           storm == "block_storm_patch" \in forks
           at == is_retarget_height(h)
<1>1. k \in Nat \ {0} /\ r \in 0 .. (k - 1) /\ r <= h /\ PeriodStart(h) = h - r
      /\ (at => h >= k)
  BY Interval, NextInPeriod
<1>2. n \in 1 .. h /\ (deep /\ (storm \/ ~at) => n = IF h <= k THEN h ELSE k)
      /\ (~deep => n = 1)
  BY BitsCount
<1> HIDE DEF k, r, n, deep, storm, at
<1>3. deep => IF at THEN storm => n >= k ELSE h - n <= h - r
  BY <1>1, <1>2
<1>4. deep => IF at THEN storm => n >= k ELSE h - n <= PeriodStart(h)
  BY <1>1, <1>3
<1>5. n \in 0 .. h /\ n >= 1 /\ (~deep => n <= 1)
  BY <1>2
<1> QED
  BY <1>4, <1>5 DEF Reach, k, n, deep, storm, at

LEMMA PromotedReach ==
    ASSUME NEW h \in Nat, NEW n \in Reach(h)
    PROVE  Grown(n, bits_count(h + 1)) \in Reach(h + 1)
<1> DEFINE k == retargeting_interval
           r == h % k
           s == (h + 1) % k
           m == bits_count(h + 1)
           g == Grown(n, m)
           deep == "retarget" \in forks /\ "difficult" \notin forks
           storm == "block_storm_patch" \in forks
           at == is_retarget_height(h)
           next == is_retarget_height(h + 1)
<1>1. /\ k \in Nat \ {0} /\ r \in 0 .. (k - 1) /\ r <= h
      /\ PeriodStart(h) = h - r /\ PeriodStart(h + 1) = (h + 1) - s
      /\ s = (IF r = k - 1 THEN 0 ELSE r + 1)
      /\ (at <=> r = 0) /\ (next <=> s = 0)
  BY Interval, NextInPeriod
<1>2. m \in 1 .. (h + 1) /\ (deep /\ (storm \/ ~next) => m = IF h + 1 <= k THEN h + 1 ELSE k)
      /\ (~deep => m = 1)
  <2>1. h + 1 \in Nat \ {0}
    OBVIOUS
  <2> QED BY <2>1, BitsCount
<1>3. n \in 0 .. h /\ (h > 0 => n >= 1) /\ (~deep => n <= 1)
      /\ (deep /\ h > 0 => IF at THEN storm => n >= k ELSE h - n <= PeriodStart(h))
  BY DEF Reach
<1>4. g = IF n + 1 > m THEN n ELSE n + 1
  BY DEF Grown
<1> HIDE DEF k, r, s, m, g, deep, storm, at, next
<1>5. g \in 0 .. (h + 1) /\ g >= 1 /\ (~deep => g <= 1)
  BY <1>2, <1>3, <1>4
<1>6. deep /\ h > 0 => IF at THEN storm => n >= k ELSE h - n <= h - r
  BY <1>1, <1>3
<1>7. deep => IF next THEN storm => g >= k ELSE (h + 1) - g <= (h + 1) - s
  <2>1. CASE deep /\ next /\ storm
    BY <1>1, <1>2, <1>3, <1>4, <1>5, <1>6, <2>1
  <2>2. CASE deep /\ ~next
    BY <1>1, <1>2, <1>3, <1>4, <1>5, <1>6, <2>2
  <2> QED BY <2>1, <2>2
<1>8. deep => IF next THEN storm => g >= k ELSE (h + 1) - g <= PeriodStart(h + 1)
  BY <1>1, <1>7
<1> QED
  BY <1>5, <1>8 DEF Reach, k, m, g, deep, storm, next

\* When the period began, whose end a state may compute: under the patch of
\* litecoin one block earlier, unless that is genesis.
RetargetTime(c, h) ==
    LET start == retarget_height(h)
    IN  TimeAt(c, IF "ltc_time_warp_patch" \in forks /\ start # 0 THEN start - 1 ELSE start)

\* A network whose populated states disagree with promoted ones.
Warped == "ltc_time_warp_patch" \in forks /\ "restart" \in settings.constructors

\* A state of the given height has what the chain has below it.
StateOf(c, d, h) ==
    /\ d.height = h
    /\ d.timestamp.ordered = TimesBelow(c, h, timestamp_count(h))
    /\ d.version.ordered = VersionsBelow(c, h, version_count(h))
    /\ \E n \in Reach(h) : d.bits.ordered = BitsBelow(c, h, n)
    /\ "retarget" \in forks /\ ~Warped /\ h > 0 => d.timestamp.retarget = RetargetTime(c, h)

LEMMA RetargetHeight ==
    ASSUME NEW h \in Nat, "retarget" \in forks
    PROVE  /\ h > 0 => retarget_height(h) \in 0 .. (h - 1)
           /\ is_retarget_height(h) => retarget_height(h + 1) = h
           /\ ~is_retarget_height(h) => h > 0 /\ retarget_height(h + 1) = retarget_height(h)
<1> DEFINE k == retargeting_interval
           r == h % k
           s == (h + 1) % k
           at == is_retarget_height(h)
           next == is_retarget_height(h + 1)
<1>1. /\ k \in Nat \ {0} /\ r \in 0 .. (k - 1) /\ r <= h
      /\ s = (IF r = k - 1 THEN 0 ELSE r + 1)
      /\ (at <=> r = 0) /\ (next <=> s = 0) /\ (at /\ h # 0 => h >= k)
  BY Interval, NextInPeriod
<1>2. retarget_height(h) = (h - (IF at THEN k ELSE r))
      /\ retarget_height(h + 1) = ((h + 1) - (IF next THEN k ELSE s))
  BY DEF retarget_height, retarget_distance
<1> HIDE DEF k, r, s, at, next
<1>3. /\ h > 0 => retarget_height(h) \in 0 .. (h - 1)
      /\ at => retarget_height(h + 1) = h
      /\ ~at => h > 0 /\ retarget_height(h + 1) = retarget_height(h)
  BY <1>1, <1>2
<1> QED
  BY <1>3 DEF at

LEMMA PromotedTime ==
    ASSUME NEW c, NEW h \in Nat, NEW d, StateOf(c, d, h), "retarget" \in forks, ~Warped,
           d.timestamp.self = TimeAt(c, h)
    PROVE  to_pool(d).timestamp.retarget = RetargetTime(c, h + 1)
<1> DEFINE times == Enqueue(d.timestamp.ordered, d.timestamp.self, timestamp_count(h + 1))
           ltc == "ltc_time_warp_patch" \in forks
<1>1. d.height = h
  BY DEF StateOf
<1>2. (h + 1) - 1 = h /\ (h + 1 # 1 <=> h # 0)
  OBVIOUS
<1>3. to_pool(d).timestamp.retarget =
        IF is_retarget_height(h)
        THEN IF ltc /\ h # 0 THEN times[Len(times) - 1] ELSE d.timestamp.self
        ELSE d.timestamp.retarget
  BY <1>1, <1>2 DEF to_pool
<1>4. CASE is_retarget_height(h)
  <2>1. retarget_height(h + 1) = h
    BY <1>4, RetargetHeight
  <2>2. RetargetTime(c, h + 1) = TimeAt(c, IF ltc /\ h # 0 THEN h - 1 ELSE h)
    BY <2>1 DEF RetargetTime
  <2>3. CASE ltc /\ h # 0
    <3> DEFINE n == timestamp_count(h + 1)
    <3>1. times = TimesBelow(c, h + 1, n)
      <4>1. timestamp_count(h) \in 0 .. h /\ n \in Nat /\ Grown(timestamp_count(h), n) = n
        <5>1. h + 1 \in Nat
          OBVIOUS
        <5>2. timestamp_count(h + 1) \in 0 .. (h + 1)
          BY <5>1, Counts
        <5> QED BY <5>2, Counts
      <4>2. d.timestamp.ordered = TimesBelow(c, h, timestamp_count(h))
            /\ d.timestamp.self = Block(c, h).timestamp
        BY DEF StateOf, TimeAt
      <4> HIDE DEF n
      <4>3. Enqueue(TimesBelow(c, h, timestamp_count(h)), Block(c, h).timestamp, n)
                = TimesBelow(c, h + 1, Grown(timestamp_count(h), n))
        BY <4>1, EnqueuedBelow
      <4> QED BY <4>1, <4>2, <4>3 DEF n
    <3>2. n \in 2 .. (h + 1)
      <4>1. h + 1 \in Nat
        OBVIOUS
      <4>2. n = IF h + 1 <= median_time_past_interval THEN h + 1 ELSE median_time_past_interval
        BY <4>1, Counts
      <4>3. median_time_past_interval \in Nat /\ median_time_past_interval >= 2
        BY ChainConstants
      <4> HIDE DEF n
      <4> QED BY <2>3, <4>2, <4>3
    <3>3. Len(times) = n
      <4> HIDE DEF times, n
      <4> QED BY <3>1, <3>2 DEF TimesBelow
    <3>4. times[n - 1] = TimeAt(c, h - 1)
      <4> HIDE DEF times, n
      <4>1. n - 1 \in 1 .. n /\ (h + 1) - n + (n - 1) - 1 = h - 1
        BY <3>2
      <4>2. times[n - 1] = Block(c, (h + 1) - n + (n - 1) - 1).timestamp
        BY <3>1, <4>1 DEF TimesBelow
      <4> QED BY <4>1, <4>2 DEF TimeAt
    <3> HIDE DEF times, n
    <3> QED BY <1>3, <1>4, <2>2, <2>3, <3>3, <3>4
  <2>4. CASE ~(ltc /\ h # 0)
    BY <1>3, <1>4, <2>2, <2>4
  <2> QED BY <2>3, <2>4
<1>5. CASE ~is_retarget_height(h)
  <2>1. h > 0 /\ retarget_height(h + 1) = retarget_height(h)
    BY <1>5, RetargetHeight
  <2>2. RetargetTime(c, h + 1) = RetargetTime(c, h)
    BY <2>1 DEF RetargetTime
  <2>3. d.timestamp.retarget = RetargetTime(c, h)
    BY <2>1 DEF StateOf
  <2> QED BY <1>3, <1>5, <2>2, <2>3
<1> QED
  BY <1>4, <1>5

\* A state knows the block at its height.
Knows(c, d, h) ==
    /\ d.bits.self = Block(c, h).bits
    /\ d.version.self = Block(c, h).version
    /\ d.timestamp.self = Block(c, h).timestamp

LEMMA PoolPromotes ==
    ASSUME NEW c, NEW h \in Nat, NEW d, StateOf(c, d, h), Knows(c, d, h)
    PROVE  StateOf(c, to_pool(d), h + 1)
<1> DEFINE p == to_pool(d)
<1>1. d.height = h /\ h + 1 \in Nat
  BY DEF StateOf
<1>2. /\ p.height = h + 1
      /\ p.timestamp.ordered = Enqueue(d.timestamp.ordered, d.timestamp.self, timestamp_count(h + 1))
      /\ p.version.ordered = Enqueue(d.version.ordered, d.version.self, version_count(h + 1))
      /\ p.bits.ordered = Enqueue(d.bits.ordered, d.bits.self, bits_count(h + 1))
  BY <1>1 DEF to_pool
<1> HIDE DEF p
<1>3. /\ timestamp_count(h) \in 0 .. h /\ version_count(h) \in 0 .. h
      /\ Grown(timestamp_count(h), timestamp_count(h + 1)) = timestamp_count(h + 1)
      /\ Grown(version_count(h), version_count(h + 1)) = version_count(h + 1)
      /\ timestamp_count(h + 1) \in Nat /\ version_count(h + 1) \in Nat
  <2>1. timestamp_count(h + 1) \in 0 .. (h + 1) /\ version_count(h + 1) \in 0 .. (h + 1)
    BY <1>1, Counts
  <2> QED BY <2>1, Counts
<1>4. p.timestamp.ordered = TimesBelow(c, h + 1, timestamp_count(h + 1))
  <2>1. d.timestamp.ordered = TimesBelow(c, h, timestamp_count(h))
        /\ d.timestamp.self = Block(c, h).timestamp
    BY DEF StateOf, Knows
  <2>2. Enqueue(TimesBelow(c, h, timestamp_count(h)), Block(c, h).timestamp, timestamp_count(h + 1))
            = TimesBelow(c, h + 1, Grown(timestamp_count(h), timestamp_count(h + 1)))
    BY <1>3, EnqueuedBelow
  <2> QED BY <1>2, <1>3, <2>1, <2>2
<1>5. p.version.ordered = VersionsBelow(c, h + 1, version_count(h + 1))
  <2>1. d.version.ordered = VersionsBelow(c, h, version_count(h))
        /\ d.version.self = Block(c, h).version
    BY DEF StateOf, Knows
  <2>2. Enqueue(VersionsBelow(c, h, version_count(h)), Block(c, h).version, version_count(h + 1))
            = VersionsBelow(c, h + 1, Grown(version_count(h), version_count(h + 1)))
    BY <1>3, EnqueuedBelow
  <2> QED BY <1>2, <1>3, <2>1, <2>2
<1>6. \E n \in Reach(h + 1) : p.bits.ordered = BitsBelow(c, h + 1, n)
  <2>1. PICK n \in Reach(h) : d.bits.ordered = BitsBelow(c, h, n)
    BY DEF StateOf
  <2>2. d.bits.self = Block(c, h).bits /\ n \in 0 .. h
    BY DEF Knows, Reach
  <2>3. bits_count(h + 1) \in Nat
    <3>1. h + 1 \in Nat \ {0}
      OBVIOUS
    <3>2. bits_count(h + 1) \in 1 .. (h + 1)
      BY <3>1, BitsCount
    <3> QED BY <3>2
  <2>4. Enqueue(BitsBelow(c, h, n), Block(c, h).bits, bits_count(h + 1))
            = BitsBelow(c, h + 1, Grown(n, bits_count(h + 1)))
    BY <2>2, <2>3, EnqueuedBelow
  <2>5. Grown(n, bits_count(h + 1)) \in Reach(h + 1)
    BY PromotedReach
  <2> QED BY <1>2, <2>1, <2>2, <2>4, <2>5
<1>7. "retarget" \in forks /\ ~Warped => p.timestamp.retarget = RetargetTime(c, h + 1)
  <2>1. d.timestamp.self = TimeAt(c, h)
    BY DEF Knows, TimeAt
  <2> QED BY <2>1, PromotedTime DEF p
<1> QED
  BY <1>2, <1>4, <1>5, <1>6, <1>7 DEF StateOf, p

LEMMA AddedKeeps ==
    ASSUME NEW S, NEW c \in Seq(S), NEW e \in S, NEW h \in 0 .. (Top(c) + 1), NEW d, StateOf(c, d, h)
    PROVE  StateOf(Append(c, e), d, h)
<1>1. h \in Nat /\ Top(c) \in Int
  BY LenProperties DEF Top
<1>2. timestamp_count(h) \in 0 .. h /\ version_count(h) \in 0 .. h
  BY <1>1, Counts
<1>3. d.timestamp.ordered = TimesBelow(Append(c, e), h, timestamp_count(h))
  BY <1>2, WindowsAppended DEF StateOf
<1>4. d.version.ordered = VersionsBelow(Append(c, e), h, version_count(h))
  BY <1>2, WindowsAppended DEF StateOf
<1>5. \E n \in Reach(h) : d.bits.ordered = BitsBelow(Append(c, e), h, n)
  <2>1. PICK n \in Reach(h) : d.bits.ordered = BitsBelow(c, h, n)
    BY DEF StateOf
  <2>2. n \in 0 .. h
    BY DEF Reach
  <2> QED BY <2>1, <2>2, WindowsAppended
<1>6. "retarget" \in forks /\ ~Warped /\ h > 0 => d.timestamp.retarget = RetargetTime(Append(c, e), h)
  <2> SUFFICES ASSUME "retarget" \in forks, ~Warped, h > 0
               PROVE  d.timestamp.retarget = RetargetTime(Append(c, e), h)
    OBVIOUS
  <2> DEFINE s == retarget_height(h)
             j == IF "ltc_time_warp_patch" \in forks /\ s # 0 THEN s - 1 ELSE s
  <2>1. s \in 0 .. (h - 1)
    BY <1>1, RetargetHeight
  <2>2. j \in 0 .. Top(c)
    <3> HIDE DEF s
    <3> QED BY <1>1, <2>1
  <2>3. RetargetTime(c, h) = TimeAt(c, j) /\ RetargetTime(Append(c, e), h) = TimeAt(Append(c, e), j)
    BY DEF RetargetTime
  <2>4. Block(Append(c, e), j) = Block(c, j)
    <3> HIDE DEF j
    <3> QED BY <2>2, BelowAppended
  <2> QED BY <2>3, <2>4 DEF TimeAt, StateOf
<1> QED
  BY <1>3, <1>4, <1>5, <1>6 DEF StateOf

\* A state that is populated from the store has what the chain has.
LEMMA PopulatedState ==
    ASSUME NEW c, NEW h \in Nat, h = Top(c), "restart" \in settings.constructors \/ h = 0
    PROVE  StateOf(c, Populate(c), h) /\ Knows(c, Populate(c), h)
<1> DEFINE p == Populate(c)
           map == get_map(h)
<1>1. /\ p.height = h
      /\ p.bits.ordered = BitsBelow(c, h, map.bits)
      /\ p.version.ordered = VersionsBelow(c, h, map.version)
      /\ p.timestamp.ordered = TimesBelow(c, h, map.timestamp)
      /\ p.timestamp.retarget = IF map.timestamp_retarget = Unrequested THEN 0
                                ELSE Block(c, map.timestamp_retarget).timestamp
  BY DEF Populate, BitsBelow, VersionsBelow, TimesBelow
<1>2. Knows(c, p, h)
  BY DEF Populate, Knows
<1>3. /\ map.bits = IF h = 0 THEN 0 ELSE bits_count(h)
      /\ map.version = IF h = 0 THEN 0 ELSE version_count(h)
      /\ map.timestamp = IF h = 0 THEN 0 ELSE timestamp_count(h)
      /\ h # 0 => map.timestamp_retarget = retarget_height(h)
  BY DEF get_map
<1> HIDE DEF p, map
<1>4. map.version = version_count(h) /\ map.timestamp = timestamp_count(h)
  <2>1. version_count(h) \in 0 .. h /\ timestamp_count(h) \in 0 .. h
    BY Counts
  <2>2. h = 0 => version_count(h) = 0 /\ timestamp_count(h) = 0
    BY <2>1
  <2> QED BY <1>3, <2>2
<1>5. map.bits \in Reach(h)
  <2>1. CASE h = 0
    <3>1. 0 \in Reach(0)
      BY DEF Reach
    <3> QED BY <1>3, <2>1, <3>1
  <2>2. CASE h # 0
    BY <1>3, <2>2, PopulatedReach
  <2> QED BY <2>1, <2>2
<1>6. "retarget" \in forks /\ ~Warped /\ h > 0 => p.timestamp.retarget = RetargetTime(c, h)
  <2> SUFFICES ASSUME "retarget" \in forks, ~Warped, h > 0
               PROVE  p.timestamp.retarget = RetargetTime(c, h)
    OBVIOUS
  <2>1. retarget_height(h) \in 0 .. (h - 1)
    BY RetargetHeight
  <2>2. retarget_height(h) # Unrequested
    BY <2>1 DEF Unrequested
  <2>3. "ltc_time_warp_patch" \notin forks
    BY DEF Warped
  <2> QED BY <1>1, <1>3, <2>2, <2>3 DEF RetargetTime, TimeAt
<1> QED
  BY <1>1, <1>2, <1>4, <1>5, <1>6 DEF StateOf, p

\* A header that joins at the height of a pool state changes no window.
LEMMA AppliedState ==
    ASSUME NEW c, NEW h, NEW pool, NEW header, NEW hash, StateOf(c, pool, h)
    PROVE  /\ StateOf(c, Apply(pool, header, hash), h)
           /\ Block(c, h) = header => Knows(c, Apply(pool, header, hash), h)
<1>1. /\ Apply(pool, header, hash).height = pool.height
      /\ Apply(pool, header, hash).timestamp.ordered = pool.timestamp.ordered
      /\ Apply(pool, header, hash).version.ordered = pool.version.ordered
      /\ Apply(pool, header, hash).bits.ordered = pool.bits.ordered
      /\ Apply(pool, header, hash).timestamp.retarget = pool.timestamp.retarget
      /\ Apply(pool, header, hash).timestamp.self = header.timestamp
      /\ Apply(pool, header, hash).version.self = header.version
      /\ Apply(pool, header, hash).bits.self = header.bits
  BY DEF Apply
<1> QED
  BY <1>1 DEF StateOf, Knows

-----------------------------------------------------------------------------
(* The invariant. *)

HeaderSet == [bits : DOMAIN Expand, version : Nat, timestamp : 0 .. MaxTime,
              hash : Nat \X BOOLEAN]

\* The height that the state is for.
Height == IF kind = "block" THEN Top(chain) ELSE Top(chain) + 1

\* The state has the windows of the chain, and the state of a block its top.
ChainInv ==
    /\ settings \in Networks
    /\ kind \in {"block", "pool"}
    /\ chain \in Seq(HeaderSet)
    /\ Len(chain) >= 1
    /\ Block(chain, 0) = Genesis
    /\ StateOf(chain, data, Height)
    /\ kind = "block" => Knows(chain, data, Top(chain))

\* Settings never change, so that a predicate of the next state may be read
\* with those of this one.
Follows ==
    /\ settings' = settings
    /\ kind' \in {"block", "pool"}
    /\ chain' \in Seq(HeaderSet)
    /\ Len(chain') >= 1
    /\ Block(chain', 0) = Genesis
    /\ \E h \in Nat :
        /\ h = IF kind' = "block" THEN Top(chain') ELSE Top(chain') + 1
        /\ StateOf(chain', data', h)
        /\ kind' = "block" => Knows(chain', data', h)

LEMMA FollowsChain ==
    ASSUME settings \in Networks, Follows
    PROVE  ChainInv'
<1>1. settings' = settings
  BY DEF Follows
<1>2. forks' = forks /\ Genesis' = Genesis /\ proof_of_work_limit' = proof_of_work_limit
      /\ (Warped' <=> Warped)
  BY <1>1 DEF forks, Genesis, proof_of_work_limit, Warped
<1>3. PICK h \in Nat :
        /\ h = IF kind' = "block" THEN Top(chain') ELSE Top(chain') + 1
        /\ StateOf(chain', data', h)
        /\ kind' = "block" => Knows(chain', data', h)
  BY DEF Follows
<1>4. Height' = h
  BY <1>3 DEF Height, Top
<1>5. Reach(h)' = Reach(h)
  BY <1>2 DEF Reach, is_retarget_height, retarget_distance, retargeting_interval, PeriodStart
<1>6. version_count(h)' = version_count(h)
  BY <1>2 DEF version_count
<1>7. RetargetTime(chain, h)' = RetargetTime(chain', h)
  BY <1>2 DEF RetargetTime, TimeAt, Block, retarget_height, is_retarget_height,
              retarget_distance, retargeting_interval, Unrequested
<1>8. StateOf(chain, data, h)'
  BY <1>2, <1>3, <1>5, <1>6, <1>7 DEF StateOf, TimesBelow, VersionsBelow, BitsBelow, Block,
     timestamp_count
<1>9. Knows(chain, data, h)' = Knows(chain', data', h)
  BY DEF Knows, Block
<1> QED
  BY <1>1, <1>2, <1>3, <1>4, <1>8, <1>9 DEF ChainInv, Follows, Block, Top

LEMMA OfferedHeaders ==
    ASSUME ChainInv
    PROVE  Offered \subseteq HeaderSet
<1>1. settings.versions \subseteq Nat
  BY NetworkConstants DEF ChainInv
<1>2. Top(chain) + 1 \in Nat
  BY LenProperties DEF ChainInv, Top
<1> QED
  BY <1>1, <1>2 DEF Offered, HeaderSet

LEMMA Heights ==
    ASSUME ChainInv
    PROVE  /\ Top(chain) \in Nat /\ Height \in Nat
           /\ kind = "block" => Height = Top(chain)
           /\ kind = "pool" => Height = Top(chain) + 1
           /\ data.height = Height
<1>1. Top(chain) \in Nat
  BY LenProperties DEF ChainInv, Top
<1>2. data.height = Height
  BY DEF ChainInv, StateOf
<1> QED
  BY <1>1, <1>2 DEF Height, ChainInv

LEMMA JoinedState ==
    ASSUME ChainInv, NEW pool, NEW hash, NEW header \in HeaderSet,
           StateOf(chain, pool, Top(chain) + 1),
           Join(header, Apply(pool, header, hash))
    PROVE  /\ Follows
           /\ StateOf(chain', data', Top(chain) + 1)
<1> DEFINE c == Append(chain, header)
           d == Apply(pool, header, hash)
           h == Top(chain) + 1
<1>1. chain' = c /\ data' = d /\ kind' = "block" /\ settings' = settings
  BY DEF Join
<1>2. chain \in Seq(HeaderSet) /\ Top(chain) \in Nat /\ Block(chain, 0) = Genesis
  BY Heights DEF ChainInv
<1>3. /\ c \in Seq(HeaderSet) /\ Top(c) = h
      /\ Block(c, h) = header
      /\ \A j \in 0 .. Top(chain) : Block(c, j) = Block(chain, j)
  BY <1>2, BelowAppended
<1>4. h \in Nat /\ h \in 0 .. (Top(chain) + 1) /\ 0 \in 0 .. Top(chain)
  BY <1>2
<1>5. StateOf(c, pool, h)
  BY <1>2, <1>4, AddedKeeps
<1> HIDE DEF c, h
<1>6. StateOf(c, d, h) /\ Knows(c, d, h)
  BY <1>3, <1>5, AppliedState
<1>7. Block(c, 0) = Genesis /\ Len(c) >= 1
  <2>1. Len(c) \in Nat /\ Len(c) - 1 = h
    BY <1>3, LenProperties DEF Top
  <2> QED BY <1>2, <1>3, <1>4, <2>1
<1> HIDE DEF d
<1> QED
  BY <1>1, <1>3, <1>4, <1>6, <1>7 DEF Follows, h

\* Every step.
LEMMA HeaderFollows ==
    ASSUME ChainInv, Header
    PROVE  \E header \in Offered :
            /\ Join(header, to_header(data, header))
            /\ StateOf(chain, to_pool(data), Top(chain) + 1)
            /\ Follows /\ StateOf(chain', data', Top(chain) + 1)
<1>1. PICK header \in Offered : Join(header, to_header(data, header))
  BY DEF Header
<1>2. kind = "block" /\ Top(chain) \in Nat
  BY Heights DEF Header
<1>3. StateOf(chain, data, Top(chain)) /\ Knows(chain, data, Top(chain))
  BY <1>2 DEF ChainInv, Height
<1>4. StateOf(chain, to_pool(data), Top(chain) + 1)
  BY <1>2, <1>3, PoolPromotes
<1>5. header \in HeaderSet
  BY OfferedHeaders
<1>6. Join(header, Apply(to_pool(data), header, header.hash))
  BY <1>1 DEF to_header
<1>7. Follows /\ StateOf(chain', data', Top(chain) + 1)
  BY <1>4, <1>5, <1>6, JoinedState
<1> QED
  BY <1>1, <1>4, <1>7

LEMMA PoolBlockFollows ==
    ASSUME ChainInv, PoolBlock
    PROVE  \E header \in Offered :
            /\ Join(header, to_block(data, header))
            /\ StateOf(chain, data, Top(chain) + 1)
            /\ Follows /\ StateOf(chain', data', Top(chain) + 1)
<1>1. PICK header \in Offered : Join(header, to_block(data, header))
  BY DEF PoolBlock
<1>2. StateOf(chain, data, Top(chain) + 1)
  BY DEF ChainInv, Height, PoolBlock
<1>3. header \in HeaderSet
  BY OfferedHeaders
<1>4. Join(header, Apply(data, header, NullHash))
  BY <1>1 DEF to_block
<1>5. Follows /\ StateOf(chain', data', Top(chain) + 1)
  BY <1>2, <1>3, <1>4, JoinedState
<1> QED
  BY <1>1, <1>2, <1>5

LEMMA PoolFollows ==
    ASSUME ChainInv, Pool
    PROVE  Follows /\ StateOf(chain, data', Top(chain) + 1)
<1>1. kind = "block" /\ Top(chain) \in Nat
  BY Heights DEF Pool
<1>2. StateOf(chain, data, Top(chain)) /\ Knows(chain, data, Top(chain))
  BY <1>1 DEF ChainInv, Height
<1>3. StateOf(chain, to_pool(data), Top(chain) + 1)
  BY <1>1, <1>2, PoolPromotes
<1>4. data' = to_pool(data) /\ chain' = chain /\ settings' = settings /\ kind' = "pool"
  BY DEF Pool
<1>5. Top(chain) + 1 \in Nat
  BY <1>1
<1> QED
  BY <1>3, <1>4, <1>5 DEF Follows, ChainInv

LEMMA RestartFollows ==
    ASSUME ChainInv, Restart
    PROVE  Follows /\ StateOf(chain, data', Top(chain))
<1>1. Top(chain) \in Nat
  BY Heights
<1>2. "restart" \in settings.constructors
      /\ data' = Populate(chain) /\ chain' = chain /\ settings' = settings /\ kind' = "block"
  BY DEF Restart
<1>3. StateOf(chain, Populate(chain), Top(chain)) /\ Knows(chain, Populate(chain), Top(chain))
  BY <1>1, <1>2, PopulatedState
<1> QED
  BY <1>1, <1>2, <1>3 DEF Follows, ChainInv

LEMMA ChainStep ==
    ASSUME ChainInv, [Next]_vars
    PROVE  ChainInv'
<1>1. CASE Next
  <2>1. Follows
    BY <1>1, HeaderFollows, PoolBlockFollows, PoolFollows, RestartFollows DEF Next
  <2> QED BY <2>1, FollowsChain DEF ChainInv
<1>2. CASE UNCHANGED vars
  <2>1. Follows
    <3>1. settings' = settings /\ chain' = chain /\ data' = data /\ kind' = kind
      BY <1>2 DEF vars
    <3>2. Height \in Nat
      BY Heights
    <3> QED BY <3>1, <3>2 DEF Follows, ChainInv, Height
  <2> QED BY <2>1, FollowsChain DEF ChainInv
<1> QED
  BY <1>1, <1>2

LEMMA ChainStarts ==
    ASSUME Init
    PROVE  ChainInv
<1>1. settings \in Networks /\ chain = <<Genesis>> /\ data = Populate(chain) /\ kind = "block"
  BY DEF Init
<1>2. Genesis \in HeaderSet
  <2>1. settings.proof_of_work_limit \in DOMAIN Expand
    BY <1>1, NetworkConstants
  <2>2. GenesisTime \in 0 .. MaxTime
    BY ChainConstants DEF GenesisTime
  <2>3. 0 \in Nat /\ TRUE \in BOOLEAN
    OBVIOUS
  <2>4. Named(0) \in Nat \X BOOLEAN
    BY <2>3, Zenon DEF Named
  <2>5. 1 \in Nat
    OBVIOUS
  <2> QED BY <2>1, <2>2, <2>4, <2>5 DEF Genesis, HeaderSet, proof_of_work_limit
<1>3. Len(chain) = 1 /\ chain[1] = Genesis /\ chain \in Seq(HeaderSet)
  <2> HIDE DEF Genesis, HeaderSet
  <2>1. <<Genesis>> \in Seq(HeaderSet) /\ Len(<<Genesis>>) = 1 /\ <<Genesis>>[1] = Genesis
    BY <1>2
  <2> QED BY <1>1, <2>1
<1>4. Top(chain) = 0 /\ Block(chain, 0) = Genesis
  BY <1>3 DEF Top, Block
<1>5. StateOf(chain, Populate(chain), 0) /\ Knows(chain, Populate(chain), 0)
  BY <1>4, PopulatedState
<1> QED
  BY <1>1, <1>3, <1>4, <1>5 DEF ChainInv, Height

LEMMA ChainHolds ==
    Spec => []ChainInv
  BY ChainStarts, ChainStep, PTL DEF Spec

-----------------------------------------------------------------------------
(* Minimum versions. *)

\* All that minimum_block_version reads of a state at a height.
Sample(c, h) ==
    [height |-> h, version |-> [ordered |-> VersionsBelow(c, h, version_count(h))]]
MinAt(c, h) == minimum_block_version(Sample(c, h))

BipRules == {"bip34", "bip66", "bip65"}

LEMMA MinimumOf ==
    ASSUME NEW c, NEW d, NEW h, StateOf(c, d, h)
    PROVE  minimum_block_version(d) = MinAt(c, h)
<1>1. d.height = Sample(c, h).height /\ d.version.ordered = Sample(c, h).version.ordered
  BY DEF Sample, StateOf
<1>2. ASSUME NEW r PROVE is_enforced(d, r) <=> is_enforced(Sample(c, h), r)
  BY <1>1 DEF is_enforced, Frozen, Count
<1> QED
  BY <1>2 DEF minimum_block_version, MinAt

\* Places of a window that is pushed, and popped if it does not grow.
LEMMA PushedCount ==
    ASSUME NEW n \in Nat, NEW m \in Nat, m = n \/ m = n + 1,
           NEW A, A \subseteq 1 .. n, NEW B, B \subseteq 1 .. m,
           m > 0 => m \in B,
           m = n + 1 => A \subseteq B,
           m = n => \A i \in A : i > 1 => i - 1 \in B
    PROVE  Cardinality(A) \in Nat /\ Cardinality(B) \in Nat /\ Cardinality(A) <= Cardinality(B)
<1>1. IsFiniteSet(A) /\ IsFiniteSet(B) /\ Cardinality(A) \in Nat /\ Cardinality(B) \in Nat
  <2>1. n \in Int /\ m \in Int /\ 1 \in Int
    OBVIOUS
  <2>2. IsFiniteSet(1 .. n) /\ IsFiniteSet(1 .. m)
    BY <2>1, FS_Interval
  <2>3. IsFiniteSet(A) /\ IsFiniteSet(B)
    BY <2>2, FS_Subset
  <2> QED BY <2>3, FS_CardinalityType
<1>2. CASE m = n + 1
  <2>1. A \in SUBSET B
    BY <1>2
  <2> QED BY <1>1, <2>1, FS_Subset
<1>3. CASE m = n
  <2> DEFINE f == [i \in A |-> IF i = 1 THEN n ELSE i - 1]
  <2>1. ASSUME NEW i \in A PROVE f[i] \in B
    <3>1. i \in 1 .. n
      OBVIOUS
    <3> QED BY <1>3, <3>1
  <2>2. ASSUME NEW i \in A, NEW j \in A, f[i] = f[j] PROVE i = j
    <3>1. i \in 1 .. n /\ j \in 1 .. n
      OBVIOUS
    <3> QED BY <2>2, <3>1
  <2>3. f \in [A -> B]
    BY <2>1
  <2> HIDE DEF f
  <2>4. f \in Injection(A, B)
    BY <2>2, <2>3 DEF Injection, IsInjective
  <2> QED BY <1>1, <2>4, FS_Injection
<1> QED
  BY <1>2, <1>3

\* A rule that is enforced at a height, and met by the block there, is enforced next.
LEMMA EnforcedNext ==
    ASSUME NEW c, NEW h \in Nat, NEW rule \in BipRules,
           is_enforced(Sample(c, h), rule),
           h > 0 => ge(Block(c, h).version, version_of[rule])
    PROVE  is_enforced(Sample(c, h + 1), rule)
<1>1. CASE Frozen(Sample(c, h), rule)
  <2>1. bip90_height[rule] \in Nat
    BY VersionConstants DEF BipRules
  <2>2. "bip90" \in forks /\ h >= bip90_height[rule]
    BY <1>1 DEF Frozen, Sample
  <2>3. h + 1 >= bip90_height[rule]
    BY <2>1, <2>2
  <2> QED BY <2>2, <2>3 DEF is_enforced, Frozen, Sample
<1>2. CASE Count(Sample(c, h), rule) >= bip34_enforcement_threshold
  <2> DEFINE n == version_count(h)
             m == version_count(h + 1)
             v == version_of[rule]
             x == VersionsBelow(c, h, n)
             y == VersionsBelow(c, h + 1, m)
             A == {i \in 1 .. n : ge(x[i], v)}
             B == {i \in 1 .. m : ge(y[i], v)}
  <2>1. n \in 0 .. h /\ m \in 0 .. (h + 1) /\ m = Grown(n, m)
    <3>1. h + 1 \in Nat
      OBVIOUS
    <3>2. version_count(h + 1) \in 0 .. (h + 1)
      BY <3>1, Counts
    <3> QED BY <3>2, Counts
  <2>2. DOMAIN x = 1 .. n /\ DOMAIN y = 1 .. m
    BY DEF VersionsBelow
  <2>3. Count(Sample(c, h), rule) = Cardinality(A) /\ Count(Sample(c, h + 1), rule) = Cardinality(B)
    BY <2>2, Zenon DEF Count, Sample
  <2>4. \A i \in 1 .. n : x[i] = Block(c, h - n + i - 1).version
    BY DEF VersionsBelow
  <2>5. \A i \in 1 .. m : y[i] = Block(c, (h + 1) - m + i - 1).version
    BY DEF VersionsBelow
  <2>6. bip34_enforcement_threshold \in Nat \ {0}
    BY VersionConstants
  <2> HIDE DEF n, m, v, x, y
  <2>7. n \in Nat /\ m \in Nat /\ (m = n \/ m = n + 1)
    BY <2>1 DEF Grown
  <2>8. h = 0 => Cardinality(A) = 0
    <3>1. h = 0 => n = 0
      BY <2>1
    <3>2. n = 0 => A = {}
      OBVIOUS
    <3> QED BY <3>1, <3>2, FS_EmptySet
  <2>9. h > 0
    BY <1>2, <2>3, <2>6, <2>8
  <2>10. m > 0 => m \in B
    <3> SUFFICES ASSUME m > 0 PROVE m \in B
      OBVIOUS
    <3>1. m \in 1 .. m /\ (h + 1) - m + m - 1 = h
      BY <2>7
    <3>2. y[m] = Block(c, h).version
      BY <2>5, <3>1
    <3> QED BY <2>9, <3>1, <3>2 DEF v
  <2>11. m = n + 1 => A \subseteq B
    <3> SUFFICES ASSUME m = n + 1, NEW i \in A PROVE i \in B
      OBVIOUS
    <3>1. i \in 1 .. n /\ i \in 1 .. m /\ (h + 1) - m + i - 1 = h - n + i - 1
      BY <2>7
    <3>2. y[i] = x[i]
      BY <2>4, <2>5, <3>1
    <3> QED BY <3>1, <3>2
  <2>12. m = n => \A i \in A : i > 1 => i - 1 \in B
    <3> SUFFICES ASSUME m = n, NEW i \in A, i > 1 PROVE i - 1 \in B
      OBVIOUS
    <3>1. i \in 1 .. n /\ i - 1 \in 1 .. m /\ (h + 1) - m + (i - 1) - 1 = h - n + i - 1
      BY <2>7
    <3>2. y[i - 1] = x[i]
      BY <2>4, <2>5, <3>1
    <3> QED BY <3>1, <3>2
  <2>13. A \subseteq 1 .. n /\ B \subseteq 1 .. m
    OBVIOUS
  <2> HIDE DEF A, B
  <2>14. Cardinality(A) \in Nat /\ Cardinality(B) \in Nat /\ Cardinality(A) <= Cardinality(B)
    BY <2>7, <2>10, <2>11, <2>12, <2>13, PushedCount
  <2>15. Count(Sample(c, h + 1), rule) >= bip34_enforcement_threshold
    BY <1>2, <2>3, <2>6, <2>14
  <2> QED BY <2>15 DEF is_enforced
<1> QED
  BY <1>1, <1>2 DEF is_enforced

\* The minimum does not fall at a block that meets it.
LEMMA MinimumNext ==
    ASSUME NEW c, NEW h \in Nat,
           h > 0 /\ MinAt(c, h) # 0 => ge(Block(c, h).version, MinAt(c, h))
    PROVE  MinAt(c, h) \in Nat /\ MinAt(c, h + 1) \in Nat /\ MinAt(c, h + 1) >= MinAt(c, h)
<1> DEFINE s == Sample(c, h)
           t == Sample(c, h + 1)
<1>1. /\ version_of["bip34"] \in Nat \ {0} /\ version_of["bip66"] \in Nat \ {0}
      /\ version_of["bip65"] \in Nat \ {0}
      /\ version_of["bip34"] <= version_of["bip66"] /\ version_of["bip66"] <= version_of["bip65"]
  BY VersionConstants
<1>2. MinAt(c, h) = (IF is_enforced(s, "bip65") THEN version_of["bip65"]
                     ELSE IF is_enforced(s, "bip66") THEN version_of["bip66"]
                     ELSE IF is_enforced(s, "bip34") THEN version_of["bip34"] ELSE 0)
      /\ MinAt(c, h + 1) = (IF is_enforced(t, "bip65") THEN version_of["bip65"]
                     ELSE IF is_enforced(t, "bip66") THEN version_of["bip66"]
                     ELSE IF is_enforced(t, "bip34") THEN version_of["bip34"] ELSE 0)
  BY DEF MinAt, minimum_block_version
<1>3. ASSUME NEW rule \in BipRules, is_enforced(s, rule), MinAt(c, h) = version_of[rule]
      PROVE  is_enforced(t, rule)
  <2>1. h > 0 => ge(Block(c, h).version, version_of[rule])
    BY <1>1, <1>3 DEF BipRules
  <2> QED BY <1>3, <2>1, EnforcedNext
<1>4. "bip34" \in BipRules /\ "bip66" \in BipRules /\ "bip65" \in BipRules
  BY DEF BipRules
<1> HIDE DEF s, t
<1>5. CASE is_enforced(s, "bip65")
  BY <1>1, <1>2, <1>3, <1>4, <1>5
<1>6. CASE ~is_enforced(s, "bip65") /\ is_enforced(s, "bip66")
  BY <1>1, <1>2, <1>3, <1>4, <1>6
<1>7. CASE ~is_enforced(s, "bip65") /\ ~is_enforced(s, "bip66") /\ is_enforced(s, "bip34")
  BY <1>1, <1>2, <1>3, <1>4, <1>7
<1>8. CASE ~is_enforced(s, "bip65") /\ ~is_enforced(s, "bip66") /\ ~is_enforced(s, "bip34")
  BY <1>1, <1>2, <1>8
<1> QED
  BY <1>5, <1>6, <1>7, <1>8

\* Every block but genesis has a version that the sample below it allows.
VersionsMet ==
    \A j \in 1 .. Top(chain) :
        MinAt(chain, j) # 0 => ge(Block(chain, j).version, MinAt(chain, j))

LEMMA MinimumSettled ==
    ASSUME settings' = settings
    PROVE  /\ minimum_block_version(data)' = minimum_block_version(data')
           /\ \A j : MinAt(chain, j)' = MinAt(chain', j)
<1>1. forks' = forks
  BY DEF forks
<1>2. minimum_block_version(data)' = minimum_block_version(data')
  BY <1>1 DEF minimum_block_version, is_enforced, Frozen, Count, ge, sign_cast
<1>3. ASSUME NEW j PROVE MinAt(chain, j)' = MinAt(chain', j)
  <2>1. version_count(j)' = version_count(j)
    BY <1>1 DEF version_count
  <2>2. Sample(chain, j)' = Sample(chain', j)
    BY <2>1 DEF Sample, VersionsBelow, Block
  <2> QED BY <1>1, <2>2 DEF MinAt, minimum_block_version, is_enforced, Frozen, Count, ge, sign_cast
<1> QED
  BY <1>2, <1>3

LEMMA SampleAppended ==
    ASSUME NEW c \in Seq(HeaderSet), NEW e \in HeaderSet, NEW j \in 0 .. (Top(c) + 1)
    PROVE  MinAt(Append(c, e), j) = MinAt(c, j)
<1>1. j \in Nat
  OBVIOUS
<1>2. version_count(j) \in 0 .. j
  BY <1>1, Counts
<1>3. VersionsBelow(Append(c, e), j, version_count(j)) = VersionsBelow(c, j, version_count(j))
  BY <1>2, WindowsAppended
<1> QED
  BY <1>3 DEF MinAt, Sample

\* A header that joins met the minimum of its own state.
LEMMA JoinedVersion ==
    ASSUME ChainInv, VersionsMet, NEW header \in HeaderSet, NEW state,
           StateOf(chain', data', Top(chain) + 1), Join(header, state)
    PROVE  VersionsMet'
<1> DEFINE h == Top(chain) + 1
<1>1. settings' = settings /\ chain' = Append(chain, header) /\ data' = state
  BY DEF Join
<1>2. chain \in Seq(HeaderSet) /\ Top(chain) \in Nat /\ h \in Nat
  BY Heights DEF ChainInv
<1>3. Top(chain') = h /\ Block(chain', h) = header
      /\ \A j \in 0 .. Top(chain) : Block(chain', j) = Block(chain, j)
  BY <1>1, <1>2, BelowAppended
<1>4. \A j \in 0 .. h : MinAt(chain', j) = MinAt(chain, j)
  BY <1>1, <1>2, SampleAppended
<1>5. ASSUME MinAt(chain', h) # 0 PROVE ge(header.version, MinAt(chain', h))
  <2>1. minimum_block_version(state) = MinAt(chain', h)
    BY <1>1, MinimumOf
  <2>2. ~is_insufficient_version(context(state), header.version)
    BY DEF Join, accept
  <2>3. context(state).minimum_block_version = minimum_block_version(state)
    BY DEF context
  <2>4. ~(sign_cast(header.version) < sign_cast(MinAt(chain', h)))
    BY <1>5, <2>1, <2>2, <2>3 DEF is_insufficient_version
  <2>5. minimum_block_version(state) \in Nat
    BY VersionConstants DEF minimum_block_version
  <2>6. header.version \in Nat /\ VersionSpan \in Nat
    BY VersionConstants DEF HeaderSet
  <2>7. sign_cast(header.version) \in Int /\ sign_cast(MinAt(chain', h)) \in Int
    BY <2>1, <2>5, <2>6 DEF sign_cast
  <2> QED BY <2>4, <2>7 DEF ge
<1>6. ASSUME NEW j \in 1 .. h, MinAt(chain', j) # 0
      PROVE  ge(Block(chain', j).version, MinAt(chain', j))
  <2>1. CASE j = h
    BY <1>3, <1>5, <1>6, <2>1
  <2>2. CASE j # h
    <3>1. j \in 1 .. Top(chain) /\ j \in 0 .. Top(chain) /\ j \in 0 .. h
      BY <1>2, <2>2
    <3> QED BY <1>3, <1>4, <1>6, <3>1 DEF VersionsMet
  <2> QED BY <2>1, <2>2
<1>7. Top(chain)' = h
  BY <1>3 DEF Top
<1>8. ASSUME NEW j \in 1 .. h PROVE MinAt(chain, j)' # 0 => (ge(Block(chain, j).version, MinAt(chain, j)))'
  <2>1. MinAt(chain, j)' = MinAt(chain', j)
    BY <1>1, MinimumSettled
  <2> QED BY <1>6, <2>1 DEF ge, sign_cast, Block
<1> QED
  BY <1>7, <1>8 DEF VersionsMet

LEMMA VersionStep ==
    ASSUME ChainInv, VersionsMet, [Next]_vars
    PROVE  VersionsMet'
<1>1. CASE Header
  <2>1. PICK header \in Offered : Join(header, to_header(data, header))
                                    /\ StateOf(chain', data', Top(chain) + 1)
    BY <1>1, HeaderFollows
  <2>2. header \in HeaderSet
    BY OfferedHeaders
  <2> QED BY <2>1, <2>2, JoinedVersion
<1>2. CASE PoolBlock
  <2>1. PICK header \in Offered : Join(header, to_block(data, header))
                                    /\ StateOf(chain', data', Top(chain) + 1)
    BY <1>2, PoolBlockFollows
  <2>2. header \in HeaderSet
    BY OfferedHeaders
  <2> QED BY <2>1, <2>2, JoinedVersion
<1>3. CASE Pool \/ Restart \/ UNCHANGED vars
  <2>1. settings' = settings /\ chain' = chain
    BY <1>3 DEF Pool, Restart, vars
  <2>2. \A j : MinAt(chain, j)' = MinAt(chain', j)
    BY <2>1, MinimumSettled
  <2> QED BY <2>1, <2>2 DEF VersionsMet, ge, sign_cast, Block, Top
<1> QED
  BY <1>1, <1>2, <1>3 DEF Next

LEMMA VersionAhead ==
    ASSUME ChainInv, VersionsMet, [Next]_vars
    PROVE  [data'.height >= data.height =>
                minimum_block_version(data)' >= minimum_block_version(data)]_vars
<1>1. CASE UNCHANGED vars
  BY <1>1
<1>2. CASE Next /\ data'.height >= data.height
  <2> DEFINE h == Top(chain)
  <2>1. h \in Nat /\ data.height = Height
    BY Heights
  <2>2. settings' = settings
    BY <1>2 DEF Next, Header, Pool, PoolBlock, Restart, Join
  <2>3. minimum_block_version(data)' = minimum_block_version(data')
    BY <2>2, MinimumSettled
  <2>4. minimum_block_version(data) = MinAt(chain, Height)
    BY MinimumOf DEF ChainInv
  <2>5. MinAt(chain, h) \in Nat /\ MinAt(chain, h + 1) \in Nat
        /\ MinAt(chain, h + 1) >= MinAt(chain, h)
    <3>1. h > 0 /\ MinAt(chain, h) # 0 => ge(Block(chain, h).version, MinAt(chain, h))
      BY <2>1 DEF VersionsMet
    <3> HIDE DEF h
    <3> QED BY <2>1, <3>1, MinimumNext
  <2>6. CASE Header \/ PoolBlock
    <3>1. PICK header \in HeaderSet : chain' = Append(chain, header)
                                      /\ StateOf(chain', data', h + 1)
      BY <2>6, HeaderFollows, PoolBlockFollows, OfferedHeaders DEF Join
    <3>2. MinAt(chain', h + 1) = MinAt(chain, h + 1)
      <4>1. h + 1 \in 0 .. (Top(chain) + 1) /\ chain \in Seq(HeaderSet)
        BY <2>1 DEF ChainInv
      <4> QED BY <3>1, <4>1, SampleAppended
    <3>3. minimum_block_version(data') = MinAt(chain, h + 1)
      BY <3>1, <3>2, MinimumOf
    <3>4. Height = h \/ Height = h + 1
      BY DEF Height
    <3> HIDE DEF h
    <3> QED BY <2>3, <2>4, <2>5, <3>3, <3>4
  <2>7. CASE Pool
    <3>1. StateOf(chain, data', h + 1) /\ Height = h
      BY <2>7, PoolFollows DEF Pool, Height
    <3>2. minimum_block_version(data') = MinAt(chain, h + 1)
      BY <3>1, MinimumOf
    <3> HIDE DEF h
    <3> QED BY <2>3, <2>4, <2>5, <3>1, <3>2
  <2>8. CASE Restart
    <3>1. StateOf(chain, data', h)
      BY <2>8, RestartFollows
    <3>2. data'.height = h
      BY <3>1 DEF StateOf
    <3>3. Height = h
      BY <1>2, <2>1, <3>2 DEF Height
    <3>4. minimum_block_version(data') = MinAt(chain, h)
      BY <3>1, MinimumOf
    <3> HIDE DEF h
    <3> QED BY <2>3, <2>4, <2>5, <3>3, <3>4
  <2> QED BY <1>2, <2>6, <2>7, <2>8 DEF Next
<1>3. CASE ~(data'.height >= data.height)
  BY <1>3
<1> QED BY <1>1, <1>2, <1>3

\* A minimum block version is never relaxed as the chain grows, for any sample,
\* thresholds, versions and freeze heights: a rule that the window of versions
\* enforces is met by the block that is pushed, which makes up for the one that
\* is popped (chain_state::is_enforced, header::accept).
THEOREM VersionNeverRelaxed ==
    Spec => VersionRatchet
<1>1. Init => ChainInv /\ VersionsMet
  <2> SUFFICES ASSUME Init PROVE ChainInv /\ VersionsMet
    OBVIOUS
  <2>1. ChainInv
    BY ChainStarts
  <2>2. Top(chain) = 0
    BY DEF Init, Top
  <2> QED BY <2>1, <2>2 DEF VersionsMet
<1>2. ChainInv /\ VersionsMet /\ [Next]_vars => (ChainInv /\ VersionsMet)'
  BY ChainStep, VersionStep
<1> QED
  BY <1>1, <1>2, VersionAhead, PTL DEF Spec, VersionRatchet

-----------------------------------------------------------------------------
(* Checkpoints. *)

\* A network that requests the hash of every checkpoint from its store, and does
\* not build states of blocks from pool states, which lose the hash.
Caches(network) ==
    /\ {"bip30", "bip30_deactivate"} \subseteq network.forks
    /\ network.forks \cap {"bip68", "bip112", "bip113"} # {}
    /\ network.forks \cap {"bip141", "bip143", "bip147"} # {}
    /\ network.forks \cap {"bip341", "bip342"} # {}
    /\ "block" \notin network.constructors

\* The hash of a checkpoint's height, once there is a block.
HashAt(c, p) ==
    IF Top(c) >= checkpoint_height[p] THEN Block(c, checkpoint_height[p]).hash ELSE NullHash

CacheInv ==
    /\ \A p \in Checkpoints : data.checkpoint[p] = HashAt(chain, p)
    /\ data.hash = IF kind = "block" THEN Block(chain, Top(chain)).hash ELSE NullHash

LEMMA PopulatedHash ==
    ASSUME NEW c, Top(c) \in Nat, settings \in Networks, Caches(settings)
    PROVE  /\ \A p \in Checkpoints : Populate(c).checkpoint[p] = HashAt(c, p)
           /\ Populate(c).hash = Block(c, Top(c)).hash
<1>1. ASSUME NEW p \in Checkpoints PROVE Populate(c).checkpoint[p] = HashAt(c, p)
  <2> DEFINE k == point_height(p, Top(c))
  <2>1. Configured(p)
    BY DEF Configured, Caches, forks, Checkpoints
  <2>2. checkpoint_height[p] \in Nat
    BY NetworkConstants DEF checkpoint_height
  <2>3. k = IF Top(c) >= checkpoint_height[p] THEN checkpoint_height[p] ELSE Unrequested
    BY <2>1 DEF point_height
  <2>4. get_map(Top(c)).checkpoint[p] = k
    BY DEF get_map
  <2>5. Populate(c).checkpoint[p] = IF k = Unrequested THEN NullHash ELSE Block(c, k).hash
    BY <2>4 DEF Populate
  <2> HIDE DEF k
  <2> QED BY <2>2, <2>3, <2>5 DEF HashAt, Unrequested
<1>2. Populate(c).hash = Block(c, Top(c)).hash
  BY DEF Populate
<1> QED
  BY <1>1, <1>2

\* The cache of the next state, read with the settings of this one.
CacheFollows ==
    /\ settings' = settings
    /\ \A p \in Checkpoints : data'.checkpoint[p] = HashAt(chain', p)
    /\ data'.hash = IF kind' = "block" THEN Block(chain', Top(chain')).hash ELSE NullHash

LEMMA CacheStep ==
    ASSUME ChainInv, CacheInv, Caches(settings), [Next]_vars
    PROVE  CacheInv'
<1>1. Top(chain) \in Nat /\ chain \in Seq(HeaderSet) /\ settings \in Networks
  BY Heights DEF ChainInv
<1>2. ~PoolBlock
  BY DEF PoolBlock, Caches
<1>3. CASE Header
  <2>1. PICK header \in Offered : Join(header, to_header(data, header))
    BY <1>3 DEF Header
  <2>2. header \in HeaderSet
    BY OfferedHeaders
  <2>3. /\ settings' = settings /\ chain' = Append(chain, header) /\ kind' = "block"
        /\ data' = Apply(to_pool(data), header, header.hash)
    BY <2>1 DEF Join, to_header
  <2>4. /\ Top(chain') = Top(chain) + 1 /\ Block(chain', Top(chain) + 1) = header
        /\ \A j \in 0 .. Top(chain) : Block(chain', j) = Block(chain, j)
    BY <1>1, <2>2, <2>3, BelowAppended
  <2>5. data.height = Top(chain)
    BY <1>3, Heights DEF Header
  <2>6. /\ data'.hash = header.hash
        /\ \A p \in Checkpoints :
            data'.checkpoint[p] = IF Top(chain) + 1 = checkpoint_height[p] THEN header.hash
                                  ELSE data.checkpoint[p]
    BY <2>3, <2>5 DEF Apply, to_pool
  <2>7. ASSUME NEW p \in Checkpoints PROVE data'.checkpoint[p] = HashAt(chain', p)
    <3>1. checkpoint_height[p] \in Nat
      BY <1>1, NetworkConstants DEF checkpoint_height
    <3>2. CASE checkpoint_height[p] = Top(chain) + 1
      BY <1>1, <2>4, <2>6, <3>2 DEF HashAt
    <3>3. CASE checkpoint_height[p] \in 0 .. Top(chain)
      BY <1>1, <2>4, <2>6, <3>3 DEF HashAt, CacheInv
    <3>4. CASE checkpoint_height[p] > Top(chain) + 1
      BY <1>1, <2>4, <2>6, <3>1, <3>4 DEF HashAt, CacheInv
    <3> QED BY <1>1, <3>1, <3>2, <3>3, <3>4
  <2>8. CacheFollows
    BY <2>3, <2>4, <2>6, <2>7 DEF CacheFollows
  <2> QED BY <2>8 DEF CacheFollows, CacheInv, HashAt, checkpoint_height, Top, Block
<1>4. CASE Pool
  <2>1. settings' = settings /\ chain' = chain /\ kind' = "pool" /\ data' = to_pool(data)
    BY <1>4 DEF Pool
  <2>2. data'.checkpoint = data.checkpoint /\ data'.hash = NullHash
    BY <2>1 DEF to_pool
  <2>3. CacheFollows
    BY <2>1, <2>2 DEF CacheFollows, CacheInv
  <2> QED BY <2>3 DEF CacheFollows, CacheInv, HashAt, checkpoint_height, Top, Block
<1>5. CASE Restart
  <2>1. settings' = settings /\ chain' = chain /\ kind' = "block" /\ data' = Populate(chain)
    BY <1>5 DEF Restart
  <2>2. CacheFollows
    BY <1>1, <2>1, PopulatedHash DEF CacheFollows
  <2> QED BY <2>2 DEF CacheFollows, CacheInv, HashAt, checkpoint_height, Top, Block
<1>6. CASE UNCHANGED vars
  BY <1>6 DEF vars, CacheInv, HashAt, checkpoint_height, Top, Block
<1> QED
  BY <1>2, <1>3, <1>4, <1>5, <1>6 DEF Next

\* What the rules of a checkpoint and bip30 read of the cache.
LEMMA CacheActivates ==
    ASSUME ChainInv, CacheInv, Caches(settings), "bip30_reactivate" \in forks
    PROVE  CheckpointActivates
<1>1. Top(chain) \in Nat /\ settings \in Networks /\ data.height = Height
      /\ (kind = "block" => Height = Top(chain)) /\ kind \in {"block", "pool"}
  BY Heights DEF ChainInv
<1>2. ASSUME NEW p \in Checkpoints PROVE Buried(data, p) <=> InChain(p)
  <2>1. data.checkpoint[p] = HashAt(chain, p)
    BY DEF CacheInv
  <2>2. NullHash # Named(checkpoint_height[p])
    BY DEF NullHash, Named
  <2> QED BY <2>1, <2>2 DEF Buried, InChain, HashAt
<1>3. /\ Buried(data, "bip9_bit0") <=> InChain("bip9_bit0")
      /\ Buried(data, "bip9_bit1") <=> InChain("bip9_bit1")
      /\ Buried(data, "bip9_bit2") <=> InChain("bip9_bit2")
      /\ Buried(data, "bip30_deactivate") <=> InChain("bip30_deactivate")
  BY <1>2 DEF Checkpoints
<1>4. bip30_rule(data) <=> Bip30Reference
  <2>1. {"bip30", "bip30_deactivate"} \subseteq forks
    BY DEF Caches, forks
  <2>2. is_bip30_exception(data) <=>
            /\ kind = "block" /\ Top(chain) \in bip30_exceptions
            /\ Block(chain, Top(chain)).hash = Named(Top(chain))
    <3>1. NullHash # Named(data.height)
      BY DEF NullHash, Named
    <3> QED BY <1>1, <3>1 DEF is_bip30_exception, CacheInv
  <2> QED BY <1>3, <2>1, <2>2, Zenon DEF bip30_rule, Bip30Reference
<1>5. /\ "bip68" \in activation(data) <=> Buried(data, "bip9_bit0")
      /\ "bip141" \in activation(data) <=> Buried(data, "bip9_bit1")
      /\ "bip341" \in activation(data) <=> Buried(data, "bip9_bit2")
      /\ "bip30" \in activation(data) <=> bip30_rule(data)
  BY DEF activation, ConfiguredAlone
<1> QED
  BY <1>3, <1>4, <1>5 DEF CheckpointActivates

\* On every branch and at any checkpoint heights, the rules of a checkpoint are
\* active in the state of the block it names and in those above it, and in no other,
\* and bip30 is given up from its block on and taken up again at the height of its
\* reactivation, but for the excepted blocks, in networks that configure the rules
\* and promote by header.  With states built from pool states it fails, which chain_pool_block shows.
THEOREM CheckpointsActivate ==
    ASSUME \A network \in Networks : Caches(network) /\ "bip30_reactivate" \in network.forks
    PROVE  Spec => []CheckpointActivates
<1>1. Init => ChainInv /\ CacheInv
  <2> SUFFICES ASSUME Init PROVE ChainInv /\ CacheInv
    OBVIOUS
  <2>1. ChainInv
    BY ChainStarts
  <2>2. Top(chain) \in Nat
    BY <2>1, Heights
  <2>3. settings \in Networks /\ data = Populate(chain) /\ kind = "block"
    BY DEF Init
  <2>4. Caches(settings)
    BY <2>3
  <2> QED BY <2>1, <2>2, <2>3, <2>4, PopulatedHash DEF CacheInv
<1>2. ChainInv /\ CacheInv /\ [Next]_vars => (ChainInv /\ CacheInv)'
  <2> SUFFICES ASSUME ChainInv, CacheInv, [Next]_vars PROVE (ChainInv /\ CacheInv)'
    OBVIOUS
  <2>1. Caches(settings)
    BY DEF ChainInv
  <2> QED BY <2>1, ChainStep, CacheStep
<1>3. ChainInv /\ CacheInv => CheckpointActivates
  <2> SUFFICES ASSUME ChainInv, CacheInv PROVE CheckpointActivates
    OBVIOUS
  <2>1. Caches(settings) /\ "bip30_reactivate" \in forks
    BY DEF ChainInv, forks
  <2> QED BY <2>1, CacheActivates
<1> QED
  BY <1>1, <1>2, <1>3, PTL DEF Spec

-----------------------------------------------------------------------------
(* Work. *)

\* The work up to each height, given that up to those below it (CumulativeWork).
WorkFrom(f, c, n) ==
    [h \in 0 .. n |-> IF h = 0 THEN proof(Block(c, 0)) ELSE f[h - 1] + proof(Block(c, h))]

LEMMA WorkExists ==
    ASSUME NEW c, NEW n \in Nat
    PROVE  \E f : f = WorkFrom(f, c, n)
<1> DEFINE X == {m \in Nat : \E f : f = WorkFrom(f, c, m)}
<1>1. 0 \in X
  <2> DEFINE f == [h \in 0 .. 0 |-> proof(Block(c, 0))]
  <2>1. f = WorkFrom(f, c, 0)
    <3>1. \A h \in 0 .. 0 : h = 0
      OBVIOUS
    <3> QED BY <3>1 DEF WorkFrom
  <2> HIDE DEF f
  <2> QED BY <2>1
<1>2. ASSUME NEW m \in Nat, m \in X PROVE m + 1 \in X
  <2>1. PICK f : f = WorkFrom(f, c, m)
    BY <1>2
  <2>2. \A h \in 0 .. m : f[h] = IF h = 0 THEN proof(Block(c, 0)) ELSE f[h - 1] + proof(Block(c, h))
    BY <2>1 DEF WorkFrom
  <2> DEFINE g == [h \in 0 .. (m + 1) |->
                      IF h = m + 1 THEN f[m] + proof(Block(c, m + 1)) ELSE f[h]]
             w(h) == IF h = 0 THEN proof(Block(c, 0)) ELSE g[h - 1] + proof(Block(c, h))
  <2>3. ASSUME NEW h \in 0 .. (m + 1) PROVE g[h] = w(h)
    <3>1. CASE h = m + 1
      <4>1. h # 0 /\ h - 1 = m /\ m \in 0 .. (m + 1) /\ m # m + 1
        BY <3>1
      <4>2. g[m] = f[m] /\ g[h] = f[m] + proof(Block(c, m + 1))
        BY <3>1, <4>1
      <4> HIDE DEF g
      <4> QED BY <3>1, <4>1, <4>2
    <3>2. CASE h # m + 1
      <4>1. h \in 0 .. m /\ g[h] = f[h]
        BY <3>2
      <4>2. h # 0 => h - 1 \in 0 .. (m + 1) /\ h - 1 # m + 1
        BY <4>1
      <4>3. h # 0 => g[h - 1] = f[h - 1]
        BY <4>2
      <4> HIDE DEF g
      <4> QED BY <2>2, <4>1, <4>3
    <3> QED BY <3>1, <3>2
  <2>4. WorkFrom(g, c, m + 1) = [h \in 0 .. (m + 1) |-> w(h)]
    BY DEF WorkFrom
  <2>5. g = WorkFrom(g, c, m + 1)
    <3> HIDE DEF w
    <3> QED BY <2>3, <2>4
  <2> HIDE DEF g, w
  <2>6. m + 1 \in Nat
    OBVIOUS
  <2> QED BY <2>5, <2>6
<1>3. Nat \subseteq X
  <2> HIDE DEF X
  <2> QED BY <1>1, <1>2, SuccessorsFill
<1> QED
  BY <1>3

\* Chains that agree up to a height have the same work there.
LEMMA WorkAgrees ==
    ASSUME NEW c, NEW d, NEW n \in Nat, NEW m \in Nat, n <= m,
           \A j \in 0 .. n : Block(c, j) = Block(d, j),
           NEW f, NEW g, f = WorkFrom(f, c, n), g = WorkFrom(g, d, m)
    PROVE  f[n] = g[n]
<1>1. \A h \in 0 .. n : f[h] = IF h = 0 THEN proof(Block(c, 0)) ELSE f[h - 1] + proof(Block(c, h))
  BY DEF WorkFrom
<1>2. \A h \in 0 .. m : g[h] = IF h = 0 THEN proof(Block(d, 0)) ELSE g[h - 1] + proof(Block(d, h))
  BY DEF WorkFrom
<1> DEFINE X == {h \in Nat : h <= n => f[h] = g[h]}
<1>3. 0 \in X
  <2>1. 0 \in 0 .. n /\ 0 \in 0 .. m
    OBVIOUS
  <2>2. f[0] = proof(Block(c, 0)) /\ g[0] = proof(Block(d, 0))
    BY <1>1, <1>2, <2>1
  <2> QED BY <2>1, <2>2
<1>4. ASSUME NEW h \in Nat, h \in X PROVE h + 1 \in X
  <2> SUFFICES ASSUME h + 1 <= n PROVE f[h + 1] = g[h + 1]
    OBVIOUS
  <2>1. h + 1 \in 0 .. n /\ h + 1 \in 0 .. m /\ h + 1 # 0 /\ (h + 1) - 1 = h /\ h <= n
    OBVIOUS
  <2>2. f[h + 1] = f[h] + proof(Block(c, h + 1)) /\ g[h + 1] = g[h] + proof(Block(d, h + 1))
    BY <1>1, <1>2, <2>1
  <2>3. Block(c, h + 1) = Block(d, h + 1) /\ f[h] = g[h]
    BY <1>4, <2>1
  <2> QED BY <2>2, <2>3
<1>5. Nat \subseteq X
  <2> HIDE DEF X
  <2> QED BY <1>3, <1>4, SuccessorsFill
<1> QED
  BY <1>5

LEMMA WorkIs ==
    ASSUME NEW c, Top(c) \in Nat
    PROVE  \E f : f = WorkFrom(f, c, Top(c)) /\ CumulativeWork(c) = f[Top(c)]
<1> DEFINE f == CHOOSE f : f = WorkFrom(f, c, Top(c))
<1>1. f = WorkFrom(f, c, Top(c))
  BY WorkExists
<1>2. CumulativeWork(c) = f[Top(c)]
  BY Zenon DEF CumulativeWork, WorkFrom
<1> HIDE DEF f
<1> QED
  BY <1>1, <1>2

LEMMA WorkAppended ==
    ASSUME NEW S, NEW c \in Seq(S), NEW e \in S, Top(c) \in Nat
    PROVE  CumulativeWork(Append(c, e)) = CumulativeWork(c) + proof(e)
<1> DEFINE d == Append(c, e)
           n == Top(c)
<1>1. Top(d) = n + 1 /\ Block(d, n + 1) = e /\ \A j \in 0 .. n : Block(d, j) = Block(c, j)
  BY BelowAppended
<1> HIDE DEF d, n
<1>2. n \in Nat /\ n + 1 \in Nat
  BY DEF n
<1>3. PICK f : f = WorkFrom(f, c, n) /\ CumulativeWork(c) = f[n]
  BY <1>2, WorkIs DEF n
<1>4. PICK g : g = WorkFrom(g, d, n + 1) /\ CumulativeWork(d) = g[n + 1]
  BY <1>1, <1>2, WorkIs
<1>5. f[n] = g[n]
  BY <1>1, <1>2, <1>3, <1>4, WorkAgrees
<1>6. g[n + 1] = g[n] + proof(e)
  <2>1. n + 1 \in 0 .. (n + 1) /\ n + 1 # 0 /\ (n + 1) - 1 = n
    BY <1>2
  <2>2. g[n + 1] = g[(n + 1) - 1] + proof(Block(d, n + 1))
    BY <1>4, <2>1 DEF WorkFrom
  <2> QED BY <1>1, <2>1, <2>2
<1> QED
  BY <1>3, <1>4, <1>5, <1>6 DEF d

\* A period starts at a retarget height.
LEMMA StartOfPeriod ==
    ASSUME NEW g \in Nat
    PROVE  PeriodStart(g) \in 0 .. g /\ is_retarget_height(PeriodStart(g))
<1> DEFINE k == retargeting_interval
           q == g \div k
           r == g % k
           s == g - r
<1>1. k \in Nat \ {0}
  BY Interval
<1>2. q \in Nat /\ r \in 0 .. (k - 1) /\ g = k * q + r /\ r <= g
  BY <1>1, Remainder, NextInPeriod
<1>3. s \in Nat /\ s = k * q
  <2>1. k * q \in Nat
    BY <1>1, <1>2
  <2> HIDE DEF q, r
  <2> QED BY <1>2, <2>1
<1> HIDE DEF k, q, r, s
<1>4. s \div k \in Nat /\ s % k \in 0 .. (k - 1) /\ s = k * (s \div k) + (s % k)
  BY <1>1, <1>3, Remainder
<1>5. k * (s \div k) + (s % k) = k * q + 0 /\ 0 \in 0 .. (k - 1)
  <2>1. k * q \in Nat
    BY <1>1, <1>2
  <2> QED BY <1>1, <1>3, <1>4, <2>1
<1>6. s % k = 0
  BY <1>1, <1>2, <1>4, <1>5, RemainderIs
<1>7. s \in 0 .. g
  BY <1>2, <1>3 DEF s
<1> QED
  BY <1>6, <1>7 DEF k, r, s, PeriodStart, is_retarget_height, retarget_distance

\* The blocks that a search for bits stops at, and the highest of them.
Marks(c, h) == {j \in 0 .. (h - 1) : is_retarget_or_non_limit(j, Block(c, j).bits)}
Last(c, h) == Max(Marks(c, h))

LEMMA LastIs ==
    ASSUME NEW c, NEW h \in Nat \ {0}, NEW s \in 0 .. (h - 1), is_retarget_height(s)
    PROVE  /\ Last(c, h) \in s .. (h - 1)
           /\ Last(c, h) \in Marks(c, h)
           /\ \A j \in Marks(c, h) : Last(c, h) >= j
<1>1. s \in Marks(c, h)
  BY DEF Marks, is_retarget_or_non_limit
<1>2. h - 1 \in Nat /\ Marks(c, h) \subseteq 0 .. (h - 1) /\ Marks(c, h) # {}
  BY <1>1 DEF Marks
<1>3. Last(c, h) \in Marks(c, h) /\ \A j \in Marks(c, h) : Last(c, h) >= j
  BY <1>2, BoundedHasGreatest DEF Last
<1> QED
  BY <1>1, <1>2, <1>3

\* The search of a window that reaches a retarget height stops at the highest.
LEMMA FoundIs ==
    ASSUME NEW c, NEW d, NEW h \in Nat \ {0}, NEW n \in 1 .. h,
           d.height = h, d.bits.ordered = BitsBelow(c, h, n),
           NEW s \in (h - n) .. (h - 1), is_retarget_height(s)
    PROVE  /\ Found(d) # {}
           /\ d.bits.ordered[Max(Found(d))] = Block(c, Last(c, h)).bits
<1> DEFINE m == Last(c, h)
           i == m - h + n + 1
<1>1. s \in 0 .. (h - 1)
  OBVIOUS
<1>2. m \in s .. (h - 1) /\ m \in Marks(c, h) /\ \A j \in Marks(c, h) : m >= j
  BY <1>1, LastIs
<1>3. Len(d.bits.ordered) = n /\ DOMAIN d.bits.ordered = 1 .. n
      /\ \A x \in 1 .. n : d.bits.ordered[x] = Block(c, h - n + x - 1).bits
  BY DEF BitsBelow
<1>4. \A x \in 1 .. n : x \in Found(d) <=> h - n + x - 1 \in Marks(c, h)
  <2> SUFFICES ASSUME NEW x \in 1 .. n
               PROVE  x \in Found(d) <=> h - n + x - 1 \in Marks(c, h)
    OBVIOUS
  <2>1. h - (n + 1 - x) = h - n + x - 1 /\ h - n + x - 1 \in 0 .. (h - 1)
    OBVIOUS
  <2>2. x \in Found(d) <=> is_retarget_or_non_limit(h - (n + 1 - x), d.bits.ordered[x])
    BY <1>3 DEF Found
  <2>3. h - n + x - 1 \in Marks(c, h) <=>
            is_retarget_or_non_limit(h - n + x - 1, Block(c, h - n + x - 1).bits)
    BY <2>1 DEF Marks
  <2> QED BY <1>3, <2>1, <2>2, <2>3
<1>5. Found(d) \subseteq 1 .. n
  BY <1>3 DEF Found
<1> HIDE DEF m
<1>6. i \in 1 .. n /\ h - n + i - 1 = m
  BY <1>2
<1>7. i \in Found(d)
  BY <1>2, <1>4, <1>6
<1>8. \A x \in Found(d) : i >= x
  <2> SUFFICES ASSUME NEW x \in Found(d) PROVE i >= x
    OBVIOUS
  <2>1. x \in 1 .. n /\ h - n + x - 1 \in Marks(c, h)
    BY <1>4, <1>5
  <2>2. m >= h - n + x - 1 /\ m \in Int
    BY <1>2, <2>1
  <2> QED BY <2>1, <2>2
<1>9. Max(Found(d)) = i
  <2>1. Found(d) \subseteq Int
    BY <1>5
  <2> HIDE DEF i
  <2> QED BY <1>7, <1>8, <2>1, GreatestIs
<1>10. d.bits.ordered[i] = Block(c, m).bits
  <2>1. d.bits.ordered[i] = Block(c, h - n + i - 1).bits
    BY <1>3, <1>6
  <2> QED BY <1>6, <2>1
<1> QED
  BY <1>7, <1>9, <1>10 DEF m

\* The bits that are scaled at the end of a period, and their retarget.
BaseBits(c, h) ==
    IF "block_storm_patch" \in forks /\ "difficult" \notin forks
    THEN Block(c, Last(c, h)).bits ELSE Block(c, h - 1).bits
Span(c, h) ==
    limit(floored_subtract(TimeAt(c, h - 1), RetargetTime(c, h)),
          minimum_timespan, maximum_timespan)
Retargeted(bits, span) ==
    LET target == Expand[bits]
        timewarp == IF patch_timewarp(target) THEN 2 ELSE 1
        product == ((target \div timewarp) * span) % TargetSpan
        result == ((product \div retargeting_interval_seconds) * timewarp) % TargetSpan
    IN  IF result > Expand[proof_of_work_limit]
        THEN proof_of_work_limit ELSE compress(result)

\* work_required as the chain below a height has it.
WorkAt(c, h, time) ==
    IF h = 0 \/ Expand[Block(c, h - 1).bits] = 0 THEN 0
    ELSE IF "retarget" \notin forks THEN Block(c, h - 1).bits
    ELSE IF is_retarget_height(h) THEN Retargeted(BaseBits(c, h), Span(c, h))
    ELSE IF "difficult" \in forks THEN Block(c, h - 1).bits
    ELSE IF time > ceilinged_add(TimeAt(c, h - 1), 2 * block_spacing_seconds)
    THEN proof_of_work_limit
    ELSE Block(c, Last(c, h)).bits

LEMMA HighIs ==
    ASSUME NEW c, NEW h \in Nat \ {0}, NEW n \in 1 .. h
    PROVE  /\ High(BitsBelow(c, h, n)) = Block(c, h - 1).bits
           /\ High(TimesBelow(c, h, n)) = Block(c, h - 1).timestamp
<1>1. n \in 1 .. n /\ h - n + n - 1 = h - 1
  OBVIOUS
<1>2. Len(BitsBelow(c, h, n)) = n /\ Len(TimesBelow(c, h, n)) = n
  BY DEF BitsBelow, TimesBelow
<1> QED
  BY <1>1, <1>2 DEF High, BitsBelow, TimesBelow

\* Where the last block of a period, and any other, has its search end.
LEMMA SearchEnds ==
    ASSUME NEW h \in Nat \ {0}
    PROVE  /\ is_retarget_height(PeriodStart(h - 1)) /\ PeriodStart(h - 1) \in 0 .. (h - 1)
           /\ is_retarget_height(h) => h - retargeting_interval = PeriodStart(h - 1)
           /\ ~is_retarget_height(h) => PeriodStart(h) = PeriodStart(h - 1)
<1> DEFINE g == h - 1
           k == retargeting_interval
           r == g % k
<1>1. g \in Nat /\ g + 1 = h
  OBVIOUS
<1> HIDE DEF g
<1>2. is_retarget_height(PeriodStart(g)) /\ PeriodStart(g) \in 0 .. g
  BY <1>1, StartOfPeriod
<1>3. /\ r \in 0 .. (k - 1) /\ PeriodStart(g) = g - r
      /\ (g + 1) % k = (IF r = k - 1 THEN 0 ELSE r + 1)
      /\ (is_retarget_height(g + 1) <=> (g + 1) % k = 0)
      /\ PeriodStart(g + 1) = (g + 1) - ((g + 1) % k)
  BY <1>1, NextInPeriod
<1>4. k \in Nat \ {0}
  BY Interval
<1> HIDE DEF k, r
<1>5. /\ is_retarget_height(g + 1) => (g + 1) - k = PeriodStart(g)
      /\ ~is_retarget_height(g + 1) => PeriodStart(g + 1) = PeriodStart(g)
  BY <1>1, <1>3, <1>4
<1> QED
  BY <1>1, <1>2, <1>5 DEF g, k

LEMMA WorkRead ==
    ASSUME NEW c, NEW d, NEW h \in Nat, StateOf(c, d, h), ~Warped
    PROVE  work_required(d) = WorkAt(c, h, d.timestamp.self)
<1>1. d.height = h
  BY DEF StateOf
<1>2. CASE h = 0
  BY <1>1, <1>2 DEF work_required, WorkAt
<1>3. CASE h # 0
  <2>1. PICK n \in Reach(h) : d.bits.ordered = BitsBelow(c, h, n)
    BY DEF StateOf
  <2>2. n \in 1 .. h
    BY <1>3 DEF Reach
  <2>3. High(d.bits.ordered) = Block(c, h - 1).bits
    BY <1>3, <2>1, <2>2, HighIs
  <2>4. High(d.timestamp.ordered) = TimeAt(c, h - 1)
    <3>1. timestamp_count(h) \in 1 .. h
      <4>1. timestamp_count(h) = IF h <= median_time_past_interval THEN h
                                 ELSE median_time_past_interval
        BY Counts
      <4>2. median_time_past_interval \in Nat /\ median_time_past_interval >= 2
        BY ChainConstants
      <4> QED BY <1>3, <4>1, <4>2
    <3> QED BY <1>3, <3>1, HighIs DEF StateOf, TimeAt
  <2>5. CASE Expand[Block(c, h - 1).bits] = 0
    BY <1>1, <1>3, <2>3, <2>5 DEF work_required, WorkAt
  <2>6. CASE Expand[Block(c, h - 1).bits] # 0 /\ "retarget" \notin forks
    BY <1>1, <1>3, <2>3, <2>6 DEF work_required, WorkAt
  <2>7. CASE Expand[Block(c, h - 1).bits] # 0 /\ "retarget" \in forks /\ is_retarget_height(h)
    <3>1. retarget_timespan(d) = Span(c, h)
      BY <1>3, <2>4, <2>7 DEF retarget_timespan, Span, StateOf
    <3>2. work_required_retarget_bits(d) = BaseBits(c, h)
      <4>1. CASE "block_storm_patch" \notin forks
        BY <2>3, <4>1 DEF work_required_retarget_bits, BaseBits
      <4>2. CASE "block_storm_patch" \in forks /\ "difficult" \notin forks
        <5> DEFINE s == PeriodStart(h - 1)
        <5>1. is_retarget_height(s) /\ s \in 0 .. (h - 1) /\ s = h - retargeting_interval
          BY <1>3, <2>7, SearchEnds
        <5>2. n >= retargeting_interval /\ retargeting_interval \in Nat
          BY <1>3, <2>7, <4>2, Interval DEF Reach
        <5> HIDE DEF s
        <5>3. s \in (h - n) .. (h - 1)
          BY <2>2, <5>1, <5>2
        <5>4. Found(d) # {} /\ d.bits.ordered[Max(Found(d))] = Block(c, Last(c, h)).bits
          BY <1>1, <1>3, <2>1, <2>2, <5>1, <5>3, FoundIs
        <5> QED BY <4>2, <5>4 DEF work_required_retarget_bits, BaseBits
      <4>3. CASE "block_storm_patch" \in forks /\ "difficult" \in forks
        <5>1. n = 1
          BY <2>2, <4>3 DEF Reach
        <5>2. Len(d.bits.ordered) = 1
          BY <2>1, <5>1 DEF BitsBelow
        <5>3. Found(d) \subseteq {1}
          BY <5>2 DEF Found
        <5>4. Found(d) # {} => Max(Found(d)) = 1
          <6>1. Found(d) # {} => Found(d) = {1}
            BY <5>3
          <6>2. Max({1}) = 1
            <7>1. {1} \subseteq Int /\ 1 \in {1} /\ \A y \in {1} : 1 >= y
              OBVIOUS
            <7> QED BY <7>1, GreatestIs
          <6> QED BY <6>1, <6>2
        <5>5. work_required_retarget_bits(d) = d.bits.ordered[1]
          BY <5>2, <5>4 DEF work_required_retarget_bits, High
        <5>6. d.bits.ordered[1] = Block(c, h - 1).bits
          BY <2>3, <5>2 DEF High
        <5> QED BY <4>3, <5>5, <5>6 DEF BaseBits
      <4> QED BY <4>1, <4>2, <4>3
    <3>3. work_required(d) = work_required_retarget(d)
      BY <1>1, <1>3, <2>3, <2>7 DEF work_required
    <3>4. work_required_retarget(d) = Retargeted(BaseBits(c, h), Span(c, h))
      BY <3>1, <3>2 DEF work_required_retarget, Retargeted
    <3> QED BY <1>3, <2>7, <3>3, <3>4 DEF WorkAt
  <2>8. CASE /\ Expand[Block(c, h - 1).bits] # 0 /\ "retarget" \in forks
             /\ ~is_retarget_height(h) /\ "difficult" \in forks
    BY <1>1, <1>3, <2>3, <2>8 DEF work_required, WorkAt
  <2>9. CASE /\ Expand[Block(c, h - 1).bits] # 0 /\ "retarget" \in forks
             /\ ~is_retarget_height(h) /\ "difficult" \notin forks
    <3> DEFINE s == PeriodStart(h - 1)
    <3>1. is_retarget_height(s) /\ s \in 0 .. (h - 1) /\ s = PeriodStart(h)
      BY <1>3, <2>9, SearchEnds
    <3>2. h - n <= PeriodStart(h)
      BY <1>3, <2>9 DEF Reach
    <3> HIDE DEF s
    <3>3. s \in (h - n) .. (h - 1)
      BY <2>2, <3>1, <3>2
    <3>4. Found(d) # {} /\ d.bits.ordered[Max(Found(d))] = Block(c, Last(c, h)).bits
      BY <1>1, <1>3, <2>1, <2>2, <3>1, <3>3, FoundIs
    <3>5. work_required(d) = easy_work_required(d)
      BY <1>1, <1>3, <2>3, <2>9 DEF work_required
    <3>6. easy_work_required(d) =
            IF d.timestamp.self > ceilinged_add(TimeAt(c, h - 1), 2 * block_spacing_seconds)
            THEN proof_of_work_limit ELSE Block(c, Last(c, h)).bits
      BY <2>4, <3>4 DEF easy_work_required
    <3> QED BY <1>3, <2>9, <3>5, <3>6 DEF WorkAt
  <2> QED BY <2>5, <2>6, <2>7, <2>8, <2>9
<1> QED
  BY <1>2, <1>3

-----------------------------------------------------------------------------
(* Restarts. *)

\* The work of the state is that of its chain.
WorkInv == data.cumulative_work = CumulativeWork(chain)

LEMMA WorkStep ==
    ASSUME ChainInv, WorkInv, [Next]_vars
    PROVE  WorkInv'
<1>1. Top(chain) \in Nat /\ chain \in Seq(HeaderSet)
  BY Heights DEF ChainInv
<1>2. ASSUME NEW header \in HeaderSet, chain' = Append(chain, header),
             data'.cumulative_work = data.cumulative_work + proof(header)
      PROVE  data'.cumulative_work = CumulativeWork(chain')
  BY <1>1, <1>2, WorkAppended DEF WorkInv
<1>3. CASE Header \/ PoolBlock
  <2>1. PICK header \in Offered : \/ Join(header, to_header(data, header))
                                  \/ Join(header, to_block(data, header))
    BY <1>3 DEF Header, PoolBlock
  <2>2. header \in HeaderSet
    BY OfferedHeaders
  <2>3. chain' = Append(chain, header)
        /\ data'.cumulative_work = data.cumulative_work + proof(header)
    BY <2>1 DEF Join, to_header, to_block, Apply, to_pool
  <2> QED BY <1>2, <2>2, <2>3 DEF WorkInv
<1>4. CASE Pool
  <2>1. data'.cumulative_work = data.cumulative_work /\ chain' = chain
    BY <1>4 DEF Pool, to_pool
  <2> QED BY <2>1 DEF WorkInv
<1>5. CASE Restart
  <2>1. data'.cumulative_work = CumulativeWork(chain) /\ chain' = chain
    BY <1>5 DEF Restart, Populate
  <2> QED BY <2>1 DEF WorkInv
<1>6. CASE UNCHANGED vars
  BY <1>6 DEF vars, WorkInv
<1> QED
  BY <1>3, <1>4, <1>5, <1>6 DEF Next

\* States of the same block have the same context.
LEMMA SameContext ==
    ASSUME NEW c, NEW h \in Nat, NEW d, NEW e, ~Warped,
           StateOf(c, d, h), StateOf(c, e, h), Knows(c, d, h), Knows(c, e, h),
           d.hash = e.hash, \A p \in Checkpoints : d.checkpoint[p] = e.checkpoint[p]
    PROVE  context(d) = context(e)
<1>1. /\ d.height = e.height
      /\ d.timestamp.ordered = e.timestamp.ordered
      /\ d.version.ordered = e.version.ordered
      /\ d.version.self = e.version.self
      /\ d.timestamp.self = e.timestamp.self
  BY DEF StateOf, Knows
<1>2. work_required(d) = work_required(e)
  BY <1>1, WorkRead
<1>3. minimum_block_version(d) = minimum_block_version(e)
  BY MinimumOf
<1>4. median_time_past(d) = median_time_past(e)
  BY <1>1 DEF median_time_past
<1>5. activation(d) = activation(e)
  <2>1. ASSUME NEW r PROVE is_active(d, r) <=> is_active(e, r)
    BY <1>1 DEF is_active, Frozen, Count
  <2>2. /\ Buried(d, "bip9_bit0") <=> Buried(e, "bip9_bit0")
        /\ Buried(d, "bip9_bit1") <=> Buried(e, "bip9_bit1")
        /\ Buried(d, "bip9_bit2") <=> Buried(e, "bip9_bit2")
        /\ Buried(d, "bip30_deactivate") <=> Buried(e, "bip30_deactivate")
    BY DEF Buried, Checkpoints
  <2>3. bip30_rule(d) <=> bip30_rule(e)
    BY <1>1, <2>2 DEF bip30_rule, is_bip30_exception
  <2> DEFINE a == {r \in {"bip34", "bip66", "bip65"} : is_active(d, r)}
             b == {r \in {"bip34", "bip66", "bip65"} : is_active(e, r)}
  <2>4. a = b
    BY <2>1
  <2> QED BY <1>1, <2>2, <2>3, <2>4 DEF activation
<1> QED
  BY <1>1, <1>2, <1>3, <1>4, <1>5 DEF context

\* In networks whose node may restart.
RestartCaches == "restart" \in settings.constructors => CacheInv

LEMMA CacheAgrees ==
    ASSUME ChainInv, WorkInv, RestartCaches,
           "restart" \in settings.constructors => Caches(settings)
                                /\ "ltc_time_warp_patch" \notin settings.forks
    PROVE  RestartAgrees
<1> SUFFICES ASSUME kind = "block", "restart" \in settings.constructors
             PROVE  /\ context(data) = context(Populate(chain))
                    /\ data.cumulative_work = Populate(chain).cumulative_work
  BY DEF RestartAgrees
<1> DEFINE h == Top(chain)
           fresh == Populate(chain)
<1>1. h \in Nat /\ settings \in Networks
  BY Heights DEF ChainInv
<1>2. StateOf(chain, data, h) /\ Knows(chain, data, h)
  BY DEF ChainInv, Height
<1>3. StateOf(chain, fresh, h) /\ Knows(chain, fresh, h)
  BY <1>1, PopulatedState
<1>4. ~Warped
  BY DEF Warped, forks
<1>5. /\ fresh.hash = Block(chain, h).hash
      /\ \A p \in Checkpoints : fresh.checkpoint[p] = HashAt(chain, p)
  BY <1>1, PopulatedHash
<1>6. /\ data.hash = Block(chain, h).hash
      /\ \A p \in Checkpoints : data.checkpoint[p] = HashAt(chain, p)
  BY DEF RestartCaches, CacheInv
<1>7. fresh.cumulative_work = CumulativeWork(chain)
  BY DEF Populate
<1> HIDE DEF h, fresh
<1>8. context(data) = context(fresh)
  BY <1>1, <1>2, <1>3, <1>4, <1>5, <1>6, SameContext
<1> QED
  BY <1>7, <1>8 DEF WorkInv, fresh

\* For chains of any length, a node that restarts and populates its state from the
\* store has the context and the work of the node that promoted it block by block,
\* although the windows of bits may differ in length: what get_map requests reaches
\* all that is read.  For networks that promote by header and configure the rules of
\* the checkpoints; of litecoin's patched period start it fails (chain_warp_restart).
THEOREM RestartsAgree ==
    ASSUME \A network \in Networks :
            "restart" \in network.constructors =>
                Caches(network) /\ "ltc_time_warp_patch" \notin network.forks
    PROVE  Spec => []RestartAgrees
<1> DEFINE I == ChainInv /\ WorkInv /\ RestartCaches
<1>1. Init => I
  <2> SUFFICES ASSUME Init PROVE I
    OBVIOUS
  <2>1. ChainInv
    BY ChainStarts
  <2>2. Top(chain) \in Nat
    BY <2>1, Heights
  <2>3. settings \in Networks /\ data = Populate(chain) /\ kind = "block"
    BY DEF Init
  <2>4. WorkInv
    BY <2>3 DEF WorkInv, Populate
  <2>5. "restart" \in settings.constructors => Caches(settings)
    BY <2>3
  <2>6. RestartCaches
    BY <2>2, <2>3, <2>5, PopulatedHash DEF CacheInv, RestartCaches
  <2> QED BY <2>1, <2>4, <2>6
<1>2. I /\ [Next]_vars => I'
  <2> SUFFICES ASSUME ChainInv, WorkInv, RestartCaches, [Next]_vars PROVE I'
    OBVIOUS
  <2>1. "restart" \in settings.constructors => Caches(settings)
    BY DEF ChainInv
  <2>2. settings' = settings
    BY DEF Next, vars, Header, Pool, PoolBlock, Restart, Join
  <2>3. RestartCaches'
    BY <2>1, <2>2, CacheStep DEF RestartCaches
  <2> QED BY <2>3, ChainStep, WorkStep
<1>3. I => RestartAgrees
  <2> SUFFICES ASSUME ChainInv, WorkInv, RestartCaches PROVE RestartAgrees
    OBVIOUS
  <2>1. "restart" \in settings.constructors => Caches(settings)
                                /\ "ltc_time_warp_patch" \notin settings.forks
    BY DEF ChainInv
  <2> QED BY <2>1, CacheAgrees
<1> QED
  BY <1>1, <1>2, <1>3, PTL DEF Spec

-----------------------------------------------------------------------------
(* Work required. *)

LEMMA WithinPeriod ==
    ASSUME NEW g \in Nat, NEW j \in PeriodStart(g) .. g, is_retarget_height(j)
    PROVE  j = PeriodStart(g)
<1> DEFINE k == retargeting_interval
           q == g \div k
           r == g % k
           p == k * q
           x == j - p
<1>1. k \in Nat \ {0}
  BY Interval
<1>2. q \in Nat /\ r \in 0 .. (k - 1) /\ g = p + r /\ PeriodStart(g) = g - r
  BY <1>1, Remainder, NextInPeriod
<1>3. p \in Nat
  BY <1>1, <1>2
<1>4. j % k = 0
  BY DEF is_retarget_height, retarget_distance
<1> HIDE DEF k, q, r
<1>5. x \in 0 .. (k - 1) /\ j \in Nat /\ j = p + x
  <2> HIDE DEF p
  <2> QED BY <1>1, <1>2, <1>3
<1>6. j \div k \in Nat /\ j = k * (j \div k) + (j % k)
  BY <1>1, <1>5, Remainder
<1>7. k * (j \div k) + 0 = k * q + x /\ 0 \in 0 .. (k - 1)
  BY <1>1, <1>4, <1>5, <1>6
<1> HIDE DEF x
<1>8. x = 0
  BY <1>1, <1>2, <1>5, <1>6, <1>7, RemainderIs
<1> HIDE DEF p
<1> QED
  BY <1>2, <1>3, <1>5, <1>8

\* The bits of a chain: within the limit, and in a period those of its first
\* block, or the limit where late blocks may have it.
GoodBits(c) ==
    \A j \in 0 .. Top(c) :
        /\ Block(c, j).bits \in DOMAIN Expand
        /\ Expand[Block(c, j).bits] \in 1 .. Expand[proof_of_work_limit]
        /\ "retarget" \notin forks => Block(c, j).bits = proof_of_work_limit
        /\ "retarget" \in forks =>
            \A i \in PeriodStart(j) .. j :
                \/ Block(c, i).bits = Block(c, PeriodStart(j)).bits
                \/ "difficult" \notin forks /\ Block(c, i).bits = proof_of_work_limit

\* The highest block that a search stops at has the bits of its period.
LEMMA LastInPeriod ==
    ASSUME NEW c, NEW h \in Nat \ {0}, h - 1 <= Top(c), Top(c) \in Nat,
           GoodBits(c), "retarget" \in forks
    PROVE  Block(c, Last(c, h)).bits = Block(c, PeriodStart(h - 1)).bits
<1> DEFINE s == PeriodStart(h - 1)
           m == Last(c, h)
<1>1. h - 1 \in Nat /\ h - 1 \in 0 .. Top(c)
  OBVIOUS
<1>2. is_retarget_height(s) /\ s \in 0 .. (h - 1)
  BY SearchEnds
<1>3. m \in s .. (h - 1) /\ m \in Marks(c, h)
  BY <1>2, LastIs
<1>4. Block(c, m).bits = Block(c, s).bits \/ Block(c, m).bits = proof_of_work_limit
  BY <1>1, <1>3 DEF GoodBits
<1>5. Block(c, m).bits # proof_of_work_limit \/ is_retarget_height(m)
  BY <1>3 DEF Marks, is_retarget_or_non_limit
<1>6. is_retarget_height(m) => m = s
  BY <1>1, <1>3, WithinPeriod
<1> QED
  BY <1>4, <1>5, <1>6

\* The timespan is the elapsed time within its limits.
LEMMA SpanIs ==
    ASSUME NEW a \in Nat, NEW b \in Nat
    PROVE  /\ limit(floored_subtract(a, b), minimum_timespan, maximum_timespan)
                = Max({minimum_timespan, Min({maximum_timespan, a - b})})
           /\ limit(floored_subtract(a, b), minimum_timespan, maximum_timespan)
                \in 0 .. maximum_timespan
           /\ maximum_timespan \in Nat
<1> DEFINE x == retargeting_interval_seconds
           f == retargeting_factor
           q == x \div f
           y == x * f
<1>1. x \in Nat /\ f \in Nat \ {0}
  BY ChainConstants
<1>2. q \in Nat /\ x = f * q + (x % f) /\ x % f \in Nat
  BY <1>1, Remainder
<1>3. y \in Nat /\ y >= x
  BY <1>1
<1>4. f * q >= q
  BY <1>1, <1>2
<1>5. q <= x
  <2>1. f * q \in Nat
    BY <1>1, <1>2
  <2> QED BY <1>1, <1>2, <1>4, <2>1
<1> DEFINE lo == minimum_timespan
           hi == maximum_timespan
<1>6. lo = q /\ hi = y
  BY DEF minimum_timespan, maximum_timespan
<1> HIDE DEF x, f, q, y, lo, hi
<1>7. lo \in Nat /\ hi \in Nat /\ lo <= hi
  BY <1>1, <1>2, <1>3, <1>5, <1>6
<1>8. Min({hi, a - b}) = IF hi <= a - b THEN hi ELSE a - b
  BY <1>7, LesserOf
<1> DEFINE u == Min({hi, a - b})
<1>9. u \in Int
  BY <1>7, <1>8
<1>10. Max({lo, u}) = IF lo >= u THEN lo ELSE u
  <2> HIDE DEF u
  <2> QED BY <1>7, <1>9, GreaterOf
<1>11. floored_subtract(a, b) = IF a < b THEN 0 ELSE a - b
  BY DEF floored_subtract
<1>12. limit(floored_subtract(a, b), lo, hi)
        = (IF floored_subtract(a, b) < lo THEN lo
           ELSE IF floored_subtract(a, b) > hi THEN hi ELSE floored_subtract(a, b))
  BY DEF limit
<1>13. limit(floored_subtract(a, b), lo, hi) = Max({lo, u})
  BY <1>7, <1>8, <1>10, <1>11, <1>12
<1>14. limit(floored_subtract(a, b), lo, hi) \in 0 .. hi
  BY <1>7, <1>11, <1>12
<1> QED
  BY <1>7, <1>13, <1>14 DEF lo, hi, u

\* Without overflow, and without the patch against it, the scaled target is exact.
\* The target that the code computes when nothing is patched.
Wrapped(e, s, x) == (((((e \div 1) * s) % TargetSpan) \div x) * 1) % TargetSpan

LEMMA ExactTarget ==
    ASSUME NEW e \in Nat, NEW m \in Nat, e <= m, NEW s \in Nat, NEW t \in Nat, s <= t,
           m * t < TargetSpan, NEW x \in Nat \ {0}
    PROVE  Wrapped(e, s, x) = (e * s) \div x
<1>0. e * s \in Nat /\ m * s \in Nat /\ m * t \in Nat /\ e * t \in Nat
  OBVIOUS
<1>10. e * s <= e * t
  OBVIOUS
<1>11. e * t <= m * t
  OBVIOUS
<1>1. e * s <= m * t /\ e * s \in Nat /\ m * t \in Nat
  BY <1>0, <1>10, <1>11
<1> DEFINE y == e * s
           z == y \div x
<1>2. TargetSpan \in Nat
  BY CompactConstants
<1>3. y \in Nat /\ y < TargetSpan
  BY <1>1, <1>2
<1>4. e \div 1 = e
  OBVIOUS
<1>5. z \in Nat /\ y = x * z + (y % x) /\ y % x \in Nat
  <2> HIDE DEF y
  <2>1. y % x \in 0 .. (x - 1) /\ y \div x \in Nat /\ y = x * (y \div x) + (y % x)
    BY <1>3, Remainder
  <2> QED BY <2>1
<1>6. x * z \in Nat /\ x * z >= z
  BY <1>5
<1> HIDE DEF y, z
<1>7. z < TargetSpan
  BY <1>2, <1>3, <1>5, <1>6
<1>8. y % TargetSpan = y /\ z % TargetSpan = z /\ z * 1 = z
  BY <1>2, <1>3, <1>5, <1>7
<1> QED
  BY <1>4, <1>8 DEF y, z, Wrapped

\* The greatest compact number within the limit is the limit.
LEMMA CompactLimit ==
    ASSUME NEW top \in DOMAIN Expand, NEW result \in Nat
    PROVE  (IF result > Expand[top] THEN top ELSE compress(result))
            = Max({b \in DOMAIN Expand : Expand[b] <= result /\ Expand[b] <= Expand[top]})
<1> DEFINE S == {b \in DOMAIN Expand : Expand[b] <= result /\ Expand[b] <= Expand[top]}
<1>1. DOMAIN Expand \subseteq Nat /\ (\A b \in DOMAIN Expand : Expand[b] \in Nat)
      /\ \A b, c \in DOMAIN Expand : b < c => Expand[b] < Expand[c]
  BY CompactConstants
<1>2. CASE result > Expand[top]
  <2>1. top \in S
    BY <1>1, <1>2
  <2>2. ASSUME NEW b \in S PROVE top >= b
    <3>1. Expand[b] <= Expand[top] /\ b \in Nat /\ top \in Nat /\ Expand[b] \in Nat
          /\ Expand[top] \in Nat
      BY <1>1
    <3>2. ~(Expand[top] < Expand[b])
      BY <3>1
    <3>3. ~(top < b)
      BY <1>1, <3>2
    <3> QED BY <3>1, <3>3
  <2>3. S \subseteq Int
    BY <1>1
  <2> HIDE DEF S
  <2>4. Max(S) = top
    BY <2>1, <2>2, <2>3, GreatestIs
  <2> QED BY <1>2, <2>4 DEF S
<1>3. CASE ~(result > Expand[top])
  <2>1. S = {b \in DOMAIN Expand : Expand[b] <= result}
    BY <1>1, <1>3
  <2> QED BY <1>3, <2>1 DEF compress
<1> QED
  BY <1>2, <1>3

\* A network in which the product of target and timespan cannot overflow, and
\* whose states agree on the start of the period.
Exact(network) ==
    /\ "ltc_retarget_overflow_patch" \notin network.forks
    /\ ~("ltc_time_warp_patch" \in network.forks /\ "restart" \in network.constructors)
    /\ "retarget" \in network.forks =>
        Expand[network.proof_of_work_limit] * maximum_timespan < TargetSpan

LEMMA BlockType ==
    ASSUME NEW c \in Seq(HeaderSet), NEW j \in 0 .. Top(c)
    PROVE  /\ Block(c, j) \in HeaderSet
           /\ Block(c, j).bits \in DOMAIN Expand
           /\ TimeAt(c, j) \in 0 .. MaxTime
<1>1. j + 1 \in 1 .. Len(c)
  BY LenProperties DEF Top
<1>2. c[j + 1] \in HeaderSet
  BY <1>1, ElementOfSeq
<1> QED
  BY <1>2 DEF Block, TimeAt, HeaderSet

LEMMA RetargetExact ==
    ASSUME NEW c \in Seq(HeaderSet), NEW h \in Nat \ {0}, Top(c) \in Nat, h - 1 <= Top(c),
           GoodBits(c), is_retarget_height(h), "retarget" \in forks,
           settings \in Networks, Exact(settings)
    PROVE  Retargeted(BaseBits(c, h), Span(c, h)) = RetargetReference(c, h)
<1> DEFINE k == retargeting_interval
           s == PeriodStart(h - 1)
           base == Block(c, IF "block_storm_patch" \in forks THEN h - k ELSE h - 1).bits
<1>1. h - 1 \in 0 .. Top(c) /\ h - 1 \in Nat
  OBVIOUS
<1>2. s = h - k /\ s \in 0 .. (h - 1) /\ k \in Nat \ {0}
  BY SearchEnds, Interval
<1>3. BaseBits(c, h) = base
  <2>1. Block(c, Last(c, h)).bits = Block(c, s).bits
    BY LastInPeriod
  <2>2. "difficult" \in forks => Block(c, h - 1).bits = Block(c, s).bits
    <3>1. h - 1 \in s .. (h - 1)
      BY <1>1, <1>2
    <3> QED BY <1>1, <3>1 DEF GoodBits
  <2> HIDE DEF s, k
  <2> QED BY <1>2, <2>1, <2>2 DEF BaseBits
<1>4. base \in DOMAIN Expand /\ Expand[base] \in 1 .. Expand[proof_of_work_limit]
  <2> DEFINE j == IF "block_storm_patch" \in forks THEN h - k ELSE h - 1
  <2>1. j \in 0 .. Top(c)
    <3> HIDE DEF k, s
    <3> QED BY <1>1, <1>2
  <2>2. base = Block(c, j).bits
    OBVIOUS
  <2> HIDE DEF j, base
  <2> QED BY <2>1, <2>2 DEF GoodBits
<1>5. RetargetTime(c, h) = TimeAt(c, SpanStart(h)) /\ SpanStart(h) \in 0 .. Top(c)
  <2>1. retarget_height(h) = h - k
    BY DEF retarget_height
  <2> DEFINE start == retarget_height(h)
             ltc == "ltc_time_warp_patch" \in forks
  <2>2. SpanStart(h) = (IF ltc /\ h # k THEN h - k - 1 ELSE h - k)
    BY DEF SpanStart
  <2>3. RetargetTime(c, h) = TimeAt(c, IF ltc /\ start # 0 THEN start - 1 ELSE start)
    BY DEF RetargetTime
  <2> HIDE DEF k, s, ltc
  <2>4. (IF ltc /\ start # 0 THEN start - 1 ELSE start) = SpanStart(h)
    BY <1>2, <2>1, <2>2
  <2>5. SpanStart(h) \in 0 .. Top(c)
    BY <1>1, <1>2, <2>2
  <2> QED BY <2>3, <2>4, <2>5
<1> DEFINE a == TimeAt(c, h - 1)
           b == TimeAt(c, SpanStart(h))
           span == Max({minimum_timespan, Min({maximum_timespan, a - b})})
           e == Expand[base]
           top == proof_of_work_limit
           x == retargeting_interval_seconds
<1>6. a \in Nat /\ b \in Nat
  BY <1>1, <1>5, BlockType
<1>7. Span(c, h) = span /\ span \in 0 .. maximum_timespan /\ maximum_timespan \in Nat
  <2>1. Span(c, h) = limit(floored_subtract(a, b), minimum_timespan, maximum_timespan)
    BY <1>5 DEF Span
  <2> HIDE DEF a, b
  <2> QED BY <1>6, <2>1, SpanIs
<1>8. top \in DOMAIN Expand /\ Expand[top] \in Nat /\ x \in Nat \ {0} /\ TargetSpan \in Nat
  <2>1. top \in DOMAIN Expand
    BY NetworkConstants DEF proof_of_work_limit
  <2>2. x \in Nat \ {0}
    BY ChainConstants
  <2> QED BY <2>1, <2>2, CompactConstants
<1>9. Expand[top] * maximum_timespan < TargetSpan /\ "ltc_retarget_overflow_patch" \notin forks
  BY DEF Exact, proof_of_work_limit, forks
<1> DEFINE result == (e * span) \div x
<1>10. Retargeted(base, span) = IF result > Expand[top] THEN top ELSE compress(result)
  <2>1. ~patch_timewarp(e)
    BY <1>9 DEF patch_timewarp
  <2> DEFINE r == (((((e \div 1) * span) % TargetSpan) \div x) * 1) % TargetSpan
  <2>2. Retargeted(base, span) = IF r > Expand[top] THEN top ELSE compress(r)
    BY <2>1 DEF Retargeted
  <2>3. r = result
    <3> HIDE DEF e, span, x, top, base
    <3>1. e \in Nat /\ e <= Expand[top] /\ span \in Nat /\ span <= maximum_timespan
      BY <1>4, <1>7, <1>8 DEF e, top
    <3> DEFINE m == Expand[top]
               t == maximum_timespan
    <3>2. m \in Nat /\ t \in Nat /\ x \in Nat \ {0} /\ e <= m /\ span <= t /\ m * t < TargetSpan
      BY <1>7, <1>8, <1>9, <3>1
    <3> HIDE DEF m, t, r, result
    <3>3. Wrapped(e, span, x) = (e * span) \div x
      BY <3>1, <3>2, ExactTarget, ZenonT(60)
    <3> QED BY <3>3, Zenon DEF r, result, Wrapped
  <2> HIDE DEF r, result
  <2> QED BY <2>2, <2>3
<1>11. result \in Nat
  <2> HIDE DEF e, span, x, top, base
  <2>1. e \in Nat /\ span \in Nat
    BY <1>4, <1>7, <1>8 DEF e, top
  <2>2. e * span \in Nat
    BY <2>1
  <2> DEFINE y == e * span
  <2>3. y \in Nat
    BY <2>2
  <2>4. result = y \div x
    OBVIOUS
  <2> HIDE DEF y, result
  <2>5. y \div x \in Nat
    BY <1>8, <2>3, Remainder
  <2> QED BY <2>4, <2>5
<1>12. RetargetReference(c, h) =
            Max({q \in DOMAIN Expand : Expand[q] <= result /\ Expand[q] <= Expand[top]})
  BY Zenon DEF RetargetReference
<1> HIDE DEF result, span, base, top
<1> QED
  BY <1>3, <1>7, <1>8, <1>10, <1>11, <1>12, CompactLimit

LEMMA WorkExact ==
    ASSUME NEW c \in Seq(HeaderSet), NEW h \in Nat \ {0}, Top(c) \in Nat, h - 1 <= Top(c),
           GoodBits(c), settings \in Networks, Exact(settings), NEW time \in 0 .. MaxTime
    PROVE  WorkAt(c, h, time) = WorkReference(c, h, time)
<1>1. h - 1 \in 0 .. Top(c) /\ h - 1 \in Nat /\ h # 0
  OBVIOUS
<1>2. Expand[Block(c, h - 1).bits] # 0
  <2>1. Expand[Block(c, h - 1).bits] \in 1 .. Expand[proof_of_work_limit]
    BY <1>1 DEF GoodBits
  <2> QED BY <2>1
<1>3. is_retarget_height(h) <=> h % retargeting_interval = 0
  BY DEF is_retarget_height, retarget_distance
<1>4. CASE "retarget" \notin forks
  <2>1. Block(c, h - 1).bits = proof_of_work_limit
    BY <1>1, <1>4 DEF GoodBits
  <2> QED BY <1>1, <1>2, <1>4, <2>1 DEF WorkAt, WorkReference, Genesis
<1>5. CASE "retarget" \in forks /\ is_retarget_height(h)
  <2>1. Retargeted(BaseBits(c, h), Span(c, h)) = RetargetReference(c, h)
    BY <1>5, RetargetExact
  <2> QED BY <1>1, <1>2, <1>3, <1>5, <2>1 DEF WorkAt, WorkReference
<1>6. CASE "retarget" \in forks /\ ~is_retarget_height(h)
  <2> DEFINE s == PeriodStart(h - 1)
  <2>1. s = PeriodStart(h) /\ s \in 0 .. (h - 1)
    BY <1>6, SearchEnds
  <2>2. CASE "difficult" \in forks
    <3>1. h - 1 \in s .. (h - 1)
      BY <1>1, <2>1
    <3>2. Block(c, h - 1).bits = Block(c, s).bits
      BY <1>1, <1>6, <2>2, <3>1 DEF GoodBits
    <3> QED BY <1>1, <1>2, <1>3, <1>6, <2>1, <2>2, <3>2 DEF WorkAt, WorkReference
  <2>3. CASE "difficult" \notin forks
    <3>1. Block(c, Last(c, h)).bits = Block(c, s).bits
      BY <1>6, LastInPeriod
    <3> DEFINE last == TimeAt(c, h - 1)
               late == 2 * block_spacing_seconds
    <3>2. last \in 0 .. MaxTime
      BY <1>1, BlockType
    <3>3. late \in Nat /\ MaxTime \in Nat
      BY ChainConstants
    <3>4. time > ceilinged_add(last, late) <=> time - last > late
      <4> HIDE DEF last, late
      <4> QED BY <3>2, <3>3 DEF ceilinged_add
    <3> QED BY <1>1, <1>2, <1>3, <1>6, <2>1, <2>3, <3>1, <3>4 DEF WorkAt, WorkReference
  <2> QED BY <2>2, <2>3
<1> QED
  BY <1>4, <1>5, <1>6

\* A header with the bits that are required of it keeps the bits of the chain.
LEMMA BitsAppended ==
    ASSUME NEW c \in Seq(HeaderSet), Top(c) \in Nat, GoodBits(c), NEW header \in HeaderSet,
           check(header), NEW time, header.bits = WorkReference(c, Top(c) + 1, time)
    PROVE  GoodBits(Append(c, header))
<1> DEFINE e == Append(c, header)
           h == Top(c) + 1
<1>1. /\ Top(e) = h /\ Block(e, h) = header
      /\ \A j \in 0 .. Top(c) : Block(e, j) = Block(c, j)
  BY BelowAppended
<1>2. h \in Nat \ {0} /\ h - 1 = Top(c)
  OBVIOUS
<1> HIDE DEF e
<1>3. ASSUME NEW j \in 0 .. Top(c)
      PROVE  /\ Block(e, j).bits \in DOMAIN Expand
             /\ Expand[Block(e, j).bits] \in 1 .. Expand[proof_of_work_limit]
             /\ "retarget" \notin forks => Block(e, j).bits = proof_of_work_limit
             /\ "retarget" \in forks =>
                \A i \in PeriodStart(j) .. j :
                    \/ Block(e, i).bits = Block(e, PeriodStart(j)).bits
                    \/ "difficult" \notin forks /\ Block(e, i).bits = proof_of_work_limit
  <2>1. j \in Nat
    OBVIOUS
  <2>2. PeriodStart(j) \in 0 .. j
    BY <2>1, StartOfPeriod
  <2>3. \A i \in PeriodStart(j) .. j : i \in 0 .. Top(c)
    BY <2>2
  <2>4. PeriodStart(j) \in 0 .. Top(c)
    BY <2>2
  <2> QED BY <1>1, <2>3, <2>4 DEF GoodBits
<1>4. header.bits \in DOMAIN Expand /\ Expand[header.bits] \in 1 .. Expand[proof_of_work_limit]
  BY DEF HeaderSet, check
<1>5. "retarget" \notin forks => header.bits = proof_of_work_limit
  BY DEF WorkReference, Genesis
<1>6. ASSUME "retarget" \in forks, NEW i \in PeriodStart(h) .. h
      PROVE  \/ Block(e, i).bits = Block(e, PeriodStart(h)).bits
             \/ "difficult" \notin forks /\ Block(e, i).bits = proof_of_work_limit
  <2>1. CASE is_retarget_height(h)
    <3>1. h % retargeting_interval = 0
      BY <2>1 DEF is_retarget_height, retarget_distance
    <3>2. PeriodStart(h) = h
      BY <1>2, <3>1 DEF PeriodStart
    <3>3. i = h
      BY <1>2, <3>2
    <3> QED BY <3>2, <3>3
  <2>2. CASE ~is_retarget_height(h)
    <3> DEFINE s == PeriodStart(h)
    <3>1. s = PeriodStart(Top(c)) /\ s \in 0 .. Top(c)
      <4>1. /\ is_retarget_height(PeriodStart(h - 1)) /\ PeriodStart(h - 1) \in 0 .. (h - 1)
            /\ ~is_retarget_height(h) => PeriodStart(h) = PeriodStart(h - 1)
        <5> HIDE DEF h
        <5> QED BY <1>2, SearchEnds
      <4> HIDE DEF h
      <4> QED BY <1>2, <2>2, <4>1
    <3>2. Block(e, s) = Block(c, s)
      BY <1>1, <3>1
    <3>3. CASE i = h
      <4>1. ~(h % retargeting_interval = 0)
        BY <2>2 DEF is_retarget_height, retarget_distance
      <4>2. \/ header.bits = Block(c, s).bits
            \/ "difficult" \notin forks /\ header.bits = proof_of_work_limit
        BY <1>6, <4>1 DEF WorkReference
      <4> QED BY <1>1, <3>2, <3>3, <4>2
    <3>4. CASE i # h
      <4>1. i \in s .. Top(c) /\ i \in 0 .. Top(c) /\ Top(c) \in 0 .. Top(c)
        BY <1>2, <3>1, <3>4
      <4>2. \/ Block(c, i).bits = Block(c, s).bits
            \/ "difficult" \notin forks /\ Block(c, i).bits = proof_of_work_limit
        BY <1>6, <3>1, <4>1 DEF GoodBits
      <4> QED BY <1>1, <3>2, <4>1, <4>2
    <3> QED BY <3>3, <3>4
  <2> QED BY <2>1, <2>2
<1>7. \A j \in 0 .. h : j = h \/ j \in 0 .. Top(c)
  OBVIOUS
<1> HIDE DEF h
<1>8. GoodBits(e)
  BY <1>1, <1>3, <1>4, <1>5, <1>6, <1>7 DEF GoodBits
<1> QED
  BY <1>8 DEF e

TimeInv == data.timestamp.self \in 0 .. MaxTime

LEMMA BitsSettled ==
    ASSUME settings' = settings, GoodBits(chain')
    PROVE  GoodBits(chain)'
<1>1. forks' = forks /\ proof_of_work_limit' = proof_of_work_limit
  BY DEF forks, proof_of_work_limit
<1> QED
  BY <1>1 DEF GoodBits, Top, Block, PeriodStart, retargeting_interval

LEMMA JoinedBits ==
    ASSUME ChainInv, GoodBits(chain), Exact(settings), NEW pool, NEW hash, NEW header \in HeaderSet,
           StateOf(chain, pool, Top(chain) + 1), Join(header, Apply(pool, header, hash))
    PROVE  GoodBits(chain)' /\ TimeInv'
<1> DEFINE h == Top(chain) + 1
           d == Apply(pool, header, hash)
<1>1. Top(chain) \in Nat /\ chain \in Seq(HeaderSet) /\ settings \in Networks
  BY Heights DEF ChainInv
<1>2. StateOf(chain, d, h)
  BY AppliedState
<1>3. d.timestamp.self = header.timestamp /\ header.timestamp \in 0 .. MaxTime
  BY DEF Apply, HeaderSet
<1>4. ~Warped
  BY DEF Warped, Exact, forks
<1>5. /\ check(header) /\ header.bits = work_required(d)
      /\ settings' = settings /\ chain' = Append(chain, header) /\ data' = d
  BY DEF Join, accept, context
<1>6. h \in Nat \ {0} /\ h \in Nat /\ h - 1 <= Top(chain)
  BY <1>1
<1> HIDE DEF d, h
<1>7. work_required(d) = WorkAt(chain, h, header.timestamp)
  BY <1>2, <1>3, <1>4, <1>6, WorkRead
<1>8. WorkAt(chain, h, header.timestamp) = WorkReference(chain, h, header.timestamp)
  BY <1>1, <1>3, <1>6, WorkExact
<1>9. GoodBits(chain')
  <2>1. header.bits = WorkReference(chain, Top(chain) + 1, header.timestamp)
    BY <1>5, <1>7, <1>8 DEF h
  <2> QED BY <1>1, <1>5, <2>1, BitsAppended
<1> QED
  BY <1>3, <1>5, <1>9, BitsSettled DEF TimeInv

LEMMA BitsStep ==
    ASSUME ChainInv, GoodBits(chain), TimeInv, Exact(settings), [Next]_vars
    PROVE  GoodBits(chain)' /\ TimeInv'
<1>1. CASE Header
  <2>1. PICK header \in Offered : Join(header, to_header(data, header))
                                    /\ StateOf(chain, to_pool(data), Top(chain) + 1)
    BY <1>1, HeaderFollows
  <2>2. header \in HeaderSet
    BY OfferedHeaders
  <2> QED BY <2>1, <2>2, JoinedBits DEF to_header
<1>2. CASE PoolBlock
  <2>1. PICK header \in Offered : Join(header, to_block(data, header))
                                    /\ StateOf(chain, data, Top(chain) + 1)
    BY <1>2, PoolBlockFollows
  <2>2. header \in HeaderSet
    BY OfferedHeaders
  <2> QED BY <2>1, <2>2, JoinedBits DEF to_block
<1>3. CASE Pool
  <2>1. settings' = settings /\ chain' = chain /\ data'.timestamp.self = data.timestamp.self
    BY <1>3 DEF Pool, to_pool
  <2> QED BY <2>1, BitsSettled DEF TimeInv
<1>4. CASE Restart
  <2>1. settings' = settings /\ chain' = chain
        /\ data'.timestamp.self = Block(chain, Top(chain)).timestamp
    BY <1>4 DEF Restart, Populate
  <2>2. Top(chain) \in 0 .. Top(chain) /\ chain \in Seq(HeaderSet)
    BY Heights DEF ChainInv
  <2>3. TimeAt(chain, Top(chain)) \in 0 .. MaxTime
    BY <2>2, BlockType
  <2> QED BY <2>1, <2>3, BitsSettled DEF TimeInv, TimeAt
<1>5. CASE UNCHANGED vars
  <2>1. settings' = settings /\ chain' = chain /\ data' = data
    BY <1>5 DEF vars
  <2> QED BY <2>1, BitsSettled DEF TimeInv
<1> QED
  BY <1>1, <1>2, <1>3, <1>4, <1>5 DEF Next

LEMMA BitsStart ==
    ASSUME Init
    PROVE  GoodBits(chain) /\ TimeInv
<1>1. ChainInv
  BY ChainStarts
<1>2. Top(chain) = 0 /\ Block(chain, 0) = Genesis /\ settings \in Networks
      /\ chain \in Seq(HeaderSet)
  BY <1>1 DEF Init, Top, ChainInv
<1>3. Genesis.bits = proof_of_work_limit
  BY DEF Genesis
<1>4. proof_of_work_limit \in DOMAIN Expand /\ Expand[proof_of_work_limit] \in Nat \ {0}
  <2>1. proof_of_work_limit \in DOMAIN Expand /\ proof_of_work_limit # 0
    BY <1>2, NetworkConstants DEF proof_of_work_limit
  <2>2. 0 < proof_of_work_limit
    BY <2>1, CompactConstants
  <2> QED BY <2>1, <2>2, CompactConstants
<1>5. PeriodStart(0) = 0
  <2>1. PeriodStart(0) \in 0 .. 0
    BY StartOfPeriod
  <2> QED BY <2>1
<1>6. \A j \in 0 .. 0 : j = 0
  OBVIOUS
<1>7. GoodBits(chain)
  BY <1>2, <1>3, <1>4, <1>5, <1>6 DEF GoodBits
<1>8. TimeInv
  <2>1. data.timestamp.self = TimeAt(chain, 0)
    BY <1>2 DEF Init, Populate, TimeAt
  <2>2. 0 \in 0 .. Top(chain)
    BY <1>2
  <2> QED BY <1>2, <2>1, <2>2, BlockType DEF TimeInv
<1> QED
  BY <1>7, <1>8

\* The work that is required of the next block, found in windows that were pushed
\* and popped, is what the whole chain says, for any lengths of periods and chains
\* and any timestamps; without litecoin's patches, of which the one against overflow
\* rounds and the other disagrees with a populated state (chain_warp_restart).
THEOREM WorkFollows ==
    ASSUME \A network \in Networks : Exact(network)
    PROVE  Spec => []WorkFollowsChain
<1> DEFINE I == ChainInv /\ GoodBits(chain) /\ TimeInv
<1>1. Init => I
  BY ChainStarts, BitsStart
<1>2. I /\ [Next]_vars => I'
  <2> SUFFICES ASSUME ChainInv, GoodBits(chain), TimeInv, [Next]_vars PROVE I'
    OBVIOUS
  <2>1. Exact(settings)
    BY DEF ChainInv
  <2> QED BY <2>1, ChainStep, BitsStep
<1>3. I => WorkFollowsChain
  <2> SUFFICES ASSUME ChainInv, GoodBits(chain), TimeInv, data.height > 0
               PROVE  work_required(data) =
                        WorkReference(chain, data.height, data.timestamp.self)
    BY DEF WorkFollowsChain
  <2>1. Exact(settings) /\ settings \in Networks /\ chain \in Seq(HeaderSet)
    BY DEF ChainInv
  <2>2. ~Warped
    BY <2>1 DEF Warped, Exact, forks
  <2> DEFINE h == data.height
  <2>3. h = Height /\ h \in Nat \ {0} /\ h \in Nat /\ Top(chain) \in Nat /\ h - 1 <= Top(chain)
    BY Heights DEF Height
  <2>4. StateOf(chain, data, h)
    BY <2>3 DEF ChainInv
  <2>5. data.timestamp.self \in 0 .. MaxTime
    BY DEF TimeInv
  <2> HIDE DEF h
  <2>6. work_required(data) = WorkAt(chain, h, data.timestamp.self)
    BY <2>2, <2>3, <2>4, WorkRead
  <2>7. WorkAt(chain, h, data.timestamp.self) = WorkReference(chain, h, data.timestamp.self)
    BY <2>1, <2>3, <2>5, WorkExact
  <2> QED BY <2>6, <2>7 DEF h
<1> QED
  BY <1>1, <1>2, <1>3, PTL DEF Spec

-----------------------------------------------------------------------------
(* Median time past. *)

Sorts(p, s, n) == \A i, j \in 1 .. n : i < j => s[p[i]] <= s[p[j]]

\* Numbers can be arranged in order: each goes after those that are not greater.
LEMMA SortExists ==
    ASSUME NEW n \in Nat, NEW s \in [1 .. n -> Int]
    PROVE  \E p \in Arrangements(n) : Sorts(p, s, n)
<1> DEFINE X == {m \in Nat : m <= n => \E p \in Arrangements(m) : Sorts(p, s, m)}
<1>1. 0 \in X
  <2> DEFINE p == [i \in 1 .. 0 |-> i]
  <2>1. p \in Arrangements(0) /\ Sorts(p, s, 0)
    BY DEF Arrangements, Sorts
  <2> HIDE DEF p
  <2> QED BY <2>1
<1>2. ASSUME NEW m \in Nat, m \in X PROVE m + 1 \in X
  <2> SUFFICES ASSUME m + 1 <= n
               PROVE  \E p \in Arrangements(m + 1) : Sorts(p, s, m + 1)
    OBVIOUS
  <2>1. m <= n
    OBVIOUS
  <2>2. PICK p \in Arrangements(m) : Sorts(p, s, m)
    BY <1>2, <2>1
  <2>3. p \in [1 .. m -> 1 .. m] /\ \A i, j \in 1 .. m : p[i] = p[j] => i = j
    BY DEF Arrangements
  <2> DEFINE v == s[m + 1]
             x == [i \in 1 .. m |-> s[p[i]]]
             L == {i \in 0 .. m : i = 0 \/ x[i] <= v}
             a == Max(L)
  <2>4. v \in Int /\ x \in [1 .. m -> Int]
    BY <2>1, <2>3, SMTT(30)
  <2>5. \A i, j \in 1 .. m : i < j => x[i] <= x[j]
    BY <2>2 DEF Sorts
  <2>6. a \in L /\ \A i \in L : a >= i
    <3>1. L \subseteq 0 .. m /\ L # {}
      <4>1. 0 \in L
        OBVIOUS
      <4> QED BY <4>1
    <3> HIDE DEF L
    <3> QED BY <3>1, BoundedHasGreatest
  <2> HIDE DEF a
  <2>7. a \in 0 .. m /\ (a # 0 => x[a] <= v) /\ \A i \in (a + 1) .. m : ~(x[i] <= v)
    <3>1. a \in 0 .. m /\ (a # 0 => x[a] <= v)
      BY <2>6
    <3>2. ASSUME NEW i \in (a + 1) .. m PROVE ~(x[i] <= v)
      <4>1. i \in 0 .. m /\ ~(a >= i)
        BY <3>1
      <4> QED BY <2>6, <4>1
    <3> QED BY <3>1, <3>2
  <2> DEFINE q == [i \in 1 .. (m + 1) |->
                      IF i <= a THEN p[i] ELSE IF i = a + 1 THEN m + 1 ELSE p[i - 1]]
             y == [i \in 1 .. (m + 1) |->
                      IF i <= a THEN x[i] ELSE IF i = a + 1 THEN v ELSE x[i - 1]]
  <2>8. ASSUME NEW i \in 1 .. (m + 1)
        PROVE  q[i] \in 1 .. (m + 1) /\ s[q[i]] = y[i]
    <3>1. CASE i <= a
      <4>1. i \in 1 .. m
        BY <2>7, <3>1
      <4>2. p[i] \in 1 .. m
        BY <2>3, <4>1
      <4> QED BY <3>1, <4>1, <4>2
    <3>2. CASE i = a + 1
      <4>1. ~(i <= a)
        BY <2>7, <3>2
      <4> QED BY <2>7, <3>2, <4>1
    <3>3. CASE ~(i <= a) /\ i # a + 1
      <4>1. i - 1 \in 1 .. m
        BY <2>7, <3>3
      <4>2. p[i - 1] \in 1 .. m
        BY <2>3, <4>1
      <4> QED BY <3>3, <4>1, <4>2
    <3> QED BY <3>1, <3>2, <3>3
  <2>9. ASSUME NEW i \in 1 .. (m + 1), NEW j \in 1 .. (m + 1), i < j PROVE y[i] <= y[j]
    <3> HIDE DEF x, v, q
    <3>1. a \in Nat /\ \A g \in 1 .. m : x[g] \in Int
      BY <2>4, <2>7
    <3>2. CASE j <= a
      <4>1. y[i] = x[i] /\ y[j] = x[j] /\ i \in 1 .. m /\ j \in 1 .. m
        BY <2>7, <2>9, <3>2
      <4> QED BY <2>5, <2>9, <4>1
    <3>3. CASE j = a + 1
      <4>1. y[i] = x[i] /\ y[j] = v /\ i \in 1 .. m /\ i <= a /\ a # 0 /\ a \in 1 .. m
        BY <2>7, <2>9, <3>3
      <4>2. x[i] <= x[a] /\ x[a] <= v
        BY <2>5, <2>7, <3>1, <4>1
      <4> HIDE DEF y
      <4> QED BY <2>4, <3>1, <4>1, <4>2
    <3>4. CASE j > a + 1 /\ i <= a
      <4>1. y[i] = x[i] /\ y[j] = x[j - 1] /\ i \in 1 .. m /\ j - 1 \in 1 .. m /\ i < j - 1
        BY <2>7, <2>9, <3>4
      <4> HIDE DEF y
      <4> QED BY <2>5, <4>1
    <3>5. CASE j > a + 1 /\ i = a + 1
      <4>1. y[i] = v /\ y[j] = x[j - 1] /\ j - 1 \in 1 .. m /\ j - 1 \in (a + 1) .. m
        BY <2>7, <2>9, <3>5
      <4>2. ~(x[j - 1] <= v)
        BY <2>7, <4>1
      <4>3. x[j - 1] \in Int
        BY <3>1, <4>1
      <4> HIDE DEF y
      <4> QED BY <2>4, <4>1, <4>2, <4>3
    <3>6. CASE j > a + 1 /\ i > a + 1
      <4>1. y[i] = x[i - 1] /\ y[j] = x[j - 1] /\ i - 1 \in 1 .. m /\ j - 1 \in 1 .. m
            /\ i - 1 < j - 1
        BY <2>7, <2>9, <3>6
      <4> HIDE DEF y
      <4> QED BY <2>5, <4>1
    <3> QED BY <2>7, <3>1, <3>2, <3>3, <3>4, <3>5, <3>6
  <2>10. ASSUME NEW i \in 1 .. (m + 1), NEW j \in 1 .. (m + 1), q[i] = q[j] PROVE i = j
    <3> DEFINE w == [g \in 1 .. (m + 1) |-> IF g <= a THEN g ELSE IF g = a + 1 THEN 0 ELSE g - 1]
    <3>1. ASSUME NEW g \in 1 .. (m + 1)
          PROVE  /\ w[g] \in 0 .. m
                 /\ q[g] = (IF w[g] = 0 THEN m + 1 ELSE p[w[g]])
                 /\ w[g] # 0 => p[w[g]] \in 1 .. m
      <4>1. CASE g <= a
        <5>1. g \in 1 .. m /\ w[g] = g /\ q[g] = p[g]
          BY <2>7, <4>1
        <5>2. p[g] \in 1 .. m
          BY <2>3, <5>1
        <5> HIDE DEF w, q
        <5> QED BY <5>1, <5>2
      <4>2. CASE g = a + 1
        <5>1. w[g] = 0 /\ q[g] = m + 1
          BY <2>7, <4>2
        <5> HIDE DEF w, q
        <5> QED BY <5>1
      <4>3. CASE ~(g <= a) /\ g # a + 1
        <5>1. g - 1 \in 1 .. m /\ w[g] = g - 1 /\ q[g] = p[g - 1]
          BY <2>7, <4>3
        <5>2. p[g - 1] \in 1 .. m
          BY <2>3, <5>1
        <5> HIDE DEF w, q
        <5> QED BY <5>1, <5>2
      <4> QED BY <4>1, <4>2, <4>3
    <3>2. w[i] = w[j] => i = j
      BY <2>7
    <3> HIDE DEF w, q
    <3>3. w[i] = w[j]
      <4>1. CASE w[i] = 0
        <5>1. q[i] = m + 1
          BY <3>1, <4>1
        <5>2. w[j] = 0
          <6>1. w[j] # 0 => q[j] \in 1 .. m
            BY <3>1
          <6> QED BY <2>10, <5>1, <6>1
        <5> QED BY <4>1, <5>2
      <4>2. CASE w[i] # 0
        <5>1. q[i] = p[w[i]] /\ p[w[i]] \in 1 .. m /\ w[i] \in 1 .. m
          BY <3>1, <4>2
        <5>2. w[j] # 0
          <6>1. w[j] = 0 => q[j] = m + 1
            BY <3>1
          <6> QED BY <2>10, <5>1, <6>1
        <5>3. q[j] = p[w[j]] /\ w[j] \in 1 .. m
          BY <3>1, <5>2
        <5> QED BY <2>3, <2>10, <5>1, <5>3
      <4> QED BY <4>1, <4>2
    <3> QED BY <3>2, <3>3
  <2>11. q \in [1 .. (m + 1) -> 1 .. (m + 1)]
    BY <2>8
  <2> HIDE DEF q, y
  <2>12. q \in Arrangements(m + 1)
    BY <2>10, <2>11 DEF Arrangements
  <2>13. Sorts(q, s, m + 1)
    BY <2>8, <2>9 DEF Sorts
  <2> QED BY <2>12, <2>13
<1>3. Nat \subseteq X
  <2> HIDE DEF X
  <2> QED BY <1>1, <1>2, SuccessorsFill
<1> QED
  BY <1>3

LEMMA SortCopy ==
    ASSUME NEW n \in Nat, NEW s \in [1 .. n -> Int], Len(s) = n
    PROVE  \E p \in Arrangements(n) : Sorts(p, s, n) /\ sort_copy(s) = [i \in 1 .. n |-> s[p[i]]]
<1> DEFINE p == CHOOSE p \in Arrangements(n) : Sorts(p, s, n)
<1>1. p \in Arrangements(n) /\ Sorts(p, s, n)
  BY SortExists
<1>2. sort_copy(s) = [i \in 1 .. n |-> s[p[i]]]
  <2> DEFINE r == CHOOSE r \in Arrangements(Len(s)) :
                    \A i, j \in 1 .. Len(s) : i < j => s[r[i]] <= s[r[j]]
  <2>1. r = p
    BY Zenon DEF Sorts
  <2>2. sort_copy(s) = [i \in 1 .. Len(s) |-> s[r[i]]]
    BY Zenon DEF sort_copy
  <2> HIDE DEF r, p
  <2> QED BY <2>1, <2>2
<1> HIDE DEF p
<1> QED
  BY <1>1, <1>2

\* The place of the median.
LEMMA HalfPlace ==
    ASSUME NEW n \in Nat \ {0}
    PROVE  n \div 2 \in Nat /\ n \div 2 + 1 \in 1 .. n
  OBVIOUS

Splits(time, window, median) ==
    /\ \E j \in window : time[j] = median
    /\ Cardinality({j \in window : time[j] < median}) <= Cardinality(window) \div 2
    /\ Cardinality({j \in window : time[j] <= median}) > Cardinality(window) \div 2

TimesInOrder(time, p, h, n) ==
    \A i, j \in 1 .. n : i < j => time[h - n + p[i] - 1] <= time[h - n + p[j] - 1]

\* The median of a window of heights, given the order of its times.
LEMMA MedianSplits ==
    ASSUME NEW n \in Nat \ {0}, NEW h \in Nat, n <= h, NEW time,
           \A j \in (h - n) .. (h - 1) : time[j] \in Int,
           NEW p \in Arrangements(n),
           TimesInOrder(time, p, h, n)
    PROVE  Splits(time, (h - n) .. (h - 1), time[h - n + p[n \div 2 + 1] - 1])
<1> DEFINE W == (h - n) .. (h - 1)
           f == [i \in 1 .. n |-> h - n + p[i] - 1]
           q == n \div 2 + 1
           median == time[f[q]]
           A == {j \in W : time[j] < median}
           B == {j \in W : time[j] <= median}
<1>1. p \in [1 .. n -> 1 .. n] /\ \A i, j \in 1 .. n : p[i] = p[j] => i = j
  BY DEF Arrangements
<1>2. \A i \in 1 .. n : f[i] \in W
  <2>1. \A i \in 1 .. n : f[i] = h - n + p[i] - 1 /\ p[i] \in 1 .. n
    BY <1>1, Zenon
  <2>2. \A v \in 1 .. n : h - n + v - 1 \in W
    OBVIOUS
  <2> HIDE DEF f, W
  <2> QED BY <2>1, <2>2
<1>3. \A i, j \in 1 .. n : f[i] = f[j] => i = j
  <2>1. ASSUME NEW i \in 1 .. n, NEW j \in 1 .. n, f[i] = f[j] PROVE i = j
    <3>1. p[i] \in 1 .. n /\ p[j] \in 1 .. n
      BY <1>1
    <3>2. p[i] = p[j]
      BY <2>1, <3>1
    <3> QED BY <1>1, <3>2
  <2> QED BY <2>1
<1>4. \A i, j \in 1 .. n : i < j => time[f[i]] <= time[f[j]]
  <2>1. \A i \in 1 .. n : f[i] = h - n + p[i] - 1
    OBVIOUS
  <2> HIDE DEF f
  <2> QED BY <2>1 DEF TimesInOrder
<1>5. f \in [1 .. n -> W]
  BY <1>2
<1>6. q \in 1 .. n /\ q - 1 = n \div 2 /\ q \in Nat /\ n \div 2 \in Nat
  BY HalfPlace
<1>7. h - n + p[q] - 1 = f[q]
  BY <1>6
<1> HIDE DEF f, q
<1>8. IsFiniteSet(W) /\ Cardinality(W) = n
  <2>1. h - n \in Int /\ h - 1 \in Int /\ ~(h - n > h - 1) /\ (h - 1) - (h - n) + 1 = n
    OBVIOUS
  <2> QED BY <2>1, FS_Interval
<1>9. IsFiniteSet(1 .. n) /\ Cardinality(1 .. n) = n /\ IsFiniteSet(1 .. q)
      /\ Cardinality(1 .. q) = q /\ IsFiniteSet(1 .. (q - 1)) /\ Cardinality(1 .. (q - 1)) = q - 1
  <2>1. 1 \in Int /\ n \in Int /\ q \in Int /\ q - 1 \in Int /\ ~(1 > n) /\ ~(1 > q)
        /\ (IF 1 > q - 1 THEN 0 ELSE (q - 1) - 1 + 1) = q - 1
        /\ (IF 1 > q THEN 0 ELSE q - 1 + 1) = q /\ (IF 1 > n THEN 0 ELSE n - 1 + 1) = n
    BY <1>6
  <2>2. IsFiniteSet(1 .. n) /\ Cardinality(1 .. n) = n
    BY <2>1, FS_Interval
  <2>3. IsFiniteSet(1 .. q) /\ Cardinality(1 .. q) = q
    BY <2>1, FS_Interval
  <2> DEFINE r == q - 1
  <2>4. r \in Int /\ (IF 1 > r THEN 0 ELSE r - 1 + 1) = r
    BY <2>1
  <2> HIDE DEF r
  <2>5. IsFiniteSet(1 .. r) /\ Cardinality(1 .. r) = r
    BY <2>4, FS_Interval
  <2> QED BY <2>2, <2>3, <2>5 DEF r
<1> HIDE DEF W
<1>10. f \in Surjection(1 .. n, W)
  <2>1. f \in Injection(1 .. n, W)
    BY <1>3, <1>5 DEF Injection, IsInjective
  <2> QED BY <1>8, <1>9, <2>1, FS_Injection
<1>11. \A j \in W : \E i \in 1 .. n : f[i] = j
  BY <1>10 DEF Surjection
<1>12. IsFiniteSet(A) /\ IsFiniteSet(B) /\ Cardinality(A) \in Nat /\ Cardinality(B) \in Nat
  <2>1. A \in SUBSET W /\ B \in SUBSET W
    OBVIOUS
  <2> HIDE DEF A, B
  <2>2. IsFiniteSet(A) /\ IsFiniteSet(B)
    BY <1>8, <2>1, FS_Subset
  <2> QED BY <2>2, FS_CardinalityType
<1>13. \A i \in 1 .. n : time[f[i]] \in Int
  BY <1>5 DEF W
<1>14. Cardinality(A) <= n \div 2
  <2> DEFINE I == {i \in 1 .. n : time[f[i]] < median}
             g == [i \in I |-> f[i]]
  <2>1. I \subseteq 1 .. (q - 1)
    <3> SUFFICES ASSUME NEW i \in 1 .. n, time[f[i]] < median PROVE i \in 1 .. (q - 1)
      OBVIOUS
    <3>1. time[f[i]] \in Int /\ time[f[q]] \in Int
      BY <1>6, <1>13
    <3>2. i # q
      BY <3>1
    <3>3. ~(q < i)
      <4>1. q < i => time[f[q]] <= time[f[i]]
        BY <1>4, <1>6
      <4> QED BY <3>1, <4>1
    <3> QED BY <1>6, <3>2, <3>3
  <2> HIDE DEF I
  <2>2. I \in SUBSET (1 .. (q - 1))
    BY <2>1, Zenon
  <2>3. IsFiniteSet(I) /\ Cardinality(I) <= q - 1
    <3>1. IsFiniteSet(1 .. (q - 1)) /\ Cardinality(1 .. (q - 1)) = q - 1
      BY <1>9
    <3>2. IsFiniteSet(I) /\ Cardinality(I) <= Cardinality(1 .. (q - 1))
      BY <2>2, <3>1, FS_Subset, Zenon
    <3> QED BY <3>1, <3>2, Zenon
  <2>4. g \in Surjection(I, A)
    <3>1. \A i \in I : g[i] \in A
      BY <1>5 DEF I
    <3>2. \A j \in A : \E i \in I : g[i] = j
      <4> SUFFICES ASSUME NEW j \in W, time[j] < median PROVE \E i \in I : g[i] = j
        OBVIOUS
      <4>1. PICK i \in 1 .. n : f[i] = j
        BY <1>11
      <4>2. i \in I
        BY <4>1 DEF I
      <4> QED BY <4>1, <4>2
    <3> HIDE DEF A
    <3>3. g \in [I -> A]
      BY <3>1
    <3> HIDE DEF g
    <3> QED BY <3>2, <3>3 DEF Surjection
  <2> HIDE DEF g, A
  <2>5. Cardinality(A) <= Cardinality(I)
    BY <2>3, <2>4, FS_Surjection
  <2>6. Cardinality(I) \in Nat
    BY <2>3, FS_CardinalityType
  <2> QED BY <1>6, <1>12, <2>3, <2>5, <2>6
<1>15. Cardinality(B) > n \div 2
  <2> DEFINE g == [i \in 1 .. q |-> f[i]]
  <2>1. \A i \in 1 .. q : i \in 1 .. n
    BY <1>6
  <2>2. \A i \in 1 .. q : g[i] \in B
    <3> SUFFICES ASSUME NEW i \in 1 .. q PROVE f[i] \in B
      OBVIOUS
    <3>1. i \in 1 .. n /\ (i < q \/ i = q)
      BY <1>6, <2>1
    <3>2. time[f[i]] <= time[f[q]]
      <4>1. CASE i < q
        BY <1>4, <1>6, <3>1, <4>1
      <4>2. CASE i = q
        <5>1. time[f[q]] \in Int
          BY <1>6, <1>13
        <5> QED BY <4>2, <5>1
      <4> QED BY <3>1, <4>1, <4>2
    <3> QED BY <1>5, <3>1, <3>2
  <2>3. \A i, j \in 1 .. q : g[i] = g[j] => i = j
    BY <1>3, <2>1
  <2> HIDE DEF B
  <2>4. g \in [1 .. q -> B]
    BY <2>2
  <2> HIDE DEF g
  <2>5. g \in Injection(1 .. q, B)
    BY <2>3, <2>4 DEF Injection, IsInjective
  <2>6. Cardinality(1 .. q) <= Cardinality(B)
    BY <1>12, <2>5, FS_Injection
  <2> QED BY <1>6, <1>9, <1>12, <2>6
<1>16. \E j \in W : time[j] = median
  BY <1>5, <1>6
<1> HIDE DEF median
<1>17. /\ Cardinality(A) <= Cardinality(W) \div 2
       /\ Cardinality(B) > Cardinality(W) \div 2
  <2> HIDE DEF A, B
  <2> QED BY <1>8, <1>14, <1>15
<1> QED
  BY <1>7, <1>16, <1>17, Zenon DEF W, median, q, Splits

\* The median of a state splits the blocks below its height.
LEMMA MedianOf ==
    ASSUME NEW c \in Seq(HeaderSet), NEW d, NEW h \in Nat \ {0}, Top(c) \in Nat, h - 1 <= Top(c),
           StateOf(c, d, h)
    PROVE  LET window == Max({0, h - median_time_past_interval}) .. (h - 1)
               median == median_time_past(d)
           IN  /\ \E j \in window : TimeAt(c, j) = median
               /\ Cardinality({j \in window : TimeAt(c, j) < median}) <= Cardinality(window) \div 2
               /\ Cardinality({j \in window : TimeAt(c, j) <= median}) > Cardinality(window) \div 2
<1> DEFINE n == timestamp_count(h)
           s == TimesBelow(c, h, n)
           W == (h - n) .. (h - 1)
           time == [j \in W |-> TimeAt(c, j)]
<1>1. /\ n = IF h <= median_time_past_interval THEN h ELSE median_time_past_interval
      /\ median_time_past_interval \in Nat /\ median_time_past_interval >= 2
  BY Counts, ChainConstants
<1> HIDE DEF n
<1>2. n \in Nat \ {0} /\ n <= h /\ h \in Nat /\ n \in Nat
  BY <1>1
<1>3. Max({0, h - median_time_past_interval}) = h - n
  <2>1. h - median_time_past_interval \in Int /\ 0 \in Int
    BY <1>1
  <2>2. Max({0, h - median_time_past_interval}) =
            IF 0 >= h - median_time_past_interval THEN 0 ELSE h - median_time_past_interval
    BY <2>1, GreaterOf
  <2> QED BY <1>1, <2>2
<1>4. \A j \in W : TimeAt(c, j) \in Int /\ time[j] = TimeAt(c, j)
  <2>1. \A j \in W : j \in 0 .. Top(c)
    BY <1>2
  <2>2. \A j \in W : TimeAt(c, j) \in 0 .. MaxTime
    BY <2>1, BlockType
  <2> QED BY <2>2
<1>5. \A i \in 1 .. n : h - n + i - 1 \in W /\ s[i] = time[h - n + i - 1]
  <2>1. \A i \in 1 .. n : h - n + i - 1 \in W
    BY <1>2
  <2>2. \A i \in 1 .. n : s[i] = TimeAt(c, h - n + i - 1)
    BY DEF TimesBelow, TimeAt
  <2> HIDE DEF s, W, time
  <2> QED BY <1>4, <2>1, <2>2
<1>6. s \in [1 .. n -> Int] /\ Len(s) = n
  <2>1. \A i \in 1 .. n : s[i] \in Int
    <3> HIDE DEF s, W, time
    <3> QED BY <1>4, <1>5
  <2>2. s = [i \in 1 .. n |-> s[i]] /\ Len(s) = n
    BY <1>2 DEF TimesBelow
  <2> HIDE DEF s
  <2> QED BY <2>1, <2>2
<1> HIDE DEF s, W, time
<1>7. PICK p \in Arrangements(n) : Sorts(p, s, n) /\ sort_copy(s) = [i \in 1 .. n |-> s[p[i]]]
  BY <1>2, <1>6, SortCopy
<1>8. p \in [1 .. n -> 1 .. n]
  BY DEF Arrangements
<1> DEFINE times == sort_copy(s)
           q == n \div 2 + 1
<1>9. Len(times) = n /\ times # <<>> /\ \A i \in 1 .. n : times[i] = time[h - n + p[i] - 1]
  <2>1. Len(times) = n
    BY <1>2, <1>7
  <2>2. times # <<>>
    <3>1. Len(<<>>) = 0
      OBVIOUS
    <3> HIDE DEF times
    <3> QED BY <1>2, <2>1, <3>1
  <2>3. \A i \in 1 .. n : p[i] \in 1 .. n /\ times[i] = s[p[i]]
    BY <1>7, <1>8
  <2> HIDE DEF times
  <2> QED BY <1>5, <2>1, <2>2, <2>3
<1>10. d.timestamp.ordered = s
  BY DEF StateOf, s, n
<1>11. q \in 1 .. n
  BY <1>2, HalfPlace
<1>12. median_time_past(d) = time[h - n + p[q] - 1]
  <2>1. median_time_past(d) = IF times = <<>> THEN 0 ELSE times[Len(times) \div 2 + 1]
    BY <1>10 DEF median_time_past
  <2>2. median_time_past(d) = times[q]
    <3> HIDE DEF times
    <3> QED BY <1>9, <2>1
  <2> HIDE DEF times, q
  <2> QED BY <1>9, <1>11, <2>2
<1>13. TimesInOrder(time, p, h, n)
  <2>1. \A i, j \in 1 .. n : i < j => s[p[i]] <= s[p[j]]
    BY <1>7 DEF Sorts
  <2>2. \A i \in 1 .. n : p[i] \in 1 .. n
    BY <1>8
  <2>3. \A i \in 1 .. n : s[p[i]] = time[h - n + p[i] - 1]
    BY <1>5, <2>2
  <2> QED BY <2>1, <2>3 DEF TimesInOrder
<1>14. \A j \in (h - n) .. (h - 1) : time[j] \in Int
  BY <1>4 DEF W
<1> DEFINE median == time[h - n + p[n \div 2 + 1] - 1]
<1>15. Splits(time, W, median)
  BY <1>2, <1>13, <1>14, MedianSplits DEF W
<1>16. median = median_time_past(d)
  BY <1>12
<1> HIDE DEF median
<1>17. /\ \E j \in W : TimeAt(c, j) = median
       /\ {j \in W : TimeAt(c, j) < median} = {j \in W : time[j] < median}
       /\ {j \in W : TimeAt(c, j) <= median} = {j \in W : time[j] <= median}
  <2>1. \E j \in W : time[j] = median
    BY <1>15 DEF Splits
  <2> QED BY <1>4, <2>1
<1>18. /\ Cardinality({j \in W : time[j] < median}) <= Cardinality(W) \div 2
       /\ Cardinality({j \in W : time[j] <= median}) > Cardinality(W) \div 2
  BY <1>15, Zenon DEF Splits
<1>19. Max({0, h - median_time_past_interval}) .. (h - 1) = W
  BY <1>3 DEF W
<1>20. /\ Cardinality({j \in W : TimeAt(c, j) < median}) <= Cardinality(W) \div 2
       /\ Cardinality({j \in W : TimeAt(c, j) <= median}) > Cardinality(W) \div 2
  BY <1>17, <1>18, Zenon
<1> QED
  BY <1>16, <1>17, <1>19, <1>20, Zenon

\* The median time past splits the last blocks below the state in halves, the
\* greater half including it, for windows of any length, any timestamps and
\* however the state was constructed (median_time_past on the promoted window).
THEOREM MedianFollows ==
    Spec => []MedianFollowsChain
<1>1. ChainInv => MedianFollowsChain
  <2> SUFFICES ASSUME ChainInv, data.height > 0 PROVE MedianFollowsChain
    BY DEF MedianFollowsChain
  <2> DEFINE h == data.height
  <2>1. h = Height /\ h \in Nat \ {0} /\ Top(chain) \in Nat /\ h - 1 <= Top(chain)
        /\ chain \in Seq(HeaderSet)
    BY Heights DEF Height, ChainInv
  <2>2. StateOf(chain, data, h)
    BY <2>1 DEF ChainInv
  <2> HIDE DEF h
  <2>3. LET window == Max({0, h - median_time_past_interval}) .. (h - 1)
            median == median_time_past(data)
        IN  /\ \E j \in window : TimeAt(chain, j) = median
            /\ Cardinality({j \in window : TimeAt(chain, j) < median}) <= Cardinality(window) \div 2
            /\ Cardinality({j \in window : TimeAt(chain, j) <= median}) > Cardinality(window) \div 2
    BY <2>1, <2>2, MedianOf, Zenon
  <2> QED BY <2>3, Zenon DEF MedianFollowsChain, h
<1> QED
  BY <1>1, ChainHolds, PTL
=============================================================================
