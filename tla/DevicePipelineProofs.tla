-------------------------- MODULE DevicePipelineProofs --------------------------
(***************************************************************************)
(* Proofs about Turns, for every set of callers and number of tickets, and *)
(* then about DevicePipeline, whose callers take these turns, of whatever  *)
(* numbers of chunks, and wherever driver calls fail or callers are        *)
(* canceled.                                                               *)
(***************************************************************************)
EXTENDS DevicePipeline, FiniteSetTheorems, SequenceTheorems, TLAPS

-------------------------------------------------------------------------------
(* Turns.                                                                  *)

\* The urgent callers that wait.
Crowd == Waiting \intersect UrgentCallers

\* Inductive: the count of urgent callers stays natural when it is lowered only
\* because it is the number of those that wait.
TurnsInv == TurnsTypeOK /\ Exclusive /\ UrgentCounted /\ NoLostWakeup

\* A ticket follows another within the range of tickets (next_, serving_).
LEMMA IncrementType ==
    ASSUME NEW n \in 0..(Tickets - 1)
    PROVE  Increment(n) \in 0..(Tickets - 1)
<1>1. Tickets \in Nat /\ Tickets > 0
  BY CallersAssumption, FS_CardinalityType
<1> QED
  BY <1>1 DEF Increment

\* The crowd is finite, so that it can be counted.
LEMMA CrowdFinite ==
    ASSUME TurnsTypeOK
    PROVE  IsFiniteSet(Crowd) /\ Cardinality(Crowd) \in Nat
<1>1. Crowd \in SUBSET Callers
  BY DEF Crowd, Waiting, Asleep, At
<1>2. IsFiniteSet(Crowd)
  BY <1>1, FS_Subset, CallersAssumption
<1> QED
  BY <1>2, FS_CardinalityType

\* The initial states satisfy the invariant: nobody is there (turns members).
LEMMA TurnsInitial == TurnsInit => TurnsInv
<1> SUFFICES ASSUME TurnsInit PROVE TurnsInv
  OBVIOUS
<1>1. Tickets \in Nat /\ Tickets > 0
  BY CallersAssumption, FS_CardinalityType
<1>2. Asleep = {} /\ Waiting = {} /\ At("holds") = {}
  BY DEF TurnsInit, Asleep, Waiting, At
<1>3. TurnsTypeOK
  <2>1. 0 \in Nat /\ 0 \in 0..(Tickets - 1)
    BY <1>1
  <2> QED
    BY <2>1, Zenon DEF TurnsInit, TurnsTypeOK
<1>4. Cardinality(Waiting \intersect UrgentCallers) = 0
  <2>1. Waiting \intersect UrgentCallers = {}
    BY <1>2
  <2> QED
    BY <2>1, FS_EmptySet
<1>5. Exclusive
  BY <1>2 DEF Exclusive, TurnsInit
<1> QED
  BY <1>2, <1>3, <1>4, <1>5 DEF TurnsInv, UrgentCounted, NoLostWakeup, TurnsInit

\* An urgent caller takes the turn or joins the crowd (acquire).
LEMMA UrgentKeeps ==
    ASSUME TurnsInv, NEW c \in Callers, AcquireUrgent(c)
    PROVE  TurnsInv'
<1> USE DEF TurnsInv
<1>1. c \in UrgentCallers /\ turn[c] = "out" /\ c \notin Crowd
  BY DEF AcquireUrgent, Crowd, Waiting, Asleep, At
<1>2. CASE Ready(c, 0)
  <2>1. /\ ~busy_ /\ busy_' = TRUE /\ turn' = [turn EXCEPT ![c] = "holds"]
        /\ UNCHANGED <<urgent_, next_, serving_, ticket>>
    BY <1>2 DEF AcquireUrgent, Ready
  <2>2. TurnsTypeOK'
    BY <2>1 DEF TurnsTypeOK
  <2>3. At("holds") = {} /\ At("holds")' = {c}
    BY <2>1 DEF Exclusive, At, TurnsTypeOK
  <2>4. Waiting' = Waiting
    BY <1>1, <2>1 DEF Waiting, Asleep, At, TurnsTypeOK
  <2> QED
    BY <2>1, <2>2, <2>3, <2>4 DEF Exclusive, UrgentCounted, NoLostWakeup, Ready
<1>3. CASE ~Ready(c, 0)
  <2>1. /\ busy_ /\ urgent_' = urgent_ + 1 /\ turn' = [turn EXCEPT ![c] = "asleep"]
        /\ UNCHANGED <<busy_, next_, serving_, ticket>>
    BY <1>1, <1>3 DEF AcquireUrgent, Ready, QueuedCallers, TurnsTypeOK
  <2>2. TurnsTypeOK'
    BY <2>1 DEF TurnsTypeOK
  <2>3. At("holds")' = At("holds")
    BY <1>1, <2>1 DEF At, TurnsTypeOK
  <2>4. Crowd' = Crowd \union {c}
    BY <1>1, <2>1 DEF Crowd, Waiting, Asleep, At, TurnsTypeOK
  <2>5. Cardinality(Crowd') = Cardinality(Crowd) + 1
    BY <1>1, <2>4, CrowdFinite, FS_AddElement
  <2>6. UrgentCounted'
    BY <2>1, <2>5 DEF UrgentCounted, Crowd
  <2> QED
    BY <2>1, <2>2, <2>3, <2>6 DEF Exclusive, NoLostWakeup, Ready
<1> QED
  BY <1>2, <1>3

\* A queued caller takes a ticket, and the turn or its place in line (acquire).
LEMMA QueuedKeeps ==
    ASSUME TurnsInv, NEW c \in Callers, AcquireQueued(c)
    PROVE  TurnsInv'
<1> USE DEF TurnsInv
<1>1. c \notin UrgentCallers /\ turn[c] = "out"
  BY DEF AcquireQueued, QueuedCallers
<1>2. Increment(next_) \in 0..(Tickets - 1) /\ Increment(serving_) \in 0..(Tickets - 1)
  BY IncrementType DEF TurnsTypeOK
<1>3. CASE Ready(c, next_)
  <2>1. /\ ~busy_ /\ busy_' = TRUE /\ turn' = [turn EXCEPT ![c] = "holds"]
        /\ next_' = Increment(next_) /\ serving_' = Increment(serving_)
        /\ UNCHANGED <<urgent_, ticket>>
    BY <1>3 DEF AcquireQueued, Ready
  <2>2. TurnsTypeOK'
    BY <1>2, <2>1 DEF TurnsTypeOK
  <2>3. At("holds") = {} /\ At("holds")' = {c}
    BY <2>1 DEF Exclusive, At, TurnsTypeOK
  <2>4. Waiting' = Waiting
    BY <1>1, <2>1 DEF Waiting, Asleep, At, TurnsTypeOK
  <2> QED
    BY <2>1, <2>2, <2>3, <2>4 DEF Exclusive, UrgentCounted, NoLostWakeup, Ready
<1>4. CASE ~Ready(c, next_)
  <2>1. /\ turn' = [turn EXCEPT ![c] = "asleep"]
        /\ next_' = Increment(next_) /\ ticket' = [ticket EXCEPT ![c] = next_]
        /\ UNCHANGED <<urgent_, serving_, busy_>>
    BY <1>4 DEF AcquireQueued
  <2>2. TurnsTypeOK'
    BY <1>2, <2>1 DEF TurnsTypeOK
  <2>3. At("holds")' = At("holds") /\ At("notifies")' = At("notifies")
    BY <1>1, <2>1 DEF At, TurnsTypeOK
  <2>4. Waiting' \intersect UrgentCallers = Waiting \intersect UrgentCallers
    BY <1>1, <2>1 DEF Waiting, Asleep, At, TurnsTypeOK
  <2>5. UrgentCounted'
    BY <2>1, <2>4 DEF UrgentCounted
  <2>6. NoLostWakeup'
    <3> SUFFICES ASSUME NEW d \in Asleep', Ready(d, ticket[d])'
                 PROVE  At("notifies")' # {}
      BY DEF NoLostWakeup
    <3>1. d # c
      BY <1>4, <2>1 DEF Ready, TurnsTypeOK
    <3>2. d \in Asleep /\ Ready(d, ticket[d])
      BY <2>1, <3>1 DEF Asleep, At, Ready, TurnsTypeOK
    <3> QED
      BY <2>3, <3>2 DEF NoLostWakeup
  <2> QED
    BY <2>1, <2>2, <2>3, <2>5, <2>6 DEF Exclusive
<1> QED
  BY <1>3, <1>4

\* A caller that wakes takes the turn, out of the crowd if it is urgent, or
\* sleeps again (acquire).
LEMMA RecheckKeeps ==
    ASSUME TurnsInv, NEW c \in Callers, Recheck(c)
    PROVE  TurnsInv'
<1> USE DEF TurnsInv
<1>1. turn[c] = "awake" /\ c \in Waiting
  BY DEF Recheck, Waiting, At
<1>2. Increment(serving_) \in 0..(Tickets - 1)
  BY IncrementType DEF TurnsTypeOK
<1>3. CASE Ready(c, ticket[c])
  <2>1. /\ ~busy_ /\ busy_' = TRUE /\ turn' = [turn EXCEPT ![c] = "holds"]
        /\ ticket' = [ticket EXCEPT ![c] = 0] /\ next_' = next_
    BY <1>3 DEF Recheck, Ready
  <2>2. At("holds") = {} /\ At("holds")' = {c}
    BY <2>1 DEF Exclusive, At, TurnsTypeOK
  <2>3. Exclusive' /\ NoLostWakeup'
    BY <2>1, <2>2 DEF Exclusive, NoLostWakeup, Ready
  <2>4. Waiting' = Waiting \ {c}
    BY <1>1, <2>1 DEF Waiting, Asleep, At, TurnsTypeOK
  <2>5. 0 \in 0..(Tickets - 1)
    BY <1>2, CallersAssumption DEF TurnsTypeOK
  <2>6. CASE c \in UrgentCallers
    <3>1. urgent_' = urgent_ - 1 /\ serving_' = serving_
      BY <1>3, <2>6 DEF Recheck
    <3>2. Crowd' = Crowd \ {c} /\ c \in Crowd
      BY <1>1, <2>4, <2>6 DEF Crowd
    <3>3. Cardinality(Crowd') = Cardinality(Crowd) - 1
      BY <3>2, CrowdFinite, FS_RemoveElement
    <3>4. urgent_' = Cardinality(Crowd') /\ urgent_ > 0
      <4>1. Cardinality(Crowd) # 0
        BY <3>2, CrowdFinite, FS_EmptySet
      <4> QED
        BY <3>1, <3>3, <4>1, CrowdFinite DEF UrgentCounted, Crowd
    <3>5. TurnsTypeOK'
      BY <2>1, <2>5, <3>1, <3>4 DEF TurnsTypeOK
    <3> QED
      BY <2>3, <3>4, <3>5 DEF UrgentCounted, Crowd
  <2>7. CASE c \notin UrgentCallers
    <3>1. urgent_' = urgent_ /\ serving_' = Increment(serving_)
      BY <1>3, <2>7 DEF Recheck
    <3>2. Waiting' \intersect UrgentCallers = Waiting \intersect UrgentCallers
      BY <2>4, <2>7
    <3>3. TurnsTypeOK'
      BY <1>2, <2>1, <2>5, <3>1 DEF TurnsTypeOK
    <3> QED
      BY <2>3, <3>1, <3>2, <3>3 DEF UrgentCounted
  <2> QED
    BY <2>6, <2>7
<1>4. CASE ~Ready(c, ticket[c])
  <2>1. /\ turn' = [turn EXCEPT ![c] = "asleep"]
        /\ UNCHANGED <<busy_, urgent_, serving_, next_, ticket>>
    BY <1>4 DEF Recheck
  <2>2. TurnsTypeOK'
    BY <2>1 DEF TurnsTypeOK
  <2>3. At("holds")' = At("holds") /\ At("notifies")' = At("notifies")
    BY <1>1, <2>1 DEF At, TurnsTypeOK
  <2>4. Waiting' = Waiting
    BY <1>1, <2>1 DEF Waiting, Asleep, At, TurnsTypeOK
  <2>5. NoLostWakeup'
    <3> SUFFICES ASSUME NEW d \in Asleep', Ready(d, ticket[d])'
                 PROVE  At("notifies")' # {}
      BY DEF NoLostWakeup
    <3>1. Ready(d, ticket[d])
      BY <2>1 DEF Ready
    <3>2. d \in Asleep
      BY <1>4, <2>1, <3>1 DEF Asleep, At, TurnsTypeOK
    <3> QED
      BY <2>3, <3>1, <3>2 DEF NoLostWakeup
  <2> QED
    BY <2>1, <2>2, <2>3, <2>4, <2>5 DEF Exclusive, UrgentCounted
<1> QED
  BY <1>3, <1>4

\* A caller may wake although nobody notified it (std::condition_variable).
LEMMA SpuriousKeeps ==
    ASSUME TurnsInv, NEW c \in Callers, Spurious(c)
    PROVE  TurnsInv'
<1> USE DEF TurnsInv
<1>1. /\ turn[c] = "asleep" /\ turn' = [turn EXCEPT ![c] = "awake"]
      /\ UNCHANGED <<urgent_, next_, serving_, busy_, ticket>>
  BY DEF Spurious, counters
<1>2. TurnsTypeOK'
  BY <1>1 DEF TurnsTypeOK
<1>3. /\ At("holds")' = At("holds") /\ At("notifies")' = At("notifies")
      /\ Asleep' \subseteq Asleep
  BY <1>1 DEF At, Asleep, TurnsTypeOK
<1>4. Waiting' = Waiting
  BY <1>1 DEF Waiting, Asleep, At, TurnsTypeOK
<1>5. NoLostWakeup'
  BY <1>1, <1>3 DEF NoLostWakeup, Ready
<1> QED
  BY <1>1, <1>2, <1>3, <1>4, <1>5 DEF Exclusive, UrgentCounted

\* The holder gives up the turn and is about to notify (release).
LEMMA UnlockKeeps ==
    ASSUME TurnsInv, NEW c \in Callers, Unlock(c)
    PROVE  TurnsInv'
<1> USE DEF TurnsInv
<1>1. /\ turn[c] = "holds" /\ busy_' = FALSE
      /\ turn' = [turn EXCEPT ![c] = "notifies"]
      /\ UNCHANGED <<urgent_, next_, serving_, ticket>>
  BY DEF Unlock, counters
<1>2. TurnsTypeOK'
  BY <1>1 DEF TurnsTypeOK
<1>3. At("holds")' = {}
  BY <1>1 DEF At, Exclusive, TurnsTypeOK
<1>4. Waiting' = Waiting
  BY <1>1 DEF Waiting, Asleep, At, TurnsTypeOK
<1>5. c \in At("notifies")'
  BY <1>1 DEF At, TurnsTypeOK
<1> QED
  BY <1>1, <1>2, <1>3, <1>4, <1>5 DEF Exclusive, UrgentCounted, NoLostWakeup

\* After a notification nobody sleeps (release).
LEMMA NotifyKeeps ==
    ASSUME TurnsInv, NEW c \in Callers, notify_all(c)
    PROVE  TurnsInv'
<1> USE DEF TurnsInv
<1>1. /\ turn[c] = "notifies"
      /\ turn' = [d \in Callers |-> IF d = c THEN "out"
                                    ELSE IF d \in Asleep THEN "awake" ELSE turn[d]]
      /\ UNCHANGED <<urgent_, next_, serving_, busy_, ticket>>
  BY DEF notify_all, counters
<1>2. TurnsTypeOK'
  BY <1>1 DEF TurnsTypeOK
<1>3. At("holds")' = At("holds") /\ Asleep' = {}
  BY <1>1 DEF At, Asleep, TurnsTypeOK
<1>4. Waiting' = Waiting
  BY <1>1 DEF Waiting, Asleep, At, TurnsTypeOK
<1> QED
  BY <1>1, <1>2, <1>3, <1>4 DEF Exclusive, UrgentCounted, NoLostWakeup

\* The invariant holds of every state.
LEMMA TurnsInvariant == TurnsSpec => []TurnsInv
<1>1. TurnsInit => TurnsInv
  BY TurnsInitial
<1>2. TurnsInv /\ [TurnsNext]_turnVars => TurnsInv'
  <2> SUFFICES ASSUME TurnsInv, [TurnsNext]_turnVars PROVE TurnsInv'
    OBVIOUS
  <2>1. CASE UNCHANGED turnVars
    BY <2>1 DEF turnVars, counters, TurnsInv, TurnsTypeOK, Exclusive, UrgentCounted,
                NoLostWakeup, Ready, Waiting, Asleep, At
  <2>2. ASSUME NEW c \in Callers, acquire(c) PROVE TurnsInv'
    BY <2>2, UrgentKeeps, QueuedKeeps DEF acquire
  <2>3. ASSUME NEW c \in Callers,
               Recheck(c) \/ Spurious(c) \/ Unlock(c) \/ notify_all(c)
        PROVE  TurnsInv'
    BY <2>3, RecheckKeeps, SpuriousKeeps, UnlockKeeps, NotifyKeeps
  <2> QED
    BY <2>1, <2>2, <2>3 DEF TurnsNext
<1> QED
  BY <1>1, <1>2, PTL DEF TurnsSpec

\* For any number of callers at most one has the device, and busy_ says so
\* (acquire, release).
THEOREM TurnsExclusive == TurnsSpec => []Exclusive
<1>1. TurnsInv => Exclusive
  BY DEF TurnsInv
<1> QED
  BY <1>1, TurnsInvariant, PTL

\* For any number of callers urgent_ is the number of urgent callers that wait,
\* so that lowering it never wraps below zero (acquire).
THEOREM TurnsCounted == TurnsSpec => [](TurnsTypeOK /\ UrgentCounted)
<1>1. TurnsInv => TurnsTypeOK /\ UrgentCounted
  BY DEF TurnsInv
<1> QED
  BY <1>1, TurnsInvariant, PTL

\* For any number of callers nobody sleeps through its turn: one that could take
\* it has a notification to come (acquire, release).
THEOREM TurnsWakeups == TurnsSpec => []NoLostWakeup
<1>1. TurnsInv => NoLostWakeup
  BY DEF TurnsInv
<1> QED
  BY <1>1, TurnsInvariant, PTL

-------------------------------------------------------------------------------
(* The line of queued callers.                                             *)

\* The queued callers that wait.
InQueue == Waiting \intersect QueuedCallers

\* How many tickets are served before a ticket is.
Before(t) == (t - serving_) % Tickets

\* Inductive: the queued callers that wait have, one each, the tickets from
\* serving_ to next_.  Their number is kept because it bounds the line: next_
\* never comes round to serving_ while somebody is in line.
LineInv ==
    /\ \A c \in InQueue : Before(ticket[c]) < InLine
    /\ \A c, d \in InQueue : ticket[c] = ticket[d] => c = d
    /\ \A t \in 0..(Tickets - 1) : Before(t) < InLine => \E c \in InQueue : ticket[c] = t
    /\ InLine = Cardinality(InQueue)

\* There are tickets.
LEMMA SomeTickets == Tickets \in Nat /\ Tickets > 0
BY CallersAssumption, FS_CardinalityType

\* The distance from one ticket to another, with and without a wrap.
LEMMA Distance ==
    ASSUME NEW t \in 0..(Tickets - 1), NEW s \in 0..(Tickets - 1)
    PROVE  (t - s) % Tickets = IF t >= s THEN t - s ELSE t - s + Tickets
<1>1. CASE t >= s
  <2>1. t - s \in 0..(Tickets - 1)
    BY <1>1, SomeTickets
  <2> QED
    BY <1>1, <2>1, SomeTickets
<1>2. CASE t < s
  <2> DEFINE n == t - s + Tickets
  <2>1. n \in 0..(Tickets - 1) /\ n - Tickets = t - s
    BY <1>2, SomeTickets
  <2>2. (n - Tickets) % Tickets = n
    <3> HIDE DEF n
    <3> QED
      BY <2>1, SomeTickets
  <2> QED
    BY <1>2, <2>1, <2>2
<1> QED
  BY <1>1, <1>2, SomeTickets

\* The ticket after a ticket, with and without a wrap.
LEMMA Following ==
    ASSUME NEW t \in 0..(Tickets - 1)
    PROVE  Increment(t) = IF t = Tickets - 1 THEN 0 ELSE t + 1
BY SomeTickets DEF Increment

\* The queued callers in line are fewer than the tickets while one is not in it.
LEMMA QueueFinite ==
    ASSUME TurnsTypeOK
    PROVE  /\ IsFiniteSet(InQueue) /\ Cardinality(InQueue) \in Nat
           /\ \A c \in Callers \ InQueue : Cardinality(InQueue) + 1 < Tickets
<1>1. InQueue \in SUBSET Callers
  BY DEF InQueue, Waiting, Asleep, At
<1>2. IsFiniteSet(InQueue) /\ Cardinality(InQueue) \in Nat
  BY <1>1, FS_Subset, FS_CardinalityType, CallersAssumption
<1>3. ASSUME NEW c \in Callers \ InQueue
      PROVE  Cardinality(InQueue) + 1 < Tickets
  <2>1. /\ Cardinality(InQueue \union {c}) = Cardinality(InQueue) + 1
        /\ InQueue \union {c} \in SUBSET Callers
    BY <1>1, <1>2, FS_AddElement
  <2>2. Cardinality(InQueue \union {c}) <= Cardinality(Callers)
    BY <2>1, FS_Subset, CallersAssumption
  <2>3. Cardinality(Callers) \in Nat
    BY CallersAssumption, FS_CardinalityType
  <2> QED
    BY <1>2, <2>1, <2>2, <2>3, CallersAssumption
<1> QED
  BY <1>2, <1>3

\* The line depends on its counters, its callers and their tickets only.
LEMMA LineUnmoved ==
    ASSUME LineInv, InQueue' = InQueue, UNCHANGED <<next_, serving_>>,
           \A c \in InQueue : ticket'[c] = ticket[c]
    PROVE  LineInv'
<1>1. InLine' = InLine /\ \A t : Before(t)' = Before(t)
  BY DEF InLine, Before
<1> QED
  BY <1>1 DEF LineInv

\* A queued caller that finds no one before it leaves the line empty, and one
\* that waits is last in it (acquire).
LEMMA QueuedKeepsLine ==
    ASSUME TurnsInv, LineInv, NEW c \in Callers, AcquireQueued(c)
    PROVE  LineInv'
<1> USE DEF TurnsInv
<1>1. c \in QueuedCallers /\ turn[c] = "out" /\ c \notin InQueue
  BY DEF AcquireQueued, InQueue, Waiting, Asleep, At
<1>2. next_ \in 0..(Tickets - 1) /\ serving_ \in 0..(Tickets - 1)
  BY DEF TurnsTypeOK
<1>3. InLine = IF next_ >= serving_ THEN next_ - serving_ ELSE next_ - serving_ + Tickets
  BY <1>2, Distance DEF InLine
<1>4. next_' = Increment(next_) /\ next_' \in 0..(Tickets - 1)
  BY <1>2, IncrementType DEF AcquireQueued
<1>5. CASE Ready(c, next_)
  <2>1. /\ serving_ = next_ /\ serving_' = Increment(next_)
        /\ turn' = [turn EXCEPT ![c] = "holds"] /\ ticket' = ticket
    BY <1>1, <1>5 DEF AcquireQueued, Ready
  <2>2. InLine = 0 /\ InLine' = 0
    <3>1. InLine' = (next_' - serving_') % Tickets /\ serving_' = next_'
      BY <1>4, <2>1 DEF InLine
    <3> QED
      BY <1>2, <1>3, <1>4, <2>1, <3>1, Distance
  <2>3. InQueue' = InQueue
    BY <1>1, <2>1 DEF InQueue, Waiting, Asleep, At, TurnsTypeOK
  <2>4. \A t \in 0..(Tickets - 1) : Before(t) \in Nat /\ Before(t)' \in Nat
    BY <1>2, <1>4, <2>1, Distance, SomeTickets DEF Before
  <2>5. InQueue = {}
    BY <2>2, QueueFinite, FS_EmptySet DEF LineInv
  <2> QED
    BY <2>2, <2>3, <2>4, <2>5, FS_EmptySet DEF LineInv
<1>6. CASE ~Ready(c, next_)
  <2>1. /\ turn' = [turn EXCEPT ![c] = "asleep"] /\ serving_' = serving_
        /\ ticket' = [ticket EXCEPT ![c] = next_]
    BY <1>6 DEF AcquireQueued
  <2>2. InQueue' = InQueue \union {c}
    BY <1>1, <2>1 DEF InQueue, Waiting, Asleep, At, TurnsTypeOK
  <2>3. Cardinality(InQueue') = Cardinality(InQueue) + 1
    BY <1>1, <2>2, QueueFinite, FS_AddElement
  <2>4. InLine + 1 < Tickets
    BY <1>1, QueueFinite DEF LineInv
  <2>5. InLine' = InLine + 1
    <3>1. InLine' = IF next_' >= serving_ THEN next_' - serving_
                    ELSE next_' - serving_ + Tickets
      BY <1>2, <1>4, <2>1, Distance DEF InLine
    <3>2. next_' = IF next_ = Tickets - 1 THEN 0 ELSE next_ + 1
      BY <1>2, <1>4, Following
    <3> QED
      BY <1>2, <1>3, <2>4, <3>1, <3>2, SomeTickets
  <2>6. Before(next_) = InLine /\ \A t : Before(t)' = Before(t)
    BY <2>1 DEF Before, InLine
  <2>7. ticket'[c] = next_ /\ \A d \in InQueue : ticket'[d] = ticket[d]
    BY <1>1, <2>1, Zenon DEF TurnsTypeOK, InQueue, Waiting, Asleep, At
  <2>8. InLine \in Nat
    BY QueueFinite DEF LineInv
  <2>9. ASSUME NEW d \in InQueue' PROVE Before(ticket[d])' < InLine'
    <3>1. Before(ticket[d])' = (ticket'[d] - serving_) % Tickets
      BY <2>1 DEF Before
    <3>2. CASE d = c
      BY <2>5, <2>7, <2>8, <3>1, <3>2 DEF InLine
    <3>3. CASE d \in InQueue
      <4>1. Before(ticket[d])' = Before(ticket[d])
        BY <2>7, <3>1, <3>3 DEF Before
      <4>2. Before(ticket[d]) < InLine /\ ticket[d] \in 0..(Tickets - 1)
        BY <3>3 DEF LineInv, TurnsTypeOK, InQueue, QueuedCallers
      <4>3. Before(ticket[d]) \in Nat
        BY <1>2, <4>2, Distance, SomeTickets DEF Before
      <4> QED
        BY <2>5, <2>8, <4>1, <4>2, <4>3
    <3> QED
      BY <2>2, <3>2, <3>3
  <2>10. \A d, e \in InQueue' : ticket'[d] = ticket'[e] => d = e
    <3>1. \A d \in InQueue : ticket[d] # next_
      BY <2>6, <2>8 DEF LineInv
    <3> QED
      BY <2>2, <2>7, <3>1 DEF LineInv
  <2>11. ASSUME NEW t \in 0..(Tickets - 1), Before(t)' < InLine'
         PROVE  \E d \in InQueue' : ticket'[d] = t
    <3>1. Before(t) < InLine + 1
      BY <2>5, <2>6, <2>11
    <3>2. CASE Before(t) < InLine
      BY <2>2, <2>7, <3>2 DEF LineInv
    <3>3. CASE Before(t) = InLine
      <4>1. t = next_
        <5>1. Before(t) = IF t >= serving_ THEN t - serving_ ELSE t - serving_ + Tickets
          BY <1>2, Distance DEF Before
        <5> QED
          BY <1>2, <1>3, <3>3, <5>1, SomeTickets
      <4> QED
        BY <2>2, <2>7, <4>1
    <3>4. Before(t) \in Nat
      BY <1>2, Distance, SomeTickets DEF Before
    <3> QED
      BY <2>8, <3>1, <3>2, <3>3, <3>4
  <2> QED
    BY <2>3, <2>5, <2>9, <2>10, <2>11 DEF LineInv
<1> QED
  BY <1>5, <1>6

\* A queued caller takes the turn when it is first in line, and leaves it (acquire).
LEMMA RecheckKeepsLine ==
    ASSUME TurnsInv, LineInv, NEW c \in Callers, Recheck(c)
    PROVE  LineInv'
<1> USE DEF TurnsInv
<1>1. turn[c] = "awake" /\ next_' = next_
  BY DEF Recheck
<1>2. next_ \in 0..(Tickets - 1) /\ serving_ \in 0..(Tickets - 1)
  BY DEF TurnsTypeOK
<1>3. CASE ~Ready(c, ticket[c])
  <2>1. /\ turn' = [turn EXCEPT ![c] = "asleep"]
        /\ UNCHANGED <<serving_, ticket>>
    BY <1>3 DEF Recheck
  <2>2. InQueue' = InQueue
    BY <1>1, <2>1 DEF InQueue, Waiting, Asleep, At, TurnsTypeOK
  <2> QED
    BY <1>1, <2>1, <2>2, LineUnmoved
<1>4. CASE Ready(c, ticket[c])
  <2>1. turn' = [turn EXCEPT ![c] = "holds"] /\ ticket' = [ticket EXCEPT ![c] = 0]
    BY <1>4 DEF Recheck
  <2>2. InQueue' = InQueue \ {c} /\ \A d \in InQueue \ {c} : ticket'[d] = ticket[d]
    BY <1>1, <2>1 DEF InQueue, QueuedCallers, Waiting, Asleep, At, TurnsTypeOK
  <2>3. CASE c \in UrgentCallers
    <3>1. serving_' = serving_
      BY <1>4, <2>3 DEF Recheck
    <3>2. c \notin InQueue
      BY <2>3 DEF InQueue, QueuedCallers
    <3> QED
      BY <1>1, <2>2, <3>1, <3>2, LineUnmoved
  <2>4. CASE c \notin UrgentCallers
    <3>1. serving_ = ticket[c] /\ serving_' = Increment(serving_) /\ c \in InQueue
      BY <1>1, <1>4, <2>4 DEF Recheck, Ready, QueuedCallers, InQueue, Waiting, At
    <3>2. serving_' \in 0..(Tickets - 1)
      BY <1>2, <3>1, IncrementType
    <3>3. serving_' = IF serving_ = Tickets - 1 THEN 0 ELSE serving_ + 1
      BY <1>2, <3>1, Following
    <3>4. \A t \in 0..(Tickets - 1) :
            /\ Before(t) = IF t >= serving_ THEN t - serving_ ELSE t - serving_ + Tickets
            /\ (t - serving_') % Tickets
                    = IF t >= serving_' THEN t - serving_' ELSE t - serving_' + Tickets
      BY <1>2, <3>2, Distance DEF Before
    <3>5. \A t \in 0..(Tickets - 1) :
            /\ t # serving_ => (t - serving_') % Tickets = Before(t) - 1
            /\ t = serving_ => (t - serving_') % Tickets = Tickets - 1 /\ Before(t) = 0
            /\ Before(t) \in 0..(Tickets - 1)
      BY <1>2, <3>2, <3>3, <3>4, SomeTickets
    <3>6. InLine > 0 /\ InLine \in 0..(Tickets - 1)
      <4>1. Before(serving_) = 0
        BY <1>2, <3>5
      <4>2. InLine = Before(next_)
        BY DEF InLine, Before
      <4> QED
        BY <1>2, <3>1, <3>5, <4>1, <4>2 DEF LineInv
    <3>7. InLine' = InLine - 1
      <4>1. next_ # serving_
        BY <1>2, <3>5, <3>6 DEF InLine, Before
      <4> QED
        BY <1>1, <1>2, <3>5, <4>1 DEF InLine, Before
    <3>8. Cardinality(InQueue') = Cardinality(InQueue) - 1
      BY <2>2, <3>1, QueueFinite, FS_RemoveElement
    <3>9. ASSUME NEW d \in InQueue'
          PROVE  Before(ticket[d])' < InLine'
      <4>1. d \in InQueue /\ d # c /\ ticket'[d] = ticket[d]
        BY <2>2, <3>9
      <4>2. ticket[d] # serving_ /\ ticket[d] \in 0..(Tickets - 1) /\ Before(ticket[d]) < InLine
        BY <3>1, <4>1 DEF LineInv, TurnsTypeOK, InQueue, QueuedCallers
      <4>3. Before(ticket[d])' = (ticket[d] - serving_') % Tickets
        BY <4>1 DEF Before
      <4> QED
        BY <3>5, <3>6, <3>7, <4>2, <4>3
    <3>10. \A d, e \in InQueue' : ticket'[d] = ticket'[e] => d = e
      BY <2>2 DEF LineInv
    <3>11. ASSUME NEW t \in 0..(Tickets - 1), Before(t)' < InLine'
           PROVE  \E d \in InQueue' : ticket'[d] = t
      <4>1. Before(t)' = (t - serving_') % Tickets
        BY DEF Before
      <4>2. t # serving_ /\ Before(t) < InLine
        BY <3>5, <3>6, <3>7, <3>11, <4>1, SomeTickets
      <4>3. PICK d \in InQueue : ticket[d] = t
        BY <4>2 DEF LineInv
      <4> QED
        BY <2>2, <3>1, <4>2, <4>3
    <3> QED
      BY <3>7, <3>8, <3>9, <3>10, <3>11 DEF LineInv
  <2> QED
    BY <2>3, <2>4
<1> QED
  BY <1>3, <1>4

\* An urgent caller is never in the line (acquire).
LEMMA UrgentKeepsLine ==
    ASSUME TurnsInv, LineInv, NEW c \in Callers, AcquireUrgent(c)
    PROVE  LineInv'
<1>1. /\ c \in UrgentCallers /\ UNCHANGED <<next_, serving_, ticket>>
      /\ \E where : turn' = [turn EXCEPT ![c] = where]
  BY DEF AcquireUrgent
<1>2. InQueue' = InQueue
  BY <1>1 DEF InQueue, QueuedCallers, Waiting, Asleep, At, TurnsInv, TurnsTypeOK
<1> QED
  BY <1>1, <1>2, LineUnmoved

\* Whoever wakes, or gives up the turn, leaves the line as it is (release).
LEMMA OthersKeepLine ==
    ASSUME TurnsInv, LineInv, NEW c \in Callers,
           Spurious(c) \/ Unlock(c) \/ notify_all(c)
    PROVE  LineInv' /\ Waiting' = Waiting
<1>1. UNCHANGED <<next_, serving_, ticket>>
  BY DEF Spurious, Unlock, notify_all, counters
<1>2. Waiting' = Waiting
  BY DEF Spurious, Unlock, notify_all, Waiting, Asleep, At, TurnsInv, TurnsTypeOK
<1> QED
  BY <1>1, <1>2, LineUnmoved DEF InQueue

\* Nobody is in line at the start (turns members).
LEMMA LineInitial == TurnsInit => LineInv
<1> SUFFICES ASSUME TurnsInit PROVE LineInv
  OBVIOUS
<1>1. InQueue = {}
  BY DEF TurnsInit, InQueue, Waiting, Asleep, At
<1>2. 0 \in 0..(Tickets - 1)
  BY SomeTickets
<1>3. InLine = 0
  BY <1>2, Distance DEF TurnsInit, InLine
<1>4. \A t \in 0..(Tickets - 1) : Before(t) \in Nat
  BY <1>2, Distance, SomeTickets DEF TurnsInit, Before
<1> QED
  BY <1>1, <1>3, <1>4, FS_EmptySet DEF LineInv

\* Both invariants hold of every state.
LEMMA LineInvariant == TurnsSpec => [](TurnsInv /\ LineInv)
<1>1. TurnsInv /\ LineInv /\ [TurnsNext]_turnVars => LineInv'
  <2> SUFFICES ASSUME TurnsInv, LineInv, [TurnsNext]_turnVars PROVE LineInv'
    OBVIOUS
  <2>1. CASE UNCHANGED turnVars
    BY <2>1, LineUnmoved DEF turnVars, counters, InQueue, Waiting, Asleep, At
  <2>2. ASSUME NEW c \in Callers, acquire(c) PROVE LineInv'
    BY <2>2, UrgentKeepsLine, QueuedKeepsLine DEF acquire
  <2>3. ASSUME NEW c \in Callers,
               Recheck(c) \/ Spurious(c) \/ Unlock(c) \/ notify_all(c)
        PROVE  LineInv'
    BY <2>3, RecheckKeepsLine, OthersKeepLine
  <2> QED
    BY <2>1, <2>2, <2>3 DEF TurnsNext
<1> QED
  BY <1>1, LineInitial, TurnsInvariant, PTL DEF TurnsSpec

-------------------------------------------------------------------------------
(* The counters and tickets implement the queue.                           *)

\* The line read off the tickets: each place is that of the one caller whose
\* ticket comes up then.
LineRead ==
    /\ InLine \in Nat
    /\ Line \in Seq(Callers)
    /\ Len(Line) = InLine
    /\ \A i \in 1..InLine : Line[i] \in InQueue /\ Before(ticket[Line[i]]) = i - 1
    /\ \A c \in InQueue : Before(ticket[c]) + 1 \in 1..InLine /\ Line[Before(ticket[c]) + 1] = c

\* Tickets that come up at the same time are the same (ticket, serving_).
LEMMA BeforeInjective ==
    ASSUME serving_ \in 0..(Tickets - 1),
           NEW t \in 0..(Tickets - 1), NEW s \in 0..(Tickets - 1), Before(t) = Before(s)
    PROVE  t = s
<1> DEFINE far(n) == IF n >= serving_ THEN n - serving_ ELSE n - serving_ + Tickets
<1>1. (t - serving_) % Tickets = far(t) /\ (s - serving_) % Tickets = far(s)
  BY Distance
<1>2. (t - serving_) % Tickets = (s - serving_) % Tickets
  BY DEF Before
<1>3. far(t) = far(s)
  BY <1>1, <1>2, Zenon
<1> QED
  BY <1>3, SomeTickets

\* The ticket that comes up after so many others (serving_).
LEMMA BeforeOfPlace ==
    ASSUME serving_ \in 0..(Tickets - 1), NEW i \in 1..Tickets
    PROVE  LET t == (serving_ + i - 1) % Tickets
           IN  t \in 0..(Tickets - 1) /\ Before(t) = i - 1
<1> DEFINE t == (serving_ + i - 1) % Tickets
<1>1. t = IF serving_ + i <= Tickets THEN serving_ + i - 1 ELSE serving_ + i - 1 - Tickets
  BY SomeTickets
<1>2. t \in 0..(Tickets - 1)
  BY <1>1, SomeTickets
<1> HIDE DEF t
<1>3. Before(t) = IF t >= serving_ THEN t - serving_ ELSE t - serving_ + Tickets
  BY <1>2, Distance DEF Before
<1>4. Before(t) = i - 1
  <2>1. CASE serving_ + i <= Tickets
    BY <1>1, <1>3, <2>1, SomeTickets
  <2>2. CASE ~(serving_ + i <= Tickets)
    <3>1. t = serving_ + i - 1 - Tickets /\ t < serving_
      BY <1>1, <2>2, SomeTickets
    <3> QED
      BY <1>3, <3>1, SomeTickets
  <2> QED
    BY <2>1, <2>2
<1> QED
  BY <1>2, <1>4 DEF t

\* The invariants say what the line is (Line).
LEMMA LineOfTickets == TurnsInv /\ LineInv => LineRead
<1> SUFFICES ASSUME TurnsInv, LineInv PROVE LineRead
  OBVIOUS
<1> USE DEF TurnsInv
<1>1. next_ \in 0..(Tickets - 1) /\ serving_ \in 0..(Tickets - 1)
  BY DEF TurnsTypeOK
<1>2. InLine \in Nat /\ InLine < Tickets
  BY <1>1, Distance, SomeTickets DEF InLine
<1>3. \A c \in InQueue : c \in Callers /\ ticket[c] \in 0..(Tickets - 1)
  BY DEF InQueue, QueuedCallers, TurnsTypeOK
<1>4. ASSUME NEW i \in 1..InLine
      PROVE  Line[i] \in InQueue /\ Before(ticket[Line[i]]) = i - 1
  <2> DEFINE t == (serving_ + i - 1) % Tickets
  <2>1. i \in 1..Tickets
    BY <1>2, SomeTickets
  <2>2. t \in 0..(Tickets - 1) /\ Before(t) = i - 1
    BY <1>1, <2>1, BeforeOfPlace
  <2>3. HasTicket(t) # {}
    <3>1. Before(t) < InLine
      BY <1>2, <2>2
    <3>2. PICK c \in InQueue : ticket[c] = t
      BY <2>2, <3>1 DEF LineInv
    <3> QED
      BY <3>2 DEF HasTicket, InQueue
  <2>4. Line[i] = CHOOSE c \in HasTicket(t) : TRUE
    BY <2>3 DEF Line
  <2>5. Line[i] \in HasTicket(t)
    BY <2>3, <2>4
  <2> HIDE DEF t
  <2> QED
    BY <2>2, <2>5 DEF HasTicket, InQueue
<1>5. Line \in Seq(Callers) /\ Len(Line) = InLine
  <2>1. Line = [i \in 1..InLine |-> Line[i]]
    BY DEF Line
  <2>2. \A i \in 1..InLine : Line[i] \in Callers
    BY <1>3, <1>4
  <2>3. Line \in [1..InLine -> Callers]
    BY <2>1, <2>2
  <2> HIDE DEF Line
  <2> QED
    BY <1>2, <2>3
<1>6. ASSUME NEW c \in InQueue
      PROVE  Before(ticket[c]) + 1 \in 1..InLine /\ Line[Before(ticket[c]) + 1] = c
  <2> DEFINE i == Before(ticket[c]) + 1
  <2>1. Before(ticket[c]) \in Nat /\ Before(ticket[c]) < InLine
    BY <1>1, <1>3, Distance, SomeTickets DEF Before, LineInv
  <2>2. i \in 1..InLine
    BY <1>2, <2>1
  <2>3. Line[i] \in InQueue /\ Before(ticket[Line[i]]) = i - 1
    BY <1>4, <2>2
  <2>4. ticket[Line[i]] = ticket[c]
    BY <1>1, <1>3, <2>1, <2>3, BeforeInjective
  <2> QED
    BY <2>2, <2>3, <2>4 DEF LineInv
<1> QED
  BY <1>2, <1>4, <1>5, <1>6 DEF LineRead

\* The holder is the caller that has the turn, if one has (busy_).
LEMMA HolderIs ==
    TurnsInv => /\ ~busy_ => Holder = Nobody
                /\ \A c \in Callers : turn[c] = "holds" => Holder = c /\ busy_
                /\ busy_ => Holder \in Callers /\ Holder # Nobody /\ turn[Holder] = "holds"
<1> SUFFICES ASSUME TurnsInv
             PROVE  /\ ~busy_ => Holder = Nobody
                    /\ \A c \in Callers : turn[c] = "holds" => Holder = c /\ busy_
                    /\ busy_ => Holder \in Callers /\ Holder # Nobody /\ turn[Holder] = "holds"
  OBVIOUS
<1>1. ~busy_ => Holder = Nobody
  BY DEF TurnsInv, Exclusive, Holder
<1>2. ASSUME NEW c \in Callers, turn[c] = "holds" PROVE Holder = c /\ busy_
  <2>1. c \in At("holds") /\ At("holds") # {}
    BY <1>2 DEF At
  <2>2. Holder = CHOOSE d \in Callers : turn[d] = "holds"
    BY <2>1 DEF Holder
  <2>3. Holder \in Callers /\ turn[Holder] = "holds"
    BY <1>2, <2>2
  <2> QED
    BY <2>1, <2>3 DEF TurnsInv, Exclusive, At
<1>3. busy_ => \E c \in Callers : turn[c] = "holds"
  BY DEF TurnsInv, Exclusive, At
<1> QED
  BY <1>1, <1>2, <1>3, CallersAssumption

\* What the mapping gives before and after a step.
Mapped == TurnsInv /\ LineInv /\ LineRead

\* No urgent caller waits when the count is zero (urgent_).
LEMMA CrowdEmpty ==
    ASSUME TurnsInv
    PROVE  urgent_ = 0 <=> Waiting \intersect UrgentCallers = {}
BY CrowdFinite, FS_EmptySet DEF TurnsInv, UrgentCounted, Crowd

\* Nobody is in line when the next ticket is served (next_, serving_).
LEMMA LineEmpty == Mapped => (serving_ = next_ <=> Line = <<>>)
<1> SUFFICES ASSUME Mapped PROVE serving_ = next_ <=> Line = <<>>
  OBVIOUS
<1>1. InLine = 0 <=> serving_ = next_
  <2>1. InLine = IF next_ >= serving_ THEN next_ - serving_ ELSE next_ - serving_ + Tickets
    BY Distance DEF InLine, Mapped, TurnsInv, TurnsTypeOK
  <2> QED
    BY <2>1, SomeTickets DEF Mapped, TurnsInv, TurnsTypeOK
<1>2. Line = <<>> <=> Len(Line) = 0
  BY EmptySeq DEF Mapped, LineRead
<1> QED
  BY <1>1, <1>2 DEF Mapped, LineRead

\* A sequence of callers in line, each in the place of its ticket, is the line.
LEMMA LineUnique ==
    ASSUME Mapped', NEW s \in Seq(Callers), Len(s) = InLine',
           \A i \in 1..Len(s) :
                s[i] \in InQueue' /\ (ticket'[s[i]] - serving_') % Tickets = i - 1
    PROVE  Line' = s
<1>1. Line' \in Seq(Callers) /\ Len(Line') = Len(s)
  BY DEF Mapped, LineRead
<1>2. ASSUME NEW i \in 1..Len(s) PROVE Line'[i] = s[i]
  <2>1. PICK d \in InQueue' : d = s[i]
    OBVIOUS
  <2>2. Before(ticket[d])' = i - 1
    BY <2>1 DEF Before
  <2>3. Line'[Before(ticket[d])' + 1] = d
    BY DEF Mapped, LineRead
  <2>4. i - 1 + 1 = i
    OBVIOUS
  <2> QED
    BY <2>1, <2>2, <2>3, <2>4
<1> QED
  BY <1>1, <1>2, SeqEqual

\* The line does not move when its callers, tickets and counters do not.
LEMMA LineSame ==
    ASSUME Mapped, Mapped', InQueue' = InQueue, UNCHANGED <<next_, serving_>>,
           \A c \in InQueue : ticket'[c] = ticket[c]
    PROVE  Line' = Line
<1>1. Line \in Seq(Callers) /\ Len(Line) = InLine'
  BY DEF Mapped, LineRead, InLine
<1>2. ASSUME NEW i \in 1..Len(Line)
      PROVE  Line[i] \in InQueue' /\ (ticket'[Line[i]] - serving_') % Tickets = i - 1
  <2>1. PICK d \in InQueue : d = Line[i] /\ Before(ticket[d]) = i - 1
    BY DEF Mapped, LineRead
  <2> QED
    BY <2>1 DEF Before
<1> QED
  BY <1>1, <1>2, LineUnique

\* A queued caller that waits is appended to the line (acquire).
LEMMA LineGrows ==
    ASSUME Mapped, Mapped', NEW c \in Callers, AcquireQueued(c), ~Ready(c, next_)
    PROVE  Line' = Append(Line, c)
<1>1. /\ c \in QueuedCallers /\ turn[c] = "out" /\ serving_' = serving_
      /\ turn' = [turn EXCEPT ![c] = "asleep"] /\ ticket' = [ticket EXCEPT ![c] = next_]
  BY DEF AcquireQueued
<1>2. InQueue' = InQueue \union {c} /\ c \notin InQueue
  BY <1>1 DEF InQueue, Waiting, Asleep, At, Mapped, TurnsInv, TurnsTypeOK
<1>3. ticket'[c] = next_ /\ \A d \in InQueue : ticket'[d] = ticket[d]
  BY <1>1, <1>2, Zenon DEF Mapped, TurnsInv, TurnsTypeOK, InQueue, Waiting, Asleep, At
<1>4. InLine' = InLine + 1
  <2>1. Cardinality(InQueue') = Cardinality(InQueue) + 1
    BY <1>2, QueueFinite, FS_AddElement DEF Mapped, TurnsInv
  <2> QED
    BY <2>1 DEF Mapped, LineInv
<1>5. /\ Line \in Seq(Callers) /\ Len(Line) = InLine /\ InLine \in Nat
  BY DEF Mapped, LineRead
<1>6. ASSUME NEW i \in 1..(InLine + 1)
      PROVE  /\ Append(Line, c)[i] \in InQueue'
             /\ (ticket'[Append(Line, c)[i]] - serving_') % Tickets = i - 1
  <2>1. CASE i = InLine + 1
    <3>1. Append(Line, c)[i] = c
      BY <1>5, <2>1
    <3>2. i - 1 = InLine
      BY <1>5, <2>1
    <3> QED
      BY <1>1, <1>2, <1>3, <3>1, <3>2 DEF InLine
  <2>2. CASE i \in 1..InLine
    <3>1. PICK d \in InQueue : d = Line[i] /\ Before(ticket[d]) = i - 1
      BY <2>2 DEF Mapped, LineRead
    <3>2. Append(Line, c)[i] = d
      BY <1>5, <2>2, <3>1
    <3>3. d \in InQueue' /\ (ticket'[d] - serving_') % Tickets = i - 1
      BY <1>1, <1>2, <1>3, <3>1 DEF Before
    <3> QED
      BY <3>2, <3>3
  <2>3. i = InLine + 1 \/ i \in 1..InLine
    BY <1>5
  <2> QED
    BY <2>1, <2>2, <2>3
<1>7. Append(Line, c) \in Seq(Callers) /\ Len(Append(Line, c)) = InLine + 1
  BY <1>5
<1> QED
  BY <1>4, <1>6, <1>7, LineUnique

\* A queued caller takes the turn from the head of the line (acquire).
LEMMA LineShrinks ==
    ASSUME Mapped, Mapped', NEW c \in QueuedCallers, Recheck(c), Ready(c, ticket[c])
    PROVE  Line # <<>> /\ Head(Line) = c /\ Line' = Tail(Line)
<1>1. /\ turn[c] = "awake" /\ serving_ = ticket[c]
      /\ serving_' = Increment(serving_) /\ next_' = next_
      /\ turn' = [turn EXCEPT ![c] = "holds"] /\ ticket' = [ticket EXCEPT ![c] = 0]
  BY DEF Recheck, Ready, QueuedCallers
<1>2. c \in InQueue /\ InQueue' = InQueue \ {c}
  BY <1>1 DEF InQueue, QueuedCallers, Waiting, Asleep, At, Mapped, TurnsInv, TurnsTypeOK
<1>3. \A d \in InQueue' : ticket'[d] = ticket[d]
  BY <1>1, <1>2, Zenon DEF Mapped, TurnsInv, TurnsTypeOK, InQueue, Waiting, Asleep, At
<1>4. Line \in Seq(Callers) /\ Len(Line) = InLine /\ InLine \in Nat
  BY DEF Mapped, LineRead
<1>5. serving_ \in 0..(Tickets - 1) /\ serving_' \in 0..(Tickets - 1)
  BY DEF Mapped, TurnsInv, TurnsTypeOK
<1>6. Before(ticket[c]) = 0
  BY <1>1, <1>5, Distance DEF Before
<1>7. 1 \in 1..InLine /\ Line[1] = c
  <2>1. Before(ticket[c]) + 1 \in 1..InLine /\ Line[Before(ticket[c]) + 1] = c
    BY <1>2 DEF Mapped, LineRead
  <2>2. Before(ticket[c]) + 1 = 1
    BY <1>6
  <2> QED
    BY <2>1, <2>2
<1>8. Line # <<>> /\ Head(Line) = c
  BY <1>4, <1>7
<1>9. /\ Tail(Line) \in Seq(Callers) /\ Len(Tail(Line)) = InLine - 1
      /\ \A i \in 1..(InLine - 1) : Tail(Line)[i] = Line[i + 1]
  BY <1>4, <1>8, HeadTailProperties
<1>10. InLine' = InLine - 1
  <2>1. Cardinality(InQueue') = Cardinality(InQueue) - 1
    BY <1>2, QueueFinite, FS_RemoveElement DEF Mapped, TurnsInv
  <2> QED
    BY <2>1 DEF Mapped, LineInv
<1>11. ASSUME NEW i \in 1..(InLine - 1)
       PROVE  /\ Tail(Line)[i] \in InQueue'
              /\ (ticket'[Tail(Line)[i]] - serving_') % Tickets = i - 1
  <2>1. i + 1 \in 1..InLine /\ i + 1 - 1 = i
    BY <1>4
  <2>2. PICK d \in InQueue : d = Line[i + 1] /\ Before(ticket[d]) = i
    BY <2>1 DEF Mapped, LineRead
  <2>3. d # c /\ d \in InQueue' /\ ticket'[d] = ticket[d] /\ ticket[d] # serving_
    BY <1>1, <1>2, <1>3, <1>6, <2>2
  <2>4. ticket[d] \in 0..(Tickets - 1)
    BY <2>2 DEF Mapped, TurnsInv, TurnsTypeOK, InQueue, QueuedCallers
  <2>5. (ticket[d] - serving_') % Tickets = i - 1
    <3> DEFINE far(s) == IF ticket[d] >= s THEN ticket[d] - s ELSE ticket[d] - s + Tickets
    <3>1. (ticket[d] - serving_') % Tickets = far(serving_')
      BY <1>5, <2>4, Distance
    <3>2. i = far(serving_)
      BY <1>5, <2>2, <2>4, Distance DEF Before
    <3>3. serving_' = IF serving_ = Tickets - 1 THEN 0 ELSE serving_ + 1
      BY <1>1, <1>5, Following
    <3> QED
      BY <1>5, <2>3, <2>4, <3>1, <3>2, <3>3, SomeTickets
  <2>6. Tail(Line)[i] = d
    BY <1>9, <2>2
  <2> QED
    BY <2>3, <2>5, <2>6
<1>12. Line' = Tail(Line)
  BY <1>9, <1>10, <1>11, LineUnique
<1> QED
  BY <1>8, <1>12

\* The holder after a step (busy_).
LEMMA HolderAfter ==
    TurnsInv' => /\ ~busy_' => Holder' = Nobody
                 /\ \A c \in Callers : turn'[c] = "holds" => Holder' = c
<1>1. (TurnsInv => /\ ~busy_ => Holder = Nobody
                   /\ \A c \in Callers : turn[c] = "holds" => Holder = c /\ busy_
                   /\ busy_ => Holder \in Callers /\ Holder # Nobody /\ turn[Holder] = "holds")'
  BY HolderIs, PTL
<1> QED
  BY <1>1

\* Who has the device does not change when nobody takes it or gives it up.
LEMMA HolderSame ==
    ASSUME Mapped, Mapped', busy_' = busy_, \A d \in At("holds") : turn'[d] = "holds"
    PROVE  Holder' = Holder
<1>1. CASE ~busy_
  BY <1>1, HolderIs, HolderAfter DEF Mapped
<1>2. CASE busy_
  <2>1. Holder \in Callers /\ turn[Holder] = "holds"
    BY <1>2, HolderIs DEF Mapped
  <2>2. PICK h \in Callers : h = Holder /\ turn'[h] = "holds"
    BY <2>1 DEF At
  <2> QED
    BY <2>2, HolderAfter DEF Mapped
<1> QED
  BY <1>1, <1>2 DEF Mapped, TurnsInv, TurnsTypeOK

\* A caller that is not at the device does not hold it, nor does anyone if it
\* is free (busy_).
LEMMA HolderNot ==
    ASSUME Mapped, NEW c \in Callers, turn[c] # "holds"
    PROVE  c # Holder /\ (Holder = Nobody <=> ~busy_)
<1>1. busy_ => turn[Holder] = "holds" /\ Holder # Nobody
  BY HolderIs DEF Mapped
<1>2. ~busy_ => Holder = Nobody
  BY HolderIs DEF Mapped
<1> QED
  BY <1>1, <1>2, CallersAssumption

\* An urgent caller that comes has the device or is in the crowd (acquire).
LEMMA UrgentEnters ==
    ASSUME Mapped, Mapped', NEW c \in Callers, AcquireUrgent(c)
    PROVE  Queue!EnterUrgent(c)
<1>1. /\ c \in UrgentCallers /\ turn[c] = "out" /\ c \notin Waiting
      /\ UNCHANGED <<next_, serving_, ticket>>
  BY DEF AcquireUrgent, Waiting, Asleep, At
<1>2. c # Holder /\ (Holder = Nobody <=> ~busy_)
  BY <1>1, HolderNot
<1>3. CASE Ready(c, 0)
  <2>1. ~busy_ /\ turn' = [turn EXCEPT ![c] = "holds"]
    BY <1>3 DEF AcquireUrgent, Ready
  <2>2. turn'[c] = "holds" /\ Waiting' = Waiting
    BY <1>1, <2>1 DEF Waiting, Asleep, At, Mapped, TurnsInv, TurnsTypeOK
  <2>3. Holder' = c
    BY <2>2, HolderAfter DEF Mapped
  <2>4. Line' = Line
    BY <1>1, <2>2, LineSame DEF InQueue
  <2> QED
    BY <1>1, <1>2, <2>1, <2>2, <2>3, <2>4 DEF Queue!EnterUrgent
<1>4. CASE ~Ready(c, 0)
  <2>1. busy_ /\ busy_' = busy_ /\ turn' = [turn EXCEPT ![c] = "asleep"]
    BY <1>1, <1>4 DEF AcquireUrgent, Ready, QueuedCallers, Mapped, TurnsInv, TurnsTypeOK
  <2>2. Waiting' = Waiting \union {c} /\ \A d \in At("holds") : turn'[d] = "holds"
    BY <1>1, <2>1 DEF Waiting, Asleep, At, Mapped, TurnsInv, TurnsTypeOK
  <2>3. Holder' = Holder
    BY <2>1, <2>2, HolderSame
  <2>4. Line' = Line
    <3>1. InQueue' = InQueue
      BY <1>1, <2>2 DEF InQueue, QueuedCallers
    <3> QED
      BY <1>1, <3>1, LineSame
  <2> QED
    BY <1>1, <1>2, <2>1, <2>2, <2>3, <2>4 DEF Queue!EnterUrgent
<1> QED
  BY <1>3, <1>4

\* A queued caller that comes has the device or is last in line (acquire).
LEMMA QueuedEnters ==
    ASSUME Mapped, Mapped', NEW c \in Callers, AcquireQueued(c)
    PROVE  Queue!EnterQueued(c)
<1>1. c \in Callers \ UrgentCallers /\ turn[c] = "out" /\ c \notin InQueue
  BY DEF AcquireQueued, QueuedCallers, InQueue, Waiting, Asleep, At
<1>2. c # Holder /\ (Holder = Nobody <=> ~busy_)
  BY <1>1, HolderNot
<1>3. \A i \in 1..Len(Line) : Line[i] # c
  BY <1>1 DEF Mapped, LineRead
<1>4. Ready(c, next_) <=> Holder = Nobody /\ Waiting \intersect UrgentCallers = {} /\ Line = <<>>
  BY <1>1, <1>2, CrowdEmpty, LineEmpty DEF Ready, QueuedCallers, Mapped
<1>5. \E where \in {"holds", "asleep"} : turn' = [turn EXCEPT ![c] = where]
  BY DEF AcquireQueued
<1>6. Waiting' \intersect UrgentCallers = Waiting \intersect UrgentCallers
  BY <1>1, <1>5 DEF Waiting, Asleep, At, Mapped, TurnsInv, TurnsTypeOK
<1>7. CASE Ready(c, next_)
  <2>1. /\ turn' = [turn EXCEPT ![c] = "holds"] /\ serving_ = next_
        /\ serving_' = Increment(serving_) /\ next_' = Increment(next_)
    BY <1>1, <1>7 DEF AcquireQueued, Ready, QueuedCallers
  <2>2. turn'[c] = "holds"
    BY <2>1 DEF Mapped, TurnsInv, TurnsTypeOK
  <2>3. Holder' = c
    BY <2>2, HolderAfter DEF Mapped
  <2>4. Line' = <<>>
    <3>1. (Mapped => (serving_ = next_ <=> Line = <<>>))'
      BY LineEmpty, PTL
    <3> QED
      BY <2>1, <3>1
  <2> QED
    BY <1>1, <1>2, <1>3, <1>4, <1>6, <1>7, <2>3, <2>4 DEF Queue!EnterQueued
<1>8. CASE ~Ready(c, next_)
  <2>1. turn' = [turn EXCEPT ![c] = "asleep"] /\ busy_' = busy_
    BY <1>8 DEF AcquireQueued
  <2>2. \A d \in At("holds") : turn'[d] = "holds"
    BY <1>1, <2>1 DEF At, Mapped, TurnsInv, TurnsTypeOK
  <2>3. Holder' = Holder
    BY <2>1, <2>2, HolderSame
  <2>4. Line' = Append(Line, c)
    BY <1>8, LineGrows
  <2> QED
    BY <1>1, <1>2, <1>3, <1>4, <1>6, <1>8, <2>3, <2>4 DEF Queue!EnterQueued
<1> QED
  BY <1>7, <1>8

\* A caller that wakes is served, or nothing has happened (acquire).
LEMMA RecheckServes ==
    ASSUME Mapped, Mapped', NEW c \in Callers, Recheck(c)
    PROVE  Queue!ServeUrgent(c) \/ Queue!ServeQueued \/ UNCHANGED Queue!queueVars
<1>1. turn[c] = "awake" /\ c \in Waiting
  BY DEF Recheck, Waiting, At
<1>2. c # Holder /\ (Holder = Nobody <=> ~busy_)
  BY <1>1, HolderNot
<1>3. CASE Ready(c, ticket[c])
  <2>1. /\ ~busy_ /\ next_' = next_ /\ turn' = [turn EXCEPT ![c] = "holds"]
        /\ ticket' = [ticket EXCEPT ![c] = 0]
    BY <1>3 DEF Recheck, Ready
  <2>2. turn'[c] = "holds" /\ Waiting' = Waiting \ {c}
    BY <2>1 DEF Waiting, Asleep, At, Mapped, TurnsInv, TurnsTypeOK
  <2>3. Holder' = c
    BY <2>2, HolderAfter DEF Mapped
  <2>4. CASE c \in UrgentCallers
    <3>1. InQueue' = InQueue /\ c \notin InQueue
      BY <2>2, <2>4 DEF InQueue, QueuedCallers
    <3>2. \A d \in InQueue : ticket'[d] = ticket[d]
      BY <2>1, <3>1, Zenon DEF Mapped, TurnsInv, TurnsTypeOK, InQueue, Waiting, Asleep, At
    <3>3. serving_' = serving_
      BY <1>3, <2>4 DEF Recheck
    <3>4. Line' = Line
      BY <2>1, <3>1, <3>2, <3>3, LineSame
    <3> QED
      BY <1>1, <1>2, <2>1, <2>2, <2>3, <2>4, <3>4 DEF Queue!ServeUrgent
  <2>5. CASE c \notin UrgentCallers
    <3>1. c \in QueuedCallers /\ urgent_ = 0
      BY <1>3, <2>5 DEF QueuedCallers, Ready
    <3>2. Line # <<>> /\ Head(Line) = c /\ Line' = Tail(Line)
      BY <1>3, <3>1, LineShrinks
    <3>3. Waiting \intersect UrgentCallers = {}
      BY <3>1, CrowdEmpty DEF Mapped
    <3> QED
      BY <1>2, <2>1, <2>2, <2>3, <3>2, <3>3 DEF Queue!ServeQueued
  <2> QED
    BY <2>4, <2>5
<1>4. CASE ~Ready(c, ticket[c])
  <2>1. /\ turn' = [turn EXCEPT ![c] = "asleep"]
        /\ UNCHANGED <<busy_, next_, serving_, ticket>>
    BY <1>4 DEF Recheck
  <2>2. Waiting' = Waiting /\ \A d \in At("holds") : turn'[d] = "holds"
    BY <1>1, <2>1 DEF Waiting, Asleep, At, Mapped, TurnsInv, TurnsTypeOK
  <2>3. Holder' = Holder
    BY <2>1, <2>2, HolderSame
  <2>4. Line' = Line
    BY <2>1, <2>2, LineSame DEF InQueue
  <2> QED
    BY <2>2, <2>3, <2>4 DEF Queue!queueVars
<1> QED
  BY <1>3, <1>4

\* A caller that wakes by itself or is notified is not served by that (release).
LEMMA WakingStutters ==
    ASSUME Mapped, Mapped', NEW c \in Callers, Spurious(c) \/ notify_all(c)
    PROVE  UNCHANGED Queue!queueVars
<1>1. UNCHANGED <<busy_, next_, serving_, ticket>>
  BY DEF Spurious, notify_all, counters
<1>2. Waiting' = Waiting
  BY OthersKeepLine DEF Mapped
<1>3. \A d \in At("holds") : turn'[d] = "holds"
  BY DEF Spurious, notify_all, Asleep, At, Mapped, TurnsInv, TurnsTypeOK
<1>4. Holder' = Holder
  BY <1>1, <1>3, HolderSame
<1>5. Line' = Line
  BY <1>1, <1>2, LineSame DEF InQueue
<1> QED
  BY <1>2, <1>4, <1>5 DEF Queue!queueVars

\* The holder gives up the device (release).
LEMMA UnlockFrees ==
    ASSUME Mapped, Mapped', NEW c \in Callers, Unlock(c)
    PROVE  Queue!Free
<1>1. turn[c] = "holds" /\ busy_' = FALSE /\ UNCHANGED <<next_, serving_, ticket>>
  BY DEF Unlock, counters
<1>2. Holder = c /\ Holder # Nobody
  BY <1>1, HolderIs, CallersAssumption DEF Mapped
<1>3. Holder' = Nobody
  BY <1>1, HolderAfter DEF Mapped
<1>4. Waiting' = Waiting
  BY OthersKeepLine DEF Mapped
<1>5. Line' = Line
  BY <1>1, <1>4, LineSame DEF InQueue
<1> QED
  BY <1>2, <1>3, <1>4, <1>5 DEF Queue!Free

\* The counters and the ticket wait implement the queue for any number of callers
\* and of tickets above it: one holder at a time, urgent callers first, the others
\* in the order they came, also when tickets wrap (turns).
THEOREM TurnsImplementQueue == TurnsSpec => QueueImplemented
<1>1. TurnsInit => Queue!Init
  <2> SUFFICES ASSUME TurnsInit PROVE Queue!Init
    OBVIOUS
  <2>1. Mapped
    BY TurnsInitial, LineInitial, LineOfTickets DEF Mapped
  <2>2. Line = <<>>
    BY <2>1, LineEmpty DEF TurnsInit
  <2>3. Holder = Nobody
    BY <2>1, HolderIs DEF Mapped, TurnsInit
  <2>4. Waiting = {}
    BY DEF TurnsInit, Waiting, Asleep, At
  <2> QED
    BY <2>2, <2>3, <2>4 DEF Queue!Init
<1>2. Mapped /\ Mapped' /\ [TurnsNext]_turnVars => [Queue!Next]_Queue!queueVars
  <2> SUFFICES ASSUME Mapped, Mapped', [TurnsNext]_turnVars
               PROVE  Queue!Next \/ UNCHANGED Queue!queueVars
    OBVIOUS
  <2>1. CASE UNCHANGED turnVars
    <3>1. Waiting' = Waiting /\ \A d \in At("holds") : turn'[d] = "holds"
      BY <2>1 DEF turnVars, Waiting, Asleep, At
    <3>2. Holder' = Holder
      BY <2>1, <3>1, HolderSame DEF turnVars
    <3>3. Line' = Line
      BY <2>1, <3>1, LineSame DEF turnVars, counters, InQueue
    <3> QED
      BY <3>1, <3>2, <3>3 DEF Queue!queueVars
  <2>2. ASSUME NEW c \in Callers, acquire(c)
        PROVE  Queue!EnterUrgent(c) \/ Queue!EnterQueued(c)
    BY <2>2, UrgentEnters, QueuedEnters DEF acquire
  <2>3. ASSUME NEW c \in Callers, Recheck(c)
        PROVE  Queue!ServeUrgent(c) \/ Queue!ServeQueued \/ UNCHANGED Queue!queueVars
    BY <2>3, RecheckServes
  <2>4. ASSUME NEW c \in Callers, Spurious(c) \/ notify_all(c)
        PROVE  UNCHANGED Queue!queueVars
    BY <2>4, WakingStutters
  <2>5. ASSUME NEW c \in Callers, Unlock(c)
        PROVE  Queue!Free
    BY <2>5, UnlockFrees
  <2> QED
    BY <2>1, <2>2, <2>3, <2>4, <2>5 DEF TurnsNext, Queue!Next
<1>3. TurnsInv /\ LineInv => Mapped
  BY LineOfTickets DEF Mapped
<1> QED
  BY <1>1, <1>2, <1>3, LineInvariant, PTL DEF TurnsSpec, QueueImplemented, Queue!Spec

-------------------------------------------------------------------------------
(* The order of waiting callers.                                           *)

\* A caller that waits goes on to wait unless it takes the turn (acquire).
LEMMA WaitsOn ==
    ASSUME TurnsInv, [TurnsNext]_turnVars, NEW d \in Waiting, turn'[d] # "holds"
    PROVE  d \in Waiting'
<1> USE DEF TurnsInv, TurnsTypeOK, Waiting, Asleep, At
<1>1. CASE UNCHANGED turnVars
  BY <1>1 DEF turnVars
<1>2. ASSUME NEW c \in Callers, acquire(c) PROVE d \in Waiting'
  <2>1. d # c /\ \E where : turn' = [turn EXCEPT ![c] = where]
    BY <1>2 DEF acquire, AcquireUrgent, AcquireQueued
  <2> QED
    BY <2>1
<1>3. ASSUME NEW c \in Callers, Recheck(c) PROVE d \in Waiting'
  BY <1>3 DEF Recheck
<1>4. ASSUME NEW c \in Callers, Spurious(c) \/ Unlock(c) \/ notify_all(c) PROVE d \in Waiting'
  BY <1>4 DEF Spurious, Unlock, notify_all
<1> QED
  BY <1>1, <1>2, <1>3, <1>4 DEF TurnsNext

\* One who goes on to wait keeps its ticket, and all in line move up together
\* when the first one takes the turn (acquire).
LEMMA MovesUp ==
    ASSUME TurnsInv, LineInv, [TurnsNext]_turnVars
    PROVE  \/ \A d \in InQueue \intersect InQueue' : Before(ticket[d])' = Before(ticket[d])
           \/ \A d \in InQueue \intersect InQueue' : Before(ticket[d])' = Before(ticket[d]) - 1
<1> USE DEF TurnsInv
<1>1. serving_ \in 0..(Tickets - 1) /\ \A d \in InQueue : ticket[d] \in 0..(Tickets - 1)
  BY DEF TurnsTypeOK, InQueue, QueuedCallers
<1>2. ASSUME serving_' = serving_, \A d \in InQueue \intersect InQueue' : ticket'[d] = ticket[d]
      PROVE  \A d \in InQueue \intersect InQueue' : Before(ticket[d])' = Before(ticket[d])
  BY <1>2 DEF Before
<1>3. CASE UNCHANGED turnVars
  BY <1>2, <1>3 DEF turnVars, counters
<1>4. ASSUME NEW c \in Callers, AcquireUrgent(c) \/ Spurious(c) \/ Unlock(c) \/ notify_all(c)
      PROVE  \A d \in InQueue \intersect InQueue' : Before(ticket[d])' = Before(ticket[d])
  BY <1>2, <1>4 DEF AcquireUrgent, Spurious, Unlock, notify_all, counters
<1>5. ASSUME NEW c \in Callers, AcquireQueued(c)
      PROVE  \A d \in InQueue \intersect InQueue' : Before(ticket[d])' = Before(ticket[d])
  <2>1. c \notin InQueue /\ c \in QueuedCallers
    BY <1>5 DEF AcquireQueued, InQueue, Waiting, Asleep, At
  <2>2. CASE Ready(c, next_)
    <3>1. serving_ = next_
      BY <2>1, <2>2 DEF Ready
    <3>2. InLine = 0
      BY <1>1, <3>1, Distance DEF InLine
    <3>3. InQueue = {}
      BY <3>2, QueueFinite, FS_EmptySet DEF LineInv
    <3> QED
      BY <3>3
  <2>3. CASE ~Ready(c, next_)
    <3>1. serving_' = serving_ /\ ticket' = [ticket EXCEPT ![c] = next_]
      BY <1>5, <2>3 DEF AcquireQueued
    <3>2. \A d \in InQueue : ticket'[d] = ticket[d]
      BY <2>1, <3>1, Zenon DEF TurnsTypeOK, InQueue, Waiting, Asleep, At
    <3> QED
      BY <1>2, <3>1, <3>2
  <2> QED
    BY <2>2, <2>3
<1>6. ASSUME NEW c \in Callers, Recheck(c)
      PROVE  \/ \A d \in InQueue \intersect InQueue' : Before(ticket[d])' = Before(ticket[d])
             \/ \A d \in InQueue \intersect InQueue' : Before(ticket[d])' = Before(ticket[d]) - 1
  <2>1. CASE ~Ready(c, ticket[c])
    BY <1>2, <1>6, <2>1 DEF Recheck
  <2>2. CASE Ready(c, ticket[c])
    <3>1. turn' = [turn EXCEPT ![c] = "holds"] /\ ticket' = [ticket EXCEPT ![c] = 0]
      BY <1>6, <2>2 DEF Recheck
    <3>2. c \notin InQueue'
      BY <3>1 DEF InQueue, Waiting, Asleep, At, TurnsTypeOK
    <3>3. \A d \in InQueue \intersect InQueue' : d # c /\ ticket'[d] = ticket[d]
      BY <3>1, <3>2, Zenon DEF TurnsTypeOK, InQueue, Waiting, Asleep, At
    <3>4. CASE c \in UrgentCallers
      <4>1. serving_' = serving_
        BY <1>6, <2>2, <3>4 DEF Recheck
      <4> QED
        BY <1>2, <3>3, <4>1
    <3>5. CASE c \notin UrgentCallers
      <4>1. serving_ = ticket[c] /\ serving_' = Increment(serving_) /\ c \in InQueue
        BY <1>6, <2>2, <3>5 DEF Recheck, Ready, QueuedCallers, InQueue, Waiting, At
      <4>2. serving_' = IF serving_ = Tickets - 1 THEN 0 ELSE serving_ + 1
        BY <1>1, <4>1, Following
      <4>3. serving_' \in 0..(Tickets - 1)
        BY <1>1, <4>1, IncrementType
      <4>4. ASSUME NEW d \in InQueue \intersect InQueue'
            PROVE  Before(ticket[d])' = Before(ticket[d]) - 1
        <5> DEFINE t == ticket[d]
                   far(n) == IF t >= n THEN t - n ELSE t - n + Tickets
        <5>1. t \in 0..(Tickets - 1) /\ t # serving_ /\ ticket'[d] = t
          BY <1>1, <3>3, <4>1 DEF LineInv
        <5>2. (t - serving_') % Tickets = far(serving_') /\ (t - serving_) % Tickets = far(serving_)
          BY <1>1, <4>3, <5>1, Distance
        <5>3. far(serving_') = far(serving_) - 1
          BY <1>1, <4>2, <5>1, SomeTickets
        <5> HIDE DEF far
        <5> QED
          BY <5>1, <5>2, <5>3 DEF Before
      <4> QED
        BY <4>4
    <3> QED
      BY <3>4, <3>5
  <2> QED
    BY <2>1, <2>2
<1> QED
  BY <1>3, <1>4, <1>5, <1>6 DEF TurnsNext, acquire

\* A queued caller that begins to wait is behind all that wait (acquire).
LEMMA JoinsLast ==
    ASSUME TurnsInv, LineInv, [TurnsNext]_turnVars, NEW c \in InQueue', c \notin InQueue,
           NEW d \in InQueue \intersect InQueue'
    PROVE  Before(ticket[d])' < Before(ticket[c])'
<1> USE DEF TurnsInv
<1>1. AcquireQueued(c) /\ ~Ready(c, next_)
  <2>1. c \in QueuedCallers /\ turn'[c] \in {"asleep", "awake"} /\ turn[c] \notin {"asleep", "awake"}
    BY DEF InQueue, QueuedCallers, Waiting, Asleep, At
  <2>2. ~UNCHANGED turnVars
    BY <2>1 DEF turnVars
  <2>3. ASSUME NEW e \in Callers,
               AcquireUrgent(e) \/ Recheck(e) \/ Spurious(e) \/ Unlock(e) \/ notify_all(e)
        PROVE  FALSE
    BY <2>1, <2>3 DEF AcquireUrgent, Recheck, Spurious, Unlock, notify_all, TurnsTypeOK,
                      QueuedCallers, Asleep, At
  <2>4. PICK e \in Callers : AcquireQueued(e)
    BY <2>2, <2>3 DEF TurnsNext, acquire
  <2>5. \E where \in {"holds", "asleep"} : turn' = [turn EXCEPT ![e] = where]
    BY <2>4 DEF AcquireQueued
  <2>6. e = c
    BY <2>1, <2>5 DEF TurnsTypeOK
  <2>7. Ready(c, next_) => turn'[c] = "holds"
    BY <2>4, <2>6 DEF AcquireQueued, TurnsTypeOK
  <2> QED
    BY <2>1, <2>4, <2>6, <2>7
<1>2. serving_' = serving_ /\ ticket' = [ticket EXCEPT ![c] = next_]
  BY <1>1 DEF AcquireQueued
<1>3. ticket'[c] = next_ /\ ticket'[d] = ticket[d]
  BY <1>2, Zenon DEF TurnsTypeOK, InQueue, Waiting, Asleep, At
<1>4. Before(ticket[c])' = InLine /\ Before(ticket[d])' = Before(ticket[d])
  BY <1>2, <1>3 DEF Before, InLine
<1> QED
  BY <1>4 DEF LineInv

-------------------------------------------------------------------------------
(* The pipeline.                                                           *)

\* Where a caller has the turn whatever it does next, and where it may get it.
Using == {"loop", "yield", "stage", "fail", "release"}
Asking == {"call", "resume"}

Names == (Callers \union {Nobody}) \X Nat

PipeTypeOK ==
    /\ failed_ \in BOOLEAN
    /\ staged \in [Halves -> Names]
    /\ pending \subseteq Halves
    /\ cancel \subseteq Callers
    /\ at \in [Callers -> Using \union Asking \union {"idle", "return", "done"}]
    /\ chunk \in [Callers -> Nat]
    /\ prior \in [Callers -> Names]
    /\ out = [c \in Callers |-> out[c]]
    /\ \A c \in Callers : out[c] \in [0..(Chunks[c] - 1) -> Names]
    /\ returned \in [Callers -> {"none", "false", "empty", "results"}]

\* The turn goes with the places in pipeline that need it.
TurnMatches ==
    \A c \in Callers :
        /\ at[c] \in Using => turn[c] = "holds"
        /\ turn[c] = "holds" => at[c] \in Using \union Asking
        /\ turn[c] \in {"asleep", "awake"} => at[c] \in Asking

\* No caller works on a device that has failed.
FailedUnused == failed_ => \A c \in Callers : at[c] \notin Using \ {"release"}

\* What a caller has collected of the chunks it has staged.
AllBefore(c, n) == \A k \in 0..(Chunks[c] - 1) : k < n => out[c][k] = <<c, k>>

\* In the loop the prior chunk, if any, is the last one staged, is in its half
\* still, and is all that is not collected; nothing else is on the device.
InLoop(c) ==
    /\ chunk[c] <= Chunks[c]
    /\ \/ /\ prior[c] = NoChunk
          /\ AllBefore(c, chunk[c])
          /\ pending = {}
       \/ /\ chunk[c] > 0
          /\ prior[c] = <<c, chunk[c] - 1>>
          /\ staged[HalfOf(prior[c])] = prior[c]
          /\ AllBefore(c, chunk[c] - 1)
          /\ pending \subseteq {HalfOf(prior[c])}

\* Before a caller has the turn, and while it has given it up, nothing of it is
\* on the device and all that it has staged is collected.
Clear(c) ==
    /\ prior[c] = NoChunk
    /\ chunk[c] <= Chunks[c]
    /\ AllBefore(c, chunk[c])

ProgressOf(c) ==
    /\ at[c] = "loop" => InLoop(c)
    /\ at[c] \in {"idle", "call"} => Clear(c) /\ chunk[c] = 0
    /\ at[c] \in {"yield", "resume", "stage"} => Clear(c) /\ chunk[c] < Chunks[c]
    /\ at[c] \in {"release", "return"} /\ returned[c] # "false" =>
            c \in cancel \/ AllBefore(c, Chunks[c])
    /\ at[c] # "done" => returned[c] \in {"none", "false"}

Progress == \A c \in Callers : ProgressOf(c)

\* A device that has not failed is idle unless its holder is in the loop or has
\* just failed.
DeviceIdle ==
    ~failed_ /\ pending # {} => \E c \in Callers : at[c] \in {"loop", "fail"}

\* Inductive.
PipeInv ==
    /\ TurnsInv /\ PipeTypeOK /\ TurnMatches /\ FailedUnused
    /\ Progress /\ DeviceIdle /\ OwnRows /\ EmptyMeansValid

-------------------------------------------------------------------------------
(* Steps.                                                                  *)

\* Nothing is on the device at first (context members).
LEMMA PipeInitial == Init => PipeInv
<1> SUFFICES ASSUME Init PROVE PipeInv
  OBVIOUS
<1>1. TurnsInv /\ turn = [c \in Callers |-> "out"]
  BY TurnsInitial DEF Init, TurnsInit
<1>2. NoChunk \in Names
  BY DEF NoChunk, Names
<1>3. PipeTypeOK
  <2>1. out = [c \in Callers |-> out[c]]
    BY DEF Init
  <2>2. \A c \in Callers : out[c] \in [0..(Chunks[c] - 1) -> Names]
    BY <1>2 DEF Init
  <2> QED
    BY <1>2, <2>1, <2>2 DEF Init, PipeTypeOK, Using, Asking
<1>4. Progress
  BY ChunksAssumption DEF Init, Progress, ProgressOf, Clear, AllBefore
<1>5. OwnRows
  BY DEF Init, OwnRows
<1> QED
  BY <1>1, <1>3, <1>4, <1>5
     DEF PipeInv, Init, TurnMatches, FailedUnused, DeviceIdle, EmptyMeansValid, Using, Asking

\* Only the holder of the turn uses the device (turns, pipeline).
LEMMA OnlyHolderUses ==
    ASSUME PipeInv, NEW c \in Callers, turn[c] = "holds", NEW d \in Callers, d # c
    PROVE  at[d] \notin Using /\ turn[d] # "holds"
BY DEF PipeInv, TurnMatches, TurnsInv, Exclusive, At

\* Nothing is on a device that works when its holder is about to use it.
LEMMA IdleForHolder ==
    ASSUME PipeInv, NEW c \in Callers, turn[c] = "holds", ~failed_, at[c] \notin {"loop", "fail"}
    PROVE  pending = {}
BY OnlyHolderUses DEF PipeInv, DeviceIdle, Using

\* The invariant is kept by a step of the holder if its own part of it is.
LEMMA HolderKeeps ==
    ASSUME PipeInv, NEW c \in Callers, turn[c] = "holds", UNCHANGED turnVars, cancel' = cancel,
           NEW where \in Using, Go(c, where), PipeTypeOK',
           failed_' => where = "release",
           ~failed_' /\ pending' # {} => where \in {"loop", "fail"},
           \A d \in Callers \ {c} :
                /\ chunk'[d] = chunk[d] /\ prior'[d] = prior[d]
                /\ out'[d] = out[d] /\ returned'[d] = returned[d],
           ProgressOf(c)',
           \A k \in 0..(Chunks[c] - 1) : out'[c][k] \in {NoChunk, <<c, k>>}
    PROVE  PipeInv'
<1>1. TurnsInv' /\ turn' = turn
  BY DEF PipeInv, turnVars, counters, TurnsInv, TurnsTypeOK, Exclusive, UrgentCounted,
         NoLostWakeup, Ready, Waiting, Asleep, At
<1>2. at'[c] = where /\ \A d \in Callers \ {c} : at'[d] = at[d] /\ at[d] \notin Using
  BY OnlyHolderUses DEF PipeInv, PipeTypeOK, Go
<1>3. TurnMatches'
  BY <1>1, <1>2 DEF PipeInv, TurnMatches
<1>4. FailedUnused'
  BY <1>2 DEF FailedUnused
<1>5. Progress'
  <2> SUFFICES ASSUME NEW d \in Callers \ {c} PROVE ProgressOf(d)'
    BY DEF Progress
  <2>1. at[d] # "loop" /\ ProgressOf(d)
    BY <1>2 DEF PipeInv, Progress, Using
  <2> QED
    BY <1>2, <2>1 DEF ProgressOf, Clear, AllBefore
<1>6. DeviceIdle'
  BY <1>2 DEF DeviceIdle
<1>7. OwnRows'
  BY DEF PipeInv, OwnRows, PipeTypeOK
<1>8. EmptyMeansValid'
  <2>1. returned'[c] \in {"none", "false"}
    BY <1>2 DEF ProgressOf, Using
  <2> QED
    BY <2>1 DEF PipeInv, EmptyMeansValid
<1> QED
  BY <1>1, <1>3, <1>4, <1>5, <1>6, <1>7, <1>8 DEF PipeInv

\* The name of a chunk is not that of none.
LEMMA NameIs ==
    ASSUME NEW c \in Callers, NEW k \in Nat
    PROVE  <<c, k>> \in Names /\ <<c, k>> # NoChunk /\ HalfOf(<<c, k>>) \in Halves
<1>1. k % 2 \in 0..1
  OBVIOUS
<1>2. c # Nobody
  BY CallersAssumption
<1> QED
  BY <1>1, <1>2 DEF Names, NoChunk, HalfOf, Halves

\* Where a caller has chunks left to collect.
LEMMA PriorIs ==
    ASSUME PipeInv, NEW c \in Callers, at[c] \in {"loop", "stage"}
    PROVE  /\ chunk[c] \in Nat /\ Chunks[c] \in Nat /\ chunk[c] <= Chunks[c]
           /\ prior[c] = NoChunk => AllBefore(c, chunk[c]) /\ pending = {}
           /\ prior[c] # NoChunk =>
                /\ at[c] = "loop"
                /\ chunk[c] - 1 \in 0..(Chunks[c] - 1)
                /\ prior[c] = <<c, chunk[c] - 1>>
                /\ staged[HalfOf(prior[c])] = prior[c]
                /\ AllBefore(c, chunk[c] - 1)
                /\ pending \subseteq {HalfOf(prior[c])}
<1>1. chunk[c] \in Nat /\ Chunks[c] \in Nat
  BY ChunksAssumption DEF PipeInv, PipeTypeOK
<1>2. CASE at[c] = "loop"
  <2>1. InLoop(c)
    BY <1>2 DEF PipeInv, Progress, ProgressOf
  <2>2. CASE prior[c] = NoChunk
    <3>1. ~(chunk[c] > 0 /\ prior[c] = <<c, chunk[c] - 1>>)
      BY <1>1, <2>2, NameIs
    <3> QED
      BY <1>1, <2>1, <2>2, <3>1 DEF InLoop
  <2>3. CASE prior[c] # NoChunk
    BY <1>1, <1>2, <2>1, <2>3 DEF InLoop
  <2> QED
    BY <2>2, <2>3
<1>3. CASE at[c] = "stage"
  <2>1. Clear(c) /\ chunk[c] < Chunks[c]
    BY <1>3 DEF PipeInv, Progress, ProgressOf
  <2>2. turn[c] = "holds" /\ ~failed_
    BY <1>3 DEF PipeInv, TurnMatches, FailedUnused, Using, PipeTypeOK
  <2>3. pending = {}
    BY <1>3, <2>2, IdleForHolder
  <2>4. prior[c] = NoChunk /\ AllBefore(c, chunk[c]) /\ chunk[c] <= Chunks[c]
    BY <1>1, <2>1 DEF Clear
  <2> QED
    BY <1>1, <2>3, <2>4, Zenon
<1> QED
  BY <1>2, <1>3

\* Once the half holds the prior chunk its results are collected for its own
\* rows, and then nothing before the current chunk is left (collect).
LEMMA CollectedIs ==
    ASSUME PipeInv, NEW c \in Callers, at[c] \in {"loop", "stage"}, NEW contents,
           prior[c] # NoChunk => contents[HalfOf(prior[c])] = prior[c],
           NEW o, o = Collected(c, contents)
    PROVE  /\ o = [d \in Callers |-> o[d]]
           /\ \A d \in Callers : o[d] \in [0..(Chunks[d] - 1) -> Names]
           /\ \A d \in Callers \ {c} : o[d] = out[d]
           /\ \A k \in 0..(Chunks[c] - 1) :
                o[c][k] \in {NoChunk, <<c, k>>} /\ (k < chunk[c] => o[c][k] = <<c, k>>)
<1>1. /\ out = [d \in Callers |-> out[d]]
      /\ \A d \in Callers : out[d] \in [0..(Chunks[d] - 1) -> Names]
      /\ \A k \in 0..(Chunks[c] - 1) : out[c][k] \in {NoChunk, <<c, k>>}
  BY DEF PipeInv, PipeTypeOK, OwnRows
<1>2. CASE prior[c] = NoChunk
  <2>1. o = out /\ AllBefore(c, chunk[c])
    BY <1>2, PriorIs DEF Collected
  <2>2. \A k \in 0..(Chunks[c] - 1) : k < chunk[c] => out[c][k] = <<c, k>>
    BY <2>1 DEF AllBefore
  <2> QED
    BY <1>1, <2>1, <2>2, Zenon
<1>3. CASE prior[c] # NoChunk
  <2> DEFINE last == chunk[c] - 1
  <2>1. /\ chunk[c] \in Nat /\ last \in 0..(Chunks[c] - 1) /\ prior[c] = <<c, last>>
        /\ AllBefore(c, last)
    BY <1>3, PriorIs
  <2>2. o = [out EXCEPT ![c][last] = <<c, last>>]
    <3> HIDE DEF last
    <3>1. prior[c][2] = last /\ contents[HalfOf(prior[c])] = <<c, last>>
      BY <1>3, <2>1
    <3>2. o = [out EXCEPT ![c][prior[c][2]] = contents[HalfOf(prior[c])]]
      BY <1>3 DEF Collected
    <3> QED
      BY <3>1, <3>2, Zenon
  <2>3. <<c, last>> \in Names
    BY <2>1, NameIs
  <2>4. \A k \in Nat : k < chunk[c] <=> k < last \/ k = last
    BY <2>1
  <2> HIDE DEF last
  <2>5. /\ o = [d \in Callers |-> o[d]]
        /\ \A d \in Callers \ {c} : o[d] = out[d]
        /\ o[c] = [out[c] EXCEPT ![last] = <<c, last>>]
    BY <1>1, <2>2
  <2>6. o[c] \in [0..(Chunks[c] - 1) -> Names]
    BY <1>1, <2>3, <2>5, ZenonT(40)
  <2>7. \A k \in 0..(Chunks[c] - 1) : o[c][k] = IF k = last THEN <<c, k>> ELSE out[c][k]
    BY <1>1, <2>1, <2>5
  <2>8. \A k \in 0..(Chunks[c] - 1) :
            o[c][k] \in {NoChunk, <<c, k>>} /\ (k < chunk[c] => o[c][k] = <<c, k>>)
    <3> SUFFICES ASSUME NEW k \in 0..(Chunks[c] - 1)
                 PROVE  o[c][k] \in {NoChunk, <<c, k>>} /\ (k < chunk[c] => o[c][k] = <<c, k>>)
      OBVIOUS
    <3>1. CASE k = last
      BY <2>7, <3>1
    <3>2. CASE k # last
      <4>1. o[c][k] = out[c][k] /\ out[c][k] \in {NoChunk, <<c, k>>}
        BY <1>1, <2>7, <3>2
      <4>2. k < chunk[c] => k < last
        BY <2>4, <3>2
      <4> QED
        BY <2>1, <4>1, <4>2 DEF AllBefore
    <3> QED
      BY <3>1, <3>2
  <2> QED
    BY <1>1, <2>5, <2>6, <2>8
<1> QED
  BY <1>2, <1>3

\* A caller declines, begins or resumes: it has not touched the device (pipeline).
LEMMA EntryKeeps ==
    ASSUME PipeInv, NEW c \in Callers, Unusable(c) \/ Begin(c) \/ Resume(c)
    PROVE  PipeInv'
<1>1. /\ turn[c] = "holds" /\ at[c] \in Asking
      /\ UNCHANGED <<failed_, staged, pending, cancel, chunk, prior, out, turnVars>>
  BY DEF Unusable, Begin, Resume, Decline, Holds, device, locals, Asking
<1>2. ~failed_ => pending = {}
  BY <1>1, IdleForHolder DEF Asking
<1>3. /\ Clear(c) /\ chunk[c] <= Chunks[c]
      /\ at[c] = "resume" => chunk[c] < Chunks[c]
      /\ returned[c] \in {"none", "false"}
  BY <1>1 DEF PipeInv, Progress, ProgressOf, Clear, Asking
<1>4. \A k \in 0..(Chunks[c] - 1) : out'[c][k] \in {NoChunk, <<c, k>>}
  BY <1>1 DEF PipeInv, OwnRows, PipeTypeOK
<1>5. CASE Go(c, "release") /\ returned' = [returned EXCEPT ![c] = "false"]
  <2>1. PipeTypeOK' /\ at'[c] = "release" /\ returned'[c] = "false"
    BY <1>1, <1>5 DEF PipeInv, PipeTypeOK, Go, Using
  <2>2. ProgressOf(c)'
    BY <2>1 DEF ProgressOf
  <2>3. \A d \in Callers \ {c} : returned'[d] = returned[d]
    BY <1>5 DEF PipeInv, PipeTypeOK
  <2> QED
    BY <1>1, <1>2, <1>4, <1>5, <2>1, <2>2, <2>3, HolderKeeps DEF Using
<1>6. CASE ~failed_ /\ Go(c, "fail") /\ returned' = returned
  <2>1. PipeTypeOK' /\ at'[c] = "fail"
    BY <1>1, <1>6 DEF PipeInv, PipeTypeOK, Go, Using
  <2>2. ProgressOf(c)'
    BY <1>3, <1>6, <2>1 DEF ProgressOf
  <2> QED
    BY <1>1, <1>4, <1>6, <2>1, <2>2, HolderKeeps DEF Using
<1>7. CASE ~failed_ /\ at[c] = "call" /\ Go(c, "loop") /\ returned' = returned
  <2>1. PipeTypeOK' /\ at'[c] = "loop"
    BY <1>1, <1>7 DEF PipeInv, PipeTypeOK, Go, Using
  <2>2. InLoop(c)'
    BY <1>1, <1>2, <1>3, <1>7 DEF InLoop, Clear, AllBefore
  <2>3. ProgressOf(c)'
    BY <1>3, <1>7, <2>1, <2>2 DEF ProgressOf
  <2> QED
    BY <1>1, <1>4, <1>7, <2>1, <2>3, HolderKeeps DEF Using
<1>8. CASE ~failed_ /\ at[c] = "resume" /\ Go(c, "stage") /\ returned' = returned
  <2>1. PipeTypeOK' /\ at'[c] = "stage"
    BY <1>1, <1>8 DEF PipeInv, PipeTypeOK, Go, Using
  <2>2. Clear(c)' /\ chunk'[c] < Chunks[c]
    BY <1>1, <1>3, <1>8 DEF Clear, AllBefore
  <2>3. ProgressOf(c)'
    BY <1>3, <1>8, <2>1, <2>2 DEF ProgressOf
  <2> QED
    BY <1>1, <1>2, <1>4, <1>8, <2>1, <2>3, HolderKeeps DEF Using
<1>9. CASE Unusable(c)
  BY <1>5, <1>9 DEF Unusable, Decline
<1>10. CASE Begin(c)
  BY <1>6, <1>7, <1>10 DEF Begin, Holds
<1>11. CASE Resume(c)
  BY <1>5, <1>6, <1>8, <1>11 DEF Resume, Decline, Holds
<1> QED
  BY <1>9, <1>10, <1>11

\* A caller gives up the device once it has collected its prior chunk (yield).
LEMMA YieldKeeps ==
    ASSUME PipeInv, NEW c \in Callers, Yield(c)
    PROVE  PipeInv'
<1>1. /\ turn[c] = "holds" /\ at[c] = "loop"
      /\ prior' = [prior EXCEPT ![c] = NoChunk]
      /\ UNCHANGED <<failed_, staged, cancel, chunk, returned, turnVars>>
  BY DEF Yield, Holds
<1>0. chunk[c] < Chunks[c]
  <2>1. ~(chunk[c] >= Chunks[c])
    BY DEF Yield, LoopEnds
  <2> QED
    BY <1>1, <2>1, PriorIs
<1>2. prior'[c] = NoChunk /\ \A d \in Callers \ {c} : prior'[d] = prior[d]
  BY <1>1 DEF PipeInv, PipeTypeOK
<1>3. prior' \in [Callers -> Names] /\ ~failed_ /\ returned[c] \in {"none", "false"}
  <2>1. NoChunk \in Names
    BY DEF NoChunk, Names
  <2> QED
    BY <1>1, <2>1 DEF PipeInv, PipeTypeOK, FailedUnused, Using, Progress, ProgressOf
<1>4. CASE /\ out' = Collected(c, staged) /\ Go(c, "yield")
           /\ pending' = IF prior[c] = NoChunk THEN pending ELSE pending \ {HalfOf(prior[c])}
  <2>1. /\ out' = [d \in Callers |-> out'[d]]
        /\ \A d \in Callers : out'[d] \in [0..(Chunks[d] - 1) -> Names]
        /\ \A d \in Callers \ {c} : out'[d] = out[d]
        /\ \A k \in 0..(Chunks[c] - 1) :
            out'[c][k] \in {NoChunk, <<c, k>>} /\ (k < chunk[c] => out'[c][k] = <<c, k>>)
    BY <1>1, <1>4, PriorIs, CollectedIs
  <2>2. pending' = {}
    BY <1>1, <1>4, PriorIs
  <2>3. PipeTypeOK' /\ at'[c] = "yield"
    BY <1>1, <1>3, <1>4, <2>1, <2>2 DEF PipeInv, PipeTypeOK, Go, Using
  <2>4. Clear(c)' /\ chunk'[c] < Chunks[c]
    BY <1>0, <1>1, <1>2, <2>1, PriorIs DEF Clear, AllBefore
  <2>5. ProgressOf(c)'
    BY <1>1, <1>3, <2>3, <2>4 DEF ProgressOf
  <2> QED
    BY <1>1, <1>2, <1>3, <1>4, <2>1, <2>2, <2>3, <2>5, HolderKeeps DEF Using
<1>5. CASE Go(c, "fail") /\ UNCHANGED <<out, pending>>
  <2>1. PipeTypeOK' /\ at'[c] = "fail"
    BY <1>1, <1>3, <1>5 DEF PipeInv, PipeTypeOK, Go, Using
  <2>2. ProgressOf(c)'
    BY <1>1, <1>3, <2>1 DEF ProgressOf
  <2>3. \A k \in 0..(Chunks[c] - 1) : out'[c][k] \in {NoChunk, <<c, k>>}
    BY <1>5 DEF PipeInv, OwnRows, PipeTypeOK
  <2> QED
    BY <1>1, <1>2, <1>3, <1>5, <2>1, <2>2, <2>3, HolderKeeps DEF Using
<1> QED
  BY <1>4, <1>5 DEF Yield

\* A chunk is staged in the half that the prior one is not in, which is then
\* collected (stage, collect).
LEMMA StageKeeps ==
    ASSUME PipeInv, NEW c \in Callers, Stage(c)
    PROVE  PipeInv'
<1> DEFINE n == chunk[c]
           name == <<c, n>>
           contents == [staged EXCEPT ![HalfOf(name)] = name]
           queued == pending \union {HalfOf(name)}
<1>1. /\ turn[c] = "holds" /\ at[c] \in {"loop", "stage"}
      /\ prior' = [prior EXCEPT ![c] = <<c, chunk[c]>>]
      /\ chunk' = [chunk EXCEPT ![c] = @ + 1]
      /\ UNCHANGED <<failed_, cancel, returned, turnVars>>
  BY DEF Stage, Holds
<1>2. n \in Nat /\ Chunks[c] \in Nat /\ n < Chunks[c]
  <2>1. CASE at[c] = "loop"
    <3>1. ~(chunk[c] >= Chunks[c])
      BY <2>1 DEF Stage, LoopEnds, Holds
    <3> QED
      BY <1>1, <3>1, PriorIs
  <2>2. CASE at[c] = "stage"
    BY <1>1, <2>2, PriorIs DEF PipeInv, Progress, ProgressOf
  <2> QED
    BY <1>1, <2>1, <2>2
<1>3. name \in Names /\ HalfOf(name) \in Halves /\ name # NoChunk
  BY <1>2, NameIs
<1>4. contents \in [Halves -> Names] /\ queued \subseteq Halves
  BY <1>3 DEF PipeInv, PipeTypeOK
<1>5. /\ prior'[c] = name /\ chunk'[c] = n + 1
      /\ \A d \in Callers \ {c} : prior'[d] = prior[d] /\ chunk'[d] = chunk[d]
      /\ prior' \in [Callers -> Names] /\ chunk' \in [Callers -> Nat]
  BY <1>1, <1>2, <1>3 DEF PipeInv, PipeTypeOK
<1>6. ~failed_ /\ returned[c] \in {"none", "false"}
  BY <1>1 DEF PipeInv, FailedUnused, Using, Progress, ProgressOf
<1>7. prior[c] # NoChunk =>
        HalfOf(prior[c]) # HalfOf(name) /\ contents[HalfOf(prior[c])] = prior[c]
  <2> SUFFICES ASSUME prior[c] # NoChunk
               PROVE  HalfOf(prior[c]) # HalfOf(name) /\ contents[HalfOf(prior[c])] = prior[c]
    OBVIOUS
  <2>1. prior[c] = <<c, n - 1>> /\ n - 1 \in Nat /\ staged[HalfOf(prior[c])] = prior[c]
    BY <1>1, PriorIs
  <2>2. HalfOf(prior[c]) = (n - 1) % 2 /\ HalfOf(name) = n % 2
    BY <2>1 DEF HalfOf
  <2>3. (n - 1) % 2 # n % 2 /\ (n - 1) % 2 \in 0..1
    BY <1>2, <2>1
  <2>4. staged \in [Halves -> Names] /\ HalfOf(prior[c]) \in Halves
    BY <2>2, <2>3 DEF PipeInv, PipeTypeOK, Halves
  <2> HIDE DEF name
  <2> QED
    BY <2>1, <2>2, <2>3, <2>4
<1>8. CASE /\ Go(c, "fail") /\ out' = out
           /\ \/ staged' = contents /\ pending' = queued
              \/ UNCHANGED <<staged, pending>>
  <2>1. PipeTypeOK' /\ at'[c] = "fail"
    <3> HIDE DEF contents, queued
    <3> QED
      BY <1>1, <1>4, <1>5, <1>8 DEF PipeInv, PipeTypeOK, Go, Using
  <2>2. ProgressOf(c)'
    BY <1>1, <1>6, <2>1 DEF ProgressOf
  <2>3. \A k \in 0..(Chunks[c] - 1) : out'[c][k] \in {NoChunk, <<c, k>>}
    BY <1>8 DEF PipeInv, OwnRows, PipeTypeOK
  <2> QED
    BY <1>1, <1>5, <1>6, <1>8, <2>1, <2>2, <2>3, HolderKeeps DEF Using
<1>9. CASE /\ Go(c, "loop") /\ staged' = contents /\ out' = Collected(c, contents)
           /\ pending' = IF prior[c] = NoChunk THEN queued ELSE queued \ {HalfOf(prior[c])}
  <2>1. /\ out' = [d \in Callers |-> out'[d]]
        /\ \A d \in Callers : out'[d] \in [0..(Chunks[d] - 1) -> Names]
        /\ \A d \in Callers \ {c} : out'[d] = out[d]
        /\ \A k \in 0..(Chunks[c] - 1) :
            out'[c][k] \in {NoChunk, <<c, k>>} /\ (k < chunk[c] => out'[c][k] = <<c, k>>)
    <3> HIDE DEF contents
    <3> QED
      BY <1>1, <1>7, <1>9, CollectedIs
  <2>2. pending' \subseteq {HalfOf(name)} /\ pending' \subseteq Halves
    BY <1>1, <1>3, <1>9, PriorIs
  <2>3. PipeTypeOK' /\ at'[c] = "loop"
    <3> HIDE DEF contents, queued, name
    <3> QED
      BY <1>1, <1>4, <1>5, <1>9, <2>1, <2>2 DEF PipeInv, PipeTypeOK, Go, Using
  <2>4. InLoop(c)'
    <3>1. staged'[HalfOf(name)] = name
      BY <1>3, <1>9 DEF PipeInv, PipeTypeOK
    <3>2. chunk'[c] <= Chunks[c] /\ chunk'[c] > 0 /\ chunk'[c] - 1 = n
      BY <1>2, <1>5
    <3>3. AllBefore(c, chunk[c] - 1)'
      BY <2>1, <3>2 DEF AllBefore
    <3>4. HalfOf(prior[c])' = HalfOf(name)
      BY <1>5 DEF HalfOf
    <3> QED
      BY <1>5, <2>2, <3>1, <3>2, <3>3, <3>4 DEF InLoop
  <2>5. ProgressOf(c)'
    BY <1>1, <1>6, <2>3, <2>4 DEF ProgressOf
  <2> QED
    BY <1>1, <1>5, <1>6, <1>9, <2>1, <2>3, <2>5, HolderKeeps DEF Using
<1>10. CASE Go(c, "fail") /\ staged' = contents /\ pending' = queued /\ out' = out
  BY <1>8, <1>10
<1> QED
  BY <1>8, <1>9, <1>10 DEF Stage

\* The loop ends with the last chunk collected, or canceled (pipeline).
LEMMA FinishKeeps ==
    ASSUME PipeInv, NEW c \in Callers, Finish(c)
    PROVE  PipeInv'
<1>1. /\ turn[c] = "holds" /\ at[c] = "loop"
      /\ UNCHANGED <<failed_, staged, cancel, chunk, prior, returned, turnVars>>
  BY DEF Finish, Holds
<1>2. ~failed_ /\ returned[c] \in {"none", "false"}
  BY <1>1 DEF PipeInv, FailedUnused, Using, Progress, ProgressOf
<1>3. \A k \in 0..(Chunks[c] - 1) : out[c][k] \in {NoChunk, <<c, k>>}
  BY DEF PipeInv, OwnRows, PipeTypeOK
<1>4. CASE Go(c, "fail") /\ UNCHANGED <<out, pending>>
  <2>1. PipeTypeOK' /\ at'[c] = "fail"
    BY <1>1, <1>4 DEF PipeInv, PipeTypeOK, Go, Using
  <2>2. ProgressOf(c)'
    BY <1>1, <1>2, <2>1 DEF ProgressOf
  <2> QED
    BY <1>1, <1>2, <1>3, <1>4, <2>1, <2>2, HolderKeeps DEF Using
<1>5. CASE /\ Go(c, "release") /\ pending' = {}
           /\ out' = IF c \in cancel THEN out ELSE Collected(c, staged)
  <2>1. /\ out' = [d \in Callers |-> out'[d]]
        /\ \A d \in Callers : out'[d] \in [0..(Chunks[d] - 1) -> Names]
        /\ \A d \in Callers \ {c} : out'[d] = out[d]
        /\ \A k \in 0..(Chunks[c] - 1) :
            /\ out'[c][k] \in {NoChunk, <<c, k>>}
            /\ c \notin cancel /\ k < chunk[c] => out'[c][k] = <<c, k>>
    <3>1. CASE c \in cancel
      <4>1. out' = out
        BY <1>5, <3>1
      <4> QED
        BY <1>3, <3>1, <4>1 DEF PipeInv, PipeTypeOK
    <3>2. CASE c \notin cancel
      <4>1. out' = Collected(c, staged)
        BY <1>5, <3>2
      <4> QED
        BY <1>1, <4>1, PriorIs, CollectedIs
    <3> QED
      BY <3>1, <3>2
  <2>2. PipeTypeOK' /\ at'[c] = "release"
    BY <1>1, <1>5, <2>1 DEF PipeInv, PipeTypeOK, Go, Using
  <2>3. c \in cancel \/ AllBefore(c, Chunks[c])'
    <3> SUFFICES ASSUME c \notin cancel PROVE AllBefore(c, Chunks[c])'
      OBVIOUS
    <3>1. chunk[c] >= Chunks[c]
      BY DEF Finish, LoopEnds
    <3>2. \A k \in 0..(Chunks[c] - 1) : k < chunk[c]
      BY <1>1, <3>1, PriorIs
    <3> QED
      BY <2>1, <3>2 DEF AllBefore
  <2>4. ProgressOf(c)'
    BY <1>1, <1>2, <2>2, <2>3 DEF ProgressOf
  <2> QED
    BY <1>1, <1>2, <1>5, <2>1, <2>2, <2>4, HolderKeeps DEF Using
<1> QED
  BY <1>4, <1>5 DEF Finish

\* A failure is kept, and nobody uses the device from then on (pipeline).
LEMMA FailKeeps ==
    ASSUME PipeInv, NEW c \in Callers, Fail(c)
    PROVE  PipeInv'
<1>1. /\ turn[c] = "holds" /\ at[c] = "fail" /\ failed_' = TRUE /\ Go(c, "release")
      /\ returned' = [returned EXCEPT ![c] = "false"]
      /\ UNCHANGED <<staged, pending, cancel, chunk, prior, out, turnVars>>
  BY DEF Fail, Holds, locals
<1>2. PipeTypeOK' /\ at'[c] = "release" /\ returned'[c] = "false"
  BY <1>1 DEF PipeInv, PipeTypeOK, Go, Using
<1>3. ProgressOf(c)'
  BY <1>2 DEF ProgressOf
<1>4. \A d \in Callers \ {c} : returned'[d] = returned[d]
  BY <1>1 DEF PipeInv, PipeTypeOK
<1>5. \A k \in 0..(Chunks[c] - 1) : out'[c][k] \in {NoChunk, <<c, k>>}
  BY <1>1 DEF PipeInv, OwnRows, PipeTypeOK
<1> QED
  BY <1>1, <1>2, <1>3, <1>4, <1>5, HolderKeeps DEF Using

\* The turn moves, and nothing in the pipeline does (acquire, release).
LEMMA TurnKeeps ==
    ASSUME PipeInv, TurnsInv', TurnMatches',
           UNCHANGED <<failed_, staged, pending, cancel, at, chunk, prior, out, returned>>
    PROVE  PipeInv'
<1>1. PipeTypeOK' /\ FailedUnused' /\ DeviceIdle' /\ OwnRows' /\ EmptyMeansValid'
  BY DEF PipeInv, PipeTypeOK, FailedUnused, DeviceIdle, OwnRows, EmptyMeansValid
<1>2. Progress'
  BY DEF PipeInv, Progress, ProgressOf, InLoop, Clear, AllBefore, HalfOf
<1> QED
  BY <1>1, <1>2 DEF PipeInv

\* A caller takes the turn or waits for it (acquire).
LEMMA AcquireKeeps ==
    ASSUME PipeInv, NEW c \in Callers, Acquire(c)
    PROVE  PipeInv'
<1>1. /\ at[c] \in Asking /\ acquire(c)
      /\ UNCHANGED <<failed_, staged, pending, cancel, at, chunk, prior, out, returned>>
  BY DEF Acquire, Asking, device, locals
<1>2. TurnsInv'
  BY <1>1, UrgentKeeps, QueuedKeeps DEF acquire, PipeInv
<1>3. \E where \in {"holds", "asleep"} : turn' = [turn EXCEPT ![c] = where]
  BY <1>1 DEF acquire, AcquireUrgent, AcquireQueued
<1>4. turn'[c] \in {"holds", "asleep"} /\ \A d \in Callers \ {c} : turn'[d] = turn[d]
  BY <1>3 DEF PipeInv, TurnsInv, TurnsTypeOK
<1>5. at[c] \notin Using
  BY <1>1 DEF Asking, Using
<1>6. TurnMatches'
  BY <1>1, <1>4, <1>5 DEF PipeInv, TurnMatches
<1> QED
  BY <1>1, <1>2, <1>6, TurnKeeps

\* Callers wake and take the turn, or sleep again (acquire, release).
LEMMA WakeKeeps ==
    ASSUME PipeInv, NEW c \in Callers, Wake(c)
    PROVE  PipeInv'
<1>1. /\ Recheck(c) \/ notify_all(c)
      /\ UNCHANGED <<failed_, staged, pending, cancel, at, chunk, prior, out, returned>>
  BY DEF Wake, device, locals
<1>2. TurnsInv'
  BY <1>1, RecheckKeeps, NotifyKeeps DEF PipeInv
<1>3. CASE Recheck(c)
  <2>1. /\ turn[c] = "awake"
        /\ \E where \in {"holds", "asleep"} : turn' = [turn EXCEPT ![c] = where]
    BY <1>3 DEF Recheck
  <2>2. turn'[c] \in {"holds", "asleep"} /\ \A d \in Callers \ {c} : turn'[d] = turn[d]
    BY <2>1 DEF PipeInv, TurnsInv, TurnsTypeOK
  <2>3. at[c] \in Asking /\ at[c] \notin Using
    BY <2>1 DEF PipeInv, TurnMatches, Asking, Using
  <2>4. TurnMatches'
    BY <1>1, <2>2, <2>3 DEF PipeInv, TurnMatches
  <2> QED
    BY <1>1, <1>2, <2>4, TurnKeeps
<1>4. CASE notify_all(c)
  <2>1. /\ turn[c] = "notifies"
        /\ turn' = [d \in Callers |-> IF d = c THEN "out"
                                      ELSE IF d \in Asleep THEN "awake" ELSE turn[d]]
    BY <1>4 DEF notify_all
  <2>2. ASSUME NEW d \in Callers
        PROVE  /\ turn'[d] = "holds" <=> turn[d] = "holds"
               /\ turn'[d] \in {"asleep", "awake"} => turn[d] \in {"asleep", "awake"}
    BY <2>1 DEF Asleep, At
  <2>3. TurnMatches'
    BY <1>1, <2>2 DEF PipeInv, TurnMatches
  <2> QED
    BY <1>1, <1>2, <2>3, TurnKeeps
<1> QED
  BY <1>1, <1>3, <1>4

\* The invariant is kept by a caller that moves on without the device, if its
\* own part of it is: nothing on the device or of other callers changes.
LEMMA MoveKeeps ==
    ASSUME PipeInv, NEW c \in Callers, at[c] \notin {"loop", "fail"},
           NEW where \in {"call", "resume", "return", "done"}, Go(c, where),
           UNCHANGED <<failed_, staged, pending, cancel, chunk, prior, out>>,
           NEW result \in {"none", "false", "empty", "results"},
           returned' = [returned EXCEPT ![c] = result],
           TurnsInv', TurnMatches', ProgressOf(c)',
           result = "empty" =>
                \/ c \in cancel
                \/ \A k \in DOMAIN out[c] : out[c][k] = <<c, k>> /\ <<c, k>> \notin Bad,
           result = "results" => \A k \in DOMAIN out[c] : out[c][k] = <<c, k>>
    PROVE  PipeInv'
<1>1. /\ at'[c] = where /\ \A d \in Callers \ {c} : at'[d] = at[d]
      /\ returned'[c] = result /\ \A d \in Callers \ {c} : returned'[d] = returned[d]
  BY DEF PipeInv, PipeTypeOK, Go
<1>2. PipeTypeOK'
  BY DEF PipeInv, PipeTypeOK, Go, Asking
<1>3. FailedUnused'
  BY <1>1 DEF PipeInv, FailedUnused, Using
<1>4. DeviceIdle'
  BY <1>1 DEF PipeInv, DeviceIdle
<1>5. OwnRows'
  BY DEF PipeInv, OwnRows
<1>6. Progress'
  <2> SUFFICES ASSUME NEW d \in Callers \ {c} PROVE ProgressOf(d)'
    BY DEF Progress
  <2>1. ProgressOf(d)
    BY DEF PipeInv, Progress
  <2> QED
    BY <1>1, <2>1 DEF ProgressOf, InLoop, Clear, AllBefore, HalfOf
<1>7. EmptyMeansValid'
  <2> SUFFICES ASSUME NEW d \in Callers
               PROVE  /\ returned'[d] = "empty" =>
                            \/ d \in cancel
                            \/ \A k \in DOMAIN out[d] : out[d][k] = <<d, k>> /\ <<d, k>> \notin Bad
                      /\ returned'[d] = "results" => \A k \in DOMAIN out[d] : out[d][k] = <<d, k>>
    BY DEF EmptyMeansValid
  <2>1. CASE d = c
    BY <1>1, <2>1
  <2>2. CASE d # c
    BY <1>1, <2>2 DEF PipeInv, EmptyMeansValid
  <2> QED
    BY <2>1, <2>2
<1> QED
  BY <1>2, <1>3, <1>4, <1>5, <1>6, <1>7 DEF PipeInv

\* Nothing changes for the turns in a step that leaves them alone.
LEMMA TurnsStutter ==
    ASSUME PipeInv, UNCHANGED turnVars
    PROVE  TurnsInv' /\ turn' = turn
BY DEF PipeInv, turnVars, counters, TurnsInv, TurnsTypeOK, Exclusive, UrgentCounted,
       NoLostWakeup, Ready, Waiting, Asleep, At

\* A caller finds the device failed, or calls (available).
LEMMA AvailableKeeps ==
    ASSUME PipeInv, NEW c \in Callers, Available(c)
    PROVE  PipeInv'
<1>1. /\ at[c] = "idle" /\ turn[c] \notin {"holds", "asleep", "awake"}
      /\ UNCHANGED <<failed_, staged, pending, cancel, chunk, prior, out, turnVars>>
  BY DEF Available, device, locals, PipeInv, TurnMatches, Using, Asking
<1>2. TurnsInv' /\ turn' = turn
  BY <1>1, TurnsStutter
<1>3. Clear(c) /\ chunk[c] = 0 /\ returned[c] \in {"none", "false"}
  BY <1>1 DEF PipeInv, Progress, ProgressOf
<1>4. PICK where \in {"call", "done"}, result \in {"none", "false"} :
        Go(c, where) /\ returned' = [returned EXCEPT ![c] = result]
  <2>1. returned = [returned EXCEPT ![c] = returned[c]]
    BY DEF PipeInv, PipeTypeOK
  <2> QED
    BY <1>3, <2>1 DEF Available
<1>5. /\ at'[c] = where /\ \A d \in Callers \ {c} : at'[d] = at[d]
      /\ returned'[c] = result
  BY <1>4 DEF PipeInv, PipeTypeOK, Go
<1>6. TurnMatches'
  BY <1>1, <1>2, <1>5 DEF PipeInv, TurnMatches, Using
<1>7. ProgressOf(c)'
  BY <1>1, <1>3, <1>5 DEF ProgressOf, Clear, AllBefore
<1> QED
  BY <1>1, <1>2, <1>4, <1>6, <1>7, MoveKeeps

\* A caller that has collected all returns empty results only if all of them are
\* valid, and one that is canceled always does (verify).
LEMMA ReturnKeeps ==
    ASSUME PipeInv, NEW c \in Callers, Return(c)
    PROVE  PipeInv'
<1> DEFINE valid == \A k \in DOMAIN out[c] : out[c][k] \notin Bad \union {NoChunk}
           result == IF returned[c] = "false" THEN "false"
                     ELSE IF c \in cancel \/ valid THEN "empty" ELSE "results"
<1>1. /\ at[c] = "return" /\ turn[c] = "out" /\ Go(c, "done")
      /\ returned' = [returned EXCEPT ![c] = result]
      /\ UNCHANGED <<failed_, staged, pending, cancel, chunk, prior, out, turnVars>>
  BY DEF Return, device, locals
<1>2. TurnsInv' /\ turn' = turn
  BY <1>1, TurnsStutter
<1>3. at'[c] = "done" /\ \A d \in Callers \ {c} : at'[d] = at[d]
  BY <1>1 DEF PipeInv, PipeTypeOK, Go
<1>4. TurnMatches'
  BY <1>1, <1>2, <1>3 DEF PipeInv, TurnMatches, Using
<1>5. ProgressOf(c)'
  BY <1>3 DEF ProgressOf
<1>6. returned[c] # "false" /\ c \notin cancel => \A k \in DOMAIN out[c] : out[c][k] = <<c, k>>
  <2>1. returned[c] # "false" /\ c \notin cancel => AllBefore(c, Chunks[c])
    BY <1>1 DEF PipeInv, Progress, ProgressOf
  <2>2. DOMAIN out[c] = 0..(Chunks[c] - 1) /\ Chunks[c] \in Nat
    BY ChunksAssumption DEF PipeInv, PipeTypeOK
  <2>3. \A k \in 0..(Chunks[c] - 1) : k < Chunks[c]
    BY <2>2
  <2> QED
    BY <2>1, <2>2, <2>3 DEF AllBefore
<1>7. result = "empty" =>
        c \in cancel \/ \A k \in DOMAIN out[c] : out[c][k] = <<c, k>> /\ <<c, k>> \notin Bad
  BY <1>6
<1>8. result = "results" => \A k \in DOMAIN out[c] : out[c][k] = <<c, k>>
  BY <1>6
<1>9. result \in {"none", "false", "empty", "results"}
  OBVIOUS
<1> HIDE DEF result
<1> QED
  BY <1>1, <1>2, <1>4, <1>5, <1>7, <1>8, <1>9, MoveKeeps

\* The turn is given up, between chunks or at the end (yield, ~turn).
LEMMA ReleaseKeeps ==
    ASSUME PipeInv, NEW c \in Callers, Release(c)
    PROVE  PipeInv'
<1>1. /\ turn[c] = "holds" /\ Unlock(c)
      /\ \/ at[c] = "yield" /\ Go(c, "resume")
         \/ at[c] = "release" /\ Go(c, "return")
      /\ UNCHANGED <<failed_, staged, pending, cancel, chunk, prior, out, returned>>
  BY DEF Release, Holds, device, locals
<1>2. TurnsInv'
  BY <1>1, UnlockKeeps DEF PipeInv
<1>3. turn'[c] = "notifies" /\ \A d \in Callers \ {c} : turn'[d] = turn[d]
  BY <1>1 DEF Unlock, PipeInv, TurnsInv, TurnsTypeOK
<1>4. PICK where \in {"resume", "return"} :
        /\ Go(c, where)
        /\ where = "resume" => at[c] = "yield"
        /\ where = "return" => at[c] = "release"
  BY <1>1
<1>5. at'[c] = where /\ \A d \in Callers \ {c} : at'[d] = at[d]
  BY <1>4 DEF PipeInv, PipeTypeOK, Go
<1>6. TurnMatches'
  BY <1>3, <1>5 DEF PipeInv, TurnMatches, Using
<1>7. ProgressOf(c)'
  BY <1>1, <1>4, <1>5 DEF PipeInv, Progress, ProgressOf, Clear, AllBefore
<1>8. returned' = [returned EXCEPT ![c] = returned[c]] /\ returned[c] \in {"none", "false"}
  BY <1>1 DEF PipeInv, PipeTypeOK, Progress, ProgressOf
<1>9. at[c] \notin {"loop", "fail"}
  BY <1>1
<1> QED
  BY <1>1, <1>2, <1>4, <1>6, <1>7, <1>8, <1>9, MoveKeeps

\* A stopper is set at any time (cancel).
LEMMA StopperKeeps ==
    ASSUME PipeInv, NEW c \in Callers, Cancel(c)
    PROVE  PipeInv'
<1>1. /\ cancel' = cancel \union {c}
      /\ UNCHANGED <<failed_, staged, pending, at, chunk, prior, out, returned, turnVars>>
  BY DEF Cancel, device, locals
<1>2. TurnsInv' /\ turn' = turn
  BY <1>1, TurnsStutter
<1>3. PipeTypeOK' /\ FailedUnused' /\ DeviceIdle' /\ OwnRows' /\ TurnMatches'
  BY <1>1, <1>2 DEF PipeInv, PipeTypeOK, FailedUnused, DeviceIdle, OwnRows, TurnMatches
<1>4. EmptyMeansValid'
  BY <1>1 DEF PipeInv, EmptyMeansValid
<1>5. Progress'
  BY <1>1 DEF PipeInv, Progress, ProgressOf, InLoop, Clear, AllBefore, HalfOf
<1> QED
  BY <1>2, <1>3, <1>4, <1>5 DEF PipeInv

\* The invariant holds of every state.
LEMMA PipeInvariant == Spec => []PipeInv
<1>1. PipeInv /\ [Next]_pipeVars => PipeInv'
  <2> SUFFICES ASSUME PipeInv, [Next]_pipeVars PROVE PipeInv'
    OBVIOUS
  <2>1. CASE UNCHANGED pipeVars
    <3>1. UNCHANGED <<failed_, staged, pending, cancel, at, chunk, prior, out, returned, turnVars>>
      BY <2>1 DEF pipeVars, device, locals
    <3>2. TurnsInv' /\ turn' = turn
      BY <3>1, TurnsStutter
    <3>3. TurnMatches'
      BY <3>1, <3>2 DEF PipeInv, TurnMatches
    <3> QED
      BY <3>1, <3>2, <3>3, TurnKeeps
  <2>2. ASSUME NEW c \in Callers, Step(c) PROVE PipeInv'
    BY <2>2, AvailableKeeps, ReturnKeeps, AcquireKeeps, WakeKeeps, EntryKeeps, YieldKeeps,
       ReleaseKeeps, StageKeeps, FinishKeeps, FailKeeps DEF Step
  <2>3. ASSUME NEW c \in Callers, Cancel(c) PROVE PipeInv'
    BY <2>3, StopperKeeps
  <2> QED
    BY <2>1, <2>2, <2>3 DEF Next, Done
<1> QED
  BY <1>1, PipeInitial, PTL DEF Spec

-------------------------------------------------------------------------------

\* For any callers and numbers of chunks every result is of the row it is
\* returned for, although all share the two halves (pipeline, collect).
THEOREM PipelineOwnRows == Spec => []OwnRows
<1>1. PipeInv => OwnRows
  BY DEF PipeInv
<1> QED
  BY <1>1, PipeInvariant, PTL

\* For any callers, wherever they are canceled or the device fails, results are
\* returned only when all are collected, and stand for a valid batch only if it
\* is or the caller was canceled (verify, pipeline).
THEOREM PipelineEmptyMeansValid == Spec => []EmptyMeansValid
<1>1. PipeInv => EmptyMeansValid
  BY DEF PipeInv
<1> QED
  BY <1>1, PipeInvariant, PTL

\* A device that is free and has not failed runs nothing for anyone (pipeline).
THEOREM PipelineQuiet == Spec => []QuietWhenFree
<1>1. PipeInv => QuietWhenFree
  <2> SUFFICES ASSUME PipeInv, ~busy_, ~failed_, pending # {} PROVE FALSE
    BY DEF QuietWhenFree
  <2>1. PICK c \in Callers : at[c] \in {"loop", "fail"}
    BY DEF PipeInv, DeviceIdle
  <2>2. turn[c] = "holds"
    BY <2>1 DEF PipeInv, TurnMatches, Using
  <2> QED
    BY <2>2 DEF PipeInv, TurnsInv, Exclusive, At
<1> QED
  BY <1>1, PipeInvariant, PTL

\* A step of the pipeline is one of the turns, or leaves them alone.
LEMMA StepsTakeTurns == [Next]_pipeVars => [TurnsNext]_turnVars
<1> SUFFICES ASSUME [Next]_pipeVars PROVE [TurnsNext]_turnVars
  OBVIOUS
<1>1. CASE UNCHANGED pipeVars
  BY <1>1 DEF pipeVars
<1>2. ASSUME NEW c \in Callers, Acquire(c) PROVE TurnsNext
  BY <1>2 DEF Acquire, TurnsNext
<1>3. ASSUME NEW c \in Callers, Wake(c) PROVE TurnsNext
  BY <1>3 DEF Wake, TurnsNext
<1>4. ASSUME NEW c \in Callers, Release(c) PROVE TurnsNext
  BY <1>4 DEF Release, TurnsNext
<1>5. ASSUME NEW c \in Callers, Cancel(c) \/ Available(c) \/ Return(c) \/ Unusable(c)
             \/ Begin(c) \/ Yield(c) \/ Resume(c) \/ Stage(c) \/ Finish(c) \/ Fail(c)
      PROVE  UNCHANGED turnVars
  BY <1>5 DEF Cancel, Available, Return, Unusable, Decline, Begin, Yield, Resume, Stage,
              Finish, Fail
<1> QED
  BY <1>1, <1>2, <1>3, <1>4, <1>5 DEF Next, Step, Done, pipeVars

\* Callers of the pipeline take turns as the queue does: its steps on the
\* counters are those of Turns (turns, pipeline).
THEOREM PipelineTakesTurns == Spec => TurnsSpec
<1>1. Init => TurnsInit
  BY DEF Init
<1> QED
  BY <1>1, StepsTakeTurns, PTL DEF Spec, TurnsSpec

-------------------------------------------------------------------------------
(* A caller that yields gives way.                                         *)

\* Inductive, with the order of the tickets: those that a caller has yielded to
\* and that have not been served since wait, and those in line are before it.
AheadInv ==
    \A c \in QueuedCallers :
        at[c] \in {"yield", "resume"} =>
            \A d \in ahead[c] :
                /\ d \in Waiting
                /\ c \in InQueue /\ d \in InQueue => Before(ticket[d]) < Before(ticket[c])

\* What a step may do to those ahead: a caller yields to all that wait, and one
\* it has yielded to leaves when it is served.
LEMMA AheadSteps ==
    ASSUME PipeInv, [Next]_pipeVars, NEW c \in QueuedCallers, at'[c] \in {"yield", "resume"}
    PROVE  \/ at[c] = "loop" /\ ahead'[c] = Waiting /\ UNCHANGED turnVars /\ turn'[c] = "holds"
           \/ /\ at[c] \in {"yield", "resume"}
              /\ ahead'[c] \subseteq ahead[c]
              /\ UNCHANGED turnVars \/ \A d \in ahead'[c] : turn'[d] # "holds"
<1> USE DEF QueuedCallers
<1>1. CASE UNCHANGED pipeVars
  BY <1>1 DEF pipeVars
<1>2. CASE ~UNCHANGED pipeVars
  <2>1. Watch
    BY <1>2 DEF Next, Step, Done, Available, Return, Acquire, Wake, Unusable, Begin, Yield,
                Release, Resume, Decline, Stage, Finish, Fail, Cancel
  <2>2. CASE at[c] \in {"yield", "resume"}
    <3>1. ahead'[c] = {d \in ahead[c] : turn'[d] # "holds"}
      BY <2>1, <2>2 DEF Watch
    <3> QED
      BY <2>2, <3>1
  <2>3. CASE at[c] \notin {"yield", "resume"}
    <3>1. PICK e \in Callers : Step(e) \/ Cancel(e)
      BY <1>2 DEF Next, Done
    <3>2. Yield(e) /\ Go(e, "yield")
      BY <2>3, <3>1 DEF Step, Available, Return, Acquire, Wake, Unusable, Begin, Yield,
                Release, Resume, Decline, Stage, Finish, Fail, Cancel, Go, Holds,
                PipeInv, PipeTypeOK
    <3>3. e = c
      BY <2>3, <3>2 DEF Go, PipeInv, PipeTypeOK
    <3>4. at[c] = "loop" /\ at'[c] = "yield" /\ UNCHANGED turnVars /\ turn[c] = "holds"
      BY <3>2, <3>3 DEF Yield, Holds, Go, PipeInv, PipeTypeOK
    <3>5. ahead'[c] = Waiting
      BY <2>1, <3>4 DEF Watch
    <3> QED
      BY <3>4, <3>5 DEF turnVars
  <2> QED
    BY <2>2, <2>3
<1> QED
  BY <1>1, <1>2

\* Whoever a caller has yielded to stays ahead of it until served (turns, yield).
LEMMA AheadKeeps ==
    ASSUME PipeInv, LineInv, AheadInv, [Next]_pipeVars
    PROVE  AheadInv'
<1> SUFFICES ASSUME NEW c \in QueuedCallers, at'[c] \in {"yield", "resume"}, NEW d \in ahead'[c]
             PROVE  /\ d \in Waiting'
                    /\ c \in InQueue' /\ d \in InQueue' =>
                            Before(ticket[d])' < Before(ticket[c])'
  BY DEF AheadInv
<1>1. TurnsInv /\ [TurnsNext]_turnVars
  BY StepsTakeTurns DEF PipeInv
<1>2. CASE at[c] = "loop" /\ ahead'[c] = Waiting /\ UNCHANGED turnVars /\ turn'[c] = "holds"
  <2>1. Waiting' = Waiting /\ c \notin InQueue'
    BY <1>2 DEF turnVars, Waiting, Asleep, At, InQueue
  <2> QED
    BY <1>2, <2>1
<1>3. CASE /\ at[c] \in {"yield", "resume"}
           /\ ahead'[c] \subseteq ahead[c]
           /\ UNCHANGED turnVars \/ \A e \in ahead'[c] : turn'[e] # "holds"
  <2>1. d \in ahead[c] /\ d \in Waiting
    BY <1>3 DEF AheadInv
  <2>2. d \in Waiting'
    <3>1. CASE UNCHANGED turnVars
      BY <2>1, <3>1 DEF turnVars, Waiting, Asleep, At
    <3>2. CASE turn'[d] # "holds"
      BY <1>1, <2>1, <3>2, WaitsOn
    <3> QED
      BY <1>3, <3>1, <3>2
  <2>3. ASSUME c \in InQueue', d \in InQueue' PROVE Before(ticket[d])' < Before(ticket[c])'
    <3>1. d \in InQueue \intersect InQueue'
      BY <2>1, <2>3 DEF InQueue
    <3>2. CASE c \notin InQueue
      BY <1>1, <2>3, <3>1, <3>2, JoinsLast
    <3>3. CASE c \in InQueue
      <4>1. Before(ticket[d]) < Before(ticket[c])
        BY <1>3, <2>1, <3>1, <3>3 DEF AheadInv
      <4>2. Before(ticket[d]) \in Int /\ Before(ticket[c]) \in Int
        <5>1. /\ ticket[d] \in 0..(Tickets - 1) /\ ticket[c] \in 0..(Tickets - 1)
              /\ serving_ \in 0..(Tickets - 1)
          BY <1>1, <3>1, <3>3 DEF TurnsInv, TurnsTypeOK, InQueue, QueuedCallers
        <5> QED
          BY <5>1, SomeTickets DEF Before
      <4>3. \/ /\ Before(ticket[d])' = Before(ticket[d])
               /\ Before(ticket[c])' = Before(ticket[c])
            \/ /\ Before(ticket[d])' = Before(ticket[d]) - 1
               /\ Before(ticket[c])' = Before(ticket[c]) - 1
        BY <1>1, <2>3, <3>1, <3>3, MovesUp
      <4> QED
        BY <4>1, <4>2, <4>3
    <3> QED
      BY <3>2, <3>3
  <2> QED
    BY <2>2, <2>3
<1> QED
  BY <1>2, <1>3, AheadSteps

\* A queued caller takes the turn only when nobody waits who is ahead of it.
LEMMA TakesWhenFirst ==
    ASSUME TurnsInv, LineInv, [TurnsNext]_turnVars, NEW c \in QueuedCallers,
           turn[c] # "holds", turn'[c] = "holds"
    PROVE  /\ Waiting \intersect UrgentCallers = {}
           /\ InQueue = {} \/ (c \in InQueue /\ Before(ticket[c]) = 0)
<1> USE DEF TurnsInv
<1>1. \/ AcquireQueued(c) /\ Ready(c, next_)
      \/ Recheck(c) /\ Ready(c, ticket[c])
  <2>1. c \in Callers /\ c \notin UrgentCallers
    BY DEF QueuedCallers
  <2>2. ~UNCHANGED turnVars
    BY DEF turnVars
  <2>3. PICK e \in Callers :
            AcquireUrgent(e) \/ AcquireQueued(e) \/ Recheck(e) \/ Spurious(e) \/ Unlock(e) \/ notify_all(e)
    BY <2>2 DEF TurnsNext, acquire
  <2>4. ~Spurious(e) /\ ~Unlock(e) /\ ~notify_all(e)
    BY <2>1 DEF Spurious, Unlock, notify_all, TurnsTypeOK
  <2>5. \E where : turn' = [turn EXCEPT ![e] = where]
    BY <2>3, <2>4 DEF AcquireUrgent, AcquireQueued, Recheck
  <2>6. e = c
    BY <2>1, <2>5 DEF TurnsTypeOK
  <2>7. AcquireQueued(c) \/ Recheck(c)
    BY <2>1, <2>3, <2>4, <2>6 DEF AcquireUrgent
  <2>8. AcquireQueued(c) /\ ~Ready(c, next_) => turn'[c] = "asleep"
    BY <2>1 DEF AcquireQueued, TurnsTypeOK
  <2>9. Recheck(c) /\ ~Ready(c, ticket[c]) => turn'[c] = "asleep"
    BY <2>1 DEF Recheck, TurnsTypeOK
  <2> QED
    BY <2>7, <2>8, <2>9
<1>2. urgent_ = 0 /\ serving_ \in 0..(Tickets - 1)
  BY <1>1 DEF Ready, TurnsTypeOK
<1>3. Waiting \intersect UrgentCallers = {}
  BY <1>2, CrowdEmpty
<1>4. CASE AcquireQueued(c) /\ Ready(c, next_)
  <2>1. serving_ = next_
    BY <1>4 DEF Ready
  <2>2. InLine = 0
    BY <1>2, <2>1, Distance DEF InLine
  <2>3. InQueue = {}
    BY <2>2, QueueFinite, FS_EmptySet DEF LineInv
  <2> QED
    BY <1>3, <2>3
<1>5. CASE Recheck(c) /\ Ready(c, ticket[c])
  <2>1. c \in InQueue /\ serving_ = ticket[c]
    BY <1>5 DEF Recheck, Ready, InQueue, QueuedCallers, Waiting, At
  <2>2. Before(ticket[c]) = 0
    BY <1>2, <2>1, Distance DEF Before
  <2> QED
    BY <1>3, <2>1, <2>2
<1> QED
  BY <1>1, <1>4, <1>5

\* For any callers and chunks a queued caller that yields is served again only
\* after every caller that waited when it yielded (acquire, contended, yield).
THEOREM PipelineGivesWay == Spec => YieldGivesWay
<1>1. Init => LineInv /\ AheadInv
  BY LineInitial DEF Init, AheadInv, QueuedCallers
<1>2. PipeInv /\ LineInv /\ AheadInv /\ [Next]_pipeVars => AheadInv'
  BY AheadKeeps
<1>3. PipeInv /\ LineInv /\ AheadInv /\ [Next]_pipeVars =>
        [\A c \in QueuedCallers :
            at[c] = "resume" /\ turn[c] # "holds" /\ turn'[c] = "holds" =>
                ahead[c] = {}]_pipeVars
  <2> SUFFICES ASSUME PipeInv, LineInv, AheadInv, [Next]_pipeVars, NEW c \in QueuedCallers,
                      at[c] = "resume", turn[c] # "holds", turn'[c] = "holds",
                      NEW d \in ahead[c]
               PROVE  FALSE
    OBVIOUS
  <2>1. TurnsInv /\ [TurnsNext]_turnVars
    BY StepsTakeTurns DEF PipeInv
  <2>2. /\ Waiting \intersect UrgentCallers = {}
        /\ InQueue = {} \/ (c \in InQueue /\ Before(ticket[c]) = 0)
    BY <2>1, TakesWhenFirst
  <2>3. d \in Waiting
    BY DEF AheadInv
  <2>4. d \in InQueue
    BY <2>2, <2>3 DEF InQueue, QueuedCallers, Waiting, Asleep, At
  <2>5. Before(ticket[d]) < 0
    BY <2>2, <2>4 DEF AheadInv
  <2>6. Before(ticket[d]) \in Nat
    <3>1. ticket[d] \in 0..(Tickets - 1) /\ serving_ \in 0..(Tickets - 1)
      BY <2>1, <2>4 DEF TurnsInv, TurnsTypeOK, InQueue, QueuedCallers
    <3> QED
      BY <3>1, Distance, SomeTickets DEF Before
  <2> QED
    BY <2>5, <2>6
<1> QED
  BY <1>1, <1>2, <1>3, PipeInvariant, PipelineTakesTurns, LineInvariant, PTL
     DEF Spec, YieldGivesWay

===============================================================================
