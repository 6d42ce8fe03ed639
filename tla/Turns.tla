-------------------------------- MODULE Turns --------------------------------
(***************************************************************************)
(* cuda::turns: device turns, urgent callers ahead of queued callers.      *)
(*                                                                         *)
(* The steps are the critical sections of turns::mutex_.  A caller that    *)
(* waits is asleep in the condition variable until it is notified (or      *)
(* wakes spuriously), and then tests its predicate again.  The release of  *)
(* a turn is two steps, since notify_all is called after the unlock.       *)
(***************************************************************************)
EXTENDS Integers, FiniteSets

CONSTANTS
    Callers,            \* threads that use the device
    UrgentCallers,      \* those that call with urgent set
    Nobody,             \* no caller
    Tickets             \* number of values of next_ and serving_ (2^64)

ASSUME CallersAssumption ==
    /\ IsFiniteSet(Callers)
    /\ UrgentCallers \subseteq Callers
    /\ Nobody \notin Callers
    /\ Tickets \in Nat
    /\ Tickets > Cardinality(Callers)

VARIABLES
    urgent_,
    next_,
    serving_,
    busy_,
    turn,       \* where each caller is
    ticket      \* the local ticket of each queued caller that waits, else 0

counters == <<urgent_, next_, serving_>>
turnVars == <<counters, busy_, turn, ticket>>

QueuedCallers == Callers \ UrgentCallers
At(where) == {c \in Callers : turn[c] = where}
Asleep == At("asleep")
Waiting == Asleep \union At("awake")
Increment(n) == (n + 1) % Tickets

TurnsInit ==
    /\ urgent_ = 0
    /\ next_ = 0
    /\ serving_ = 0
    /\ busy_ = FALSE
    /\ turn = [c \in Callers |-> "out"]
    /\ ticket = [c \in Callers |-> 0]

\* The predicate of the wait, for a caller that has the given ticket.
\* Mutants: waiters are not kept waiting, or not ordered by their tickets.
ReadyBusy(c, t) == c \in QueuedCallers => urgent_ = 0 /\ serving_ = t
ReadyUnordered(c, t) == ~busy_ /\ (c \in QueuedCallers => urgent_ = 0)
Ready(c, t) ==
    /\ ~busy_
    /\ c \in QueuedCallers => urgent_ = 0 /\ serving_ = t

\* acquire, up to the wait: the turn is taken at once if the predicate holds.
AcquireUrgent(c) ==
    /\ c \in UrgentCallers
    /\ turn[c] = "out"
    /\ IF Ready(c, 0)
       THEN busy_' = TRUE /\ turn' = [turn EXCEPT ![c] = "holds"]
                /\ UNCHANGED urgent_
       ELSE urgent_' = urgent_ + 1 /\ turn' = [turn EXCEPT ![c] = "asleep"]
                /\ UNCHANGED busy_
    /\ UNCHANGED <<next_, serving_, ticket>>

AcquireQueued(c) ==
    /\ c \in QueuedCallers
    /\ turn[c] = "out"
    /\ next_' = Increment(next_)
    /\ IF Ready(c, next_)
       THEN /\ serving_' = Increment(serving_)
            /\ busy_' = TRUE
            /\ turn' = [turn EXCEPT ![c] = "holds"]
            /\ UNCHANGED ticket
       ELSE /\ turn' = [turn EXCEPT ![c] = "asleep"]
            /\ ticket' = [ticket EXCEPT ![c] = next_]
            /\ UNCHANGED <<serving_, busy_>>
    /\ UNCHANGED urgent_

acquire(c) == AcquireUrgent(c) \/ AcquireQueued(c)

\* acquire, from a return of the wait: the turn is taken, or the caller sleeps.
\* Mutants: an urgent caller is still counted as waiting; a caller with ticket zero,
\* taken for none, tests in vain for ever.
RecheckUncounted(c) ==
    /\ turn[c] = "awake"
    /\ IF Ready(c, ticket[c])
       THEN /\ busy_' = TRUE
            /\ turn' = [turn EXCEPT ![c] = "holds"]
            /\ ticket' = [ticket EXCEPT ![c] = 0]
            /\ serving_' = IF c \in UrgentCallers THEN serving_ ELSE Increment(serving_)
       ELSE /\ turn' = [turn EXCEPT ![c] = "asleep"]
            /\ UNCHANGED <<busy_, serving_, ticket>>
    /\ UNCHANGED <<next_, urgent_>>
RecheckStuck(c) ==
    /\ turn[c] = "awake"
    /\ c \in QueuedCallers => ticket[c] # 0
    /\ IF Ready(c, ticket[c])
       THEN /\ busy_' = TRUE
            /\ turn' = [turn EXCEPT ![c] = "holds"]
            /\ ticket' = [ticket EXCEPT ![c] = 0]
            /\ IF c \in UrgentCallers
               THEN urgent_' = urgent_ - 1 /\ UNCHANGED serving_
               ELSE serving_' = Increment(serving_) /\ UNCHANGED urgent_
       ELSE /\ turn' = [turn EXCEPT ![c] = "asleep"]
            /\ UNCHANGED <<busy_, urgent_, serving_, ticket>>
    /\ UNCHANGED next_
Recheck(c) ==
    /\ turn[c] = "awake"
    /\ IF Ready(c, ticket[c])
       THEN /\ busy_' = TRUE
            /\ turn' = [turn EXCEPT ![c] = "holds"]
            /\ ticket' = [ticket EXCEPT ![c] = 0]
            /\ IF c \in UrgentCallers
               THEN urgent_' = urgent_ - 1 /\ UNCHANGED serving_
               ELSE serving_' = Increment(serving_) /\ UNCHANGED urgent_
       ELSE /\ turn' = [turn EXCEPT ![c] = "asleep"]
            /\ UNCHANGED <<busy_, urgent_, serving_, ticket>>
    /\ UNCHANGED next_

\* The condition variable may wake a caller that is not notified.
Spurious(c) ==
    /\ turn[c] = "asleep"
    /\ turn' = [turn EXCEPT ![c] = "awake"]
    /\ UNCHANGED <<counters, busy_, ticket>>

\* release, in its critical section.
Unlock(c) ==
    /\ turn[c] = "holds"
    /\ busy_' = FALSE
    /\ turn' = [turn EXCEPT ![c] = "notifies"]
    /\ UNCHANGED <<counters, ticket>>

\* release, after its critical section: ready_.notify_all.
\* Mutant: one waiter is notified.
notify_one(c) ==
    /\ turn[c] = "notifies"
    /\ \/ Asleep = {} /\ turn' = [turn EXCEPT ![c] = "out"]
       \/ \E d \in Asleep : turn' = [turn EXCEPT ![c] = "out", ![d] = "awake"]
    /\ UNCHANGED <<counters, busy_, ticket>>
notify_all(c) ==
    /\ turn[c] = "notifies"
    /\ turn' = [d \in Callers |-> IF d = c THEN "out"
                                  ELSE IF d \in Asleep THEN "awake" ELSE turn[d]]
    /\ UNCHANGED <<counters, busy_, ticket>>

\* A caller is waiting that would be served ahead of the holder.
contended(c) ==
    urgent_ # 0 \/ (c \in QueuedCallers /\ next_ # serving_)

TurnsNext ==
    \E c \in Callers :
        acquire(c) \/ Recheck(c) \/ Spurious(c) \/ Unlock(c) \/ notify_all(c)

TurnsSpec == TurnsInit /\ [][TurnsNext]_turnVars

\* Each caller is a thread that gets to run, and gives up the device in time.
FairTurns ==
    TurnsSpec /\ \A c \in Callers : WF_turnVars(Recheck(c) \/ Unlock(c) \/ notify_all(c))

-------------------------------------------------------------------------------
(* Properties.                                                             *)

TurnsTypeOK ==
    /\ urgent_ \in Nat
    /\ next_ \in 0..(Tickets - 1)
    /\ serving_ \in 0..(Tickets - 1)
    /\ busy_ \in BOOLEAN
    /\ turn \in [Callers -> {"out", "asleep", "awake", "holds", "notifies"}]
    /\ ticket \in [Callers -> 0..(Tickets - 1)]

\* One caller at a time has the device, and the flag says whether one has.
Exclusive ==
    /\ \A c, d \in At("holds") : c = d
    /\ busy_ <=> At("holds") # {}

\* The count of urgent callers that queued callers test is of those waiting.
UrgentCounted == urgent_ = Cardinality(Waiting \intersect UrgentCallers)

\* A caller that sleeps although it could take the turn is about to be woken:
\* no wakeup is lost between the unlock and notify_all, or to a caller that
\* slips in between (acquire, release).
NoLostWakeup ==
    \A c \in Asleep : Ready(c, ticket[c]) => At("notifies") # {}

\* The tickets of the waiting queued callers, from serving_ to next_.
InLine == (next_ - serving_) % Tickets
HasTicket(t) == {c \in Waiting \intersect QueuedCallers : ticket[c] = t}
Line == [i \in 1..InLine |->
            LET t == (serving_ + i - 1) % Tickets
            IN  IF HasTicket(t) = {} THEN Nobody ELSE CHOOSE c \in HasTicket(t) : TRUE]
Holder == IF At("holds") = {} THEN Nobody ELSE CHOOSE c \in Callers : turn[c] = "holds"

Queue == INSTANCE TurnQueue
            WITH holder <- Holder, crowd <- Waiting \intersect UrgentCallers,
                 line <- Line

\* The counters and the ticket wait are the queue: queued callers are served
\* in the order they came, behind every urgent one, also when tickets wrap.
QueueImplemented == Queue!Spec

\* Once no urgent caller comes any more, every queued caller that waits gets
\* its turn, however often the others come back (acquire, release).
QueuedServed ==
    <>[](\A u \in UrgentCallers : turn[u] = "out") =>
        \A c \in QueuedCallers : (turn[c] = "asleep") ~> (turn[c] = "holds")

===============================================================================
