------------------------------ MODULE ThreadPool ------------------------------
(***************************************************************************)
(* execution::thread_pool, and the parallel algorithms that fork a range   *)
(* into tasks of the pool and join them: chunked (for_each, transform,     *)
(* reduce, all_of), sort, and plain submit.                                *)
(*                                                                         *)
(* A range is its number of elements, a task the part of the range that it *)
(* reads and writes.  A task is popped in the critical section of mutex_   *)
(* and runs outside it.  Its closure refers to locals of the caller.       *)
(***************************************************************************)
EXTENDS Integers, Sequences, FiniteSets

CONSTANTS
    Workers,    \* threads of the pool
    Callers,    \* other threads, each makes one call
    Calls,      \* what the callers may call together: algorithm, elements, floor
    Throwing    \* of callers, the elements at which a task may throw: pairs

ASSUME PoolAssumption ==
    /\ IsFiniteSet(Workers)
    /\ Workers # {}
    /\ Throwing \subseteq Callers \X Nat
    /\ Calls \subseteq
        [Callers -> [kind : {"submit", "each", "sort"}, count : Nat, floor : Nat \ {0}]]

VARIABLES
    tasks_,     \* the queue
    stopped_,
    worker,     \* where each worker is
    job,        \* the task each worker took last
    gone,       \* the pool is destroyed
    call,       \* what each caller calls
    at,         \* where each caller is
    runs,       \* edges, or runs, of each caller: bounds of its tasks
    merging,    \* sort is past its chunked
    index,      \* number of tasks submitted in this round
    joined,     \* number of futures obtained in this round
    ran,        \* tasks whose future is complete
    thrown,     \* those of them that threw
    ordered     \* history: the ranges of each caller in order (processed), as
                \* pairs, and the tasks about to leave theirs so, as triples

pool == <<tasks_, stopped_, worker, job, gone>>
frame == <<at, runs, merging, index, joined>>
futures == <<ran, thrown>>
vars == <<pool, call, frame, futures, ordered>>


Asleep == {w \in Workers : worker[w] = "asleep"}
Awake == {w \in Workers : worker[w] = "awake"}

-------------------------------------------------------------------------------
(* Bounds.                                                                 *)

AtLeast(a, b) == IF a < b THEN b ELSE a
AtMost(a, b) == IF a > b THEN b ELSE a

chunks(count, floor) ==
    AtLeast(AtMost(count \div floor, Cardinality(Workers)), 1)

bounds(count, floor) ==
    LET tasks == chunks(count, floor)
        edge[i \in 0..tasks] ==
            IF i = 0 THEN 0
            ELSE edge[i - 1] + count \div tasks + (IF i - 1 < count % tasks THEN 1 ELSE 0)
    IN  [i \in 1..(tasks + 1) |-> edge[i - 1]]

serial(request) == chunks(request.count, request.floor) < 2

\* The tasks of the current round: one for each chunk, or each pair of runs.
Round(c) ==
    IF merging[c]
    THEN [i \in 1..((Len(runs[c]) - 1) \div 2) |->
            [caller |-> c, from |-> runs[c][2 * i - 1], middle |-> runs[c][2 * i],
             to |-> runs[c][2 * i + 1]]]
    ELSE [i \in 1..(Len(runs[c]) - 1) |->
            [caller |-> c, from |-> runs[c][i], middle |-> runs[c][i],
             to |-> runs[c][i + 1]]]

\* The runs after a round of merges, a last one without a pair included.
\* Mutant: the last one is not.
MergedPairs(c) ==
    [i \in 1..((Len(runs[c]) + 1) \div 2) |-> runs[c][2 * i - 1]]
Merged(c) ==
    [i \in 1..((Len(runs[c]) + 1) \div 2) |-> runs[c][2 * i - 1]]
    \o IF Len(runs[c]) % 2 = 0 THEN <<runs[c][Len(runs[c])]>> ELSE <<>>

Edges(request) ==
    IF request.kind = "submit"
    THEN [i \in 1..(request.count + 1) |-> i - 1]
    ELSE bounds(request.count, request.floor)

-------------------------------------------------------------------------------
(* Workers.                                                                *)

Init ==
    /\ tasks_ = <<>>
    /\ stopped_ = FALSE
    /\ worker = [w \in Workers |-> "awake"]
    /\ job = [w \in Workers |-> {}]
    /\ gone = FALSE
    /\ call \in Calls
    /\ at = [c \in Callers |-> "out"]
    /\ runs = [c \in Callers |-> <<>>]
    /\ merging = [c \in Callers |-> FALSE]
    /\ index = [c \in Callers |-> 0]
    /\ joined = [c \in Callers |-> 0]
    /\ ran = {}
    /\ thrown = {}
    /\ ordered = [c \in Callers |-> {}]

Untouched == UNCHANGED <<call, frame, futures>>

\* work, under the lock: the predicate of the wait holds, or the worker sleeps.
Sleep(w) ==
    /\ worker[w] = "awake"
    /\ ~stopped_
    /\ tasks_ = <<>>
    /\ worker' = [worker EXCEPT ![w] = "asleep"]
    /\ Untouched
    /\ UNCHANGED <<tasks_, stopped_, job, gone, ordered>>

\* A stopped worker exits only when it finds the queue empty.
Exit(w) ==
    /\ worker[w] = "awake"
    /\ stopped_
    /\ tasks_ = <<>>
    /\ worker' = [worker EXCEPT ![w] = "exit"]
    /\ Untouched
    /\ UNCHANGED <<tasks_, stopped_, job, gone, ordered>>

\* A merge needs its two runs in order, and takes them apart until it is complete.
Parts(task) == {<<task.from, task.middle>>, <<task.middle, task.to>>}
Running(task) == <<task.from, task.middle, task.to>>

Take(w) ==
    /\ worker[w] = "awake"
    /\ tasks_ # <<>>
    /\ worker' = [worker EXCEPT ![w] = "run"]
    /\ job' = [job EXCEPT ![w] = {Head(tasks_)}]
    /\ tasks_' = Tail(tasks_)
    /\ LET task == Head(tasks_)
       IN  ordered' = [ordered EXCEPT ![task.caller] =
                (@ \ Parts(task)) \union
                IF task.from = task.middle \/ Parts(task) \subseteq @
                THEN {Running(task)} ELSE {}]
    /\ Untouched
    /\ UNCHANGED <<stopped_, gone>>

\* The task returns, or throws into its future.
Finish(w) ==
    /\ worker[w] = "run"
    /\ worker' = [worker EXCEPT ![w] = "awake"]
    /\ job' = [job EXCEPT ![w] = {}]
    /\ ran' = ran \union job[w]
    /\ \E task \in job[w] :
        \/ /\ ordered' = [ordered EXCEPT ![task.caller] =
                (@ \ {Running(task)}) \union
                IF Running(task) \in @ THEN {<<task.from, task.to>>} ELSE {}]
           /\ UNCHANGED thrown
        \/ /\ \E i \in task.from..(task.to - 1) : <<task.caller, i>> \in Throwing
           /\ thrown' = thrown \union {task}
           /\ ordered' = [ordered EXCEPT ![task.caller] = @ \ {Running(task)}]
    /\ UNCHANGED <<tasks_, stopped_, gone, call, frame>>

Spurious(w) ==
    /\ worker[w] = "asleep"
    /\ worker' = [worker EXCEPT ![w] = "awake"]
    /\ Untouched
    /\ UNCHANGED <<tasks_, stopped_, job, gone, ordered>>

\* The destructor, when nobody is about to submit: a caller that joins is done.
\* Mutant: one worker is notified.
StopOne ==
    /\ \A c \in Callers : at[c] \in {"done", "threw"}
    /\ ~stopped_
    /\ stopped_' = TRUE
    /\ \/ Asleep = {} /\ UNCHANGED worker
       \/ \E w \in Asleep : worker' = [worker EXCEPT ![w] = "awake"]
    /\ Untouched
    /\ UNCHANGED <<tasks_, job, gone, ordered>>
Stop ==
    /\ \A c \in Callers : at[c] \in {"done", "threw"}
    /\ ~stopped_
    /\ stopped_' = TRUE
    /\ worker' = [w \in Workers |-> IF w \in Asleep THEN "awake" ELSE worker[w]]
    /\ Untouched
    /\ UNCHANGED <<tasks_, job, gone, ordered>>

Join ==
    /\ stopped_
    /\ ~gone
    /\ \A w \in Workers : worker[w] = "exit"
    /\ gone' = TRUE
    /\ Untouched
    /\ UNCHANGED <<tasks_, stopped_, worker, job, ordered>>

-------------------------------------------------------------------------------
(* Callers.                                                                *)

\* A range that does not fill two tasks is processed by the caller.
Begin(c) ==
    /\ at[c] = "out"
    /\ IF call[c].kind # "submit" /\ serial(call[c])
       THEN /\ at' = [at EXCEPT ![c] = "done"]
            /\ ordered' = [ordered EXCEPT ![c] = {<<0, call[c].count>>}]
            /\ UNCHANGED runs
       ELSE /\ at' = [at EXCEPT ![c] = "fork"]
            /\ runs' = [runs EXCEPT ![c] = Edges(call[c])]
            /\ UNCHANGED ordered
    /\ UNCHANGED <<pool, call, merging, index, joined, futures>>

\* Wake one worker, if any is asleep.
\* Mutant: only if the queue was empty.
NotifyFirst ==
    \/ (Asleep = {} \/ tasks_ # <<>>) /\ UNCHANGED worker
    \/ tasks_ = <<>> /\ \E w \in Asleep : worker' = [worker EXCEPT ![w] = "awake"]
notify_one ==
    \/ Asleep = {} /\ UNCHANGED worker
    \/ \E w \in Asleep : worker' = [worker EXCEPT ![w] = "awake"]

submit(c) ==
    /\ at[c] = "fork"
    /\ index[c] < Len(Round(c))
    /\ tasks_' = Append(tasks_, Round(c)[index[c] + 1])
    /\ notify_one
    /\ index' = [index EXCEPT ![c] = @ + 1]
    /\ UNCHANGED <<stopped_, job, gone, call, at, runs, merging, joined, futures, ordered>>

\* All tasks are submitted; a caller of submit drops the futures.
Forked(c) ==
    /\ at[c] = "fork"
    /\ index[c] = Len(Round(c))
    /\ at' = [at EXCEPT ![c] = IF call[c].kind = "submit" THEN "done" ELSE "join"]
    /\ UNCHANGED <<pool, call, runs, merging, index, joined, futures, ordered>>

\* future.get: wait for the tasks in order, an exception leaves the call.
\* Mutant: one future is not waited for.
GetSome(c) ==
    /\ at[c] = "join"
    /\ joined[c] + 1 < Len(Round(c))
    /\ LET task == Round(c)[joined[c] + 1]
       IN  /\ task \in ran
           /\ IF task \in thrown THEN at' = [at EXCEPT ![c] = "threw"] ELSE UNCHANGED at
    /\ joined' = [joined EXCEPT ![c] = @ + IF joined[c] + 2 = Len(Round(c)) THEN 2 ELSE 1]
    /\ UNCHANGED <<pool, call, runs, merging, index, futures, ordered>>
Get(c) ==
    /\ at[c] = "join"
    /\ joined[c] < Len(Round(c))
    /\ LET task == Round(c)[joined[c] + 1]
       IN  /\ task \in ran
           /\ IF task \in thrown THEN at' = [at EXCEPT ![c] = "threw"] ELSE UNCHANGED at
    /\ joined' = [joined EXCEPT ![c] = @ + 1]
    /\ UNCHANGED <<pool, call, runs, merging, index, futures, ordered>>

\* The round is complete: sort goes on to merge until one run is left.
RoundEnds(c) ==
    /\ at[c] = "join"
    /\ joined[c] = Len(Round(c))
    /\ LET rest == IF merging[c] THEN Merged(c) ELSE runs[c]
           more == call[c].kind = "sort" /\ Len(rest) > 2
       IN  /\ at' = [at EXCEPT ![c] = IF more THEN "fork" ELSE "done"]
           /\ merging' = [merging EXCEPT ![c] = @ \/ more]
           /\ runs' = [runs EXCEPT ![c] = rest]
    /\ index' = [index EXCEPT ![c] = 0]
    /\ joined' = [joined EXCEPT ![c] = 0]
    /\ UNCHANGED <<pool, call, futures, ordered>>

work(w) == Sleep(w) \/ Exit(w) \/ Take(w) \/ Finish(w)
Step(c) == Begin(c) \/ submit(c) \/ Forked(c) \/ Get(c) \/ RoundEnds(c)
Destroyed == gone /\ UNCHANGED vars

Next ==
    \/ \E w \in Workers : work(w) \/ Spurious(w)
    \/ \E c \in Callers : Step(c)
    \/ Stop
    \/ Join
    \/ Destroyed

\* Threads get to run, tasks return, and the pool is destroyed at last.
Spec ==
    /\ Init
    /\ [][Next]_vars
    /\ \A w \in Workers : WF_vars(work(w))
    /\ \A c \in Callers : WF_vars(Step(c))
    /\ WF_vars(Stop \/ Join)

-------------------------------------------------------------------------------
(* Properties.                                                             *)

Left(c) == at[c] \in {"done", "threw"}
Taken == UNION {job[w] : w \in Workers}
Queued == {tasks_[i] : i \in 1..Len(tasks_)}

\* A call returns only when none of its tasks is queued or runs any more: they
\* refer to its locals (chunked, sort).
WaitsForAll ==
    \A c \in Callers :
        Left(c) /\ call[c].kind # "submit" =>
            \A task \in Queued \union Taken : task.caller # c

\* A worker sleeps only if each queued task has a worker of its own that is
\* about to take it: one notification for each task is enough (submit, work).
NoIdleWorker == Asleep # {} => Len(tasks_) <= Cardinality(Awake)

\* When a call returns every element is in a range processed, and after a sort
\* the whole range is in order (bounds, chunked, sort).
ResultComplete ==
    \A c \in Callers :
        at[c] = "done" /\ call[c].kind # "submit" =>
            /\ \A e \in 0..(call[c].count - 1) :
                \E r \in ordered[c] : Len(r) = 2 /\ r[1] <= e /\ e < r[2]
            /\ call[c].kind = "sort" => <<0, call[c].count>> \in ordered[c]

\* Every call returns and the destructor does too, from wherever the workers
\* sleep, and not before all queued tasks have run, those whose futures were
\* dropped included (submit, work, ~thread_pool).
PoolStops ==
    <>(gone /\ \A c \in Callers : call[c].kind = "submit" =>
                    \A i \in 1..Len(Round(c)) : Round(c)[i] \in ran)
===============================================================================
