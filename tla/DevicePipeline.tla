---------------------------- MODULE DevicePipeline ----------------------------
(***************************************************************************)
(* cuda::context: callers that verify rows on the one device, each in      *)
(* chunks that alternate between the two halves of the staging memory, and *)
(* that give up the device between chunks to callers ahead of them.        *)
(*                                                                         *)
(* Rows are abstracted to chunks, a chunk to its name <<caller, chunk>>,   *)
(* and a driver call to whether it succeeds.  Staging and kernels are      *)
(* queued on the stream of a half and run there in order, until the stream *)
(* is synchronized.  Every caller makes one call, and those in Stoppable   *)
(* may be canceled at any time.                                            *)
(***************************************************************************)
EXTENDS Turns

CONSTANTS
    Chunks,     \* chunks of each caller's rows
    Stoppable,  \* bound of the model: the callers that may be canceled
    Bad         \* the chunks with a row that does not verify

ASSUME ChunksAssumption == Chunks \in [Callers -> Nat]

VARIABLES
    failed_,    \* the device has failed, for good
    staged,     \* the chunk staged last in each half
    pending,    \* the halves whose stream is not synchronized
    cancel,     \* callers whose stopper is set
    at,         \* where each caller is in pipeline
    chunk,      \* the local chunk of each caller
    prior,      \* prior and prior_half: the chunk staged and not collected
    out,        \* the results of each caller
    returned,   \* what verify has returned to each caller
    ahead       \* history: callers that waited when a caller yielded

device == <<failed_, staged, pending>>
locals == <<chunk, prior, out>>
pipeVars == <<device, cancel, at, locals, returned, ahead, turnVars>>

Halves == 0..1
NoChunk == <<Nobody, 0>>

Init ==
    /\ TurnsInit
    /\ failed_ = FALSE
    /\ staged = [h \in Halves |-> NoChunk]
    /\ pending = {}
    /\ cancel = {}
    /\ at = [c \in Callers |-> "idle"]
    /\ chunk = [c \in Callers |-> 0]
    /\ prior = [c \in Callers |-> NoChunk]
    /\ out = [c \in Callers |-> [k \in 0..(Chunks[c] - 1) |-> NoChunk]]
    /\ returned = [c \in Callers |-> "none"]
    /\ ahead = [c \in Callers |-> {}]

Go(c, where) == at' = [at EXCEPT ![c] = where]
Holds(c, where) == at[c] = where /\ turn[c] = "holds"

\* Who waits when a caller yields, and has not been served since.
Watch ==
    ahead' = [c \in Callers |->
        IF at[c] = "loop" /\ at'[c] = "yield" THEN Waiting
        ELSE IF at'[c] \notin {"yield", "resume"} THEN {}
        ELSE {d \in ahead[c] : turn'[d] # "holds"}]

\* collect: the results of the rows staged in the half, once computed.
HalfOf(name) == name[2] % 2
Collected(c, contents) ==
    IF prior[c] = NoChunk THEN out
    ELSE [out EXCEPT ![c][prior[c][2]] = contents[HalfOf(prior[c])]]

-------------------------------------------------------------------------------
(* batch_verify and verify.                                                *)

\* available: a device that has failed is not tried again.
Available(c) ==
    /\ at[c] = "idle"
    /\ IF failed_ THEN Go(c, "done") /\ returned' = [returned EXCEPT ![c] = "false"]
       ELSE Go(c, "call") /\ UNCHANGED returned
    /\ UNCHANGED <<device, cancel, locals, turnVars>>
    /\ Watch

\* The results are empty if all are valid, or if canceled by now.
\* Mutant: the stopper is not read again.
ReturnUngated(c) ==
    /\ at[c] = "return"
    /\ turn[c] = "out"
    /\ Go(c, "done")
    /\ returned' = [returned EXCEPT ![c] =
            IF @ = "false" THEN "false"
            ELSE IF \A k \in DOMAIN out[c] : out[c][k] \notin Bad \union {NoChunk}
                 THEN "empty" ELSE "results"]
    /\ UNCHANGED <<device, cancel, locals, turnVars>>
    /\ Watch
Return(c) ==
    /\ at[c] = "return"
    /\ turn[c] = "out"
    /\ Go(c, "done")
    /\ returned' = [returned EXCEPT ![c] =
            IF @ = "false" THEN "false"
            ELSE IF c \in cancel
                    \/ \A k \in DOMAIN out[c] : out[c][k] \notin Bad \union {NoChunk}
                 THEN "empty" ELSE "results"]
    /\ UNCHANGED <<device, cancel, locals, turnVars>>
    /\ Watch

\* The stopper is set, by the node that stops.
Cancel(c) ==
    /\ at[c] # "done"
    /\ c \in Stoppable \ cancel
    /\ cancel' = cancel \union {c}
    /\ UNCHANGED <<device, at, locals, returned, turnVars>>
    /\ Watch

-------------------------------------------------------------------------------
(* pipeline.                                                               *)

\* The turn is taken at the start, and again after a yield.
Acquire(c) ==
    /\ at[c] \in {"call", "resume"}
    /\ acquire(c)
    /\ UNCHANGED <<device, cancel, at, locals, returned>>
    /\ Watch

\* Spurious wakeups are left to Turns: they only test the predicate once more.
Wake(c) ==
    /\ Recheck(c) \/ notify_all(c)
    /\ UNCHANGED <<device, cancel, at, locals, returned>>
    /\ Watch

\* The caller returns false before it has touched the device.
Decline(c) ==
    /\ Go(c, "release")
    /\ returned' = [returned EXCEPT ![c] = "false"]
    /\ UNCHANGED <<device, cancel, locals, turnVars>>
    /\ Watch

\* The device has failed, or a half holds no row at all (is_zero(rows)).
Unusable(c) ==
    /\ Holds(c, "call")
    /\ Decline(c)

Begin(c) ==
    /\ Holds(c, "call")
    /\ ~failed_
    /\ \/ Go(c, "loop")     \* context_current
       \/ Go(c, "fail")
    /\ UNCHANGED <<device, cancel, locals, returned, turnVars>>
    /\ Watch

\* The loop is left: all chunks are staged, or the caller is canceled.
LoopEnds(c) == chunk[c] >= Chunks[c] \/ c \in cancel

\* The device is given up only when nothing of this caller is left on it.
\* Mutant: the prior chunk is computed, and its results are left for later.
YieldStaged(c) ==
    /\ Holds(c, "loop")
    /\ ~LoopEnds(c)
    /\ contended(c)
    /\ Go(c, "yield")
    /\ pending' = {}
    /\ UNCHANGED <<failed_, staged, cancel, locals, returned, turnVars>>
    /\ Watch
Yield(c) ==
    /\ Holds(c, "loop")
    /\ ~LoopEnds(c)
    /\ contended(c)
    /\ \/ /\ out' = Collected(c, staged)
          /\ pending' = IF prior[c] = NoChunk THEN pending
                        ELSE pending \ {HalfOf(prior[c])}
          /\ Go(c, "yield")
       \/ prior[c] # NoChunk /\ Go(c, "fail") /\ UNCHANGED <<out, pending>>
    /\ prior' = [prior EXCEPT ![c] = NoChunk]
    /\ UNCHANGED <<failed_, staged, cancel, chunk, returned, turnVars>>
    /\ Watch

\* turn::yield and ~turn: release.
Release(c) ==
    /\ \/ Holds(c, "yield") /\ Go(c, "resume")
       \/ Holds(c, "release") /\ Go(c, "return")
    /\ Unlock(c)
    /\ UNCHANGED <<device, cancel, locals, returned>>
    /\ Watch

\* A caller that has yielded stages its next chunk, contended or not.
\* Mutant: the head of the loop is tried again.
ResumeAtHead(c) ==
    /\ Holds(c, "resume")
    /\ \/ failed_ /\ Decline(c)
       \/ /\ ~failed_
          /\ Go(c, "loop") \/ Go(c, "fail")
          /\ UNCHANGED <<device, cancel, locals, returned, turnVars>>
          /\ Watch
Resume(c) ==
    /\ Holds(c, "resume")
    /\ \/ failed_ /\ Decline(c)
       \/ /\ ~failed_
          /\ Go(c, "stage") \/ Go(c, "fail")    \* context_current
          /\ UNCHANGED <<device, cancel, locals, returned, turnVars>>
          /\ Watch

\* A chunk is staged in a half while the prior one computes in the other, and
\* the prior one is then collected.
Stage(c) ==
    /\ \/ Holds(c, "loop") /\ ~LoopEnds(c) /\ ~contended(c)
       \/ Holds(c, "stage")
    /\ LET name == <<c, chunk[c]>>
           contents == [staged EXCEPT ![HalfOf(name)] = name]
           queued == pending \union {HalfOf(name)}
       IN  \/ /\ Go(c, "fail")                  \* of stage
              /\ \/ staged' = contents /\ pending' = queued
                 \/ UNCHANGED <<staged, pending>>
              /\ UNCHANGED out
           \/ /\ staged' = contents
              /\ \/ /\ Go(c, "loop")
                    /\ out' = Collected(c, contents)
                    /\ pending' = IF prior[c] = NoChunk THEN queued
                                  ELSE queued \ {HalfOf(prior[c])}
                 \/ /\ prior[c] # NoChunk       \* of collect
                    /\ Go(c, "fail")
                    /\ pending' = queued
                    /\ UNCHANGED out
    /\ prior' = [prior EXCEPT ![c] = <<c, chunk[c]>>]
    /\ chunk' = [chunk EXCEPT ![c] = @ + 1]
    /\ UNCHANGED <<failed_, cancel, returned, turnVars>>
    /\ Watch

\* The last chunk is collected unless canceled, and both streams are
\* synchronized in either case.
\* Mutant: a canceled call returns at once.
FinishUnsynchronized(c) ==
    /\ Holds(c, "loop")
    /\ LoopEnds(c)
    /\ Go(c, "release")
    /\ IF c \in cancel THEN UNCHANGED <<out, pending>>
       ELSE out' = Collected(c, staged) /\ pending' = {}
    /\ UNCHANGED <<failed_, staged, cancel, chunk, prior, returned, turnVars>>
    /\ Watch
Finish(c) ==
    /\ Holds(c, "loop")
    /\ LoopEnds(c)
    /\ \/ /\ Go(c, "release")
          /\ out' = IF c \in cancel THEN out ELSE Collected(c, staged)
          /\ pending' = {}
       \/ Go(c, "fail") /\ UNCHANGED <<out, pending>>
    /\ UNCHANGED <<failed_, staged, cancel, chunk, prior, returned, turnVars>>
    /\ Watch

\* The failure is kept while the caller still has the turn.
Fail(c) ==
    /\ Holds(c, "fail")
    /\ failed_' = TRUE
    /\ Go(c, "release")
    /\ returned' = [returned EXCEPT ![c] = "false"]
    /\ UNCHANGED <<staged, pending, cancel, locals, turnVars>>
    /\ Watch

Step(c) ==
    \/ Available(c) \/ Return(c)
    \/ Acquire(c) \/ Wake(c)
    \/ Unusable(c) \/ Begin(c) \/ Yield(c) \/ Release(c)
    \/ Resume(c) \/ Stage(c) \/ Finish(c) \/ Fail(c)

Done == (\A c \in Callers : at[c] = "done") /\ UNCHANGED pipeVars

Next ==
    \/ \E c \in Callers : Step(c) \/ Cancel(c)
    \/ Done

\* Callers are threads that run, and driver calls return.
Spec == Init /\ [][Next]_pipeVars /\ \A c \in Callers : WF_pipeVars(Step(c))

-------------------------------------------------------------------------------
(* Properties.                                                             *)

\* Every result is of the row it is returned for, although callers take turns
\* on the same two halves between chunks (pipeline, collect).
OwnRows ==
    \A c \in Callers : \A k \in DOMAIN out[c] : out[c][k] \in {NoChunk, <<c, k>>}

\* Empty results, which stand for a batch in which all is valid, are returned
\* only if all was collected and is valid or the caller was canceled; and other
\* results only if all was collected (verify, pipeline).
EmptyMeansValid ==
    \A c \in Callers :
        /\ returned[c] = "empty" =>
            c \in cancel \/ \A k \in DOMAIN out[c] : out[c][k] = <<c, k>> /\ <<c, k>> \notin Bad
        /\ returned[c] = "results" => \A k \in DOMAIN out[c] : out[c][k] = <<c, k>>

\* Nothing runs on the device for a caller without the turn, canceled callers
\* included, unless the device has failed: their memory may be gone.
QuietWhenFree == ~busy_ /\ ~failed_ => pending = {}

\* A queued caller that yields is served again only after every caller that
\* waited at the time (turns::acquire, contended, turn::yield).  An urgent caller
\* that yields to another may take the turn again first: no ticket orders the two.
YieldGivesWay ==
    [][\A c \in QueuedCallers :
        at[c] = "resume" /\ turn[c] # "holds" /\ turn'[c] = "holds" =>
            ahead[c] = {}]_pipeVars

\* Every call returns (turns, pipeline).
AllReturn == <>(\A c \in Callers : at[c] = "done")

===============================================================================
