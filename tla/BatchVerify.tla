------------------------------ MODULE BatchVerify ------------------------------
(***************************************************************************)
(* Verification of a batch of signatures (ecdsa::batch, schnorr::batch)    *)
(* and computation of one of products (silent::batch): on the device, and  *)
(* where that fails in chunks on the processor, which are canceled at any  *)
(* time; then the correlation of failed rows with the blocks they are of.  *)
(*                                                                         *)
(* A row is [id, group, sig, key, ok]: its block, the signature operation  *)
(* in it, the signature and the key tried, and whether they match.         *)
(***************************************************************************)
EXTENDS Integers, Sequences, SequencesExt, FiniteSetsExt

CONSTANTS
    ChunkRows,      \* count_to_rows, chunk_rows
    Terminal        \* batched::terminal

ASSUME BatchAssumption == ChunkRows \in Nat \ {0}

VARIABLES
    cancel,     \* the stopper
    use_gpu,
    stage,      \* "idle", "device", "chunks", "joined", "correlated", "returned"
    batch,      \* [kind, rows]
    chunks,     \* the state of each chunk of rows
    results,    \* 1 if a row is valid (or computed), 0 if not, empty as below
    failed,
    links,      \* ids that have failed
    written     \* the caller's writer has run

batchVars == <<cancel, use_gpu, stage, batch, chunks, results, failed, links, written>>

to_int(b) == IF b THEN 1 ELSE 0
ceilinged_divide(a, b) == (a + b - 1) \div b

-------------------------------------------------------------------------------
(* Groups of signatures.                                                   *)

\* Signatures are matched to keys greedily, each with a key after the last.
\* Mutant: a key may match again.
meets_threshold_again(signatures, keys, successes) ==
    /\ signatures <= keys
    /\ \A s \in 0..(signatures - 1) : \E k \in 0..(keys - 1) : <<s, k>> \in successes
meets_threshold(signatures, keys, successes) ==
    LET next[s \in 0..signatures] ==
            IF s = 0 THEN 0
            ELSE LET matched == {k \in next[s - 1]..(keys - 1) : <<s - 1, k>> \in successes}
                 IN  IF matched = {} THEN keys + 1 ELSE Min(matched) + 1
    IN  signatures <= keys /\ next[signatures] <= keys

\* The rows of each group follow each other: where one begins.
Begins(rows, i) ==
    i = 1 \/ rows[i].id # rows[i - 1].id \/ rows[i].group # rows[i - 1].group

\* The effective m and n are the largest positions in the group.
GroupFails(rows, out, first, last) ==
    LET of == first..last
        successes == {<<rows[i].sig, rows[i].key>> : i \in {k \in of : out[k] = 1}}
    IN  IF first = last THEN out[first] = 0
        ELSE ~meets_threshold(Max({rows[i].sig : i \in of}) + 1,
                              Max({rows[i].key : i \in of}) + 1, successes)

push_fail(ids) == ids \ {Terminal}

\* Over the first rows, which are all of them unless canceled on the way.
EcdsaFailures(rows, out, count) ==
    LET last(first) == Min({i \in first..count :
                                i = Len(rows) \/ Begins(rows, i + 1)} \union {count + 1})
    IN  push_fail({rows[first].id : first \in
            {i \in 1..count : /\ Begins(rows, i)
                              /\ last(i) <= count
                              /\ GroupFails(rows, out, i, last(i))}})
SchnorrFailures(rows, out, count) ==
    push_fail({rows[i].id : i \in {k \in 1..count : out[k] = 0}})

get_failures(kind, rows, out, count) ==
    IF out = <<>> THEN {}
    ELSE IF kind = "ecdsa" THEN EcdsaFailures(rows, out, count)
                           ELSE SchnorrFailures(rows, out, count)

-------------------------------------------------------------------------------
Rows == DOMAIN batch.rows
AllValid == \A i \in Rows : batch.rows[i].ok
Chunks(rows) == 1..ceilinged_divide(Len(rows), ChunkRows)
Slice(c) == {i \in Rows : (i - 1) \div ChunkRows = c - 1}
None == [kind |-> "none", rows |-> <<>>]

BatchInit ==
    /\ cancel = FALSE
    /\ use_gpu \in BOOLEAN
    /\ stage = "idle"
    /\ batch = None
    /\ chunks = <<>>
    /\ results = <<>>
    /\ failed = FALSE
    /\ links = {}
    /\ written = FALSE

Cancel ==
    /\ cancel' = TRUE
    /\ UNCHANGED <<use_gpu, stage, batch, chunks, results, failed, links, written>>

\* evaluate and compute: with the device if it is available and was not lost.
Begin(kind, rows) ==
    /\ stage = "idle"
    /\ batch' = [kind |-> kind, rows |-> rows]
    /\ stage' = IF use_gpu THEN "device" ELSE "chunks"
    /\ chunks' = [c \in Chunks(rows) |-> "ready"]
    /\ results' = [i \in DOMAIN rows |-> 0]
    /\ failed' = FALSE
    /\ links' = {}
    /\ written' = FALSE
    /\ UNCHANGED <<cancel, use_gpu>>

\* Mutant: the call is given up, to be tried again in the same way.
Lost_again ==
    /\ stage' = "idle"
    /\ UNCHANGED <<use_gpu, results>>
Lost ==
    /\ stage' = "chunks"
    /\ use_gpu' = FALSE
    /\ UNCHANGED results

\* The device has verified all, or is lost, which leaves all to the processor.
\* Results are empty if all are valid, or if canceled.  A writer has run
\* meanwhile, and a canceled computation has computed its first rows.
Device ==
    /\ stage = "device"
    /\ batch.kind = "silent" => written
    /\ \/ /\ stage' = "joined"
          /\ IF batch.kind = "silent"
             THEN \E n \in IF cancel THEN 0..Len(batch.rows) ELSE {Len(batch.rows)} :
                    results' = [i \in Rows |-> to_int(i <= n)]
             ELSE results' = IF cancel \/ AllValid THEN <<>>
                             ELSE [i \in Rows |-> to_int(batch.rows[i].ok)]
          /\ UNCHANGED use_gpu
       \/ Lost
    /\ UNCHANGED <<cancel, batch, chunks, failed, links, written>>

\* A chunk looks at the stopper once, before it verifies.
StartChunk(c) ==
    /\ stage = "chunks"
    /\ chunks[c] = "ready"
    /\ chunks' = [chunks EXCEPT ![c] = IF cancel THEN "ended" ELSE "verifying"]
    /\ UNCHANGED <<cancel, use_gpu, stage, batch, results, failed, links, written>>

\* Mutant: the last chunk decides.
Fails_last(c) == \E i \in Slice(c) : ~batch.rows[i].ok
Fails(c) == failed \/ \E i \in Slice(c) : ~batch.rows[i].ok

EndChunk(c) ==
    /\ stage = "chunks"
    /\ chunks[c] = "verifying"
    /\ chunks' = [chunks EXCEPT ![c] = "ended"]
    /\ failed' = Fails(c)
    /\ results' = [i \in Rows |->
                    IF i \in Slice(c) THEN to_int(batch.kind = "silent" \/ batch.rows[i].ok)
                                      ELSE results[i]]
    /\ UNCHANGED <<cancel, use_gpu, stage, batch, links, written>>

\* Empty implies that all are verified, or canceled, which the caller gates.
Join ==
    /\ stage = "chunks"
    /\ \A c \in DOMAIN chunks : chunks[c] = "ended"
    /\ stage' = "joined"
    /\ results' = IF batch.kind # "silent" /\ (cancel \/ ~failed) THEN <<>> ELSE results
    /\ UNCHANGED <<cancel, use_gpu, batch, chunks, failed, links, written>>

\* compute: the caller writes while the device computes, or after the processor.
Write ==
    /\ batch.kind = "silent"
    /\ stage \in {"device", "joined"}
    /\ ~written
    /\ written' = TRUE
    /\ UNCHANGED <<cancel, use_gpu, stage, batch, chunks, results, failed, links>>

\* correlate.
Correlate ==
    /\ stage = "joined"
    /\ batch.kind \in {"ecdsa", "schnorr"}
    /\ stage' = "correlated"
    /\ \E count \in IF cancel THEN 0..Len(batch.rows) ELSE {Len(batch.rows)} :
        links' = get_failures(batch.kind, batch.rows, results, count)
    /\ UNCHANGED <<cancel, use_gpu, batch, chunks, results, failed, written>>

Returned == stage = "joined" /\ ~cancel

\* A computation returns: what it says is whether it was canceled.
Return ==
    /\ stage = "joined"
    /\ batch.kind = "silent"
    /\ written
    /\ stage' = IF Returned THEN "returned" ELSE "idle"
    /\ UNCHANGED <<cancel, use_gpu, batch, chunks, results, failed, links, written>>

Verifying ==
    \/ Device \/ Join \/ Write \/ Correlate \/ Return
    \/ \E c \in DOMAIN chunks : StartChunk(c) \/ EndChunk(c)

-------------------------------------------------------------------------------
(* Properties.                                                             *)

\* The results of a call that was not canceled say what is so: empty that every
\* row is valid, else which rows are, and true that every row is computed and the
\* caller has written, whichever chunks ran or were left out before the stopper
\* was set, and though the device was lost after the write (batch_verify_,
\* compute).
ResultsTrue ==
    /\ stage = "joined" /\ batch.kind \in {"ecdsa", "schnorr"} /\ ~cancel =>
        results = IF AllValid THEN <<>> ELSE [i \in Rows |-> to_int(batch.rows[i].ok)]
    /\ stage = "returned" => written /\ \A i \in Rows : results[i] = 1
===============================================================================
