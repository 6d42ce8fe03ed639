--------------------------- MODULE SignatureCapture ---------------------------
(***************************************************************************)
(* Signatures whose verification is put off (chain::signatures): a thread  *)
(* that connects a block appends the signatures of scripts that they       *)
(* decide to its own accumulators and goes on as if they were valid.  The  *)
(* rows are stored when all scripts have passed, batches of them are       *)
(* verified, and a block with a failed row is refused.                     *)
(*                                                                         *)
(* A block is a sequence of inputs, which are records.  kind says what the *)
(* script verifies and batchable whether its pattern is one of those that  *)
(* are captured.                                                           *)
(*   "ecdsa", "schnorr": [ok]: one signature; and for ecdsa compressible,  *)
(*       whether its key is.                                               *)
(*   "multisig": [m, n, match, parsed]: which signature matches which key, *)
(*       as pairs of positions, and whether all of them can be captured.   *)
(*   "threshold": [op, min, max, elements, junk]: what the stack has for   *)
(*       each key, as "good", "bad", "empty" or "malformed", the comparison *)
(*       at the end, and elements on the stack below that are not empty.   *)
(*                                                                         *)
(* The node that connects blocks, stores rows and drains them is outside   *)
(* of this repository.                                                     *)
(***************************************************************************)
EXTENDS BatchVerify

CONSTANTS
    Threads,
    MaxGroup,       \* max_uint16
    BlockSets,      \* functions from block ids to blocks
    SilentRows      \* bound of the model: the rows of the computation

\* A script of each kind, and a block of scripts.  A multisig of more signatures
\* than keys fails before any is tried, and a chain of verifications has as many
\* signatures as keys (op_check_multisig, script_extract.cpp).
IsScript(in) ==
    /\ in.kind \in {"ecdsa", "schnorr"} => in.ok \in BOOLEAN
    /\ in.kind = "multisig" =>
        in.m \in Nat /\ in.n \in Nat /\ in.m <= in.n /\ in.match \subseteq Nat \X Nat
    /\ in.kind = "threshold" =>
        /\ in.elements \in Seq({"good", "bad", "empty", "malformed"}) /\ in.junk \in Nat
        /\ in.op = "checksig" => in.min = Len(in.elements)
IsBlock(block) ==
    /\ Len(block) \in Nat
    /\ DOMAIN block = 1..Len(block)
    /\ \A i \in DOMAIN block : IsScript(block[i])

ASSUME CaptureAssumption ==
    /\ MaxGroup \in Nat
    /\ SilentRows \in Nat
    /\ \A set \in BlockSets : Terminal \notin DOMAIN set /\ \A b \in DOMAIN set : IsBlock(set[b])

VARIABLES
    blocks,
    verdict,        \* "new", "connecting", "deferred", "valid", "invalid"
    thread,         \* what each thread connects: see Idle
    ecdsa,          \* the accumulators of each thread: groups, and rows
    schnorr,
    tables,         \* the store: rows not yet verified
    outstanding     \* the tables that have rows of a block

captureVars == <<blocks, verdict, thread, ecdsa, schnorr, tables, outstanding>>
vars == <<captureVars, batchVars>>

Ids == DOMAIN blocks
Kinds == {"ecdsa", "schnorr"}

\* block, position of the input and of the element in it, signatures that have
\* succeeded, and the cursor of a threshold: the rows that it still expects.
Idle == [block |-> Terminal, input |-> 1, at |-> 1, count |-> 0, pending |-> 0]
IsBusy(t) == thread[t].block # Terminal
Connected(t) == blocks[thread[t].block]
HasInput(t) == IsBusy(t) /\ thread[t].input <= Len(Connected(t))
Input(t) == Connected(t)[thread[t].input]

-------------------------------------------------------------------------------
(* Groups.                                                                 *)

\* op_check_multisig: each key is tried with the next signature.
Trial(m, n, match) ==
    LET sig[k \in 0..n] ==
            IF k = 0 THEN 0
            ELSE LET s == sig[k - 1]
                 IN  IF s < m /\ <<s, k - 1>> \in match THEN s + 1 ELSE s
    IN  sig[n] = m

\* ecdsa_signatures::verify_group: the same while there are keys enough.
verify_group(group) ==
    LET sig[k \in 0..group.n] ==
            IF k = 0 THEN 0
            ELSE LET s == sig[k - 1]
                 IN  IF /\ s < group.m
                        /\ group.n - (k - 1) >= group.m - s
                        /\ <<s, k - 1>> \in group.match
                     THEN s + 1 ELSE s
    IN  sig[group.n] = group.m

\* Banded expansion: signature i pairs keys i to i + (n - m).
BandedRows(id, ordinal, group) ==
    LET band == group.n - group.m + 1
    IN  [r \in 1..(group.m * band) |->
            LET s == (r - 1) \div band
                k == s + ((r - 1) % band)
            IN  [id |-> id, group |-> ordinal, sig |-> s, key |-> k,
                 ok |-> <<s, k>> \in group.match]]
EcdsaRows(id, groups) ==
    FlattenSeq([g \in DOMAIN groups |-> BandedRows(id, g - 1, groups[g])])
SchnorrRows(id, oks) ==
    [r \in DOMAIN oks |-> [id |-> id, group |-> 0, sig |-> 0, key |-> 0, ok |-> oks[r]]]

\* threshold::is_satisfied, which is also what the last operator computes.
is_satisfied(op, expected, min, max) ==
    CASE op \in {"checksig", "numequal"} -> expected = min
      [] op = "numnotequal" -> expected # min
      [] op = "lessthan" -> expected < min
      [] op = "greaterthan" -> expected > min
      [] op = "lessthanorequal" -> expected <= min
      [] op = "greaterthanorequal" -> expected >= min
      [] op = "within" -> expected >= min /\ expected < max
      [] OTHER -> FALSE

\* put declines when the ordinals are used up.
Declines(groups) == Len(groups) > MaxGroup

-------------------------------------------------------------------------------
Init ==
    /\ BatchInit
    /\ blocks \in BlockSets
    /\ verdict = [b \in Ids |-> "new"]
    /\ thread = [t \in Threads |-> Idle]
    /\ ecdsa = [t \in Threads |-> <<>>]
    /\ schnorr = [t \in Threads |-> <<>>]
    /\ tables = [kind \in Kinds |-> <<>>]
    /\ outstanding = [b \in Ids |-> {}]

\* A free thread takes a block, and clears its accumulators for it.
Connect(t, b) ==
    /\ ~IsBusy(t)
    /\ verdict[b] = "new"
    /\ verdict' = [verdict EXCEPT ![b] = "connecting"]
    /\ thread' = [thread EXCEPT ![t] = [Idle EXCEPT !.block = b]]
    /\ ecdsa' = [ecdsa EXCEPT ![t] = <<>>]
    /\ schnorr' = [schnorr EXCEPT ![t] = <<>>]
    /\ UNCHANGED <<blocks, tables, outstanding, batchVars>>

\* The script passes and the next is run, or the block fails.
Goes(t, passes) ==
    LET next == [Idle EXCEPT !.block = thread[t].block, !.input = thread[t].input + 1]
    IN  IF passes
        THEN /\ thread' = [thread EXCEPT ![t] = next]
             /\ UNCHANGED verdict
        ELSE /\ thread' = [thread EXCEPT ![t] = Idle]
             /\ verdict' = [verdict EXCEPT ![thread[t].block] = "invalid"]

verify_ecdsa_signature(t) ==
    /\ HasInput(t) /\ Input(t).kind = "ecdsa"
    /\ IF Input(t).batchable /\ Input(t).compressible /\ ~Declines(ecdsa[t])
       THEN /\ ecdsa' = [ecdsa EXCEPT ![t] = Append(@,
                [m |-> 1, n |-> 1, match |-> IF Input(t).ok THEN {<<0, 0>>} ELSE {}])]
            /\ Goes(t, TRUE)
       ELSE Goes(t, Input(t).ok) /\ UNCHANGED ecdsa
    /\ UNCHANGED <<blocks, schnorr, tables, outstanding, batchVars>>

Captured(t) == Input(t).batchable /\ Input(t).parsed /\ ~Declines(ecdsa[t])

\* try_batch_multisig_verification, and the trial of op_check_multisig.
op_check_multisig(t) ==
    /\ HasInput(t) /\ Input(t).kind = "multisig"
    /\ IF Captured(t)
       THEN /\ ecdsa' = [ecdsa EXCEPT ![t] = Append(@,
                [m |-> Input(t).m, n |-> Input(t).n, match |-> Input(t).match])]
            /\ Goes(t, TRUE)
       ELSE /\ Goes(t, Trial(Input(t).m, Input(t).n, Input(t).match))
            /\ UNCHANGED ecdsa
    /\ UNCHANGED <<blocks, schnorr, tables, outstanding, batchVars>>

verify_schnorr_signature(t) ==
    /\ HasInput(t) /\ Input(t).kind = "schnorr"
    /\ IF Input(t).batchable
       THEN /\ schnorr' = [schnorr EXCEPT ![t] = Append(@, Input(t).ok)]
            /\ Goes(t, TRUE)
       ELSE Goes(t, Input(t).ok) /\ UNCHANGED schnorr
    /\ UNCHANGED <<blocks, ecdsa, tables, outstanding, batchVars>>

\* The element of a key of a threshold script, in the order of the keys.
HasElement(t) ==
    /\ HasInput(t) /\ Input(t).kind = "threshold"
    /\ thread[t].at <= Len(Input(t).elements)
Element(t) == Input(t).elements[thread[t].at]
\* Elements of the stack below that are not empty, whatever they are.
stack_nonempty(t) ==
    Input(t).junk + Cardinality({i \in DOMAIN Input(t).elements :
                                    i > thread[t].at /\ Input(t).elements[i] # "empty"})

\* Mutant: the signature itself is counted twice.
Expected_self(t) == stack_nonempty(t) + 2
Expected(t) == stack_nonempty(t) + 1

\* The rows that the cursor expects, of one that is open or is opened now.
is_threshold_batchable(t) ==
    IF thread[t].pending # 0 THEN thread[t].pending
    ELSE IF Input(t).batchable
            /\ is_satisfied(Input(t).op, Expected(t), Input(t).min, Input(t).max)
         THEN Expected(t) ELSE 0

\* op_check_sig(_verify) and op_check_sig_add with an element that is not empty.
ThresholdSignature(t) ==
    /\ HasElement(t) /\ Element(t) \in {"good", "bad"}
    /\ LET pending == is_threshold_batchable(t)
       IN  IF pending = 0 /\ Element(t) = "bad"
           THEN Goes(t, FALSE) /\ UNCHANGED schnorr
           ELSE /\ thread' = [thread EXCEPT ![t].at = @ + 1, ![t].count = @ + 1,
                                ![t].pending = IF pending = 0 THEN 0 ELSE pending - 1]
                /\ schnorr' = [schnorr EXCEPT ![t] =
                                IF pending = 0 THEN @ ELSE Append(@, Element(t) = "good")]
                /\ UNCHANGED verdict
    /\ UNCHANGED <<blocks, ecdsa, tables, outstanding, batchVars>>

\* An element that is empty counts nothing, and ends a chain of verifications;
\* one that is malformed ends any script, with the cursor as it is.
ThresholdOther(t) ==
    /\ HasElement(t) /\ Element(t) \in {"empty", "malformed"}
    /\ IF Element(t) = "malformed" \/ Input(t).op = "checksig"
       THEN Goes(t, FALSE)
       ELSE thread' = [thread EXCEPT ![t].at = @ + 1] /\ UNCHANGED verdict
    /\ UNCHANGED <<blocks, ecdsa, schnorr, tables, outstanding, batchVars>>

\* The comparison, on a stack that must be clean afterwards.
ThresholdEnds(t) ==
    /\ HasInput(t) /\ Input(t).kind = "threshold"
    /\ thread[t].at > Len(Input(t).elements)
    /\ Goes(t, /\ Input(t).junk = 0
               /\ is_satisfied(Input(t).op, thread[t].count, Input(t).min, Input(t).max))
    /\ UNCHANGED <<blocks, ecdsa, schnorr, tables, outstanding, batchVars>>

-------------------------------------------------------------------------------
(* The node.                                                               *)

IsConnected(t) == IsBusy(t) /\ ~HasInput(t)
Rows_(t) ==
    [kind \in Kinds |-> IF kind = "ecdsa" THEN EcdsaRows(thread[t].block, ecdsa[t])
                                          ELSE SchnorrRows(thread[t].block, schnorr[t])]

\* All scripts have passed: rows are stored, if there are any.
Commit(t) ==
    /\ IsConnected(t)
    /\ LET rows == Rows_(t)
           kinds == {kind \in Kinds : rows[kind] # <<>>}
           b == thread[t].block
       IN  /\ tables' = [kind \in Kinds |-> tables[kind] \o rows[kind]]
           /\ outstanding' = [outstanding EXCEPT ![b] = kinds]
           /\ verdict' = [verdict EXCEPT ![b] = IF kinds = {} THEN "valid" ELSE "deferred"]
    /\ thread' = [thread EXCEPT ![t] = Idle]
    /\ UNCHANGED <<blocks, ecdsa, schnorr, batchVars>>

\* The store fails, perhaps with a row of no block: rows are verified in place.
CommitFails(t) ==
    /\ IsConnected(t)
    /\ \E kind \in Kinds : Rows_(t)[kind] # <<>> /\ \E partial \in BOOLEAN :
        tables' = IF partial
                  THEN [tables EXCEPT ![kind] =
                            Append(@, [Rows_(t)[kind][1] EXCEPT !.id = Terminal, !.ok = FALSE])]
                  ELSE tables
    /\ verdict' = [verdict EXCEPT ![thread[t].block] =
            IF /\ \A g \in DOMAIN ecdsa[t] : verify_group(ecdsa[t][g])
               /\ \A r \in DOMAIN schnorr[t] : schnorr[t][r]
            THEN "valid" ELSE "invalid"]
    /\ thread' = [thread EXCEPT ![t] = Idle]
    /\ UNCHANGED <<blocks, ecdsa, schnorr, outstanding, batchVars>>

Drain(kind) ==
    /\ tables[kind] # <<>>
    /\ Begin(kind, tables[kind])
    /\ UNCHANGED captureVars

\* A canceled call is discarded.  Otherwise blocks fail, or wait for one table
\* less.
Resolve ==
    /\ stage = "correlated"
    /\ stage' = "idle"
    /\ IF cancel THEN UNCHANGED <<verdict, tables, outstanding>>
       ELSE LET waits == {b \in Ids : verdict[b] = "deferred"
                                        /\ \E i \in Rows : batch.rows[i].id = b}
                left == [b \in Ids |-> IF b \in waits THEN outstanding[b] \ {batch.kind}
                                                      ELSE outstanding[b]]
            IN  /\ outstanding' = left
                /\ tables' = [tables EXCEPT ![batch.kind] =
                                SubSeq(@, Len(batch.rows) + 1, Len(@))]
                /\ verdict' = [b \in Ids |-> IF b \notin waits THEN verdict[b]
                                             ELSE IF b \in links THEN "invalid"
                                             ELSE IF left[b] = {} THEN "valid"
                                             ELSE "deferred"]
    /\ UNCHANGED <<blocks, thread, ecdsa, schnorr>>
    /\ UNCHANGED <<cancel, use_gpu, batch, chunks, results, failed, links, written>>

\* A computation for silent payments uses the same device, chunks and stopper.
\* Bound of the model: there is one, and it begins before blocks are connected.
Compute ==
    /\ batch = None
    /\ \A b \in Ids : verdict[b] = "new"
    /\ SilentRows # 0
    /\ Begin("silent", [i \in 1..SilentRows |->
                [id |-> Terminal, group |-> 0, sig |-> 0, key |-> 0, ok |-> TRUE]])
    /\ UNCHANGED captureVars
Release ==
    /\ stage = "returned"
    /\ stage' = "idle"
    /\ UNCHANGED <<captureVars, cancel, use_gpu, batch, chunks, results, failed, links, written>>

Runs(t) ==
    \/ verify_ecdsa_signature(t) \/ op_check_multisig(t) \/ verify_schnorr_signature(t)
    \/ ThresholdSignature(t) \/ ThresholdOther(t) \/ ThresholdEnds(t)
    \/ Commit(t) \/ CommitFails(t)
    \/ \E b \in Ids : Connect(t, b)

Drains == Resolve \/ Release \/ \E kind \in Kinds : Drain(kind)
Verifies == Verifying /\ UNCHANGED captureVars

Next ==
    \/ \E t \in Threads : Runs(t)
    \/ Drains \/ Verifies \/ Compute
    \/ ~cancel /\ Cancel /\ UNCHANGED captureVars

\* Threads run, chunks are tasks of a pool, and the node drains what is stored.
Fairness ==
    /\ \A t \in Threads : WF_vars(Runs(t))
    /\ WF_vars(Verifies)
    /\ WF_vars(Drains)

Spec == Init /\ [][Next]_vars /\ Fairness

-------------------------------------------------------------------------------
(* Properties.                                                             *)

\* What scripts mean, without an order of trials: signatures are assigned to
\* keys in their order, and a threshold counts signatures that must be good.
Satisfied(in) ==
    CASE in.kind \in {"ecdsa", "schnorr"} -> in.ok
      [] in.kind = "multisig" ->
            \E f \in [0..(in.m - 1) -> 0..(in.n - 1)] :
                \A i \in DOMAIN f : <<i, f[i]>> \in in.match
                                    /\ \A j \in DOMAIN f : i < j => f[i] < f[j]
      [] in.kind = "threshold" ->
            LET is(e) == {i \in DOMAIN in.elements : in.elements[i] = e}
            IN  /\ is("bad") = {} /\ is("malformed") = {} /\ in.junk = 0
                /\ is_satisfied(in.op, Cardinality(is("good")), in.min, in.max)

\* A block is found valid exactly if every script of it is, whether signatures
\* were captured or declined, stored or verified in place, in whichever batch,
\* on the device or in chunks (signatures, get_failures, meets_threshold).
DeferredAgrees ==
    \A b \in Ids : verdict[b] \in {"valid", "invalid"} =>
        (verdict[b] = "valid") = \A i \in DOMAIN blocks[b] : Satisfied(blocks[b][i])

\* A script that passes has consumed its cursor: when its comparison is due and
\* will succeed, no row is pending (cursor, is_threshold_batchable).
CursorConsumed ==
    \A t \in Threads :
        /\ HasInput(t) /\ Input(t).kind = "threshold"
        /\ thread[t].at > Len(Input(t).elements)
        /\ Input(t).junk = 0
        /\ is_satisfied(Input(t).op, thread[t].count, Input(t).min, Input(t).max)
        => thread[t].pending = 0

\* Unless canceled, every block is decided, and rows of failed stores do not
\* keep the tables from being drained (batch_verify_, push_fail).
AllDecided ==
    <>(cancel \/ (/\ \A b \in Ids : verdict[b] \in {"valid", "invalid"}
                  /\ \A kind \in Kinds : tables[kind] = <<>>))
===============================================================================
