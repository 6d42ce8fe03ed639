------------------------------- MODULE BatchScan -------------------------------
(***************************************************************************)
(* scan::batch::scan: transactions are scanned for payments to a receiver  *)
(* in blocks on the device, and from the block in which the device fails   *)
(* in chunks on the processor.  Each payment is reported by a callback.    *)
(*                                                                         *)
(* A transaction is its row, and whether it pays the receiver.  The rows   *)
(* of a block and the chunks are processed by for_each, in any order       *)
(* (see ThreadPool).  The stopper may be set at any time.                  *)
(***************************************************************************)
EXTENDS Integers, FiniteSets

CONSTANTS
    Count,          \* transactions
    Paying,         \* those that pay the receiver
    gpu_groups,     \* transactions in a block
    chunk_txs       \* transactions in a chunk

ASSUME ScanAssumption ==
    /\ Count \in Nat
    /\ Paying \subseteq 0..(Count - 1)
    /\ gpu_groups \in Nat \ {0}
    /\ chunk_txs \in Nat \ {0}

VARIABLES
    parsed,     \* the keys of the receiver parse
    cancel,     \* the stopper
    at,         \* where the caller is
    base,       \* the block
    resume,     \* the first transaction not scanned on the device
    todo,       \* rows of the block, or chunks, that for_each has not begun
    begun,      \* chunks past their test of the stopper
    called      \* number of callbacks for each transaction

vars == <<parsed, cancel, at, base, resume, todo, begun, called>>

Rows == 0..(Count - 1)
Lesser(a, b) == IF a < b THEN a ELSE b

Init ==
    /\ parsed \in BOOLEAN
    /\ cancel = FALSE
    /\ at = "start"
    /\ base = 0
    /\ resume = 0
    /\ todo = {}
    /\ begun = {}
    /\ called = [tx \in Rows |-> 0]

\* matched, for those of the transactions that pay.
Report(txs) ==
    called' = [tx \in Rows |-> IF tx \in txs \intersect Paying THEN called[tx] + 1 ELSE called[tx]]

Cancel ==
    /\ at # "done"
    /\ ~cancel
    /\ cancel' = TRUE
    /\ UNCHANGED <<parsed, at, base, resume, todo, begun, called>>

\* The chunks of what is left for the processor.
Chunks(from) == 0..((Count - from + chunk_txs - 1) \div chunk_txs - 1)
ChunkRows(chunk) ==
    LET first == resume + chunk * chunk_txs
    IN  first..(first + Lesser(chunk_txs, Count - first) - 1)

ToProcessor(from) == at' = "cpu" /\ todo' = Chunks(from)

\* Keys that do not parse are paid by no transaction.  The device is used if
\* there is one and the batch is large enough.
Start ==
    /\ at = "start"
    /\ \/ ~parsed /\ at' = "done" /\ UNCHANGED todo
       \/ parsed /\ at' = "gpu" /\ UNCHANGED todo
       \/ parsed /\ ToProcessor(resume)
    /\ UNCHANGED <<parsed, cancel, base, resume, begun, called>>

-------------------------------------------------------------------------------
(* scan_gpu.                                                               *)

\* The block is computed, or the device fails and the processor resumes at it.
\* Mutants: the block is resumed at after it, or from the start.
BlockLate ==
    /\ at = "gpu"
    /\ base < Count /\ ~cancel
    /\ resume' = Lesser(base + gpu_groups, Count)
    /\ \/ at' = "computed" /\ UNCHANGED todo
       \/ ToProcessor(resume')
    /\ UNCHANGED <<parsed, cancel, base, begun, called>>
BlockUnmarked ==
    /\ at = "gpu"
    /\ base < Count /\ ~cancel
    /\ \/ at' = "computed" /\ UNCHANGED todo
       \/ ToProcessor(resume)
    /\ UNCHANGED <<parsed, cancel, base, resume, begun, called>>
Block ==
    /\ at = "gpu"
    /\ base < Count /\ ~cancel
    /\ resume' = base
    /\ \/ at' = "computed" /\ UNCHANGED todo
       \/ ToProcessor(base)
    /\ UNCHANGED <<parsed, cancel, base, begun, called>>

\* The result is used unless canceled by now.
Computed ==
    /\ at = "computed"
    /\ IF cancel THEN at' = "done" /\ UNCHANGED todo
       ELSE at' = "match" /\ todo' = base..(base + Lesser(gpu_groups, Count - base) - 1)
    /\ UNCHANGED <<parsed, cancel, base, resume, begun, called>>

Match(tx) ==
    /\ at = "match"
    /\ tx \in todo
    /\ todo' = todo \ {tx}
    /\ Report({tx})
    /\ UNCHANGED <<parsed, cancel, at, base, resume, begun>>

BlockEnds ==
    /\ at = "match"
    /\ todo = {}
    /\ at' = "gpu"
    /\ base' = base + gpu_groups
    /\ UNCHANGED <<parsed, cancel, resume, todo, begun, called>>

DeviceEnds ==
    /\ at = "gpu"
    /\ base >= Count \/ cancel
    /\ at' = "done"
    /\ UNCHANGED <<parsed, cancel, base, resume, todo, begun, called>>

-------------------------------------------------------------------------------
(* scan, on the processor.                                                 *)

\* A chunk is not begun once canceled, and a chunk that is begun is completed.
ChunkBegins(chunk) ==
    /\ at = "cpu"
    /\ chunk \in todo
    /\ todo' = todo \ {chunk}
    /\ begun' = IF cancel THEN begun ELSE begun \union {chunk}
    /\ UNCHANGED <<parsed, cancel, at, base, resume, called>>

scan_transactions(chunk) ==
    /\ at = "cpu"
    /\ chunk \in begun
    /\ begun' = begun \ {chunk}
    /\ Report(ChunkRows(chunk))
    /\ UNCHANGED <<parsed, cancel, at, base, resume, todo>>

ProcessorEnds ==
    /\ at = "cpu"
    /\ todo = {}
    /\ begun = {}
    /\ at' = "done"
    /\ UNCHANGED <<parsed, cancel, base, resume, todo, begun, called>>

Step ==
    \/ Start \/ Block \/ Computed \/ BlockEnds \/ DeviceEnds \/ ProcessorEnds
    \/ \E row \in todo : Match(row) \/ ChunkBegins(row)
    \/ \E chunk \in begun : scan_transactions(chunk)

Done == at = "done" /\ UNCHANGED vars

Next == Step \/ Cancel \/ Done

Spec == Init /\ [][Next]_vars

-------------------------------------------------------------------------------
(* Properties.                                                             *)

\* No payment is reported twice, although the processor resumes after blocks
\* of the device that have reported theirs (scan, scan_gpu).
CalledOnce == \A tx \in Rows : called[tx] <= 1

\* A scan that returns and is not canceled has reported every payment, in
\* whichever block the device failed (scan).
ScanComplete == at = "done" /\ parsed /\ ~cancel => \A tx \in Paying : called[tx] = 1

===============================================================================
