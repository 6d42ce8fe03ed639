---------------------------- MODULE BatchScanProofs ----------------------------
(***************************************************************************)
(* Proofs about BatchScan, for every number of transactions, block size    *)
(* and chunk size.                                                         *)
(***************************************************************************)
EXTENDS BatchScan, TLAPS

\* A transaction whose payment, if it is one, has been reported once.
Reported(tx) == called[tx] = IF tx \in Paying THEN 1 ELSE 0

\* The chunk of the rows from a row on, that a transaction is in.
InChunk(from, k, tx) ==
    from + k * chunk_txs <= tx /\ tx < from + k * chunk_txs + chunk_txs

ScanTypeOK ==
    /\ parsed \in BOOLEAN
    /\ cancel \in BOOLEAN
    /\ at \in {"start", "gpu", "computed", "match", "cpu", "done"}
    /\ base \in Nat
    /\ resume \in Nat
    /\ called \in [Rows -> Nat]

\* The keys of the receiver parse wherever something is scanned.
Parsed == at \in {"gpu", "computed", "match", "cpu"} => parsed

\* Nothing is reported at the start.
AtStart == at = "start" => base = 0 /\ resume = 0 /\ begun = {} /\ \A tx \in Rows : called[tx] = 0

\* Between blocks exactly the transactions before base are reported.
Between ==
    at \in {"gpu", "computed"} =>
        /\ begun = {}
        /\ \A tx \in Rows : IF tx < base THEN Reported(tx) ELSE called[tx] = 0

\* Within a block the transactions still to do are not reported, nor is one
\* after the block.
Within ==
    at = "match" =>
        /\ begun = {}
        /\ \A row \in todo : row \in Rows /\ base <= row /\ row < base + gpu_groups
        /\ \A tx \in Rows :
            IF tx < base \/ (tx < base + gpu_groups /\ tx \notin todo)
            THEN Reported(tx) ELSE called[tx] = 0

\* On the processor a chunk that is to do or begun is not reported, and one that
\* is neither is, or it was skipped because the scan is canceled.
Chunked ==
    at = "cpu" =>
        /\ todo \subseteq Nat
        /\ begun \subseteq Nat
        /\ todo \intersect begun = {}
        /\ \A tx \in Rows : tx < resume => Reported(tx)
        /\ \A k \in Nat, tx \in Rows : InChunk(resume, k, tx) =>
            IF k \in todo \union begun THEN called[tx] = 0
            ELSE Reported(tx) \/ (cancel /\ called[tx] = 0)

\* At the end.
AtEnd ==
    at = "done" => \A tx \in Rows : Reported(tx) \/ ((cancel \/ ~parsed) /\ called[tx] = 0)

\* Inductive: what is reported follows from where the scan is.
ScanInv == ScanTypeOK /\ Parsed /\ AtStart /\ Between /\ Within /\ Chunked /\ AtEnd

-------------------------------------------------------------------------------
(* Chunks.                                                                 *)

\* Multiples of the size of a chunk are at least that far apart.
LEMMA Multiples ==
    ASSUME NEW size \in Nat, NEW j \in Nat, NEW k \in Nat, j < k
    PROVE  j * size + size <= k * size
<1>1. PICK d \in Nat : k = j + 1 + d
  <2>1. k - j - 1 \in Nat /\ k = j + 1 + (k - j - 1)
    OBVIOUS
  <2> QED
    BY <2>1
<1>2. k * size = j * size + size + d * size
  BY <1>1
<1>3. d * size \in Nat /\ j * size \in Nat
  OBVIOUS
<1> QED
  BY <1>2, <1>3

\* What division by the size of a chunk gives.
LEMMA Quotient ==
    ASSUME NEW size \in Nat \ {0}, NEW n \in Nat
    PROVE  /\ n \div size \in Nat
           /\ (n \div size) * size <= n
           /\ n < (n \div size) * size + size
OBVIOUS

\* The chunk of a row is one of those that the division rounded up counts.
LEMMA QuotientBelow ==
    ASSUME NEW size \in Nat \ {0}, NEW n \in Nat, NEW m \in Nat, n < m
    PROVE  n \div size <= (m + size - 1) \div size - 1
<1> DEFINE q == (m + size - 1) \div size
           p == n \div size
<1>1. p \in Nat /\ p * size <= n /\ p * size \in Nat
  BY Quotient
<1>2. q \in Nat /\ m + size - 1 < q * size + size /\ q * size \in Nat
  BY Quotient
<1>3. ASSUME q <= p PROVE FALSE
  <2> HIDE DEF p, q
  <2>1. q * size <= p * size
    <3>1. CASE q = p
      BY <3>1, <1>1
    <3>2. CASE q < p
      BY <3>2, <1>1, <1>2, Multiples
    <3> QED
      BY <3>1, <3>2, <1>1, <1>2, <1>3
  <2> QED
    BY <1>1, <1>2, <2>1
<1> QED
  BY <1>1, <1>2, <1>3

\* The rows of a chunk are the next chunk_txs, as far as there are.
LEMMA ChunkRange ==
    ASSUME resume \in Nat, NEW k \in Nat, NEW tx \in Rows
    PROVE  tx \in ChunkRows(k) <=> InChunk(resume, k, tx)
<1>1. k * chunk_txs \in Nat /\ chunk_txs \in Nat /\ Count \in Nat /\ tx \in Nat /\ tx < Count
  BY ScanAssumption DEF Rows
<1> QED
  BY <1>1 DEF ChunkRows, Lesser, InChunk

\* No row is in two chunks (scan: the ranges of the chunks).
LEMMA ChunksDisjoint ==
    ASSUME NEW from \in Nat, NEW j \in Nat, NEW k \in Nat,
           NEW tx \in Rows, InChunk(from, j, tx), InChunk(from, k, tx)
    PROVE  j = k
<1>1. j * chunk_txs \in Nat /\ k * chunk_txs \in Nat /\ chunk_txs \in Nat /\ tx \in Nat
  BY ScanAssumption DEF Rows
<1>2. /\ from + j * chunk_txs <= tx /\ tx < from + j * chunk_txs + chunk_txs
      /\ from + k * chunk_txs <= tx /\ tx < from + k * chunk_txs + chunk_txs
  BY DEF InChunk
<1>3. ~(j < k)
  <2> SUFFICES ASSUME j < k PROVE FALSE
    OBVIOUS
  <2>1. j * chunk_txs + chunk_txs <= k * chunk_txs
    BY <1>1, Multiples
  <2> QED
    BY <1>1, <1>2, <2>1
<1>4. ~(k < j)
  <2> SUFFICES ASSUME k < j PROVE FALSE
    OBVIOUS
  <2>1. k * chunk_txs + chunk_txs <= j * chunk_txs
    BY <1>1, Multiples
  <2> QED
    BY <1>1, <1>2, <2>1
<1> QED
  BY <1>3, <1>4

\* Every row that is left for the processor is in a chunk (scan).
LEMMA ChunksCover ==
    ASSUME NEW from \in Nat, NEW tx \in Rows, from <= tx
    PROVE  \E k \in Chunks(from) : k \in Nat /\ InChunk(from, k, tx)
<1> DEFINE n == tx - from
           k == n \div chunk_txs
<1>1. tx - from \in Nat /\ Count - from \in Nat /\ tx - from < Count - from
  BY ScanAssumption DEF Rows
<1>2. chunk_txs \in Nat \ {0}
  BY ScanAssumption
<1>3. /\ k \in Nat /\ k * chunk_txs \in Nat
      /\ k * chunk_txs <= n /\ n < k * chunk_txs + chunk_txs
  <2>1. n \in Nat
    BY <1>1
  <2> HIDE DEF n
  <2>2. k \in Nat /\ k * chunk_txs <= n /\ n < k * chunk_txs + chunk_txs
    BY <1>2, <2>1, Quotient
  <2> QED
    BY <1>2, <2>2
<1>4. k <= (Count - from + chunk_txs - 1) \div chunk_txs - 1
  BY <1>1, <1>2, QuotientBelow
<1> HIDE DEF k
<1>5. tx \in Nat
  BY DEF Rows
<1>6. InChunk(from, k, tx)
  BY <1>2, <1>3, <1>5 DEF InChunk
<1>7. (Count - from + chunk_txs - 1) \div chunk_txs \in Int
  BY <1>1, <1>2
<1>8. k \in Chunks(from)
  BY <1>3, <1>4, <1>7 DEF Chunks
<1> QED
  BY <1>3, <1>6, <1>8

\* Chunks are numbered from zero.
LEMMA ChunksType ==
    ASSUME NEW from \in Nat, NEW k \in Chunks(from)
    PROVE  k \in Nat
BY DEF Chunks

-------------------------------------------------------------------------------
(* Steps.                                                                  *)

\* Nothing is reported in the initial states.
LEMMA ScanInitial == Init => ScanInv
<1> SUFFICES ASSUME Init PROVE ScanInv
  OBVIOUS
<1>1. ScanTypeOK
  BY DEF Init, ScanTypeOK
<1>2. \A tx \in Rows : called[tx] = 0
  BY DEF Init
<1> QED
  BY <1>1, <1>2 DEF Init, ScanInv, Parsed, AtStart, Between, Within, Chunked, AtEnd

\* A report counts the payments among the given rows, and no other.
LEMMA ReportCounts ==
    ASSUME ScanTypeOK, NEW txs, Report(txs)
    PROVE  /\ called' \in [Rows -> Nat]
           /\ \A tx \in Rows :
                called'[tx] = IF tx \in txs /\ tx \in Paying THEN called[tx] + 1 ELSE called[tx]
BY DEF Report, ScanTypeOK

\* A row that has not been reported is, once it is among those reported, and the
\* others are as they were (matched).
LEMMA ReportOnce ==
    ASSUME ScanTypeOK, NEW txs, Report(txs), NEW tx \in Rows
    PROVE  /\ tx \in txs /\ called[tx] = 0 => Reported(tx)'
           /\ tx \notin txs => called'[tx] = called[tx] /\ (Reported(tx)' <=> Reported(tx))
BY ReportCounts, ScanAssumption DEF Reported, ScanTypeOK

\* The stopper is set (cancel).
LEMMA CancelKeeps ==
    ASSUME ScanInv, Cancel
    PROVE  ScanInv'
BY DEF ScanInv, Cancel, ScanTypeOK, Parsed, AtStart, Between, Within, Chunked, AtEnd,
       Reported

\* What is left for the processor when nothing of it is begun (scan).
LEMMA ProcessorBegins ==
    ASSUME ScanInv, parsed, begun = {}, begun' = begun, resume' \in Nat, called' = called,
           UNCHANGED <<parsed, cancel, base>>, at' = "cpu", todo' = Chunks(resume'),
           \A tx \in Rows : IF tx < resume' THEN Reported(tx) ELSE called[tx] = 0
    PROVE  ScanInv'
<1>1. ScanTypeOK'
  BY DEF ScanInv, ScanTypeOK
<1>2. todo' \subseteq Nat
  BY ChunksType
<1>3. \A k \in Nat, tx \in Rows : InChunk(resume', k, tx) =>
            IF k \in todo' THEN called'[tx] = 0
            ELSE Reported(tx)' \/ (cancel' /\ called'[tx] = 0)
  <2> SUFFICES ASSUME NEW k \in Nat, NEW tx \in Rows, InChunk(resume', k, tx)
               PROVE  k \in todo' /\ called'[tx] = 0
    OBVIOUS
  <2>1. resume' <= tx /\ tx \in Nat
    <3>1. k * chunk_txs \in Nat /\ tx \in Nat
      BY ScanAssumption DEF Rows
    <3> QED
      BY <3>1 DEF InChunk
  <2>2. called'[tx] = 0
    BY <2>1
  <2>3. PICK j \in Chunks(resume') : j \in Nat /\ InChunk(resume', j, tx)
    BY <2>1, ChunksCover
  <2>4. j = k
    BY <2>3, ChunksDisjoint
  <2> QED
    BY <2>2, <2>3, <2>4
<1> QED
  BY <1>1, <1>2, <1>3
     DEF ScanInv, Parsed, AtStart, Between, Within, Chunked, AtEnd, Reported

\* The scan starts, on the device or on the processor (scan).
LEMMA StartKeeps ==
    ASSUME ScanInv, Start
    PROVE  ScanInv'
<1>1. CASE ToProcessor(resume) /\ parsed
  <2>1. \A tx \in Rows : IF tx < resume THEN Reported(tx) ELSE called[tx] = 0
    BY DEF ScanInv, AtStart, Start, Rows
  <2> QED
    BY <1>1, <2>1, ProcessorBegins DEF Start, ToProcessor, ScanInv, AtStart, ScanTypeOK
<1>2. CASE at' \in {"gpu", "done"} /\ (at' = "gpu" <=> parsed)
  <2>1. ScanTypeOK'
    BY <1>2 DEF ScanInv, ScanTypeOK, Start
  <2>2. \A tx \in Rows : called'[tx] = 0 /\ ~(tx < base')
    BY DEF ScanInv, AtStart, Start, Rows
  <2> QED
    BY <1>2, <2>1, <2>2
       DEF ScanInv, Start, Parsed, AtStart, Between, Within, Chunked, AtEnd
<1> QED
  BY <1>1, <1>2 DEF Start, ScanInv, ScanTypeOK

\* A block is computed, or the device fails and the processor resumes (scan_gpu).
LEMMA BlockKeeps ==
    ASSUME ScanInv, Block
    PROVE  ScanInv'
<1>1. /\ \A tx \in Rows : IF tx < base THEN Reported(tx) ELSE called[tx] = 0
      /\ parsed /\ begun = {} /\ base \in Nat
  BY DEF ScanInv, Between, Parsed, ScanTypeOK, Block
<1>2. CASE ToProcessor(base)
  BY <1>1, <1>2, ProcessorBegins DEF Block, ToProcessor
<1>3. CASE at' = "computed"
  BY <1>1, <1>3
     DEF ScanInv, Block, ScanTypeOK, Parsed, AtStart, Between, Within, Chunked, AtEnd, Reported
<1> QED
  BY <1>2, <1>3 DEF Block

\* The results of a block are used, or not if canceled (scan_gpu).
LEMMA ComputedKeeps ==
    ASSUME ScanInv, Computed
    PROVE  ScanInv'
<1>1. /\ \A tx \in Rows : IF tx < base THEN Reported(tx) ELSE called[tx] = 0
      /\ parsed /\ begun = {} /\ base \in Nat
  BY DEF ScanInv, Between, Parsed, ScanTypeOK, Computed
<1>2. CASE cancel
  BY <1>1, <1>2
     DEF ScanInv, Computed, ScanTypeOK, Parsed, AtStart, Between, Within, Chunked, AtEnd, Reported
<1>3. CASE ~cancel
  <2>1. /\ at' = "match" /\ todo' = base..(base + Lesser(gpu_groups, Count - base) - 1)
        /\ UNCHANGED <<parsed, cancel, base, resume, begun, called>>
    BY <1>3 DEF Computed
  <2>2. ScanTypeOK'
    BY <2>1 DEF ScanInv, ScanTypeOK
  <2>3. \A n \in todo' : n \in Rows /\ base <= n /\ n < base + gpu_groups
    BY <1>1, <2>1, ScanAssumption DEF Lesser, Rows
  <2>4. \A tx \in Rows : tx \in todo' <=> base <= tx /\ tx < base + gpu_groups
    BY <1>1, <2>1, ScanAssumption DEF Lesser, Rows
  <2>5. \A tx \in Rows : tx < base \/ (tx < base + gpu_groups /\ tx \notin todo') <=> tx < base
    BY <1>1, <2>4, ScanAssumption DEF Rows
  <2> QED
    BY <1>1, <2>1, <2>2, <2>3, <2>5
       DEF ScanInv, Parsed, AtStart, Between, Within, Chunked, AtEnd, Reported
<1> QED
  BY <1>2, <1>3

\* A row of the block is matched (scan_gpu).
LEMMA MatchKeeps ==
    ASSUME ScanInv, NEW row \in todo, Match(row)
    PROVE  ScanInv'
<1>1. /\ at = "match" /\ todo' = todo \ {row} /\ Report({row})
      /\ UNCHANGED <<parsed, cancel, at, base, resume, begun>>
  BY DEF Match
<1>2. ScanTypeOK'
  BY <1>1, ReportCounts DEF ScanInv, ScanTypeOK
<1>3. row \in Rows /\ begun = {}
      /\ \A n \in todo' : n \in Rows /\ base' <= n /\ n < base' + gpu_groups
  BY <1>1 DEF ScanInv, Within
<1>4. \A tx \in Rows :
        IF tx < base' \/ (tx < base' + gpu_groups /\ tx \notin todo')
        THEN Reported(tx)' ELSE called'[tx] = 0
  <2> SUFFICES ASSUME NEW tx \in Rows
               PROVE  IF tx < base \/ (tx < base + gpu_groups /\ tx \notin todo')
                      THEN Reported(tx)' ELSE called'[tx] = 0
    BY <1>1
  <2>1. CASE tx # row
    <3>1. called'[tx] = called[tx] /\ (Reported(tx)' <=> Reported(tx))
      BY <1>1, <2>1, ReportOnce DEF ScanInv
    <3> QED
      BY <1>1, <2>1, <3>1 DEF ScanInv, Within
  <2>2. CASE tx = row
    <3>1. row < base + gpu_groups
      BY <1>1, <1>3 DEF ScanInv, Within, ScanTypeOK, Rows
    <3>2. called[tx] = 0
      BY <1>1, <1>3, <2>2, <3>1 DEF ScanInv, Within, ScanTypeOK, Rows
    <3>3. Reported(tx)'
      BY <1>1, <2>2, <3>2, ReportOnce DEF ScanInv
    <3> QED
      BY <1>1, <2>2, <3>1, <3>3
  <2> QED
    BY <2>1, <2>2
<1> QED
  BY <1>1, <1>2, <1>3, <1>4 DEF ScanInv, Parsed, AtStart, Between, Within, Chunked, AtEnd

\* The next block follows once every row of this one is matched (scan_gpu).
LEMMA BlockEndsKeeps ==
    ASSUME ScanInv, BlockEnds
    PROVE  ScanInv'
<1>1. /\ at = "match" /\ todo = {} /\ at' = "gpu" /\ base' = base + gpu_groups
      /\ UNCHANGED <<parsed, cancel, resume, todo, begun, called>>
  BY DEF BlockEnds
<1>2. ScanTypeOK'
  BY <1>1, ScanAssumption DEF ScanInv, ScanTypeOK
<1>3. \A tx \in Rows : IF tx < base' THEN Reported(tx)' ELSE called'[tx] = 0
  <2> SUFFICES ASSUME NEW tx \in Rows
               PROVE  IF tx < base' THEN Reported(tx)' ELSE called'[tx] = 0
    OBVIOUS
  <2>1. tx < base \/ (tx < base + gpu_groups /\ tx \notin todo) <=> tx < base'
    BY <1>1, ScanAssumption DEF ScanInv, ScanTypeOK, Rows
  <2> QED
    BY <1>1, <2>1 DEF ScanInv, Within, Reported
<1> QED
  BY <1>1, <1>2, <1>3 DEF ScanInv, Parsed, AtStart, Between, Within, Chunked, AtEnd

\* The device has scanned all, or stops because it is canceled (scan_gpu).
LEMMA DeviceEndsKeeps ==
    ASSUME ScanInv, DeviceEnds
    PROVE  ScanInv'
<1>1. /\ at = "gpu" /\ at' = "done" /\ (base >= Count \/ cancel)
      /\ UNCHANGED <<parsed, cancel, base, resume, todo, begun, called>>
  BY DEF DeviceEnds
<1>2. ScanTypeOK'
  BY <1>1 DEF ScanInv, ScanTypeOK
<1>3. \A tx \in Rows : Reported(tx) \/ (cancel /\ called[tx] = 0)
  BY <1>1, ScanAssumption DEF ScanInv, ScanTypeOK, Between, Rows
<1> QED
  BY <1>1, <1>2, <1>3 DEF ScanInv, Parsed, AtStart, Between, Within, Chunked, AtEnd, Reported

\* A chunk is begun, or skipped because the scan is canceled (scan).
LEMMA ChunkBeginsKeeps ==
    ASSUME ScanInv, NEW chunk \in todo, ChunkBegins(chunk)
    PROVE  ScanInv'
<1>1. /\ at = "cpu" /\ todo' = todo \ {chunk}
      /\ begun' = IF cancel THEN begun ELSE begun \union {chunk}
      /\ UNCHANGED <<parsed, cancel, at, base, resume, called>>
  BY DEF ChunkBegins
<1>2. ScanTypeOK'
  BY <1>1 DEF ScanInv, ScanTypeOK
<1>3. /\ todo' \subseteq Nat /\ begun' \subseteq Nat /\ todo' \intersect begun' = {}
      /\ \A k : k \in todo' \union begun' => k \in todo \union begun
      /\ \A k : k \in todo \union begun /\ k \notin todo' \union begun' => cancel
  BY <1>1 DEF ScanInv, Chunked
<1> QED
  BY <1>1, <1>2, <1>3
     DEF ScanInv, Parsed, AtStart, Between, Within, Chunked, AtEnd, Reported

\* A chunk that is begun is scanned to its end (scan_transactions).
LEMMA ScanChunkKeeps ==
    ASSUME ScanInv, NEW chunk \in begun, scan_transactions(chunk)
    PROVE  ScanInv'
<1>1. /\ at = "cpu" /\ begun' = begun \ {chunk} /\ Report(ChunkRows(chunk))
      /\ UNCHANGED <<parsed, cancel, at, base, resume, todo>>
  BY DEF scan_transactions
<1>2. ScanTypeOK'
  BY <1>1, ReportCounts DEF ScanInv, ScanTypeOK
<1>3. /\ todo' \subseteq Nat /\ begun' \subseteq Nat /\ todo' \intersect begun' = {}
      /\ chunk \in Nat /\ chunk \notin todo' \union begun' /\ resume \in Nat
  BY <1>1 DEF ScanInv, Chunked, ScanTypeOK
<1>4. ASSUME NEW tx \in Rows, tx < resume PROVE Reported(tx)'
  <2>1. ~InChunk(resume, chunk, tx)
    <3>1. chunk * chunk_txs \in Nat /\ tx \in Nat
      BY <1>3, ScanAssumption DEF Rows
    <3> QED
      BY <1>3, <1>4, <3>1 DEF InChunk
  <2>2. tx \notin ChunkRows(chunk)
    BY <1>3, <2>1, ChunkRange
  <2> QED
    BY <1>1, <1>4, <2>2, ReportOnce DEF ScanInv, Chunked
<1>5. ASSUME NEW k \in Nat, NEW tx \in Rows, InChunk(resume, k, tx)
      PROVE  IF k \in todo' \union begun' THEN called'[tx] = 0
             ELSE Reported(tx)' \/ (cancel' /\ called'[tx] = 0)
  <2>1. CASE k = chunk
    <3>1. called[tx] = 0 /\ tx \in ChunkRows(chunk)
      BY <1>1, <1>3, <1>5, <2>1, ChunkRange DEF ScanInv, Chunked
    <3>2. Reported(tx)'
      BY <1>1, <3>1, ReportOnce DEF ScanInv
    <3> QED
      BY <1>3, <2>1, <3>2
  <2>2. CASE k # chunk
    <3>1. tx \notin ChunkRows(chunk)
      BY <1>3, <1>5, <2>2, ChunkRange, ChunksDisjoint
    <3>2. called'[tx] = called[tx] /\ (Reported(tx)' <=> Reported(tx))
      BY <1>1, <3>1, ReportOnce DEF ScanInv
    <3>3. k \in todo' \union begun' <=> k \in todo \union begun
      BY <1>1, <2>2
    <3> QED
      BY <1>1, <1>5, <3>2, <3>3 DEF ScanInv, Chunked
  <2> QED
    BY <2>1, <2>2
<1>6. Chunked'
  BY <1>1, <1>3, <1>4, <1>5 DEF Chunked
<1> QED
  BY <1>1, <1>2, <1>6 DEF ScanInv, Parsed, AtStart, Between, Within, AtEnd

\* The processor is done when no chunk is left: every row is in one (scan).
LEMMA ProcessorEndsKeeps ==
    ASSUME ScanInv, ProcessorEnds
    PROVE  ScanInv'
<1>1. /\ at = "cpu" /\ todo = {} /\ begun = {} /\ at' = "done"
      /\ UNCHANGED <<parsed, cancel, base, resume, todo, begun, called>>
  BY DEF ProcessorEnds
<1>2. ScanTypeOK'
  BY <1>1 DEF ScanInv, ScanTypeOK
<1>3. ASSUME NEW tx \in Rows PROVE Reported(tx) \/ (cancel /\ called[tx] = 0)
  <2>1. CASE tx < resume
    BY <1>1, <2>1 DEF ScanInv, Chunked
  <2>2. CASE ~(tx < resume)
    <3>1. resume \in Nat /\ resume <= tx
      BY <2>2 DEF ScanInv, ScanTypeOK, Rows
    <3>2. PICK k \in Nat : InChunk(resume, k, tx)
      BY <3>1, ChunksCover
    <3> QED
      BY <1>1, <3>2 DEF ScanInv, Chunked
  <2> QED
    BY <2>1, <2>2
<1> QED
  BY <1>1, <1>2, <1>3
     DEF ScanInv, Parsed, AtStart, Between, Within, Chunked, AtEnd, Reported

\* The invariant holds of every state.
LEMMA ScanInvariant == Spec => []ScanInv
<1>1. ScanInv /\ [Next]_vars => ScanInv'
  <2> SUFFICES ASSUME ScanInv, [Next]_vars PROVE ScanInv'
    OBVIOUS
  <2>1. CASE UNCHANGED vars
    BY <2>1 DEF vars, ScanInv, ScanTypeOK, Parsed, AtStart, Between, Within, Chunked, AtEnd,
                Reported
  <2>2. CASE Start \/ Block \/ Computed \/ BlockEnds \/ DeviceEnds \/ ProcessorEnds
    BY <2>2, StartKeeps, BlockKeeps, ComputedKeeps, BlockEndsKeeps, DeviceEndsKeeps,
       ProcessorEndsKeeps
  <2>3. ASSUME NEW row \in todo, Match(row) \/ ChunkBegins(row) PROVE ScanInv'
    BY <2>3, MatchKeeps, ChunkBeginsKeeps
  <2>4. ASSUME NEW chunk \in begun, scan_transactions(chunk) PROVE ScanInv'
    BY <2>4, ScanChunkKeeps
  <2>5. CASE Cancel
    BY <2>5, CancelKeeps
  <2> QED
    BY <2>1, <2>2, <2>3, <2>4, <2>5 DEF Next, Step, Done
<1> QED
  BY <1>1, ScanInitial, PTL DEF Spec

-------------------------------------------------------------------------------

\* However many transactions there are, of whatever size blocks and chunks are
\* and wherever the device fails, no payment is reported twice (scan, scan_gpu).
THEOREM ScanCallsOnce == Spec => []CalledOnce
<1>1. ScanInv => CalledOnce
  <2> SUFFICES ASSUME ScanInv, NEW tx \in Rows PROVE called[tx] <= 1
    BY DEF CalledOnce
  <2>1. Reported(tx) \/ called[tx] = 0
    <3>1. CASE at = "cpu"
      <4>1. resume \in Nat /\ tx \in Nat
        BY DEF ScanInv, ScanTypeOK, Rows
      <4>2. CASE tx < resume
        BY <3>1, <4>2 DEF ScanInv, Chunked
      <4>3. CASE ~(tx < resume)
        <5>1. PICK k \in Nat : InChunk(resume, k, tx)
          BY <4>1, <4>3, ChunksCover
        <5> QED
          BY <3>1, <5>1 DEF ScanInv, Chunked
      <4> QED
        BY <4>2, <4>3
    <3>2. CASE at # "cpu"
      BY <3>2 DEF ScanInv, ScanTypeOK, AtStart, Between, Within, AtEnd
    <3> QED
      BY <3>1, <3>2
  <2> QED
    BY <2>1 DEF Reported
<1> QED
  BY <1>1, ScanInvariant, PTL

\* A scan that returns and is not canceled has reported every payment, for any
\* number of transactions and any sizes (scan).
THEOREM ScanReportsAll == Spec => []ScanComplete
<1>1. ScanInv => ScanComplete
  BY ScanAssumption DEF ScanInv, AtEnd, ScanComplete, Reported, Rows
<1> QED
  BY <1>1, ScanInvariant, PTL

===============================================================================
