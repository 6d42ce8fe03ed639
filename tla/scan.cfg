SPECIFICATION Spec
CONSTANTS
    Count = 7
    Paying = {0, 2, 3, 6}
    gpu_groups = 3
    chunk_txs = 2
INVARIANTS
    CalledOnce
    ScanComplete
