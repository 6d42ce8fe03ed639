SPECIFICATION Spec
CONSTANTS
    b1 = b1
    b2 = b2
    Threads = {t1, t2}
    Terminal = terminal
    ChunkRows = 2
    MaxGroup = 1
    SilentRows = 3
    BlockSets <- MCBlockSets
INVARIANTS
    DeferredAgrees
    CursorConsumed
    ResultsTrue
PROPERTIES
    AllDecided
CHECK_DEADLOCK FALSE
