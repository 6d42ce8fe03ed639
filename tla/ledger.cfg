SPECIFICATION Spec
CONSTANTS
    Genesis <- MCGenesis
    Lists <- MCLists
    PoolTxs <- MCPoolTxs
    RuleSets <- MCRuleSets
    Timestamp <- MCTimestamp
    MedianTime <- MCMedianTime
    MaxClones = 2
    MaxHeaders <- MCMaxHeaders
    MaxValue = 7
    Width = 3
    MaxHeight = 1000
    InitialSubsidy = 2
    SubsidyInterval = 1
    Maturity = 2
    MaxBlockSize = 100
    MaxBlockWeight = 200
    MaxBlockSigops = 2
    HeavyFactor = 4
    HashLimit = 8
    LocktimeThreshold = 50
INVARIANTS
    OnlyGenuine
    MalleationDetected
    BranchProves
    PoolConfirms
PROPERTIES
    LedgerImplemented
    SoftForkOnly
CHECK_DEADLOCK FALSE
