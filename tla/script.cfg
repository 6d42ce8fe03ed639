SPECIFICATION Spec
CONSTANTS
    Int4Max = 4
    Int5Max = 12
    Keys32 <- MCKeys32
    Sighash <- MCSighash
    Unhashable = {"single"}
    LocktimeThreshold = 2
    Bits <- MCBits
    Codes <- MCCodes
    PushData <- MCPushData
    Programs <- MCPrograms
    MaxStack = 14
    MaxCountedOps = 5
    MaxKeys = 3
    SignatureCost = 2
INVARIANTS
    TypeOK
    RearrangedAsDocumented
    NegativeCount
    LimitsKept
    BudgetIsSigned
    CacheFresh
PROPERTIES
    ScopeImplemented
