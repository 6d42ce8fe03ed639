SPECIFICATION Spec
CONSTANTS
    q1 = q1
    q2 = q2
    u1 = u1
    Callers = {q1, q2, u1}
    UrgentCallers = {u1}
    Nobody = nobody
    Tickets = 4
    Chunks <- MixedChunks
    Bad <- MixedBad
    Stoppable = {q1}
INVARIANTS
    OwnRows
    EmptyMeansValid
    QuietWhenFree
PROPERTIES
    YieldGivesWay
    AllReturn
