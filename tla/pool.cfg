SPECIFICATION Spec
CONSTANTS
    Workers = {w1, w2, w3, w4}
    c1 = c1
    c2 = c2
    Callers = {c1, c2}
    Throwing <- LastElement
    Calls <- PoolCalls
INVARIANTS
    WaitsForAll
    NoIdleWorker
    ResultComplete
PROPERTIES
    PoolStops
