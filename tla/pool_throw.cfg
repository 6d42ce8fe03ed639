SPECIFICATION Spec
CONSTANTS
    Workers = {w1, w2}
    c1 = c1
    c2 = c2
    Callers = {c1}
    Throwing <- FirstElement
    Calls <- EachCalls
INVARIANTS
    WaitsForAll
