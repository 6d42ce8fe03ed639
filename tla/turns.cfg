SPECIFICATION FairTurns
CONSTANTS
    Callers = {q1, q2, q3, u1, u2}
    UrgentCallers = {u1, u2}
    Nobody = nobody
    Tickets = 6
INVARIANTS
    Exclusive
    UrgentCounted
    NoLostWakeup
PROPERTIES
    QueueImplemented
    QueuedServed
