SPECIFICATION Spec
CONSTANTS
    t1 = t1
    t2 = t2
    Threads <- MCThreads
    Scripts <- MCScripts
    Works <- MCWorks
INVARIANTS
    OldNodesAgree
    SubscriptOwn
CHECK_DEADLOCK FALSE
