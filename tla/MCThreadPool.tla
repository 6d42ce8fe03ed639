----------------------------- MODULE MCThreadPool -----------------------------
(***************************************************************************)
(* Small instances of ThreadPool.                                          *)
(***************************************************************************)
EXTENDS ThreadPool, TLC

Request(kind, count, floor) == [kind |-> kind, count |-> count, floor |-> floor]
CONSTANTS c1, c2

\* Every number of elements about the numbers of workers and of floors.
SortCalls ==
    {(c1 :> Request("sort", count, floor)) @@ (c2 :> Request("each", 0, 1)) :
        count \in 0..9, floor \in 1..2}

\* A caller that drops its futures beside callers that join.
MixedCalls ==
    [{c1, c2} -> {Request("submit", 2, 1), Request("each", 2, 1)}]
    \union {(c1 :> Request("sort", 3, 1)) @@ (c2 :> Request("submit", 2, 1))}

PoolCalls == SortCalls \union MixedCalls

\* A call that throws at its last task has joined all others; at its first, none.
LastElement == {<<c2, 1>>}
FirstElement == {<<c1, 0>>}

EachCalls == [{c1} -> {Request("each", 2, 1)}]

===============================================================================
