------------------------------ MODULE MCPipeline ------------------------------
(***************************************************************************)
(* Small instances of DevicePipeline: chunks enough to use both halves     *)
(* again, and callers that are ahead of each other.                        *)
(***************************************************************************)
EXTENDS DevicePipeline, TLC

CONSTANTS q1, q2, u1

MixedChunks == (q1 :> 3) @@ (q2 :> 1) @@ (u1 :> 1)
MixedBad == {<<q1, 1>>, <<u1, 0>>}

===============================================================================
