------------------------------- MODULE MCTurns -------------------------------
(***************************************************************************)
(* Small instances of Turns: queued callers and urgent callers that come   *)
(* back for ever, with so few tickets that they wrap.                      *)
(***************************************************************************)
EXTENDS Turns

===============================================================================
