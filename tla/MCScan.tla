-------------------------------- MODULE MCScan --------------------------------
(***************************************************************************)
(* A small instance of BatchScan: blocks and chunks of which the last one  *)
(* is short, and whose edges differ.                                       *)
(***************************************************************************)
EXTENDS BatchScan

===============================================================================
