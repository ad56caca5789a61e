---------------------------- MODULE MCPrioTable ----------------------------
(* Small instances of PrioTable for TLC. *)
EXTENDS PrioTable, TLC

CONSTANTS w1, w2
=============================================================================
