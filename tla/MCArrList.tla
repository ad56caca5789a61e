----------------------------- MODULE MCArrList -----------------------------
(* Small instances of ArrList for TLC. *)
EXTENDS ArrList

CONSTANTS a, b
=============================================================================
