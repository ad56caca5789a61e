--------------------------- MODULE MCPerCpuFifo ---------------------------
(* Small instances of PerCpuFifo for TLC. *)
EXTENDS PerCpuFifo, TLC

CONSTANTS t1, t2

Symmetric == Permutations(Tasks)
=============================================================================
