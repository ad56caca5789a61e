------------------------- MODULE MCCentralizedFifo -------------------------
(***************************************************************************)
(* Small instances of CentralizedFifo for TLC: one in which tasks leave    *)
(* and return, and one in which the global agent's role roams the cpus.    *)
(***************************************************************************)
EXTENDS CentralizedFifo, TLC

CONSTANTS t1, t2

VARIABLE roams

Roaming == INSTANCE CentralizedFifo WITH CfsCpus <- Cpus, MaxBarrier <- 1, Departs <- FALSE

MCInit == Init /\ roams \in BOOLEAN

MCNext == \/ ~roams /\ Next /\ UNCHANGED roams
          \/ roams /\ Roaming!Next /\ UNCHANGED roams

MCSpec == MCInit /\ [][MCNext]_<<vars, roams>>

Symmetric == Permutations(Tasks)
=============================================================================
