--------------------------- MODULE MCAgentProcess ---------------------------
EXTENDS AgentProcess

CONSTANTS c1, c2

TwoCpus == <<c1, c2>>

NoRpcs == [p \in Procs |-> 0]
=============================================================================
