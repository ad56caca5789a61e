SPECIFICATION Spec
CONSTANTS
    NumProcs = 1
    c1 = c1
    c2 = c2
    CpuList <- TwoCpus
    Clients = {}
    MaxRpcs <- NoRpcs
    Crashes = FALSE
    BarrierFirst = FALSE
    None = None
INVARIANTS FinishedIsObserved
CHECK_DEADLOCK FALSE
