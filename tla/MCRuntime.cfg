SPECIFICATION MCSpec
CONSTANTS
    NumProcs = 2
    c1 = c1
    c2 = c2
    k1 = k1
    k2 = k2
    CpuList <- OneCpu
    Clients = {}
    MaxRpcs <- NoRpcs
    Crashes = TRUE
    BarrierFirst = TRUE
    None = None
    Siblings = {c1, c2}
    Wrap = 8
    nelems = 4
    SlotSize = 2
    Lengths = {2, 3}
    Ids = {"a", "b"}
INVARIANTS TypesOK NoCheckFailsAnywhere NobodyOversleeps OneSchedules
           RpcAnswers FieldsAreNotClobbered AbortedNeverRuns StructuresAreSound
PROPERTIES WaitsEnd OpensComplete ImplementsFifo StructuresRefine
CHECK_DEADLOCK FALSE
