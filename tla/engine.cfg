SPECIFICATION Spec
CONSTANTS
    p1 = p1
    p2 = p2
    a1 = a1
    a2 = a2
    b1 = b1
    None = None
    Procs <- MCProcs
    Threads <- MCThreads
    ProcOf <- MCProcOf
    Calls <- MCCalls
    StartRows = 3
    MaxCalls = 3
    MaxQuits = 1
INVARIANTS
    AppendFindsFooter
    CommittedRowsKept
    ReadsAreCurrent
    UniqueIds
    IdsAboveTable
    OwnWritesNotOverwritten
PROPERTIES
    OwnDeferredDeletesApplied
CHECK_DEADLOCK FALSE
