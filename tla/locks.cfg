SPECIFICATION FairSpec
CONSTANTS
    p1 = p1  p2 = p2  a1 = a1  a2 = a2  b1 = b1
    Processes = {p1, p2}
    Threads <- MCThreads
    ProcessOf <- MCProcessOf
    Descriptors = {d1, d2, d3, d4, d5}
    None = None
    Paths <- MCPaths
    MaxCalls = 1
    MaxDeaths = 1
INVARIANTS SerializedExceptUnlocked NestedWaitsOnlyIfDropped NoSleepOnFreeEntry
PROPERTIES ImplementsLock CallsReturn
CHECK_DEADLOCK FALSE
