SPECIFICATION Spec
CONSTANTS
    p1 = p1
    p2 = p2
    a1 = a1
    a2 = a2
    b1 = b1
    Processes = {p1, p2}
    Threads <- MCThreads
    ProcessOf <- MCProcessOf
    Calls <- MCCalls
    n1 = n1
    n2 = n2
    Names = {n1, n2}
    Capacity = 2
    Backlog = 2
    Mappings = {d1, d2, d3, d4, d5, d6, d7, d8}
    StartTables = 1
    MaxCalls = 3
    MaxFiles = 4
    Mortal = {p2}
    MaxDeaths = 1
    None = None
INVARIANTS CreatedIsListed DroppedIsGone HeaderExact CacheCoherent SomeoneGoesOn
PROPERTIES ReapsOnlyOvertaken
SYMMETRY NameSymmetry
CHECK_DEADLOCK FALSE
