---------------------------- MODULE MCWriteLocks ----------------------------
EXTENDS WriteLocks, TLC

CONSTANTS p1, p2, a1, a2, b1

MCThreads == {a1, a2, b1}
MCPaths == (a1 :> {"sql", "commit"} @@ a2 :> {"binding", "copy", "direct"}
            @@ b1 :> {"api", "read"})
MCProcessOf == [t \in MCThreads |-> IF t = b1 THEN p2 ELSE p1]
=============================================================================
