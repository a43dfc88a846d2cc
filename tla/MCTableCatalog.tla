--------------------------- MODULE MCTableCatalog ---------------------------
EXTENDS TableCatalog, TLC

CONSTANTS p1, p2, a1, a2, b1, n1, n2

MCThreads == {a1, a2, b1}
MCProcessOf == [t \in MCThreads |-> IF t = b1 THEN p2 ELSE p1]
MCCalls == (a1 :> {"drop_table", "close"} @@ a2 :> {"create", "access"}
            @@ b1 :> {"ctas", "drop"})

NameSymmetry == Permutations({n1, n2})
=============================================================================
