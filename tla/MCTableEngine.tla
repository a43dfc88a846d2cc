--------------------------- MODULE MCTableEngine ---------------------------
(* Two processes; p1 has a writing and a reading thread, p2 one that does   *)
(* everything else.                                                         *)
EXTENDS TableEngine

CONSTANTS p1, p2, a1, a2, b1

MCProcs == {p1, p2}
MCThreads == {a1, a2, b1}
MCProcOf == [t \in MCThreads |-> IF t = b1 THEN p2 ELSE p1]
MCCalls == [t \in MCThreads |->
              CASE t = a1 -> {"append", "sqldelete", "delete"}
                [] t = a2 -> {"read", "sqlread"}
                [] t = b1 -> {"append", "buffer", "deleteid", "sqlread"}]
=============================================================================
