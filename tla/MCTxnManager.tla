---------------------------- MODULE MCTxnManager ----------------------------
(***************************************************************************)
(* Small instances of the transaction manager for TLC.  Threads and columns*)
(* are never stored in the state except as indices of `thread` and of the  *)
(* rows, so they may be permuted in runs that check no liveness.           *)
(***************************************************************************)
EXTENDS TxnManager, TLC

ThreadSymmetry == Permutations(Threads)
ColSymmetry == Permutations(Cols)

\* How many writes each transaction buffers.
OneWriteEach == [t \in TxnIds |-> 1]
FirstWritesTwice == [t \in TxnIds |-> IF t = 1 THEN 2 ELSE 1]
=============================================================================
