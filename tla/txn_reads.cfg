SPECIFICATION Spec
CONSTANTS
  Threads = {w1}
  Tables = {"t"}
  MaxRow = 3
  Cols = {c1, c2}
  MaxVal = 5
  MaxTs = 5
  MaxTxn = 3
  MaxWrites <- FirstWritesTwice
  Ops = {"insert", "update"}
  Readers = {2}
  StorageFaults = FALSE
  InitRows = 1
SYMMETRY ColSymmetry
INVARIANTS RepeatableRead InsertKeepsItsId
CHECK_DEADLOCK FALSE
