SPECIFICATION Spec
CONSTANTS
  Threads = {w1}
  Tables = {"t"}
  MaxRow = 2
  Cols = {c}
  MaxVal = 5
  MaxTs = 6
  MaxTxn = 3
  MaxWrites <- OneWriteEach
  Ops = {"insert", "update", "delete", "autocommit"}
  Readers = {}
  StorageFaults = TRUE
  InitRows = 1
INVARIANTS FirstCommitterWins ChainsOrdered
PROPERTIES VisibleVersionStable
CHECK_DEADLOCK FALSE
