SPECIFICATION Spec
CONSTANTS
  Threads = {w1, w2}
  Tables = {"t"}
  MaxRow = 1
  Cols = {c}
  MaxVal = 4
  MaxTs = 4
  MaxTxn = 2
  MaxWrites <- OneWriteEach
  Ops = {"update"}
  Readers = {}
  StorageFaults = FALSE
  InitRows = 1
SYMMETRY ThreadSymmetry
INVARIANTS FirstCommitterWins
CHECK_DEADLOCK FALSE
