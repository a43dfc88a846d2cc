SPECIFICATION FairSpec
CONSTANTS
  Threads = {w1, w2}
  Tables = {"t"}
  MaxRow = 1
  Cols = {c}
  MaxVal = 4
  MaxTs = 4
  MaxTxn = 2
  MaxWrites <- OneWriteEach
  Ops = {"update", "delete", "record_read", "read_only"}
  Readers = {}
  StorageFaults = TRUE
  InitRows = 1
INVARIANTS TypeOK IntentsExclusive NoOrphanIntent OldestBoundsSnapshots NoSnapshotLeak
PROPERTIES CallsReturn
CHECK_DEADLOCK FALSE
