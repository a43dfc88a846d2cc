SPECIFICATION Spec
CONSTANTS
  Threads = {t1}
  BaseRows = {1}
  Shapes <- MCShapes
  Ops = {"crash", "torn", "spill", "log_fails", "apply_fails", "mark_fails", "auto", "checkpoint", "read"}
  MaxTxn = 3
  MaxCrash = 2
INVARIANTS RecoveryExact RecoveryIdempotent
CHECK_DEADLOCK FALSE
