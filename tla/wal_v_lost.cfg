SPECIFICATION Spec
CONSTANTS
  Threads = {t1}
  BaseRows = {1}
  Shapes <- MCSmallShapes
  Ops = {"crash", "read"}
  MaxTxn = 2
  MaxCrash = 1
INVARIANTS MarkedIsVisible
CHECK_DEADLOCK FALSE
