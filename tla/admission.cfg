SPECIFICATION FairSpec
CONSTANTS
  Stmts = {s1, s2, s3, s4}
  Budget = 3
  LightBytes = 1
  PerQuery = 2
  QueueMax = 2
INVARIANTS ReservationsFit QueueCounted NoLostSlot
PROPERTIES QueuedIsNotRejected WaitEnds
