SPECIFICATION FairSpec
CONSTANTS
  Workers = {w1, w2}
  Tasks = {t1, t2, t3}
  Capacity = 2
  Ops = {"cancel", "panic", "drop"}
INVARIANTS OnePlace NoSleepingOnWork
PROPERTIES AcceptedIsAnswered DropReturnsUnlessMissed
CHECK_DEADLOCK FALSE
