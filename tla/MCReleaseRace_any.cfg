\* Any two calls race with each other and the timer, or any three without it.
CONSTANTS
  t1 = t1
  t2 = t2
  t3 = t3
  Threads = {t1, t2, t3}
  Casts <- Any
SPECIFICATION FairSpec
INVARIANTS QueuedOnce StackCountExact FreedByRaceOnly HandedOver
PROPERTY CallsReturn
CHECK_DEADLOCK FALSE
