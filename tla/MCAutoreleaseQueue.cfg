\* A ring of 11 ticks, the lifetime of the code; the worker may be two expiries late.
CONSTANTS
  Objects = {o1, o2}
  Max = 11
  Life = 5
  MaxReady = 2
SPECIFICATION FairQueueSpec
INVARIANTS OneWait QuietWhileStopped KeepsGoing
PROPERTIES KeepsAge LetsGo
CHECK_DEADLOCK FALSE
