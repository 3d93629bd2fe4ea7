\* An id is resolved while the object behind it is being deleted.
CONSTANTS
  t1 = t1
  t2 = t2
  t3 = t3
  Threads = {t1}
  Casts <- ResolveAndTick
SPECIFICATION Spec
INVARIANT FreedUnheld
CHECK_DEADLOCK FALSE
