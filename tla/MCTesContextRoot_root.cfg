\* Three natives race for the root, two maps, saves and loads.
CONSTANTS
  Threads = {t1, t2, t3}
  Maps = {m1, m2}
  Null = Null
  MaxRetains = 2
SPECIFICATION Spec
INVARIANTS RootExists OneRoot RootIsKept
CHECK_DEADLOCK FALSE
