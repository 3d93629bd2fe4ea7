\* A form that exists is watched by natives that race with each other.
CONSTANTS
  Threads = {t1, t2, t3}
  Entries = {e1, e2, e3, e4}
  Null = Null
  MaxForms = 3
SYMMETRY Symmetry
SPECIFICATION MapSpec
INVARIANT WatchedIsKnown
CHECK_DEADLOCK FALSE
