\* Three calls at once, on two maps and what they lead to and on two arrays.
CONSTANTS
  Threads = {t1, t2, t3}
  r1 = r1
  r2 = r2
  m1 = m1
  l1 = l1
  l2 = l2
  a = a
  n = n
  Maps = {r1, r2, m1, m2, m3, m4, m5, m6, m7, m8}
  Arrays = {l1, l2}
  Roots = {r1, r2}
  Keys = {a, n}
  Absent = Absent
  Null = Null
  Error = Error
  Calls <- MCCalls
  Heaps <- MCHeaps
SPECIFICATION LocksSpec
INVARIANTS AddsAddUp CopyIsFaithful
PROPERTIES CallsReturn
CHECK_DEADLOCK FALSE
