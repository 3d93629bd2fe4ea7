\* Natives race with each other and with the deletion of their form.
CONSTANTS
  Threads = {t1, t2, t3}
  Entries = {e1, e2, e3, e4}
  Null = Null
  MaxForms = 3
SYMMETRY Symmetry
SPECIFICATION MapSpec
INVARIANTS SameEntry ExpiresWithForm KeysSorted FindsItsOwn
CHECK_DEADLOCK FALSE
