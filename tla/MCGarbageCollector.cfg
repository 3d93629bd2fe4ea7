\* Every graph of three containers of two cells, with every set of owners.
CONSTANTS
  Objects = {o1, o2, o3}
  Slots = {s1, s2}
  Holders = {h1}
  NoObject = NoObject
  Life = 2
  MaxTes = 1
SYMMETRY Symmetry
SPECIFICATION Spec
INVARIANT SweepTouchesLiving
PROPERTY ImplementsCollect
CHECK_DEADLOCK FALSE
