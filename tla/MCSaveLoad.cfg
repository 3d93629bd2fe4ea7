\* Two containers of two cells: chains, cycles and tails of cycles.
CONSTANTS
  Objects = {o1, o2}
  Slots = {s1, s2}
  Holders = {h1, h2}
  NoObject = NoObject
  Life = 2
  MaxTes = 1
SPECIFICATION FairLoadSpec
INVARIANTS CountersExact NoDangling OwnedInPlay
PROPERTIES KeptWhileOwned GcComplete LoadRestores Reclaimed
