\* Up to three items in an array, a JMap and a JIntMap, of which each may hold
\* each other.
CONSTANTS
  Arrays = {a1, a2}
  Maps = {m1}
  IntMaps = {i1}
  Keys <- MCKeys
  Scalars = {Null}
  Null = Null
  Absent = Absent
  MaxCount = 3
  Parse <- MCParse
  Chars <- MCChars
  MaxPath = 2
  MetaKeys <- MCMetaKeys
SYMMETRY Symmetry
SPECIFICATION Spec
INVARIANTS JsonKeepsGraph EditsAreExact
PROPERTIES LoopVisitsAll
CHECK_DEADLOCK FALSE
