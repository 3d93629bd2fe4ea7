\* Nine ids, one always free: every shape of up to five ranges.
CONSTANTS
  max_identifier = 9
  MaxHanded = 8
SPECIFICATION IdsSpec
INVARIANTS TypeOK RangesApart FreeIffNotHanded
PROPERTY HandsOutFreeIds
