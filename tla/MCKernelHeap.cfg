CONSTANTS
  MaxOrder = 4
  Sizes = {0, 8, 9, 104, 232, 488, 512, 513}
  MaxLive = 16
  AnyOrder = 2
SPECIFICATION Spec
INVARIANTS LiveDisjoint ListsHoldFreeBlocks LostOnlyWhole Coalesced
CHECK_DEADLOCK FALSE
