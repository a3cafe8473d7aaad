CONSTANTS
  MaxOrder = 3
  Sizes = {8}
  MaxLive = 4
  AnyOrder = 4
SPECIFICATION Spec
INVARIANT ListsHoldFreeBlocks
CHECK_DEADLOCK FALSE
