CONSTANTS
  BlockSize = 8
  Align = 4
  Sizes = {1, 3, 9}
  MaxBlocks = 2
SPECIFICATION Spec
INVARIANT AllocationsDisjoint
CHECK_DEADLOCK FALSE
