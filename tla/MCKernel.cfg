SPECIFICATION KernelSpec
CONSTANTS
  Capacity = 1
  Descriptors = 1
  MaxGeneration = 2
  Slots = 1
  MaxPass = 3
  MaxOrders = 3
  Lanes = 2
  Stages = 2
  Tiles = 2
INVARIANTS BothSound BorrowEnds NothingBreaks TilesRunOnce
PROPERTIES CrewContract NobodyElseHangs
CHECK_DEADLOCK FALSE
