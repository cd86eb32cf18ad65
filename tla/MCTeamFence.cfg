SPECIFICATION TeamSpec
CONSTANTS
  Lanes = 2
  Stages = 1
  Tiles = 1
  MaxOrders = 1
PROPERTIES EveryPassLands
CHECK_DEADLOCK FALSE
