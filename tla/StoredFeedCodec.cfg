SPECIFICATION Spec
CONSTANTS
  BASE = 2
  PRICE_WIDTH = 5
  TS_WIDTH = 3
  PRICE_STORED = 3
  TS_STORED = 2
CHECK_DEADLOCK FALSE
INVARIANTS
  StorageTruncates
  CallerSeesStored
