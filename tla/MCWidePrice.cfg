SPECIFICATION Spec
CONSTANTS
  a1 = a1
  i1 = i1
  i2 = i2
  Accounts = {a1}
  NoAccount = NoAccount
  FeedIds = {i1, i2}
  Prices = {1, 2}
  Deposits = {0}
  MaxBatch = 2
  InitArgs <- MCInitArgs
  RoleBatches = {}
  FeedBatches <- MCFeedBatches
  MaxTime = 4
  MAX_FUTURE_DRIFT_THRESHOLD = 2
  PRICE_MODULUS = 2
  TS_MODULUS = 6
SYMMETRY Symmetry
CHECK_DEADLOCK FALSE
INVARIANT
  ServedPriceIsPublished
