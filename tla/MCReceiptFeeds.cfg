SPECIFICATION ReceiptSpec
CONSTANTS
  a1 = a1
  a2 = a2
  Accounts = {a1, a2}
  NoAccount = NoAccount
  i1 = i1
  i2 = i2
  FeedIds = {i1, i2}
  Prices = {1, 2}
  Deposits = {0}
  MaxReports = 2
  MaxUpdates = 0
  InitArgs <- MCInitArgs
  RoleBatches <- MCRoleBatches
  FeedBatches <- MCFeedBatches
  MaxTime = 1
  MAX_FUTURE_DRIFT_THRESHOLD = 2
  PRICE_MODULUS = 2
  TS_MODULUS = 3
SYMMETRY Symmetry
CHECK_DEADLOCK FALSE
INVARIANT
  LoopInvariant
PROPERTIES
  ImplementsMultiFeed
  NoSpuriousPanic
