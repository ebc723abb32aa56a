SPECIFICATION ReceiptSpec
CONSTANTS
  a1 = a1
  a2 = a2
  Accounts = {a1, a2}
  NoAccount = NoAccount
  FeedIds = {7}
  Prices = {1}
  Deposits = {0, 1, 2}
  MaxReports = 0
  MaxUpdates = 2
  InitArgs <- MCInitArgs
  RoleBatches <- MCRoleBatches
  FeedBatches <- MCFeedBatches
  MaxTime = 0
  MAX_FUTURE_DRIFT_THRESHOLD = 2
  PRICE_MODULUS = 4
  TS_MODULUS = 2
INVARIANT
  LoopInvariant
PROPERTIES
  ImplementsMultiFeed
  NoSpuriousPanic
