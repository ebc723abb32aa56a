SPECIFICATION FairRevocationSpec
CONSTANTS
  right = right
  fast = fast
  r1 = r1
  r2 = r2
  Machines = {right, fast}
  ReporterOf <- MCReporterOf
  Skews <- MCSkews
  Counts <- MCCounts
  U32_MODULUS = 256
  LastDrift = 1
  Accounts = {r1, r2}
  NoAccount = NoAccount
  FeedIds = {1, 2, 3}
  Deposits = {0, 1}
  InitArgs <- MCInitArgs
  RoleBatches <- MCRoleBatches
  FeedBatches <- MCFeedBatches
  MaxTime = 4
  MAX_FUTURE_DRIFT_THRESHOLD = 2
  PRICE_MODULUS = 1024
  TS_MODULUS = 10
CHECK_DEADLOCK FALSE
INVARIANTS
  AckedIsStored
  StoredOnce
  PricesAreExact
  RevokedIsNotAcked
  RefusedIsOvertaken
PROPERTIES
  RevokedHoldEnds
  DriftHeals
