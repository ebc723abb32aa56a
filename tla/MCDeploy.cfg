SPECIFICATION DeploySpec
CONSTANTS
  a1 = a1
  Runs = {1, 2}
  CommandLines <- MCCommandLines
  Clients = {"c"}
  Configs <- MCConfigs
  Wasms = {w1, w2}
  w1 = w1
  w2 = w2
  Keys = {k1, k2}
  k1 = k1
  k2 = k2
  Missing = Missing
  Accounts = {a1}
  NoAccount = NoAccount
  FeedIds = {1}
  Deposits = {0}
  InitArgs <- MCInitArgs
  RoleBatches = {}
  FeedBatches = {}
  MaxTime = 0
  MAX_FUTURE_DRIFT_THRESHOLD = 2
  PRICE_MODULUS = 2
  TS_MODULUS = 2
CHECK_DEADLOCK FALSE
INVARIANTS
  ShownIsDeployed
  SuccessIsMine
  CodeIsInitialized
