SPECIFICATION TestSpec
CONSTANTS
  Accounts = {"alice.near", "bob.near", "owner.near", "outsider.near"}
  NoAccount = NoAccount
  FeedIds = {"0x00000001", "0x00000002", "0x00000003", "0x00000005", "0x00000007", "0x00000009", "0x0000002a", "0xffffffff"}
  Deposits = {0, 1}
  InitArgs = {}
  RoleBatches = {}
  FeedBatches = {}
  MaxTime = 1000000
  MAX_FUTURE_DRIFT_THRESHOLD = 60
  PRICE_MODULUS = 2048
  TS_MODULUS = 2000000
CHECK_DEADLOCK FALSE
INVARIANT
  TestsPass
