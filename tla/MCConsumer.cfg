SPECIFICATION FairConsumerSpec
CONSTANTS
  keeper = keeper
  consumer = consumer
  i1 = i1
  i2 = i2
  c1 = c1
  Calls = {c1}
  OracleAccount = OracleAccount
  OtherAccount = OtherAccount
  ConsumerAccount = consumer
  MalformedId = MalformedId
  PriceQuestions <- MCPriceQuestions
  PricesQuestions <- MCPricesQuestions
  Accounts = {keeper, consumer}
  NoAccount = NoAccount
  FeedIds = {i1, i2}
  Deposits = {0, 1}
  InitArgs <- MCInitArgs
  RoleBatches <- MCRoleBatches
  FeedBatches <- MCFeedBatches
  MaxTime = 2
  MAX_FUTURE_DRIFT_THRESHOLD = 2
  PRICE_MODULUS = 4
  TS_MODULUS = 4
CHECK_DEADLOCK FALSE
INVARIANT
  NoOlderThanRequest
PROPERTIES
  ReadsOneMoment
  EveryCallReturns
