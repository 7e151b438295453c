SPECIFICATION FairSettledSpec
CONSTANTS
  Nodes = {1, 2}
  Txs = {}
  Accounts = {"a", "b"}
  Reward = 2
  Window = 10
  TargetBlockTime = 1
  FutureLimit = 2
  MinDifficulty = 1
  MaxDifficulty = 8
  MaxTxsPerBlock = 1
  ExpiryWindow = 300
  InitialDifficulty <- OneDifficulty
  Skew <- SameClock
  WriteOutcomes = {TRUE}
  StartTime = 0
  Links <- Pair
  MinersOf <- OwnMiner
  MaxChainLength = 3
  MaxPublished = 4
  MaxTime = 0
  DedupWindow = 1
  MaxSeen = 3
  MaxQueue = 2
  FailureKinds = {"restart", "disconnect"}
  MaxFailures = 1
INVARIANT
  NetInv
PROPERTIES
  RefinesBlockchain CatchesUp
CHECK_DEADLOCK FALSE
