SPECIFICATION SettledSpec
CONSTANTS
  Nodes = {1, 2, 3}
  Txs <- OneTx
  Accounts = {"a", "b"}
  Reward = 2
  Window = 10
  TargetBlockTime = 1
  FutureLimit = 2
  MinDifficulty = 1
  MaxDifficulty = 8
  MaxTxsPerBlock = 1
  ExpiryWindow = 300
  InitialDifficulty <- OneDifficulty
  Skew <- SameClock
  WriteOutcomes = {TRUE}
  StartTime = 0
  Links <- Triangle
  MinersOf <- OwnMiner
  MaxChainLength = 2
  MaxPublished = 3
  MaxTime = 1
  DedupWindow = 0
  MaxSeen = 0
  MaxQueue = 3
  FailureKinds = {"drop"}
  MaxFailures = 1
PROPERTIES
  RelayOnce
CHECK_DEADLOCK FALSE
