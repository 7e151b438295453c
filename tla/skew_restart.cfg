SPECIFICATION Spec
CONSTANTS
  Nodes = {n1, n2}
  Accounts = {"a"}
  Txs <- SelfTxs
  Reward = 2
  Window = 10
  TargetBlockTime = 1
  FutureLimit = 2
  MinDifficulty = 1
  MaxDifficulty = 8
  MaxTxsPerBlock = 1
  ExpiryWindow = 300
  InitialDifficulty <- SameDifficulty
  Skew <- OneLags
  WriteOutcomes = {TRUE}
  StartTime = 1
  MaxChainLength = 4
  MaxPublished = 5
  MaxTime = 2
INVARIANT
  OwnChainValid
