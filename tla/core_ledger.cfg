SPECIFICATION Spec
CONSTANTS
  Nodes = {n1}
  Accounts = {"a", "b"}
  Txs <- RelayTxs
  Reward = 2
  Window = 10
  TargetBlockTime = 1
  FutureLimit = 2
  MinDifficulty = 1
  MaxDifficulty = 8
  MaxTxsPerBlock = 1
  ExpiryWindow = 0
  InitialDifficulty <- SameDifficulty
  Skew <- NoSkew
  WriteOutcomes = {TRUE}
  StartTime = 0
  MaxChainLength = 5
  MaxPublished = 6
  MaxTime = 1
INVARIANTS
  SupplyConserved MempoolSolvent NoncesIncrease
