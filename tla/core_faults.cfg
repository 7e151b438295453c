SPECIFICATION Spec
CONSTANTS
  Nodes = {n1, n2}
  Accounts = {"a"}
  Txs <- SelfTxs
  Reward = 2
  Window = 1
  TargetBlockTime = 1
  FutureLimit = 1
  MinDifficulty = 1
  MaxDifficulty = 8
  MaxTxsPerBlock = 1
  ExpiryWindow = 300
  InitialDifficulty <- SameDifficulty
  Skew <- OneLags
  WriteOutcomes = {TRUE, FALSE}
  StartTime = 1
  MaxChainLength = 3
  MaxPublished = 4
  MaxTime = 1
INVARIANTS
  ChainInv DiskIsSegment
