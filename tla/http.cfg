SPECIFICATION HttpSpec
CONSTANTS
  Nodes = {n1, n2}
  Accounts = {"a", "b"}
  Txs <- OneTransfer
  Reward = 2
  Window = 10
  TargetBlockTime = 1
  FutureLimit = 2
  MinDifficulty = 1
  MaxDifficulty = 8
  MaxTxsPerBlock = 1
  ExpiryWindow = 300
  InitialDifficulty <- SameDifficulty
  Skew <- NoSkew
  WriteOutcomes = {TRUE}
  StartTime = 0
  MaxChainLength = 3
  MaxPublished = 4
  MaxTime = 0
  MaxUptime = 1
  Server = n1
  Reached = {n1}
  Miners = {"a"}
  Threads = {1, 2}
  RequestsOf <- SplitRequests
  Cooldown = 1
VIEW ServerView
INVARIANTS
  ChainReply SendNonce NoNonceGap RowsPlaced CooldownBound
