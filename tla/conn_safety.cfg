SPECIFICATION FairSpec
CONSTANTS
  Hosts = {"h"}
  Ports = {1, 11, 12}
  Endpoints <- Listener
  Told <- SomeTold
  Unknown = Unknown
  MaxOutbound = 1
  MaxInbound = 1
  InitialScore = 1
  MaxScore = 1
  UnbanScore = 1
  TxPenalty = 1
  BlockPenalty = 1
  RapidPenalty = 1
  RapidCount = 1
  HeartbeatInterval = 1
  HeartbeatTimeout = 1
  QuarantineTime = 1
  Cooldown = 0
  StaleTime = 0
  RetryDelays <- QuickRetry
  MaxRetries = 1
  MaxPeers = 2
  MaxDials = 1
  MaxTimers = 1
  MaxAnnounces = 1
INVARIANTS
  TypeOK InboundBounded
PROPERTY
  SilentPeersClosed
