SPECIFICATION FairSpec
CONSTANTS
  Ends = {1, 2}
  Other <- TwoEnds
  Kinds = {"request", "oversize", "unknown", "mistyped"}
  MaxWriteQueue = 2
  MaxPerSecond = 1
  Second = 1
  WireCapacity = 1
  MaxSends <- BothSend
  MaxTime = 1
INVARIANTS
  TypeOK OneWrite RateBounded
PROPERTIES
  RefinesOrderedChannel  
CHECK_DEADLOCK FALSE
