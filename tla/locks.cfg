SPECIFICATION FairSpec
CONSTANTS
  Threads = {t1, t2}
  Main = t1
CHECK_DEADLOCK FALSE
INVARIANTS
  LockOrder OnlySelfDeadlock OnlyBannedHangs
PROPERTY
  ShutdownPersists
