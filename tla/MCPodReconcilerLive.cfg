SPECIFICATION FairSpec
CONSTANTS
  RestartCountWarn = 2
  PendingGracePeriod = 1
  NodeNotReadyGracePeriod = 1
  Window = 1
  Threshold = 2
  ResyncPeriod = 2
  MaxCount = 2
  MaxTime = 4
INVARIANTS TypeOK NoticedInTime
PROPERTIES StuckPendingNoticed RecoveredClears
