SPECIFICATION Spec
CONSTANTS
  RestartCountWarn = 2
  PendingGracePeriod = 1
  NodeNotReadyGracePeriod = 1
  Window = 2
  Threshold = 2
  ResyncPeriod = 2
  MaxCount = 2
  MaxTime = 4
INVARIANT DeletedPodNeverAlerted
