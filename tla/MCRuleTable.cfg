SPECIFICATION Spec
CONSTANTS
  RestartCountWarn = 2
  PendingGracePeriod = 2
  NodeNotReadyGracePeriod = 2
  MaxTime = 4
  PodUniverse <- AllPods
  NodeUniverse <- AllNodes
INVARIANTS PodMatchesTable NodeMatchesTable
PROPERTY TimeOnlyAddsAlerts
