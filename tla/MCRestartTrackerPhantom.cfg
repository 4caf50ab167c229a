SPECIFICATION Spec
CONSTANTS
  Pods <- OnePod
  Containers = {"app"}
  Window = 2
  Threshold = 2
  MaxCount = 3
  MaxTime = 4
  MaxObs = 4
INVARIANT BurstNeedsObservedIncreases
