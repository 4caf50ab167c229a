SPECIFICATION Spec
CONSTANTS
  Pods <- TwoPods
  Containers = {"app"}
  Window = 2
  Threshold = 2
  MaxCount = 2
  MaxTime = 3
  MaxObs = 4
INVARIANTS TypeOK BurstMatchesHistory TracksObserved
