SPECIFICATION FairSpec
CONSTANTS
  Pods = {p1, p2}
  MaxRV = 4
INVARIANTS TypeOK InSync
PROPERTIES NeverBackwards EventuallyShown CancelEnds
