SPECIFICATION FairSpec
CONSTANTS
  Pods = {p1, p2}
  MaxRV = 2
PROPERTIES DeletionsShown
