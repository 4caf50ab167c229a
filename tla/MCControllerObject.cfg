SPECIFICATION Spec
CONSTANTS
  Keys = {p1}
  Workers = {w1, w2}
  NoKey = NoKey
  MaxRequeues = 2
  MaxVersion = 3
  MaxPending = 2
  MaxErrors = 4
SYMMETRY Symmetry
INVARIANTS NoLostUpdate NoGhostState RetryBudget
PROPERTIES HandledNeverRegresses
