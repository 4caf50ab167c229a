SPECIFICATION Spec
CONSTANTS
  Keys = {p1, p2}
  Workers = {w1, w2}
  NoKey = NoKey
  MaxRequeues = 2
  MaxVersion = 2
  MaxPending = 0
  MaxErrors = 3
SYMMETRY Symmetry
INVARIANTS TypeOK NoLostUpdate OneWorkerPerKey DrainedOnReturn
