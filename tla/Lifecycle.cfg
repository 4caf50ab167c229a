SPECIFICATION FairLifecycleSpec
CONSTANTS
  Keys = {p1}
  Workers = {w1, w2}
  NoKey = NoKey
  MaxRequeues = 1
  MaxVersion = 2
  MaxPending = 1
  MaxErrors = 2
  EnableEvents = TRUE
INVARIANTS NoEventLost CleanExit ReadyMeansSynced
PROPERTIES EventuallyHandled SignalExits
CHECK_DEADLOCK FALSE
