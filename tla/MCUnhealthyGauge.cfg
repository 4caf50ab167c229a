SPECIFICATION FairGaugeSpec
CONSTANTS
  pod = pod
  node = node
  crash = crash
  pressure = pressure
  NoAlert = NoAlert
  Objects = {pod, node}
  Pods = {pod}
  Alerts = {crash, pressure}
  Owner <- PairOwner
  Evaluations <- PairEvaluations
  Resend = 2
  ClearGrace = 1
  MaxTime = 2
INVARIANTS DedupMatchesActive GaugeLagsOnlyTurned
PROPERTIES SentWhenDue GaugeComesDown
