SPECIFICATION FairSpec
CONSTANTS
  pod = pod
  crash = crash
  oom = oom
  NoAlert = NoAlert
  Objects = {pod}
  Alerts = {crash, oom}
  Owner <- PodOwner
  Evaluations <- PodEvaluations
  Resend = 3
  ClearGrace = 2
  MaxTime = 4
INVARIANT TypeOK
PROPERTIES SentWhenDue ImplementsBook DetectedIsReported ClearingEnds
