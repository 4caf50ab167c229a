----------------------------- MODULE Reliability -----------------------------
(***************************************************************************)
(* internal/reliability/reliability.go: the rule engine, a pure function   *)
(* from one object, the thresholds and an instant to a list of alerts.     *)
(*                                                                         *)
(* A container status keeps the fields the rules read.  An alert keeps its *)
(* reason, severity and container; the identity of the object, which all   *)
(* alerts of one evaluation share, and the message are left out.           *)
(***************************************************************************)
EXTENDS Integers, SequencesExt

CONSTANTS
  RestartCountWarn,          \* Thresholds.RestartCountWarn
  PendingGracePeriod,        \* Thresholds.PendingGracePeriod
  NodeNotReadyGracePeriod    \* Thresholds.NodeNotReadyGracePeriod

ASSUME ThresholdsAssumption ==
  /\ RestartCountWarn \in Nat
  /\ PendingGracePeriod \in Nat
  /\ NodeNotReadyGracePeriod \in Nat

\* State.Waiting.Reason, "" when the container is not waiting.
WaitingReasons == {"", "CrashLoopBackOff", "ImagePullBackOff", "ErrImagePull", "ContainerCreating"}

\* State.Terminated.Reason and LastTerminationState.Terminated.Reason.
TerminationReasons == {"", "OOMKilled", "Error"}

Phases == {"Pending", "Running", "Succeeded", "Failed", "Unknown"}

ConditionStatuses == {"True", "False", "Unknown"}

PressureTypes == {"MemoryPressure", "DiskPressure", "PIDPressure"}

Alert(reason, severity, container) ==
  [reason |-> reason, severity |-> severity, container |-> container]

\* Alert.Key, within the alerts of one object.
Key(a) == <<a.reason, a.container>>

\* One rule: its alert if the condition holds.
When(condition, alert) == IF condition THEN <<alert>> ELSE <<>>

ImagePullFailing(cs) == cs.waiting \in {"ImagePullBackOff", "ErrImagePull"}

\* Slip: the last termination is not looked at.
OomTerminationCurrent(cs) == cs.terminated = "OOMKilled"

\* oomTermination: the current termination or the previous one.
OomTermination(cs) == "OOMKilled" \in {cs.terminated, cs.lastTerminated}

HighRestarts(cs) == cs.restartCount >= RestartCountWarn /\ ~cs.ready

\* The body of EvaluatePod's loop over the container statuses.
ContainerAlerts(cs) ==
  When(cs.waiting = "CrashLoopBackOff", Alert("CrashLoopBackOff", "Critical", cs.name))
  \o When(ImagePullFailing(cs), Alert("ImagePullError", "Warning", cs.name))
  \o When(OomTermination(cs), Alert("OOMKilled", "Critical", cs.name))
  \o When(HighRestarts(cs), Alert("HighRestartCount", "Warning", cs.name))

\* Slip: only the last container's waiting reason is remembered.
SawContainerWaitingAlertLast(pod) ==
  /\ pod.containers # <<>>
  /\ LET cs == Last(pod.containers) IN
     cs.waiting = "CrashLoopBackOff" \/ ImagePullFailing(cs)

\* sawContainerWaitingAlert
SawContainerWaitingAlert(pod) ==
  \E i \in DOMAIN pod.containers :
    LET cs == pod.containers[i] IN cs.waiting = "CrashLoopBackOff" \/ ImagePullFailing(cs)

\* Slip: the age is compared for equality, as if every instant were evaluated.
StuckPendingAt(pod, now) ==
  /\ pod.phase = "Pending"
  /\ ~SawContainerWaitingAlert(pod)
  /\ now - pod.created = PendingGracePeriod

StuckPending(pod, now) ==
  /\ pod.phase = "Pending"
  /\ ~SawContainerWaitingAlert(pod)
  /\ now - pod.created >= PendingGracePeriod

EvaluatePod(pod, now) ==
  IF pod.deleting
  THEN <<>>
  ELSE FlattenSeq([i \in DOMAIN pod.containers |-> ContainerAlerts(pod.containers[i])])
       \o When(StuckPending(pod, now), Alert("PodStuckPending", "Warning", ""))

\* Slip: only a False Ready condition counts, not an Unknown one.
NotReadyFalseOnly(cond, now) ==
  /\ cond.type = "Ready"
  /\ cond.status = "False"
  /\ now - cond.since >= NodeNotReadyGracePeriod

NotReady(cond, now) ==
  /\ cond.type = "Ready"
  /\ cond.status # "True"
  /\ now - cond.since >= NodeNotReadyGracePeriod

UnderPressure(cond) == cond.type \in PressureTypes /\ cond.status = "True"

EvaluateNode(node, now) ==
  FlattenSeq([i \in DOMAIN node.conditions |->
    LET cond == node.conditions[i] IN
    When(NotReady(cond, now), Alert("NodeNotReady", "Critical", ""))
    \o When(UnderPressure(cond), Alert("NodePressure", "Warning", ""))])
=============================================================================
