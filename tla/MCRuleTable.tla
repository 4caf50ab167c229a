---------------------------- MODULE MCRuleTable ----------------------------
(* Small instances of RuleTable for TLC. *)
EXTENDS RuleTable

\* A container has at most one of waiting, running and terminated; a container
\* that is ready is running.
Statuses(names, waits, counts) ==
  {cs \in [name : names, waiting : waits, terminated : TerminationReasons,
           lastTerminated : TerminationReasons, restartCount : counts, ready : BOOLEAN] :
     /\ cs.waiting = "" \/ cs.terminated = ""
     /\ cs.ready => cs.waiting = "" /\ cs.terminated = ""}

PodsWith(containerLists, phases) ==
  [containers : containerLists, phase : phases, created : {0, 1}, deleting : BOOLEAN]

\* Every single-container Pod, around both thresholds, and Pods whose containers
\* have no status yet.
OneContainer ==
  PodsWith({<<cs>> : cs \in Statuses({"app"}, WaitingReasons, {0, 1, 2, 3})} \cup {<<>>},
           {"Pending", "Running", "Failed"})

\* Two containers with different troubles.
TwoContainers ==
  PodsWith({<<c, d>> : c \in Statuses({"app"}, {"", "CrashLoopBackOff"}, {2}),
                       d \in Statuses({"sidecar"}, {"", "ErrImagePull"}, {1})},
           {"Pending"})

Ready(s, t) == [type |-> "Ready", status |-> s, since |-> t]
Pressure(type, s) == [type |-> type, status |-> s, since |-> 0]

\* Nodes with a Ready condition, two pressures and a condition no rule reads.
AllNodes ==
  {[conditions |-> <<Pressure("MemoryPressure", m), Pressure("PIDPressure", d), Ready(s, t),
                     Pressure("NetworkUnavailable", "True")>>] :
     m \in {"True", "False"}, d \in {"True", "Unknown"}, s \in ConditionStatuses, t \in {0, 1}}

AllPods == OneContainer \cup TwoContainers
=============================================================================
