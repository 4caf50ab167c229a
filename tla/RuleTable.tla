------------------------------ MODULE RuleTable ------------------------------
(***************************************************************************)
(* The rule engine against the table of README.md ("Rules"), on every Pod  *)
(* and Node of a small universe while the clock moves.  The engine keeps   *)
(* no state, so one object per behaviour is enough.                        *)
(***************************************************************************)
EXTENDS Reliability, FiniteSets

CONSTANTS
  PodUniverse,    \* the Pods to evaluate
  NodeUniverse,   \* the Nodes to evaluate
  MaxTime         \* bound: the clock

\* The container statuses and the node conditions of the API types, as far as the
\* rules read them.
ContainerStatus ==
  [name : STRING, waiting : STRING, terminated : STRING, lastTerminated : STRING,
   restartCount : Nat, ready : BOOLEAN]
NodeCondition == [type : STRING, status : ConditionStatuses, since : Int]

\* The API server accepts no Pod with two containers of the same name.
ASSUME UniverseAssumption ==
  /\ MaxTime \in Nat
  /\ \A p \in PodUniverse :
       /\ p.containers \in Seq(ContainerStatus)
       /\ \A i, j \in DOMAIN p.containers :
            p.containers[i].name = p.containers[j].name => i = j
       /\ p.created \in Int
  /\ \A n \in NodeUniverse : n.conditions \in Seq(NodeCondition)

VARIABLES pod, node, now

vars == <<pod, node, now>>

Init ==
  /\ pod \in PodUniverse
  /\ node \in NodeUniverse
  /\ now = 0

Tick == now < MaxTime /\ now' = now + 1 /\ UNCHANGED <<pod, node>>

Stop == now = MaxTime /\ UNCHANGED vars

Next == Tick \/ Stop

Spec == Init /\ [][Next]_vars

-----------------------------------------------------------------------------
ContainerSet == {pod.containers[i] : i \in DOMAIN pod.containers}

KeySet(alerts) == {Key(alerts[i]) : i \in DOMAIN alerts}

\* The reason has a row of the table that applies to container c.
Row(reason, c) ==
  CASE reason = "CrashLoopBackOff" -> c.waiting = "CrashLoopBackOff"
    [] reason = "OOMKilled"        -> c.terminated = "OOMKilled" \/ c.lastTerminated = "OOMKilled"
    [] reason = "HighRestartCount" -> c.restartCount >= RestartCountWarn /\ ~c.ready
    [] reason = "ImagePullError"   -> c.waiting = "ImagePullBackOff" \/ c.waiting = "ErrImagePull"

ContainerReasons == {"CrashLoopBackOff", "OOMKilled", "HighRestartCount", "ImagePullError"}

\* "a container already has a specific waiting reason"
HasWaitingReason ==
  \E c \in ContainerSet : Row("CrashLoopBackOff", c) \/ Row("ImagePullError", c)

\* What the table says of the current Pod.
PodTable ==
  IF pod.deleting THEN {}
  ELSE {<<x[1], x[2].name>> : x \in {y \in ContainerReasons \X ContainerSet : Row(y[1], y[2])}}
       \cup (IF pod.phase = "Pending" /\ now >= pod.created + PendingGracePeriod /\ ~HasWaitingReason
             THEN {<<"PodStuckPending", "">>} ELSE {})

\* What the table says of the current Node.
NodeTable ==
  LET conds == {node.conditions[i] : i \in DOMAIN node.conditions} IN
  {r \in {"NodeNotReady", "NodePressure"} :
     \E c \in conds :
       \/ /\ r = "NodeNotReady" /\ c.type = "Ready" /\ c.status \in {"False", "Unknown"}
          /\ now >= c.since + NodeNotReadyGracePeriod
       \/ r = "NodePressure" /\ c.type \in PressureTypes /\ c.status = "True"}

\* EvaluatePod produces the alerts of the table and no others, each once: in
\* particular two alerts of a Pod never share a deduplication key, so none of
\* them hides another in the Deduper.
PodMatchesTable ==
  LET alerts == EvaluatePod(pod, now) IN
  /\ KeySet(alerts) = PodTable
  /\ Len(alerts) = Cardinality(PodTable)

\* EvaluateNode produces the alerts of the table and no others.
NodeMatchesTable ==
  {k[1] : k \in KeySet(EvaluateNode(node, now))} = NodeTable

\* Time alone never clears an alert: while an object does not change, the set of
\* its alerts only grows, so an alert that disappears means that the object
\* changed.  (The age rules compare with >=.)
TimeOnlyAddsAlerts ==
  [][/\ pod' = pod => KeySet(EvaluatePod(pod, now)) \subseteq KeySet(EvaluatePod(pod', now'))
     /\ node' = node => KeySet(EvaluateNode(node, now)) \subseteq KeySet(EvaluateNode(node', now'))
    ]_vars
=============================================================================
