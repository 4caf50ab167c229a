--------------------------- MODULE UnhealthyGauge ---------------------------
(***************************************************************************)
(* Controller.pollGauges and refreshGauges (internal/watcher/controller.go)*)
(* beside the reconciles of AlertPipeline: a goroutine of its own counts   *)
(* the Pods with a firing alert in the controller's map and sets the gauge *)
(* sentinel_unhealthy_pods.  It counts under the controller's mutex and    *)
(* sets the gauge after it has given the mutex back, so that any number of *)
(* reconciles may settle in between.                                       *)
(***************************************************************************)
EXTENDS AlertPipeline, FiniteSets

CONSTANT
  Pods   \* those of the objects that are Pods

ASSUME PodsAssumption == Pods \subseteq Objects /\ IsFiniteSet(Pods)

VARIABLES
  counted,      \* refreshGauges' unhealthy: counted, not yet set; else NoCount
  gauge,        \* the metric UnhealthyPods as last set
  turned,       \* history: the Pods whose last result has turned since the last count
  gaugeTurned   \* history: the same since the count that the gauge shows

gaugeVars == <<counted, gauge, turned, gaugeTurned>>
allVars   == <<vars, gaugeVars>>

NoCount == -1

GaugeInit ==
  /\ Init
  /\ counted = NoCount
  /\ gauge = 0
  /\ turned = {}
  /\ gaugeTurned = {}

\* Slip: a Pod whose alerts are all in their grace period still counts.
UnhealthyPodsGrace == {o \in Pods : active[o] # {}}

\* The Pods with an alert that is firing, not clearing.
UnhealthyPods == {o \in Pods : \E a \in active[o] : clearingSince[a] = Zero}

\* refreshGauges, once per tick of pollGauges: the count, under the mutex.  Its
\* other two gauges, the lengths of the listers' caches, are related to nothing and
\* left out.
CountUnhealthy ==
  /\ counted = NoCount
  /\ counted' = Cardinality(UnhealthyPods)
  /\ turned' = {}
  /\ UNCHANGED <<vars, gauge, gaugeTurned>>

\* refreshGauges after the mutex: the gauge is set to what was counted.
SetGauge ==
  /\ counted # NoCount
  /\ gauge' = counted
  /\ counted' = NoCount
  /\ gaugeTurned' = turned
  /\ UNCHANGED <<vars, turned>>

RefreshGauges == CountUnhealthy \/ SetGauge

\* The Pods whose last result goes from alerts to none, or back, in this step.
Turning == {o \in Pods : (lastResult[o] = {}) # (lastResult'[o] = {})}

\* A step of the cluster, the clock or a reconcile.
Pipeline(A) ==
  /\ A
  /\ turned' = turned \cup Turning
  /\ gaugeTurned' = gaugeTurned \cup Turning
  /\ UNCHANGED <<counted, gauge>>

GaugeNext == RefreshGauges \/ Pipeline(Next)

\* pollGauges runs until the program is told to stop; the rest as in AlertPipeline.
GaugeFairness ==
  /\ WF_allVars(RefreshGauges)
  /\ WF_allVars(Pipeline(Tick))
  /\ \A o \in Objects : WF_allVars(Pipeline(Deliver(o)))

GaugeSpec == GaugeInit /\ [][GaugeNext]_allVars
FairGaugeSpec == GaugeSpec /\ GaugeFairness

-----------------------------------------------------------------------------
(* Correctness. *)

\* sentinel_unhealthy_pods means what its help text says, the Pods "with at least
\* one active alert at last reconcile", up to what has happened since the poller
\* held the mutex: it is the size of a set that has every Pod right except those
\* whose last result has turned since that count.  An alert in its grace period, an
\* alert that a reconcile under way has just fired and a Node's alert do not count;
\* a result that settles between the count and the Set is missing from the gauge
\* until the next refresh, and no longer.
GaugeLagsOnlyTurned ==
  \E S \in SUBSET Pods :
    /\ gauge = Cardinality(S)
    /\ \A o \in Pods \ gaugeTurned : o \in S <=> lastResult[o] # {}

\* The gauge comes down: once no Pod has a problem any more, because it recovered
\* or because it was deleted, the gauge goes to zero and stays there, also when the
\* last reconcile settles between a count and its Set.
GaugeComesDown ==
  <>[](\A o \in Pods : problems[o] = <<>>) => <>[](gauge = 0)
=============================================================================
