# A TLA+ model of kube-reliability-sentinel

kube-reliability-sentinel watches the Pods and Nodes of a Kubernetes cluster,
applies reliability rules to them and reports problems as log records and
Kubernetes Events. This directory holds TLA+ modules of its core, the TLC
configurations that check them on small instances, and TLAPS proofs for every
instance. `PROJECT.json` lists runs, mutants, theorems, hazards and, for every
definition, the source lines it models.

    tlc -workers 2 -config MCControllerSafety.cfg MCController
    tlapm ControllerProofs.tla

## The system

Paths are relative to the repository root.

| Component | State | Operations | Interacts with |
| --- | --- | --- | --- |
| Informers (client-go, external) | cache of Pods and Nodes | add, update, delete, resync every `ResyncPeriod` | calls the event handlers on its own goroutine, after the cache has changed |
| Event handlers (`internal/watcher/controller.go`) | none | `enqueuePod`, `enqueueNode` | `queue.Add` of a (kind, namespace, name) key |
| Work queue (client-go, external) | order, dirty set, processing set, back-off, failure counts | Add, Get, Done, AddRateLimited, Forget, ShutDown | handlers put, workers get |
| Worker pool (`controller.go`) | the key of each worker | `processNext`, `reconcile`, retry up to 5 times | lister, rule engine, detector, `deliver` |
| Run (`controller.go`) | context, wait group | sync, start, drain, return | queue, workers, readiness |
| Rule engine (`internal/reliability`) | none (pure) | `EvaluatePod`, `EvaluateNode` | called by `reconcilePod`, `reconcileNode` |
| Restart detector (`internal/watcher/restart_tracker.go`) | `seen`: count and increments per container | `observe`, `forgetPod` | called by `reconcilePod` |
| Alert life cycle (`controller.go` `deliver`, `clearObject`) | `active`: tracked alerts per object, each firing or clearing since | fire, start clearing, expire, clear | Deduper, under the controller's mutex |
| Deduper (`internal/alert/alert.go`) | `lastSeen` per alert key | `Fire`, `Forget` | wraps the sinks; its own mutex |
| Sinks (`internal/alert/alert.go`) | none | `MultiSink`, `SlogSink`, `EventSink` | log, EventRecorder |
| Gauges (`controller.go` `pollGauges`, `refreshGauges`) | `sentinel_unhealthy_pods` | recount every 15 s | reads `active` under the controller's mutex, sets the gauge after it |
| Metrics and probes (`internal/metrics`) | counters, gauges, readiness | `Serve`, `SetReady`, `ObserveReconcile` | everything reports to it; a goroutine of its own |
| Process (`cmd/sentinel/main.go`) | context, broadcaster | `run`: signal, metrics server, pipeline, Run, broadcaster shutdown, exit code | all |
| List-watch client (`internal/k8sclient`) | the list's resource version, the open stream | `List`, `Watch`, `ListAndWatch` | API server and handler; not on the production path |

What is hard here: the cache changes while a worker acts on what it read; the
work queue is the only thing that keeps two workers off one object, although
`deliver` is not atomic; two maps under two mutexes have to agree about which
alerts are known; several rules become true by the passing of time alone;
failing reconciles compete with new events for the retry budget; shutdown has to
drain a queue that still fills itself, and the broadcaster has to outlive it;
between a list and the watch that follows, the cluster moves on and the server may
forget. `PROJECT.json` lists these hazards at
their lines.

What makes each part correct: no update is lost, no object is reconciled twice
at once or backwards, nothing remains of a deleted object, retries are bounded,
Run returns drained (Controller); a signal ends the process, nothing is recorded
on a broadcaster that is shut down, readiness waits for the caches (Lifecycle); the
two maps agree and together are one book of alerts, an alert is sent exactly when
due, problems are reported, grace periods end (AlertPipeline); the gauge lags behind
the Pods whose result has just turned and behind no other (UnhealthyGauge); the handler's copy follows the namespace across broken watches
and relists (ListWatch); the detector answers as if it had kept every observation and
forgets exactly what it must (RestartTracker); the engine computes the documented
table (RuleTable); stuck Pods are noticed without an event and in time, recovered
ones keep nothing but the alert about an OOM kill (PodReconciler).

## Modules

* **WorkQueue** - the client-go queue, modelled from how the controller uses it:
  `dirty`, `processing` and `queue` with their client-go meaning, `waiting` for
  keys in back-off, `requeues` for the failure counts. Its operators are effects;
  the controller's actions call them. `abandoned` is history: the keys that
  ShutDown found in back-off, whose retries it throws away.
* **Controller** (extends WorkQueue) - handlers, `processNext`, Run. An object is
  reduced to a revision number; a reconcile is split at the points where others
  can run: `Get`, the lister call (`Lookup`), the end of the reconcile
  (`FinishOk`, `FinishErr`) and the deferred `Done`. `handled` and `holds` stand
  for the local state a reconcile leaves behind; `gaveUp` is history.
* **Lifecycle** (extends Controller) - `main.run` around the controller. `main` is
  where run is, `server` the goroutine of `Metrics.Serve`, `ready` the flag that
  `/readyz` reads, `broadcaster` the event broadcaster; `eventLost` is history: an
  alert reached EventSink after the broadcaster was shut down. Every step of
  Controller is a step of the process while the process runs, and none is after it
  has exited.
* **AlertPipeline** - `deliver`, `clearObject` and the Deduper.
  `Reconcile` reads the rules' result, `FireHead` is one round of the firing loop,
  `Settle` the critical section, `ClearObject` the NotFound branch. `sentAt`, `absentFrom`, `resolved` and
  `lastResult` are history: what was delivered, when a problem was really over, and
  what the last completed reconcile found, independently of the two maps. That the
  reconciles of one object do not overlap is Controller's `OneWorkerPerKey`.
* **AlertBook** - what the alert life cycle promises: a single book with one entry
  per open alert. AlertPipeline implements it under the mapping `sentOn` to the
  Deduper's `lastSeen`, `quietFrom` to `clearingSince`, `clock` to `now`. `Review`
  takes the moment the object was looked at, which is earlier than the moment
  the book is changed when firing takes time, as in `deliver`.
* **UnhealthyGauge** (extends AlertPipeline) - `pollGauges` and `refreshGauges`, a
  goroutine beside the reconciles. `CountUnhealthy` is the count under the
  controller's mutex, `SetGauge` the Set after the unlock, and any step of
  AlertPipeline may come between the two. `turned` and `gaugeTurned` are history: the
  Pods whose last result went from alerts to none or back since the last count, and
  since the count that the gauge shows.
* **ListWatch** - `ListAndWatch` against the API server. The server keeps its
  resource version, the namespace at every version and how far it has compacted;
  the client its place in the loop (`pc`), the list's version, the items still to be
  replayed, the position in the stream and whether the connection has died
  unnoticed. `view` is the copy a handler would keep.
* **RestartHistory**, **RestartTracker** - the arithmetic of `observe`, the keys
  and the prefix test of `forgetPod`; and the map, driven by `reconcilePod` over
  a cluster in which Pods come, go and restart. A reconcile observes the containers
  that the Pod's status lists: all, some or none. `obs` keeps all observations.
* **Reliability**, **RuleTable** - the rules as operators, one per rule; and the
  documented table, written independently, over a universe of Pods and Nodes.
* **PodReconciler** (extends Reliability and RestartHistory) - `reconcilePod` on
  one Pod under a model of the kubelet and the API server. The resync is a bound
  on how far the clock may run ahead of the last reconcile.
* **MC...** - instances for TLC (Lifecycle and ListWatch need none: their cfg files
  give plain values).
* **...Proofs** - inductive invariants and proofs, one module per component.
  **LoopTheorems** - what the code's loops over slices compute, for slices of any
  length; the proofs about the detector and the rules rest on it.

Operators whose comment starts with *Slip* are plausible mistakes; substituting
one for the definition after it must break a property (`mutants` in
`PROJECT.json`).

## Runs

| Run | Instance | Shows |
| --- | --- | --- |
| controller_safety | 2 objects, 2 workers, 2 revisions each, 2 retries, 3 errors | `TypeOK`, `NoLostUpdate`, `OneWorkerPerKey`, `DrainedOnReturn` |
| controller_object | 1 object, 2 workers, 3 revisions, resyncs, 2 retries, 4 errors | `NoLostUpdate`, `NoGhostState`, `RetryBudget`, `HandledNeverRegresses` |
| lifecycle | the process with events on, 1 object, 2 workers, 2 revisions, resyncs, 1 retry, 2 errors | `NoEventLost`, `CleanExit`, `ReadyMeansSynced`, `EventuallyHandled`, `SignalExits` |
| pipeline_pod | 1 Pod, 2 alerts, resend 3, grace 2, time to 4 | `TypeOK`, `SentWhenDue`, `ImplementsBook`, `DetectedIsReported`, `ClearingEnds` |
| pipeline_gauge | a Pod whose problem comes and goes, a Node with a doubled key, the gauge poller, resend 2, grace 1, time to 2 | `DedupMatchesActive`, `SentWhenDue`, `GaugeLagsOnlyTurned`, `GaugeComesDown` |
| tracker | Pods `ns/web` and `ns/web-1`, counts to 2, window 2, threshold 2, time to 3, 4 observations | `TypeOK`, `BurstMatchesHistory`, `TracksObserved` |
| tracker_phantom | one Pod, counts to 3, time to 4 | violation of `BurstNeedsObservedIncreases` |
| rules | every single-container Pod around the thresholds, two-container Pods, Nodes with 4 conditions | `PodMatchesTable`, `NodeMatchesTable`, `TimeOnlyAddsAlerts` |
| pod_live | 1 Pod, counts to 2, window 1, resync 2, time to 4 | `TypeOK`, `NoticedInTime`, `StuckPendingNoticed`, `RecoveredClears` |
| pod_deleted | as pod_live, window 2 | violation of `DeletedPodNeverAlerted` |
| listwatch | 2 Pods, 4 changes of the namespace | `TypeOK`, `InSync`, `NeverBackwards`, `EventuallyShown`, `CancelEnds` |
| listwatch_deleted | 2 Pods, 2 changes | violation of `DeletionsShown` |

**Bounds.** The interesting orders need two revisions (a change while the
previous one is processed), two workers (overlap) and one failure more than the
retries (give up); the runs have these, controller_safety has a
second object, and controller_object a third revision and errors left after a key was
given up. In pipeline_pod the clock runs past a resend interval after a grace period that started
late, in pipeline_gauge past each once; the detector's clock passes its window. Four changes let a Pod be created,
deleted and re-created around a broken watch while the other Pod is created or
replayed; streams break, connections die and history is compacted without a bound.
`MaxVersion`, `MaxPending`, `MaxErrors`, `MaxTime`, `MaxObs`, `MaxCount`, `MaxRV`
and `OldEnough` are the model's bounds, each in the guard of the action it limits.
controller_safety has no resyncs (`MaxPending` 0), so that two objects fit; a resync
is an Add without a change, and controller_object and lifecycle have them. Symmetry
(objects, workers) is used in the two controller runs only, which have no liveness
property. Lifecycle is checked without TLC's
deadlock test: an exited process takes no step. That it stops nowhere else
once a signal has come is `SignalExits`; without a signal it idles as the program
does.

**Fairness.** Lifecycle: weak fairness of main's steps, of the metrics server, of
each worker, of Run's own steps, of the informer's handler goroutine and of the
queue's delaying loop. The Go scheduler runs every runnable goroutine, and none of
these steps blocks on anything but its guard. Nothing obliges the cluster to change,
a resync to happen, the caches to sync, the server to fail or a signal to come.
AlertPipeline: time passes; each object is reconciled again, because a cached object
is redelivered every `ResyncPeriod` and a deleted one is reconciled for its delete
event (`EventuallyHandled`). UnhealthyGauge: the same, and `RefreshGauges` recurs,
because `pollGauges` ticks until shutdown. PodReconciler: time and reconciles, for the same reason. ListWatch:
the loop takes its steps, and the transport ends a request whose ctx is cancelled or
whose peer is gone. The second half rests on Go's default TCP keep-alive, since the
client sets no deadline on a watch.

**Liveness at the end of the clock.** Properties about deadlines are asked of
deadlines that end before `MaxTime`; at `MaxTime` objects still change and are
still reconciled.

## Divergences

Three documented statements are refuted by what the code does; each has a run.

1. "observed restart-count increases": the first sight of a non-zero count counts.
   (`restart_tracker_test.go:13-21` relies on it: it expects a burst of three from
   first counts 1, 2 and 3.)
2. "a pod being deleted is never alerted on": RapidRestart does not check.
3. "client-go's SharedInformer does the same thing" (`internal/k8sclient/client.go:231`),
   which "keeps a local cache of objects in sync" (`docs/watch-protocol.md:14`): a Pod
   deleted while `ListAndWatch` was not watching is never reported as deleted.

Smaller ones without a run. The repository's `README.md:77-79` says that a Pod in
CrashLoopBackOff "for an hour produces one alert", next to the resend interval of ten
minutes after which the alert is sent again (`SentWhenDue`). "A Pod that has recovered ... produces no alerts"
(`internal/reliability/reliability.go:119`) although OOMKilled stays with the last
termination, as the rule's own comment and the table say. The help text of
`sentinel_reconcile_errors_total` (`internal/metrics/metrics.go:80`) speaks of items
that "were requeued", but `processNext` also counts the final error of a key that it
drops. `docs/watch-protocol.md` describes a client that remembers the newest
version it has seen, bookmarks included, and resumes from it; `ListAndWatch` drops
bookmarks and relists.

## Proofs

`ControllerProofs` proves, for any sets of objects and workers (at least one
worker), any retry limit and any bounds, the type invariant and
`NoLostUpdate`, `OneWorkerPerKey`, `NoGhostState`, `RetryBudget`,
`DrainedOnReturn` and `HandledNeverRegresses`. The inductive invariant `Inv` adds
what these leave unsaid:

* `QueueInv` - the queue has no duplicates and holds exactly the dirty keys that
  are not being processed. Without it an Add could be mistaken for a duplicate and
  an update be lost, and Get could hand out a key that a worker has.
* `WorkerInv` - processing is exactly the busy workers' keys, one worker each.
* `ShutdownInv` - the phase of Run fits the workers, and the last worker to leave
  leaves an empty queue. (That a worker may leave while another one will push a
  key back is why the statement is about the last one.)
* `VersionInv`, `SnapshotInv` - results are not newer than the snapshots under way,
  snapshots not newer than the cache, and a snapshot of the current revision agrees
  with it. `HandledNeverRegresses` and `NoGhostState` follow.
* `RetryInv` - a failure count at Done belongs to a key that comes back.

The step lemmas (`TypeStep`, `QueueStep`, `WorkerStep`, `ShutdownStep`,
`VersionStep`, `GhostStep`, `KeptStep`, `BudgetStep`) treat one part each, by
action; `Kept` restates `NoLostUpdate` for one key with the queue read through
its dirty set.

`LifecycleProofs` first proves the composition, `ProcessRunsController`: a step of
the process is a step of Controller or leaves the controller alone, so
`LifecycleSpec => Spec` and every theorem above holds inside the process
(`ProcessKeepsUpdates` is one). On top of Controller's invariant the process needs
`PoolInv` (no worker is busy before Run starts or after it has returned), `MainInv`
(main leaves "run" only after Run has returned, with the broadcaster shut) and
`ReadyInv` (the flag is set only after the sync); `NoEventLost`, `CleanExit` and
`ReadyMeansSynced` follow.

`AlertPipelineProofs` proves, for any objects, alerts, rule outcomes, resend
interval and grace period, the type invariant, `DedupMatchesActive`,
`SentWhenDue` and the refinement `ImplementsBook`. The invariant adds
`OwnInv` (a reconcile handles alerts of its own object, so other objects' reconciles
cannot interfere), `FiredInv` (alerts fired but not tracked exist only inside
`deliver`), `RecordInv` (a dedup record is the last delivery of an unresolved
problem; without one the alert was never delivered or is resolved), `GraceInv` (the
grace period starts with the first reconcile without the alert), `ResultsInv` (the
tracked, firing alerts of an object are those of its last completed reconcile),
`QuietInv` (only tracked alerts are in their grace period) and `AtInv` (the time a
reconcile took is not in the future). `SentWhenDue` is `RecordInv` seen by the
step that fires. The refinement maps `FireHead` to `Notify` or to nothing, `Settle`
to `Review` at the time the reconcile took, `ClearObject` to `Gone`, and everything
else but the clock to a step in which nothing is sent.

The same module proves `GaugeLagsOnlyTurned`. A step of the poller leaves
AlertPipeline's variables alone, so its invariant holds beside the poller too, and
`ResultsInv` says that the count under the mutex is exact. `GaugeInv` carries that
through the unlock: the number counted is right but for the Pods that have turned
since, a settling reconcile adds its Pod to those, and the Set hands number and
exception on to the gauge.

`ListWatchProofs` proves, for any Pods and any number of changes, the type invariant,
`InSync` and `NeverBackwards`. The invariant adds that revisions in the history grow
with the resource version and that the place in the loop fits what is left to replay:
the replay may only overwrite an entry by the revision of the list, which is at
least what the stream had shown.

`RestartTrackerProofs` proves, for any Pods and containers, any window, threshold
and sequence of observations, the type invariant, `BurstMatchesHistory` and
`TracksObserved`. The invariant adds `HistoryInv`: the history of each container
`Remembers` its observations, that is, it has their last count and a one-to-one
numbering of the increases within the window of the last one. That is inductive
(`ObserveRemembers`) although `observe` prunes each time, because the clock does not
go back: what was outside the window once is outside it for ever. Counting the
numbering gives the burst verdict. `PrefixSelectsPod` is the reason that `forgetPod`
takes the right keys: a key has exactly two slashes, so a Pod's key with a slash after
it is a prefix only of its own containers' keys.

`RuleTableProofs` proves `PodMatchesTable`, `NodeMatchesTable` and
`TimeOnlyAddsAlerts` for Pods with any number of containers and Nodes with any
conditions. `Lists(s, K)` says that the alerts `s` have the keys `K`, each once.
`AddRule` extends such a list by one rule, `ContainerRows` and `ConditionRows` apply
it to the bodies of the two loops, and `FlattenLists` joins the containers, whose keys
are disjoint because their names differ.

`PodReconcilerProofs` proves, for any thresholds, window and resync period, the type
invariant and `NoticedInTime`. The invariant adds `Pace` (the last reconcile is at most
a resync period old) and `FoundStuck` (a reconcile later than the grace period of a Pod
that still waits has left the alert): the Pod cannot have come back to waiting after
that reconcile, and one created since is younger than it.

`LoopTheorems` is where induction happens. The library's induction theorems take a
predicate as a parameter, which the provers cannot instantiate; but the strict subset
order on finite sets is well-founded (`FS_StrictSubsetOrderingWellFounded`), `WFMin`
gives a minimal element of a *set*, and applied to the intervals `0..n` this says that
the rounds at which a claim fails have a first one (`SmallestElement`, `Rounds`).
From it follow that the recursive functions in the models are well defined
(`FilterDefined`, `FlattenDefined`) and what they compute: the filter of `observe`
keeps each element after the cutoff once (`FilterLoop`), and appending slices gathers
each element once (`FlattenLoop`).

Assumptions, in the modules that declare the constants. `ControllerAssumption`,
`LifecycleAssumption`, `PipelineAssumption`, `ListWatchAssumption`,
`PodsAssumption`, `HistoryAssumption`, `TrackerAssumption`, `ThresholdsAssumption` and
`ReconcilerAssumption` give the constants their types. The intervals are
positive: zero would make every resend due and every grace period over, which the
program's defaults exclude. `NamesAssumption` (a Pod's key has one slash, a container's
name none) and `UniverseAssumption` (the containers of a Pod have different names;
statuses and conditions have the API's types) say what the API server enforces before
the program sees an object. TLC evaluates all of them on the runs' instances.

Only model-checked: the liveness properties `EventuallyHandled`, `SignalExits`,
`DetectedIsReported`, `ClearingEnds`, `GaugeComesDown`, `EventuallyShown`, `CancelEnds`,
`StuckPendingNoticed` and `RecoveredClears`, because fairness is outside the prover's
reach. Every safety property of a passing run is proved.

## Not modelled

Messages, log records and the fields of an Event; the Prometheus registry, its
adapters and the collectors that only report (error and latency counters, the two
gauges that count the caches); what client-go does with an Event after the broadcaster
has accepted it, so whether it is posted before the process exits is open; flags,
kubeconfig and REST configuration, beyond the fact that set-up can fail; the TLS
configuration, URL and headers of `internal/k8sclient`; init containers (the rules do
not read them). Back-off is "some time later". `forget` and `ActiveKeys` have no
callers. The clock is monotonic, as Go's is within a process. The process keeps
nothing across a restart; a restart is the initial state with a cluster that is
already running, which RestartTracker's `Appear` covers.

## Plan

Done: WorkQueue, Controller, Lifecycle, AlertBook, AlertPipeline, UnhealthyGauge, RestartHistory,
RestartTracker, Reliability, RuleTable, PodReconciler, ListWatch, and the proofs of all
their safety properties, with the refinement of AlertBook by AlertPipeline.

Next, in this order:

1. **Sentinel** - Controller and AlertPipeline composed, so that the serialisation
   AlertPipeline assumes is discharged and "a change leads to its alert" is stated
   end to end.
2. A deadline for recovery, as `NoticedInTime` is one for stuck Pods: the safety half
   of `RecoveredClears`, which a proof can reach.
