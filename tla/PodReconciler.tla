--------------------------- MODULE PodReconciler ---------------------------
(***************************************************************************)
(* Controller.reconcilePod (internal/watcher/controller.go) on one Pod     *)
(* that lives through creation, image pull trouble, crashes, restarts,     *)
(* recovery, deletion and re-creation under the same name: the composition *)
(* of the rule engine (Reliability) and the burst detector                 *)
(* (RestartHistory).  What happens to the computed alerts is module        *)
(* AlertPipeline.                                                          *)
(***************************************************************************)
EXTENDS Reliability, RestartHistory

CONSTANTS
  ResyncPeriod,   \* Options.ResyncPeriod
  MaxCount,       \* bound: restarts of the container
  MaxTime         \* bound: the clock

ASSUME ReconcilerAssumption ==
  /\ ResyncPeriod \in Nat \ {0}
  /\ MaxCount \in Nat
  /\ MaxTime \in Nat

VARIABLES
  now,           \* the clock
  exists,        \* the informer cache holds the Pod
  pod,           \* the Pod in the cache
  seen,          \* restartTracker.seen: by container name
  alerts,        \* the alerts the last reconcile handed to deliver
  judged,        \* history: the Pod the last reconcile read was being deleted
  reconciledAt   \* when the last reconcile ran

vars == <<now, exists, pod, seen, alerts, judged, reconciledAt>>
controllerVars == <<seen, alerts, judged, reconciledAt>>

App == pod.containers[1]

NewPod(t) ==
  [phase |-> "Pending", created |-> t, deleting |-> FALSE,
   containers |-> << [name |-> "app", waiting |-> "ContainerCreating", terminated |-> "",
                      lastTerminated |-> "", restartCount |-> 0, ready |-> FALSE] >>]

AppStatus ==
  [name : {"app"}, waiting : WaitingReasons, terminated : TerminationReasons,
   lastTerminated : TerminationReasons, restartCount : 0..MaxCount, ready : BOOLEAN]

PodAlerts ==
  [reason : {"CrashLoopBackOff", "ImagePullError", "OOMKilled", "HighRestartCount",
             "PodStuckPending", "RapidRestart"},
   severity : {"Critical", "Warning"}, container : {"app", ""}]

TypeOK ==
  /\ now \in 0..MaxTime
  /\ exists \in BOOLEAN
  /\ pod \in [phase : Phases, created : 0..now, deleting : BOOLEAN, containers : Seq(AppStatus)]
  /\ Len(pod.containers) = 1
  /\ DOMAIN seen \subseteq {"app"}
  /\ seen \in [DOMAIN seen -> [lastCount : 0..MaxCount, increments : Seq(0..now)]]
  /\ alerts \in Seq(PodAlerts)
  /\ judged \in BOOLEAN
  /\ reconciledAt \in 0..now

Init ==
  /\ now = 0
  /\ exists = FALSE
  /\ pod = NewPod(0)
  /\ seen = <<>>
  /\ alerts = <<>>
  /\ judged = FALSE
  /\ reconciledAt = 0

-----------------------------------------------------------------------------
(* The cluster: the kubelet and the scheduler write the Pod's status. *)

\* A cache without the Pod is not resynced; for a Pod it holds, the next resync
\* is never further away than ResyncPeriod.
Tick ==
  /\ now < MaxTime
  /\ exists => now - reconciledAt < ResyncPeriod
  /\ now' = now + 1
  /\ reconciledAt' = IF exists THEN reconciledAt ELSE now'
  /\ UNCHANGED <<exists, pod, seen, alerts, judged>>

\* Bound: a Pod lives for at least one instant, so that a behaviour re-creates it
\* finitely often.
OldEnough == pod.created < now

\* A Pod is created, possibly in place of one whose deletion is not reconciled yet.
CreatePod ==
  /\ exists => OldEnough
  /\ exists' = TRUE
  /\ pod' = NewPod(now)
  /\ UNCHANGED <<now, controllerVars>>

RemovePod ==
  /\ exists
  /\ OldEnough
  /\ exists' = FALSE
  /\ UNCHANGED <<now, pod, controllerVars>>

\* The status of a Pod that is in the cache is updated.
Update(new) ==
  /\ exists
  /\ pod' = new
  /\ UNCHANGED <<now, exists, controllerVars>>

SetStatus(cs, phase) == Update([pod EXCEPT !.containers = <<cs>>, !.phase = phase])

MarkDeleting == ~pod.deleting /\ Update([pod EXCEPT !.deleting = TRUE])

PullFails ==
  /\ App.waiting = "ContainerCreating"
  /\ SetStatus([App EXCEPT !.waiting = "ErrImagePull"], pod.phase)

Start ==
  /\ pod.phase = "Pending"
  /\ SetStatus([App EXCEPT !.waiting = ""], "Running")

BecomeReady ==
  /\ pod.phase = "Running" /\ App.waiting = "" /\ App.terminated = "" /\ ~App.ready
  /\ SetStatus([App EXCEPT !.ready = TRUE], pod.phase)

Crash ==
  /\ pod.phase = "Running" /\ App.waiting = "" /\ App.terminated = ""
  /\ \E reason \in {"OOMKilled", "Error"} :
       SetStatus([App EXCEPT !.terminated = reason, !.ready = FALSE], pod.phase)

BackOff ==
  /\ App.terminated # ""
  /\ SetStatus([App EXCEPT !.waiting = "CrashLoopBackOff", !.terminated = "",
                           !.lastTerminated = App.terminated], pod.phase)

RestartContainer ==
  /\ App.terminated # "" \/ App.waiting = "CrashLoopBackOff"
  /\ App.restartCount < MaxCount
  /\ SetStatus([App EXCEPT !.waiting = "", !.terminated = "",
                           !.lastTerminated = IF App.terminated # "" THEN App.terminated ELSE @,
                           !.restartCount = @ + 1], pod.phase)

Cluster ==
  \/ CreatePod \/ RemovePod \/ MarkDeleting \/ PullFails \/ Start
  \/ BecomeReady \/ Crash \/ BackOff \/ RestartContainer

-----------------------------------------------------------------------------
(* The controller. *)

ContainerNames(p) == {p.containers[i].name : i \in DOMAIN p.containers}

HistoryOf(c) == IF c \in DOMAIN seen THEN seen[c] ELSE NoHistory

\* The tracker after it has observed every container of p.
ObservePod(p, t) ==
  [c \in DOMAIN seen \cup ContainerNames(p) |->
     IF c \in ContainerNames(p)
     THEN LET i == CHOOSE j \in DOMAIN p.containers : p.containers[j].name = c
          IN  Observe(HistoryOf(c), p.containers[i].restartCount, t)
     ELSE seen[c]]

\* rapidRestartAlerts, given the tracker's new state.  It does not look at the
\* Pod's deletion timestamp.
RapidRestartAlerts(p, h) ==
  IF Threshold = 0 THEN <<>>
  ELSE FlattenSeq([i \in DOMAIN p.containers |->
         When(IsBurst(h[p.containers[i].name]),
              Alert("RapidRestart", "Critical", p.containers[i].name))])

\* reconcilePod of a Pod that is in the cache.
Reconcile ==
  /\ exists
  /\ seen' = IF Threshold = 0 THEN seen ELSE ObservePod(pod, now)
  /\ alerts' = EvaluatePod(pod, now) \o RapidRestartAlerts(pod, seen')
  /\ judged' = pod.deleting
  /\ reconciledAt' = now
  /\ UNCHANGED <<now, exists, pod>>

\* reconcilePod of a Pod that is not: clearObject and forgetPod.
ReconcileMissing ==
  /\ ~exists
  /\ seen' = <<>>
  /\ alerts' = <<>>
  /\ UNCHANGED <<now, exists, pod, judged, reconciledAt>>

Next == Tick \/ Cluster \/ Reconcile \/ ReconcileMissing

\* Time passes; a cached Pod is reconciled again and again (resync), a removed one
\* for its delete event.
Fairness == WF_vars(Tick) /\ WF_vars(Reconcile) /\ WF_vars(ReconcileMissing)

Spec == Init /\ [][Next]_vars
FairSpec == Spec /\ Fairness

-----------------------------------------------------------------------------
(* Correctness. *)

AlertReasons == {alerts[i].reason : i \in DOMAIN alerts}

\* The Pod waits for nothing the rules know, is not being deleted, and its grace
\* period ends a resync before the model's clock stops.
WillBeStuck ==
  /\ exists /\ ~pod.deleting
  /\ pod.phase = "Pending" /\ App.waiting = "ContainerCreating"
  /\ pod.created + PendingGracePeriod + ResyncPeriod <= MaxTime

\* Nothing changes in the cluster when a Pod has been Pending for too long, so no
\* event announces it; the resync alone makes the controller notice.
StuckPendingNoticed ==
  WillBeStuck ~> "PodStuckPending" \in AlertReasons \/ ~WillBeStuck

\* The same as a deadline: a Pod that waits for longer than its grace period and
\* one resync period is being alerted on, whatever the controller read before,
\* also when the Pod took the name of a deleted one in between.
NoticedInTime ==
  /\ exists /\ ~pod.deleting
  /\ pod.phase = "Pending" /\ App.waiting = "ContainerCreating"
  /\ now > pod.created + PendingGracePeriod + ResyncPeriod
  => "PodStuckPending" \in AlertReasons

Healthy == exists /\ pod.phase = "Running" /\ App.ready

\* What is left to say of a healthy Pod: that its last crash was an OOM kill.
LastingReasons ==
  {reason \in {"OOMKilled"} : ~pod.deleting /\ App.lastTerminated = reason}

\* A Pod that has recovered and stays healthy ends up with the alerts that outlast
\* a recovery and with no other, whatever its restart count: the restart burst ages
\* out of the window, the rules for waiting and restarting containers look at the
\* present, and the OOM rule reports the last termination until the container has
\* ended for another reason.
RecoveredClears ==
  Healthy /\ now + ResyncPeriod + Window <= MaxTime
    ~> AlertReasons = LastingReasons \/ ~Healthy

\* README.md:71-72: "a pod being deleted is never alerted on".
DeletedPodNeverAlerted == judged => alerts = <<>>
=============================================================================
