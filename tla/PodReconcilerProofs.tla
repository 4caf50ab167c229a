------------------------ MODULE PodReconcilerProofs ------------------------
(***************************************************************************)
(* Proofs about PodReconciler, for any thresholds, window and resync       *)
(* period: types, and the deadline by which a Pod that is stuck Pending is *)
(* being alerted on.                                                       *)
(***************************************************************************)
EXTENDS PodReconciler, LoopTheorems

-----------------------------------------------------------------------------
(* The operators of the detector and of the rule engine. *)

\* Pruning dates nothing that was not dated so.
LEMMA PruneType ==
  ASSUME NEW T \in SUBSET Nat, NEW s \in Seq(T), NEW t \in Nat
  PROVE  Prune(s, t) \in Seq(T)
<1> DEFINE k == Prune(s, t)
<1>1. \A j \in 1..Len(s) : s[j] \in T
  OBVIOUS
<1>2. s \in Seq(Int) /\ t - Window \in Int
  <2>1. \A x \in T : x \in Int
    OBVIOUS
  <2>2. \A j \in 1..Len(s) : s[j] \in Int
    BY <1>1, <2>1
  <2> QED
    BY <2>2, HistoryAssumption
<1>3. Keeps(s, t - Window, Len(s), k)
  BY <1>2, FilterLoop DEF Prune
<1>4. PICK g : /\ Numbers(g, Len(k), {i \in 1..Len(s) : s[i] > t - Window})
               /\ \A j \in 1..Len(k) : k[j] = s[g[j]]
  BY <1>3 DEF Keeps
<1>5. k \in Seq(Int)
  BY <1>3 DEF Keeps
<1> HIDE DEF k
<1>6. \A j \in 1..Len(k) : k[j] \in T
  BY <1>1, <1>4 DEF Numbers
<1>7. k \in Seq(T)
  BY <1>5, <1>6
<1> QED
  BY <1>7 DEF k

\* An observation leaves a history of the observed count and of instants so far.
LEMMA ObserveType ==
  ASSUME NEW C \in SUBSET Nat, NEW T \in SUBSET Nat,
         NEW h \in [lastCount : C, increments : Seq(T)], NEW n \in C, NEW t \in T
  PROVE  Observe(h, n, t) \in [lastCount : C, increments : Seq(T)]
<1> DEFINE s == IF n > h.lastCount THEN Append(h.increments, t) ELSE h.increments
<1>1. s \in Seq(T) /\ t \in Nat
  OBVIOUS
<1>2. Observe(h, n, t) = [lastCount |-> n, increments |-> Prune(s, t)]
  BY DEF Observe
<1> HIDE DEF s
<1>3. Prune(s, t) \in Seq(T)
  BY <1>1, PruneType
<1> QED
  BY <1>2, <1>3

\* A rule appends an alert or nothing.
LEMMA WhenType ==
  ASSUME NEW S, NEW b, NEW a \in S
  PROVE  When(b, a) \in Seq(S)
<1>1. <<a>> \in Seq(S) /\ <<>> \in Seq(S)
  OBVIOUS
<1> QED
  BY <1>1, Zenon DEF When

\* Two lists of alerts, one after the other.
LEMMA ConcatType ==
  ASSUME NEW S, NEW s \in Seq(S), NEW t \in Seq(S)
  PROVE  s \o t \in Seq(S)
OBVIOUS

\* The loops over the container statuses append alerts to alerts.
LEMMA FlattenType ==
  ASSUME NEW S, NEW seqs \in Seq(Seq(S))
  PROVE  FlattenSeq(seqs) \in Seq(S)
BY FlattenLoop DEF Gathers

\* A list by its elements.
LEMMA FunctionIsSeq ==
  ASSUME NEW S, NEW f \in [1..1 -> S]
  PROVE  f \in Seq(S)
<1>1. f = [i \in 1..1 |-> f[i]] /\ \A i \in 1..1 : f[i] \in S
  OBVIOUS
<1>2. [i \in 1..1 |-> f[i]] \in Seq(S)
  BY <1>1
<1> QED
  BY <1>1, <1>2

\* The alerts of one container.
LEMMA ContainerAlertsType ==
  ASSUME NEW cs \in AppStatus
  PROVE  ContainerAlerts(cs) \in Seq(PodAlerts)
<1> DEFINE w1 == When(cs.waiting = "CrashLoopBackOff", Alert("CrashLoopBackOff", "Critical", cs.name))
           w2 == When(ImagePullFailing(cs), Alert("ImagePullError", "Warning", cs.name))
           w3 == When(OomTermination(cs), Alert("OOMKilled", "Critical", cs.name))
           w4 == When(HighRestarts(cs), Alert("HighRestartCount", "Warning", cs.name))
<1>1. /\ Alert("CrashLoopBackOff", "Critical", cs.name) \in PodAlerts
      /\ Alert("ImagePullError", "Warning", cs.name) \in PodAlerts
      /\ Alert("OOMKilled", "Critical", cs.name) \in PodAlerts
      /\ Alert("HighRestartCount", "Warning", cs.name) \in PodAlerts
  BY DEF Alert, PodAlerts, AppStatus
<1>2. w1 \in Seq(PodAlerts) /\ w2 \in Seq(PodAlerts) /\ w3 \in Seq(PodAlerts) /\ w4 \in Seq(PodAlerts)
  BY <1>1, WhenType
<1> HIDE DEF w1, w2, w3, w4
<1>3. w1 \o w2 \in Seq(PodAlerts)
  BY <1>2, ConcatType
<1>4. w1 \o w2 \o w3 \in Seq(PodAlerts)
  BY <1>2, <1>3, ConcatType
<1>5. w1 \o w2 \o w3 \o w4 \in Seq(PodAlerts)
  BY <1>2, <1>4, ConcatType
<1> QED
  BY <1>5 DEF ContainerAlerts, w1, w2, w3, w4

\* The Pods of the model.
PodType(t) ==
  {p \in [phase : Phases, created : 0..t, deleting : BOOLEAN, containers : Seq(AppStatus)] :
     Len(p.containers) = 1}

\* A Pod starts out waiting.
LEMMA NewPodType ==
  ASSUME NEW t \in Nat
  PROVE  NewPod(t) \in PodType(t) /\ NewPod(t).created = t
<1> DEFINE cs == [name |-> "app", waiting |-> "ContainerCreating", terminated |-> "",
                  lastTerminated |-> "", restartCount |-> 0, ready |-> FALSE]
<1>1. cs \in AppStatus
  BY ReconcilerAssumption DEF AppStatus, WaitingReasons, TerminationReasons
<1>2. NewPod(t) = [phase |-> "Pending", created |-> t, deleting |-> FALSE, containers |-> <<cs>>]
  BY DEF NewPod
<1> HIDE DEF cs
<1>3. <<cs>> \in Seq(AppStatus) /\ Len(<<cs>>) = 1
  BY <1>1
<1> QED
  BY <1>2, <1>3 DEF PodType, Phases

\* What the loop over the containers appends.
ContainerPart(p) == FlattenSeq([i \in DOMAIN p.containers |-> ContainerAlerts(p.containers[i])])

\* The fields of such a Pod.
LEMMA PodParts ==
  ASSUME NEW t, NEW p \in PodType(t)
  PROVE  /\ p.containers \in Seq(AppStatus) /\ DOMAIN p.containers = {1}
         /\ p.containers[1] \in AppStatus /\ p.containers[1].name = "app"
         /\ p.containers[1].restartCount \in 0..MaxCount
         /\ p.created \in 0..t /\ p.phase \in Phases /\ p.deleting \in BOOLEAN
<1>1. /\ p.containers \in Seq(AppStatus) /\ Len(p.containers) = 1
      /\ p.created \in 0..t /\ p.phase \in Phases /\ p.deleting \in BOOLEAN
  BY DEF PodType
<1>2. DOMAIN p.containers = {1} /\ p.containers[1] \in AppStatus
  BY <1>1
<1>3. \A cs \in AppStatus : cs.name = "app" /\ cs.restartCount \in 0..MaxCount
  BY DEF AppStatus
<1> QED
  BY <1>1, <1>2, <1>3

\* The alerts of the containers, and of the Pod.  (EvaluatePod)
LEMMA EvaluateType ==
  ASSUME NEW t, NEW p \in PodType(t), NEW n
  PROVE  ContainerPart(p) \in Seq(PodAlerts) /\ EvaluatePod(p, n) \in Seq(PodAlerts)
<1> DEFINE seqs == [i \in DOMAIN p.containers |-> ContainerAlerts(p.containers[i])]
           w == When(StuckPending(p, n), Alert("PodStuckPending", "Warning", ""))
<1>1. DOMAIN p.containers = 1..1 /\ p.containers[1] \in AppStatus
  BY PodParts
<1>2. ContainerAlerts(p.containers[1]) \in Seq(PodAlerts)
  BY <1>1, ContainerAlertsType
<1>3. seqs \in Seq(Seq(PodAlerts))
  <2>1. seqs \in [1..1 -> Seq(PodAlerts)]
    BY <1>1, <1>2
  <2> HIDE DEF seqs
  <2> QED
    BY <2>1, FunctionIsSeq
<1>4. ContainerPart(p) \in Seq(PodAlerts)
  <2> HIDE DEF seqs
  <2>1. FlattenSeq(seqs) \in Seq(PodAlerts)
    BY <1>3, FlattenType
  <2> QED
    BY <2>1 DEF ContainerPart, seqs
<1>5. w \in Seq(PodAlerts)
  <2>1. Alert("PodStuckPending", "Warning", "") \in PodAlerts
    BY DEF Alert, PodAlerts
  <2> QED
    BY <2>1, WhenType
<1> HIDE DEF w
<1>6. ContainerPart(p) \o w \in Seq(PodAlerts) /\ <<>> \in Seq(PodAlerts)
  BY <1>4, <1>5
<1>7. EvaluatePod(p, n) = IF p.deleting THEN <<>> ELSE ContainerPart(p) \o w
  BY DEF EvaluatePod, ContainerPart, w
<1> QED
  BY <1>4, <1>6, <1>7

\* The alerts of the detector.  (rapidRestartAlerts)
LEMMA RapidRestartType ==
  ASSUME NEW t, NEW p \in PodType(t), NEW h
  PROVE  RapidRestartAlerts(p, h) \in Seq(PodAlerts)
<1> DEFINE w(i) == When(IsBurst(h[p.containers[i].name]), Alert("RapidRestart", "Critical", p.containers[i].name))
           seqs == [i \in DOMAIN p.containers |-> w(i)]
<1>1. DOMAIN p.containers = 1..1 /\ p.containers[1].name = "app"
  BY PodParts
<1>2. w(1) \in Seq(PodAlerts)
  <2>1. Alert("RapidRestart", "Critical", p.containers[1].name) \in PodAlerts
    BY <1>1 DEF Alert, PodAlerts
  <2> QED
    BY <2>1, WhenType
<1>3. seqs \in Seq(Seq(PodAlerts))
  <2>1. seqs \in [1..1 -> Seq(PodAlerts)]
    <3> HIDE DEF w
    <3> QED
      BY <1>1, <1>2
  <2> HIDE DEF seqs
  <2> QED
    BY <2>1, FunctionIsSeq
<1>4. FlattenSeq(seqs) \in Seq(PodAlerts)
  <2> HIDE DEF seqs
  <2> QED
    BY <1>3, FlattenType
<1>5. <<>> \in Seq(PodAlerts)
  OBVIOUS
<1>6. RapidRestartAlerts(p, h) = IF Threshold = 0 THEN <<>> ELSE FlattenSeq(seqs)
  BY DEF RapidRestartAlerts
<1> QED
  BY <1>4, <1>5, <1>6

-----------------------------------------------------------------------------
(* The inductive invariant. *)

Waiting(p) ==
  ~p.deleting /\ p.phase = "Pending" /\ p.containers[1].waiting = "ContainerCreating"

\* The last reconcile is never further back than a resync period.
Pace == now - reconciledAt <= ResyncPeriod

\* A reconcile after the end of the grace period has found the Pod stuck: no step
\* but the creation of another Pod leads back to waiting.
FoundStuck ==
  exists /\ Waiting(pod) /\ reconciledAt > pod.created + PendingGracePeriod
  => "PodStuckPending" \in AlertReasons

Inv == TypeOK /\ Pace /\ FoundStuck

\* The Pod's type, in one piece.
LEMMA TypePod == TypeOK => pod \in PodType(now)
BY DEF TypeOK, PodType

\* Initially there is no Pod.
LEMMA InitInv == Init => Inv
<1> SUFFICES ASSUME Init PROVE Inv
  OBVIOUS
<1>1. pod = NewPod(0) /\ now = 0 /\ exists = FALSE /\ seen = <<>> /\ alerts = <<>>
      /\ judged = FALSE /\ reconciledAt = 0
  BY DEF Init
<1>2. NewPod(0) \in PodType(0)
  BY NewPodType
<1>3. DOMAIN seen = {} /\ seen \in [DOMAIN seen -> [lastCount : 0..MaxCount, increments : Seq(0..now)]]
  BY <1>1
<1>4. alerts \in Seq(PodAlerts)
  BY <1>1
<1>5. now \in 0..MaxTime /\ reconciledAt \in 0..now
  BY <1>1, ReconcilerAssumption
<1>6. TypeOK
  BY <1>1, <1>2, <1>3, <1>4, <1>5 DEF TypeOK, PodType
<1>7. Pace /\ FoundStuck
  BY <1>1, ReconcilerAssumption DEF Pace, FoundStuck
<1> QED
  BY <1>6, <1>7 DEF Inv

\* Time passes: a cached Pod is resynced in time.
LEMMA TickInv == Inv /\ Tick => Inv'
<1> SUFFICES ASSUME Inv, Tick PROVE Inv'
  OBVIOUS
<1>1. /\ now \in Nat /\ now' = now + 1 /\ now' \in 0..MaxTime /\ 0..now \subseteq 0..now'
      /\ reconciledAt \in 0..now /\ reconciledAt' \in 0..now'
      /\ UNCHANGED <<exists, pod, seen, alerts, judged>>
  BY ReconcilerAssumption DEF Inv, TypeOK, Tick
<1>2. TypeOK'
  <2>1. pod \in [phase : Phases, created : 0..now', deleting : BOOLEAN, containers : Seq(AppStatus)]
    BY <1>1 DEF Inv, TypeOK
  <2>2. Seq(0..now) \subseteq Seq(0..now')
    BY <1>1, SeqGrows
  <2>3. [lastCount : 0..MaxCount, increments : Seq(0..now)]
          \subseteq [lastCount : 0..MaxCount, increments : Seq(0..now')]
    BY <2>2
  <2>4. seen \in [DOMAIN seen -> [lastCount : 0..MaxCount, increments : Seq(0..now')]]
    BY <2>3 DEF Inv, TypeOK
  <2> QED
    BY <1>1, <2>1, <2>4 DEF Inv, TypeOK
<1>3. Pace'
  BY <1>1, ReconcilerAssumption DEF Inv, TypeOK, Tick, Pace
<1>4. FoundStuck'
  <2>1. CASE exists
    BY <1>1, <2>1 DEF Inv, FoundStuck, AlertReasons, Tick
  <2>2. CASE ~exists
    BY <1>1, <2>2 DEF FoundStuck
  <2> QED
    BY <2>1, <2>2
<1> QED
  BY <1>2, <1>3, <1>4 DEF Inv

\* A Pod enters the cache: it was created after the last reconcile, or with it.
LEMMA CreateInv == Inv /\ CreatePod => Inv'
<1> SUFFICES ASSUME Inv, CreatePod PROVE Inv'
  OBVIOUS
<1>1. pod' = NewPod(now) /\ now \in Nat /\ UNCHANGED <<now, seen, alerts, judged, reconciledAt>>
      /\ exists' = TRUE
  BY ReconcilerAssumption DEF Inv, TypeOK, CreatePod, controllerVars
<1>2. NewPod(now) \in PodType(now) /\ NewPod(now).created = now
  BY <1>1, NewPodType
<1>3. TypeOK'
  BY <1>1, <1>2 DEF Inv, TypeOK, PodType
<1>4. Pace'
  BY <1>1 DEF Inv, Pace
<1>5. FoundStuck'
  <2>1. reconciledAt \in 0..now
    BY DEF Inv, TypeOK
  <2>2. ~(reconciledAt > now + PendingGracePeriod)
    BY <1>1, <2>1, ThresholdsAssumption
  <2> QED
    BY <1>1, <1>2, <2>2 DEF FoundStuck
<1> QED
  BY <1>3, <1>4, <1>5 DEF Inv

\* A Pod leaves the cache.
LEMMA RemoveInv == Inv /\ RemovePod => Inv'
BY DEF Inv, RemovePod, controllerVars, TypeOK, Pace, FoundStuck

\* A status update that does not lead to waiting.
LEMMA UpdateInv ==
  ASSUME Inv, NEW new \in PodType(now), Update(new), ~Waiting(new)
  PROVE  Inv'
<1>1. pod' = new /\ UNCHANGED <<now, exists, seen, alerts, judged, reconciledAt>>
  BY DEF Update, controllerVars
<1>2. TypeOK'
  BY <1>1 DEF Inv, TypeOK, PodType
<1>3. Pace' /\ FoundStuck'
  BY <1>1 DEF Inv, Pace, FoundStuck
<1> QED
  BY <1>2, <1>3 DEF Inv

\* The kubelet's updates of the container status.
LEMMA StatusInv ==
  ASSUME Inv, NEW cs \in AppStatus, NEW phase \in Phases, SetStatus(cs, phase),
         cs.waiting # "ContainerCreating" \/ phase # "Pending"
  PROVE  Inv'
<1> DEFINE new == [pod EXCEPT !.containers = <<cs>>, !.phase = phase]
<1>1. pod \in PodType(now)
  BY TypePod DEF Inv
<1>2. <<cs>> \in Seq(AppStatus) /\ Len(<<cs>>) = 1 /\ <<cs>>[1] = cs
  OBVIOUS
<1>3. new \in PodType(now) /\ new.containers = <<cs>> /\ new.phase = phase
  BY <1>1, <1>2 DEF PodType
<1>4. Update(new)
  BY DEF SetStatus
<1> HIDE DEF new
<1>5. ~Waiting(new)
  BY <1>2, <1>3 DEF Waiting
<1> QED
  BY <1>3, <1>4, <1>5, UpdateInv

\* Whatever the cluster does.
LEMMA ClusterInv == Inv /\ Cluster => Inv'
<1> SUFFICES ASSUME Inv, Cluster PROVE Inv'
  OBVIOUS
<1>1. pod \in PodType(now) /\ App \in AppStatus /\ pod.phase \in Phases
  BY TypePod, PodParts DEF Inv, App
<1>2. App.restartCount \in 0..MaxCount /\ App.terminated \in TerminationReasons
  BY <1>1 DEF AppStatus
<1>3. CASE CreatePod
  BY <1>3, CreateInv
<1>4. CASE RemovePod
  BY <1>4, RemoveInv
<1>5. CASE MarkDeleting
  <2> DEFINE new == [pod EXCEPT !.deleting = TRUE]
  <2>1. new \in PodType(now) /\ new.deleting = TRUE
    BY <1>1 DEF PodType
  <2>2. Update(new)
    BY <1>5 DEF MarkDeleting
  <2> HIDE DEF new
  <2>3. ~Waiting(new)
    BY <2>1 DEF Waiting
  <2> QED
    BY <2>1, <2>2, <2>3, UpdateInv
<1>6. CASE PullFails
  <2> DEFINE cs == [App EXCEPT !.waiting = "ErrImagePull"]
  <2>1. cs \in AppStatus /\ cs.waiting = "ErrImagePull"
    BY <1>1 DEF AppStatus, WaitingReasons
  <2>2. SetStatus(cs, pod.phase)
    BY <1>6 DEF PullFails
  <2> HIDE DEF cs
  <2> QED
    BY <1>1, <2>1, <2>2, StatusInv
<1>7. CASE Start
  <2> DEFINE cs == [App EXCEPT !.waiting = ""]
  <2>1. cs \in AppStatus /\ cs.waiting = "" /\ "Running" \in Phases
    BY <1>1 DEF AppStatus, WaitingReasons, Phases
  <2>2. SetStatus(cs, "Running")
    BY <1>7 DEF Start
  <2> HIDE DEF cs
  <2> QED
    BY <2>1, <2>2, StatusInv
<1>8. CASE BecomeReady
  <2> DEFINE cs == [App EXCEPT !.ready = TRUE]
  <2>1. cs \in AppStatus
    BY <1>1 DEF AppStatus
  <2>2. SetStatus(cs, pod.phase) /\ pod.phase = "Running"
    BY <1>8 DEF BecomeReady
  <2> HIDE DEF cs
  <2> QED
    BY <1>1, <2>1, <2>2, StatusInv
<1>9. CASE Crash
  <2>1. PICK reason \in {"OOMKilled", "Error"} :
               SetStatus([App EXCEPT !.terminated = reason, !.ready = FALSE], pod.phase)
    BY <1>9 DEF Crash
  <2> DEFINE cs == [App EXCEPT !.terminated = reason, !.ready = FALSE]
  <2>2. cs \in AppStatus
    BY <1>1 DEF AppStatus, TerminationReasons
  <2>3. SetStatus(cs, pod.phase) /\ pod.phase = "Running"
    BY <1>9, <2>1 DEF Crash
  <2> HIDE DEF cs
  <2> QED
    BY <1>1, <2>2, <2>3, StatusInv
<1>10. CASE BackOff
  <2> DEFINE cs == [App EXCEPT !.waiting = "CrashLoopBackOff", !.terminated = "",
                               !.lastTerminated = App.terminated]
  <2>1. cs \in AppStatus /\ cs.waiting = "CrashLoopBackOff"
    BY <1>1, <1>2 DEF AppStatus, WaitingReasons, TerminationReasons
  <2>2. SetStatus(cs, pod.phase)
    BY <1>10 DEF BackOff
  <2> HIDE DEF cs
  <2> QED
    BY <1>1, <2>1, <2>2, StatusInv
<1>11. CASE RestartContainer
  <2> DEFINE cs == [App EXCEPT !.waiting = "", !.terminated = "",
                               !.lastTerminated = IF App.terminated # "" THEN App.terminated ELSE @,
                               !.restartCount = @ + 1]
  <2>1. App.restartCount + 1 \in 0..MaxCount
    <3>1. App.restartCount < MaxCount
      BY <1>11, Zenon DEF RestartContainer
    <3> QED
      BY <1>2, <3>1, ReconcilerAssumption
  <2>2. cs \in AppStatus /\ cs.waiting = ""
    BY <1>1, <1>2, <2>1 DEF AppStatus, WaitingReasons, TerminationReasons
  <2>3. SetStatus(cs, pod.phase)
    BY <1>11 DEF RestartContainer
  <2> HIDE DEF cs
  <2> QED
    BY <1>1, <2>2, <2>3, StatusInv
<1> QED
  BY <1>3, <1>4, <1>5, <1>6, <1>7, <1>8, <1>9, <1>10, <1>11 DEF Cluster

\* A Pod that waits past its grace period gets its alert from EvaluatePod.
LEMMA StuckFound ==
  ASSUME NEW t \in Nat, NEW p \in PodType(t), Waiting(p), t > p.created + PendingGracePeriod,
         NEW more \in Seq(PodAlerts), NEW all, all = EvaluatePod(p, t) \o more
  PROVE  \E i \in DOMAIN all : all[i].reason = "PodStuckPending"
<1> DEFINE a == Alert("PodStuckPending", "Warning", "")
           part == ContainerPart(p)
           n == Len(part) + 1
<1>1. p.created \in Nat /\ DOMAIN p.containers = {1}
  BY PodParts
<1>2. ~SawContainerWaitingAlert(p)
  BY <1>1 DEF SawContainerWaitingAlert, ImagePullFailing, Waiting
<1>3. StuckPending(p, t)
  <2>1. t - p.created >= PendingGracePeriod
    BY <1>1, ThresholdsAssumption
  <2> QED
    BY <1>2, <2>1 DEF StuckPending, Waiting
<1>4. EvaluatePod(p, t) = part \o <<a>>
  BY <1>3 DEF EvaluatePod, ContainerPart, When, Waiting
<1>5. part \in Seq(PodAlerts)
  BY EvaluateType
<1>6. a \in PodAlerts /\ a.reason = "PodStuckPending"
  BY DEF Alert, PodAlerts
<1> HIDE DEF part, a
<1>7. n \in DOMAIN (part \o <<a>> \o more) /\ (part \o <<a>> \o more)[n] = a
  BY <1>5, <1>6
<1> QED
  BY <1>4, <1>6, <1>7

\* A reconcile dates itself, and finds what it reads.  (reconcilePod)
LEMMA ReconcileInv == Inv /\ Reconcile => Inv'
<1> SUFFICES ASSUME Inv, Reconcile PROVE Inv'
  OBVIOUS
<1> DEFINE H == [lastCount : 0..MaxCount, increments : Seq(0..now)]
           more == RapidRestartAlerts(pod, seen')
<1>1. /\ pod \in PodType(now) /\ now \in Nat /\ UNCHANGED <<now, exists, pod>>
      /\ reconciledAt' = now /\ judged' = pod.deleting
  BY TypePod, ReconcilerAssumption DEF Inv, TypeOK, Reconcile
<1>2. /\ DOMAIN pod.containers = {1} /\ App.name = "app" /\ App.restartCount \in 0..MaxCount
      /\ pod.deleting \in BOOLEAN
  BY <1>1, PodParts DEF App
<1>3. ContainerNames(pod) = {"app"}
  BY <1>2 DEF ContainerNames, App
<1>4. DOMAIN seen' \subseteq {"app"} /\ seen' \in [DOMAIN seen' -> H]
  <2>1. DOMAIN seen \subseteq {"app"} /\ seen \in [DOMAIN seen -> H]
    BY DEF Inv, TypeOK
  <2>2. CASE Threshold = 0
    <3>1. seen' = seen
      BY <2>2 DEF Reconcile
    <3> QED
      BY <2>1, <3>1
  <2>3. CASE Threshold # 0
    <3> DEFINE j == CHOOSE k \in DOMAIN pod.containers : pod.containers[k].name = "app"
               o == Observe(HistoryOf("app"), App.restartCount, now)
    <3>1. j = 1
      BY <1>2 DEF App
    <3>2. HistoryOf("app") \in H
      <4>1. NoHistory \in H
        <5>1. 0 \in 0..MaxCount /\ <<>> \in Seq(0..now)
          BY ReconcilerAssumption
        <5> QED
          BY <5>1 DEF NoHistory
      <4> HIDE DEF H
      <4> QED
        BY <2>1, <4>1 DEF HistoryOf
    <3>3. o \in H
      <4>1. now \in 0..now /\ 0..now \in SUBSET Nat /\ 0..MaxCount \in SUBSET Nat
        BY <1>1, ReconcilerAssumption
      <4> QED
        BY <1>2, <3>2, <4>1, ObserveType
    <3>4. seen' = [c \in {"app"} |-> o]
      <4>1. seen' = ObservePod(pod, now)
        BY <2>3 DEF Reconcile
      <4>2. DOMAIN seen \cup ContainerNames(pod) = {"app"}
        BY <1>3, <2>1
      <4>3. \A c \in {"app"} : ObservePod(pod, now)[c] = o
        BY <1>3, <3>1, <4>2 DEF ObservePod, App
      <4>4. ObservePod(pod, now) = [c \in {"app"} |-> ObservePod(pod, now)[c]]
        BY <4>2 DEF ObservePod
      <4> HIDE DEF o
      <4> QED
        BY <4>1, <4>3, <4>4
    <3> HIDE DEF o, H
    <3> QED
      BY <3>3, <3>4
  <2> QED
    BY <2>2, <2>3
<1>5. alerts' = EvaluatePod(pod, now) \o more
  BY DEF Reconcile
<1>6. more \in Seq(PodAlerts) /\ EvaluatePod(pod, now) \in Seq(PodAlerts)
  BY <1>1, RapidRestartType, EvaluateType
<1> HIDE DEF more
<1>7. alerts' \in Seq(PodAlerts)
  BY <1>5, <1>6
<1>8. TypeOK'
  BY <1>1, <1>2, <1>4, <1>7 DEF Inv, TypeOK
<1>9. Pace'
  BY <1>1, ReconcilerAssumption DEF Pace
<1>10. FoundStuck'
  <2> SUFFICES ASSUME Waiting(pod), now > pod.created + PendingGracePeriod
               PROVE  "PodStuckPending" \in AlertReasons'
    BY <1>1 DEF FoundStuck, Waiting
  <2>1. \E i \in DOMAIN alerts' : alerts'[i].reason = "PodStuckPending"
    BY <1>1, <1>5, <1>6, StuckFound
  <2> QED
    BY <2>1 DEF AlertReasons
<1> QED
  BY <1>8, <1>9, <1>10 DEF Inv

\* A reconcile of a Pod that is gone forgets it.  (clearObject, forgetPod)
LEMMA MissingInv == Inv /\ ReconcileMissing => Inv'
<1> SUFFICES ASSUME Inv, ReconcileMissing PROVE Inv'
  OBVIOUS
<1>1. DOMAIN seen' = {} /\ seen' \in [DOMAIN seen' -> [lastCount : 0..MaxCount, increments : Seq(0..now)]]
  BY DEF ReconcileMissing
<1>2. alerts' \in Seq(PodAlerts)
  BY DEF ReconcileMissing
<1>3. TypeOK'
  BY <1>1, <1>2 DEF Inv, TypeOK, ReconcileMissing
<1>4. Pace' /\ FoundStuck'
  BY DEF Inv, Pace, FoundStuck, ReconcileMissing
<1> QED
  BY <1>3, <1>4 DEF Inv

\* Every step keeps the invariant.
LEMMA StepInv == Inv /\ [Next]_vars => Inv'
<1> SUFFICES ASSUME Inv, [Next]_vars PROVE Inv'
  OBVIOUS
<1>1. CASE UNCHANGED vars
  BY <1>1 DEF Inv, vars, TypeOK, Pace, FoundStuck, AlertReasons
<1> QED
  BY <1>1, TickInv, ClusterInv, ReconcileInv, MissingInv DEF Next

\* Hence it holds of every behaviour.
LEMMA InvHolds == Spec => []Inv
BY InitInv, StepInv, PTL DEF Spec

-----------------------------------------------------------------------------
(* The theorems. *)

\* The Pod, the tracker and the alerts of a reconcile have their types.
THEOREM TypeCorrect == Spec => []TypeOK
BY InvHolds, PTL DEF Inv

\* A Pod stuck Pending is being alerted on at the latest a resync period after its
\* grace period: whatever else happened, a reconcile of this very Pod has run.
THEOREM StuckPodNoticedInTime == Spec => []NoticedInTime
<1>1. Inv => NoticedInTime
  <2> SUFFICES ASSUME Inv, exists, Waiting(pod), now > pod.created + PendingGracePeriod + ResyncPeriod
               PROVE  "PodStuckPending" \in AlertReasons
    BY DEF NoticedInTime, Waiting, App
  <2>1. pod.created \in 0..now /\ reconciledAt \in 0..now /\ now \in 0..MaxTime
    BY DEF Inv, TypeOK
  <2>2. reconciledAt > pod.created + PendingGracePeriod
    BY <2>1, ReconcilerAssumption, ThresholdsAssumption DEF Inv, Pace
  <2> QED
    BY <2>2 DEF Inv, FoundStuck
<1> QED
  BY <1>1, InvHolds, PTL
=============================================================================
