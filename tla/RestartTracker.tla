--------------------------- MODULE RestartTracker ---------------------------
(***************************************************************************)
(* internal/watcher/restart_tracker.go, the rapid-restart burst detector,  *)
(* and the way Controller.reconcilePod drives it: observe for every        *)
(* container in the status of a Pod that is in the cache, forgetPod for a  *)
(* Pod that is not.                                                        *)
(*                                                                         *)
(* Module RestartHistory has the detector's arithmetic; this one has the   *)
(* map it keeps, and the cluster it observes.                              *)
(***************************************************************************)
EXTENDS RestartHistory, FiniteSets

CONSTANTS
  Pods,         \* pod keys: token sequences for "namespace/name"
  Containers,   \* container names
  MaxCount,     \* bound: restart count of a container
  MaxTime,      \* bound: the clock
  MaxObs        \* bound: observations remembered at a time, over all containers

ASSUME TrackerAssumption ==
  /\ MaxCount \in Nat
  /\ MaxTime \in Nat
  /\ MaxObs \in Nat

\* A namespace, a Pod name and a container name have no slash in them: the API
\* server rejects such names.
ASSUME NamesAssumption ==
  /\ \A p \in Pods :
       /\ p \in Seq(STRING)
       /\ \E i \in 1..Len(p) : \A j \in 1..Len(p) : p[j] = "/" <=> j = i
  /\ Containers \subseteq STRING \ {"/"}

VARIABLES
  now,      \* the clock
  exists,   \* exists[p]: the informer cache holds Pod p
  count,    \* count[c]: the restartCount in p's status, by container key
  seen,     \* restartTracker.seen: a history for each container key it holds
  burst,    \* burst[c]: the result of the last observe of c
  obs       \* history: the observations of c since its Pod was last forgotten

vars == <<now, exists, count, seen, burst, obs>>

ContainerKeys == {ContainerKey(p, c) : p \in Pods, c \in Containers}

KeysOf(p) == {ContainerKey(p, c) : c \in Containers}

HistoryOf(ck) == IF ck \in DOMAIN seen THEN seen[ck] ELSE NoHistory

TypeOK ==
  /\ now \in 0..MaxTime
  /\ exists \in [Pods -> BOOLEAN]
  /\ count \in [ContainerKeys -> 0..MaxCount]
  /\ DOMAIN seen \subseteq ContainerKeys
  /\ seen \in [DOMAIN seen -> [lastCount : 0..MaxCount, increments : Seq(0..now)]]
  /\ burst \in [ContainerKeys -> BOOLEAN]
  /\ obs \in [ContainerKeys -> Seq([count : 0..MaxCount, time : 0..now])]

Init ==
  /\ now = 0
  /\ exists = [p \in Pods |-> FALSE]
  /\ count = [ck \in ContainerKeys |-> 0]
  /\ seen = <<>>
  /\ burst = [ck \in ContainerKeys |-> FALSE]
  /\ obs = [ck \in ContainerKeys |-> <<>>]

-----------------------------------------------------------------------------
(* The cluster. *)

Tick ==
  /\ now < MaxTime
  /\ now' = now + 1
  /\ UNCHANGED <<exists, count, seen, burst, obs>>

\* A Pod enters the cache: a new one starts from zero, one that was running when
\* the program started has any count.  It may replace a Pod of the same name
\* before the controller has reconciled the deletion.
Appear(p) ==
  /\ exists' = [exists EXCEPT ![p] = TRUE]
  /\ \E n \in 0..MaxCount :
       count' = [ck \in ContainerKeys |-> IF ck \in KeysOf(p) THEN n ELSE count[ck]]
  /\ UNCHANGED <<now, seen, burst, obs>>

Disappear(p) ==
  /\ exists[p]
  /\ exists' = [exists EXCEPT ![p] = FALSE]
  /\ UNCHANGED <<now, count, seen, burst, obs>>

\* The container restarts, possibly several times before the next observation.
Restart(ck) ==
  /\ \E p \in Pods : exists[p] /\ ck \in KeysOf(p)
  /\ count[ck] < MaxCount
  /\ count' = [count EXCEPT ![ck] = @ + 1]
  /\ UNCHANGED <<now, exists, seen, burst, obs>>

-----------------------------------------------------------------------------
(* The controller. *)

\* rapidRestartAlerts observes the containers with the keys in K.
ObserveAll(K) ==
  LET h == [ck \in K |-> Observe(HistoryOf(ck), count[ck], now)] IN
  /\ seen' = [ck \in DOMAIN seen \cup K |-> IF ck \in K THEN h[ck] ELSE seen[ck]]
  /\ burst' = [ck \in ContainerKeys |-> IF ck \in K THEN IsBurst(h[ck]) ELSE burst[ck]]
  /\ obs' = [ck \in ContainerKeys |->
               IF ck \in K THEN Append(obs[ck], [count |-> count[ck], time |-> now])
                           ELSE obs[ck]]

\* reconcilePod of a Pod that is in the cache.  Its status may list all of its
\* containers, some of them, or none.
ReconcileFound(p) ==
  /\ Threshold > 0
  /\ exists[p]
  /\ MapThenSumSet(LAMBDA ck : Len(obs[ck]), ContainerKeys) < MaxObs
  /\ \E listed \in SUBSET KeysOf(p) : ObserveAll(listed)
  /\ UNCHANGED <<now, exists, count>>

\* reconcilePod of a Pod that is not: forgetPod.
ReconcileMissing(p) ==
  /\ ~exists[p]
  /\ seen' = [ck \in {c \in DOMAIN seen : ~MatchesPod(c, p)} |-> seen[ck]]
  /\ burst' = [ck \in ContainerKeys |-> burst[ck] /\ ck \notin KeysOf(p)]
  /\ obs' = [ck \in ContainerKeys |-> IF ck \in KeysOf(p) THEN <<>> ELSE obs[ck]]
  /\ UNCHANGED <<now, exists, count>>

Next ==
  \/ Tick
  \/ \E p \in Pods : Appear(p) \/ Disappear(p) \/ ReconcileFound(p) \/ ReconcileMissing(p)
  \/ \E ck \in ContainerKeys : Restart(ck)

Spec == Init /\ [][Next]_vars

-----------------------------------------------------------------------------
(* Correctness. *)

\* The observations of a container, by index, that saw a higher count than the
\* one before; before is what the first one is compared with.
Increases(o, before) ==
  {i \in DOMAIN o : o[i].count > IF i = 1 THEN before ELSE o[i - 1].count}

\* Those that lie within the window of the last observation.
InWindow(o, before) ==
  {i \in Increases(o, before) : o[i].time > o[Len(o)].time - Window}

\* The detector forgets as it goes and still answers as if it had kept every
\* observation: a burst is reported exactly when at least Threshold observations
\* within the window saw an increase, over resyncs, counter resets, recreated
\* Pods and forgets of other Pods.
BurstMatchesHistory ==
  \A ck \in ContainerKeys :
    obs[ck] # <<>> => (burst[ck] <=> Cardinality(InWindow(obs[ck], 0)) >= Threshold)

\* The tracker holds a history for exactly the containers observed since their
\* Pod was last found missing: nothing leaks after a deletion, and the deletion
\* of one Pod leaves the history of every other, also of one whose name extends
\* the deleted one's.
TracksObserved == DOMAIN seen = {ck \in ContainerKeys : obs[ck] # <<>>}

\* internal/watcher/controller.go:46-48: "this many observed restart-count
\* increases within this window fires a RapidRestart alert"; an increase is
\* observed when an observation shows a higher count than the one before it.
BurstNeedsObservedIncreases ==
  \A ck \in ContainerKeys :
    burst[ck] => Cardinality(InWindow(obs[ck], obs[ck][1].count)) >= Threshold
=============================================================================
