--------------------------- MODULE RestartHistory ---------------------------
(***************************************************************************)
(* The operators of internal/watcher/restart_tracker.go and util.go: what  *)
(* one observation does to the history of a container, and which histories *)
(* belong to a Pod.                                                        *)
(*                                                                         *)
(* The tracker's keys are strings, "namespace/name/container", and         *)
(* forgetPod selects them by prefix.  A key is a sequence of tokens here,  *)
(* fine enough for one Pod name to be a prefix of another.                 *)
(***************************************************************************)
EXTENDS Integers, SequencesExt

CONSTANTS
  Window,      \* restartTracker.window
  Threshold    \* restartTracker.threshold; 0 disables the detector

ASSUME HistoryAssumption == Window \in Nat \ {0} /\ Threshold \in Nat

ContainerKey(p, c) == p \o <<"/", c>>

\* Slip: the prefix is compared without its trailing slash.
MatchesPodNoSlash(ck, p) == IsPrefix(p, ck)

\* podContainerKeyMatchesPod
MatchesPod(ck, p) == IsPrefix(p \o <<"/">>, ck)

\* What a lookup of a key the map does not hold returns.
NoHistory == [lastCount |-> 0, increments |-> <<>>]

\* Slip: an increment exactly Window old still counts.
PruneInclusive(times, t) == SelectSeq(times, LAMBDA s : s >= t - Window)

\* The loop that keeps the increments still within the window at t: strictly
\* after the cutoff.
Prune(times, t) ==
  LET kept[i \in 0..Len(times)] ==
        IF i = 0 THEN <<>>
        ELSE IF times[i] > t - Window THEN Append(kept[i - 1], times[i]) ELSE kept[i - 1]
  IN  kept[Len(times)]

\* Slip: the reported count is added to the last one.
ObserveAccumulates(h, n, t) ==
  [lastCount  |-> h.lastCount + n,
   increments |-> Prune(IF n > h.lastCount THEN Append(h.increments, t)
                                           ELSE h.increments, t)]

\* observe: the history of a container that reports n restarts at time t.
Observe(h, n, t) ==
  [lastCount  |-> n,
   increments |-> Prune(IF n > h.lastCount THEN Append(h.increments, t)
                                           ELSE h.increments, t)]

\* The burst verdict of observe.
IsBurst(h) == Len(h.increments) >= Threshold
=============================================================================
