--------------------------- MODULE ListWatchProofs ---------------------------
(* Proofs about ListWatch: type correctness, and what the handler is told. *)
EXTENDS ListWatch, TLAPS

\* Where the loop stands: a list is replayed, and a watch opened, at the resource
\* version of that list.
Position ==
  /\ todo # {} => pc = "replay"
  /\ pc \in {"replay", "watch"} => pos = listed

\* The server's history: a revision is a resource version of the past, and the
\* revisions of a Pod only grow.
History ==
  \A p \in Pods, j \in 0..rv :
    /\ cluster[j][p] <= j
    /\ \A i \in 0..j : cluster[j][p] = Absent \/ cluster[i][p] <= cluster[j][p]

\* The handler was told nothing that was not true at some moment up to pos.
Shown ==
  \A p \in Pods : view[p] = Absent \/ \E i \in 0..pos : view[p] = cluster[i][p]

Inv == TypeOK /\ Position /\ History /\ Shown /\ InSync

\* The initial state satisfies the invariant.
LEMMA InitInv == Init => Inv
<1> SUFFICES ASSUME Init PROVE Inv
  OBVIOUS
<1>1. 0..0 = {0} /\ 0 \in 0..MaxRV
  BY ListWatchAssumption
<1>2. cluster \in [0..0 -> [Pods -> 0..MaxRV]]
  BY <1>1 DEF Init, Absent
<1>3. \A p \in Pods : cluster[0][p] = 0
  BY <1>1 DEF Init, Absent
<1>4. TypeOK /\ Position
  BY <1>1, <1>2 DEF Init, TypeOK, PCs, Position, Absent
<1>5. History /\ Shown /\ InSync
  BY <1>1, <1>3 DEF Init, History, Shown, InSync, Absent
<1> QED
  BY <1>4, <1>5 DEF Inv

\* The types are preserved by every step.
LEMMA TypeStep == ASSUME Inv, [Next]_vars PROVE TypeOK'
<1> USE ListWatchAssumption DEF Inv, TypeOK, Absent
<1>1. ASSUME NEW p \in Pods, Change(p) PROVE TypeOK'
  <2>1. PICK r \in {rv + 1, Absent} :
          cluster' = [i \in 0..rv + 1 |->
            IF i = rv + 1 THEN [cluster[rv] EXCEPT ![p] = r] ELSE cluster[i]]
    BY <1>1 DEF Change
  <2>2. rv + 1 \in 0..MaxRV /\ rv' = rv + 1
    BY <1>1 DEF Change
  <2>3. [cluster[rv] EXCEPT ![p] = r] \in [Pods -> 0..MaxRV]
    BY <2>2
  <2>4. cluster' \in [0..rv' -> [Pods -> 0..MaxRV]]
    BY <2>1, <2>2, <2>3
  <2> QED
    BY <1>1, <2>2, <2>4 DEF Change, client
<1>2. ASSUME ListOK PROVE TypeOK'
  BY <1>2 DEF ListOK, ListPoints, server, PCs
<1>3. ASSUME Replay PROVE TypeOK'
  <2>1. PICK p \in todo : view' = [view EXCEPT ![p] = cluster[listed][p]]
                          /\ todo' = todo \ {p}
    BY <1>3 DEF Replay
  <2>2. cluster[listed][p] \in 0..MaxRV
    OBVIOUS
  <2>3. view' \in [Pods -> 0..MaxRV]
    BY <2>1, <2>2
  <2> QED
    BY <1>3, <2>1, <2>3 DEF Replay, server
<1>4. ASSUME StreamEvent PROVE TypeOK'
  <2>1. pos + 1 \in 0..rv
    BY <1>4 DEF StreamEvent
  <2>2. view' \in [Pods -> 0..MaxRV]
    BY <1>4, <2>1 DEF StreamEvent
  <2> QED
    BY <1>4, <2>1, <2>2 DEF StreamEvent, server
<1>5. CASE UNCHANGED vars
  BY <1>5 DEF vars, server, client
<1>6. CASE Cancel \/ ConnectionDies
  BY <1>6 DEF Cancel, ConnectionDies, server, client
<1>10. CASE Compact
  <2>1. compacted' \in 0..rv
    BY <1>10 DEF Compact
  <2> QED
    BY <1>10, <2>1 DEF Compact, client
<1>7. CASE CheckCtx \/ ReplayDone \/ WatchGone \/ StreamGone \/ Backoff
  <2>1. pc' \in PCs /\ alive' \in BOOLEAN
    BY <1>7 DEF CheckCtx, ReplayDone, WatchGone, StreamGone, Backoff, Relist, Goto, PCs
  <2>2. UNCHANGED <<server, ctxDone, listed, todo, pos, view>>
    BY <1>7 DEF CheckCtx, ReplayDone, WatchGone, StreamGone, Backoff, Relist, Goto, PCs
  <2> QED
    BY <2>1, <2>2 DEF server
<1>8. CASE Faults
  BY <1>8 DEF Faults, ListFails, WatchFails, StreamFails, StreamError, Goto, server, PCs
<1>9. CASE WatchOK
  BY <1>9 DEF WatchOK, StartPoint, server, PCs
<1> QED
  BY <1>1, <1>2, <1>3, <1>4, <1>5, <1>6, <1>7, <1>8, <1>9, <1>10
  DEF Next, Progress, Terminated

\* The loop's position is preserved by every step.
LEMMA PositionStep == ASSUME Inv, [Next]_vars PROVE Position'
<1> USE DEF Inv, Position
<1>1. ASSUME NEW p \in Pods, Change(p) PROVE Position'
  BY <1>1 DEF Change, client
<1>2. CASE UNCHANGED vars \/ Compact \/ Cancel \/ ConnectionDies
  BY <1>2 DEF vars, client, Compact, Cancel, ConnectionDies
<1>3. CASE CheckCtx \/ ReplayDone \/ WatchGone \/ StreamGone \/ Backoff
  BY <1>3 DEF CheckCtx, ReplayDone, WatchGone, StreamGone, Backoff, Relist, Goto
<1>4. CASE Faults
  BY <1>4 DEF Faults, ListFails, WatchFails, StreamFails, StreamError, Goto
<1>5. CASE ListOK \/ WatchOK \/ StreamEvent
  BY <1>5 DEF ListOK, WatchOK, StreamEvent, StartPoint
<1>6. CASE Replay
  BY <1>6 DEF Replay
<1> QED
  BY <1>1, <1>2, <1>3, <1>4, <1>5, <1>6 DEF Next, Progress, Terminated

\* A change of the namespace extends its history and rewrites none of it.
LEMMA ChangeExtends ==
  ASSUME Inv, NEW p \in Pods, Change(p)
  PROVE  /\ rv' = rv + 1
         /\ \A i \in 0..rv : cluster'[i] = cluster[i]
         /\ \A q \in Pods : \/ cluster'[rv + 1][q] = cluster[rv][q]
                            \/ cluster'[rv + 1][q] \in {rv + 1, Absent}
         /\ UNCHANGED <<compacted, ctxDone, client>>
<1> USE DEF Inv, TypeOK
<1>1. PICK r \in {rv + 1, Absent} :
        cluster' = [i \in 0..rv + 1 |->
          IF i = rv + 1 THEN [cluster[rv] EXCEPT ![p] = r] ELSE cluster[i]]
  BY DEF Change
<1>2. cluster'[rv + 1] = [cluster[rv] EXCEPT ![p] = r]
  BY <1>1
<1>3. cluster[rv] \in [Pods -> 0..MaxRV]
  OBVIOUS
<1>4. \A q \in Pods : cluster'[rv + 1][q] = IF q = p THEN r ELSE cluster[rv][q]
  BY <1>2, <1>3
<1>5. \A i \in 0..rv : cluster'[i] = cluster[i]
  BY <1>1
<1> QED
  BY <1>4, <1>5 DEF Change

\* Only a change of the namespace touches its history.
LEMMA HistoryFrame ==
  ASSUME [Next]_vars, ~\E p \in Pods : Change(p)
  PROVE  UNCHANGED <<rv, cluster>>
BY DEF Next, Progress, Faults, Terminated, vars, server, Compact, Cancel, ConnectionDies,
  CheckCtx, ListOK, ListFails, Replay, ReplayDone, WatchOK, WatchGone, WatchFails,
  StreamEvent, StreamGone, StreamFails, Backoff

\* The server's history keeps its shape.
LEMMA HistoryStep == ASSUME Inv, [Next]_vars PROVE History'
<1>1. CASE \E p \in Pods : Change(p)
  <2>1. PICK p \in Pods : Change(p)
    BY <1>1
  <2> SUFFICES ASSUME NEW q \in Pods, NEW j \in 0..rv'
               PROVE  /\ cluster'[j][q] <= j
                      /\ \A i \in 0..j : \/ cluster'[j][q] = Absent
                                         \/ cluster'[i][q] <= cluster'[j][q]
    BY DEF History
  <2>2. /\ rv' = rv + 1
        /\ \A i \in 0..rv : cluster'[i] = cluster[i]
        /\ \/ cluster'[rv + 1][q] = cluster[rv][q]
           \/ cluster'[rv + 1][q] \in {rv + 1, Absent}
    BY <2>1, ChangeExtends
  <2>3. rv \in Nat /\ \A i \in 0..rv : cluster[i][q] \in Nat
    BY DEF Inv, TypeOK
  <2>4. \A i \in 0..rv : cluster[i][q] <= i
    BY DEF Inv, History
  <2>5. \A m \in 0..rv : \A i \in 0..m : cluster[m][q] = Absent \/ cluster[i][q] <= cluster[m][q]
    BY DEF Inv, History
  <2>6. CASE j \in 0..rv
    BY <2>2, <2>3, <2>4, <2>5, <2>6
  <2>7. CASE j = rv + 1
    <3>1. CASE cluster'[rv + 1][q] = cluster[rv][q]
      BY <2>2, <2>3, <2>4, <2>5, <2>7, <3>1
    <3>2. CASE cluster'[rv + 1][q] \in {rv + 1, Absent}
      BY <2>2, <2>3, <2>4, <2>7, <3>2 DEF Absent
    <3> QED
      BY <2>2, <3>1, <3>2
  <2> QED
    BY <2>2, <2>3, <2>6, <2>7
<1>2. CASE ~\E p \in Pods : Change(p)
  BY <1>2, HistoryFrame DEF Inv, History
<1> QED
  BY <1>1, <1>2

\* The steps that change neither the history nor what the handler was told.
LEMMA QuietSteps ==
  ASSUME [Next]_vars, ~\E p \in Pods : Change(p), ~ListOK, ~Replay, ~WatchOK, ~StreamEvent
  PROVE  UNCHANGED <<rv, cluster, listed, todo, pos, view>>
BY DEF Next, Progress, Faults, Terminated, vars, server, client, Compact, Cancel,
  ConnectionDies, CheckCtx, ListFails, ReplayDone, WatchGone, WatchFails, StreamGone,
  StreamFails, StreamError, Relist, Backoff, Goto

\* What the handler was told stays something that was true.
LEMMA ShownStep == ASSUME Inv, [Next]_vars PROVE Shown'
<1> SUFFICES ASSUME NEW q \in Pods
             PROVE  view'[q] = Absent \/ \E i \in 0..pos' : view'[q] = cluster'[i][q]
  BY DEF Shown
<1>1. view[q] = Absent \/ \E i \in 0..pos : view[q] = cluster[i][q]
  BY DEF Inv, Shown
<1>2. pos \in 0..rv /\ listed \in 0..pos /\ rv \in Nat
      /\ view \in [Pods -> 0..MaxRV]
  BY DEF Inv, TypeOK
<1>3. CASE \E p \in Pods : Change(p)
  <2>1. (\A i \in 0..rv : cluster'[i] = cluster[i]) /\ UNCHANGED client
    BY <1>3, ChangeExtends
  <2> QED
    BY <2>1, <1>1, <1>2 DEF client
<1>4. CASE ListOK
  <2>1. pos' = rv /\ UNCHANGED <<cluster, view>>
    BY <1>4 DEF ListOK, ListPoints, server
  <2> QED
    BY <2>1, <1>1, <1>2
<1>5. CASE Replay
  <2>1. PICK p \in todo : view' = [view EXCEPT ![p] = cluster[listed][p]]
    BY <1>5 DEF Replay
  <2>2. UNCHANGED <<cluster, pos>>
    BY <1>5 DEF Replay, server
  <2>3. q = p => view'[q] = cluster[listed][q]
    BY <2>1, <1>2
  <2>4. q # p => view'[q] = view[q]
    BY <2>1, <1>2
  <2> QED
    BY <2>2, <2>3, <2>4, <1>1, <1>2
<1>6. CASE WatchOK
  BY <1>6, <1>1 DEF WatchOK, StartPoint, server, Inv, Position
<1>7. CASE StreamEvent
  <2>1. /\ pos' = pos + 1 /\ UNCHANGED cluster
        /\ view'[q] = IF cluster[pos + 1][q] # cluster[pos][q]
                      THEN cluster[pos + 1][q] ELSE view[q]
    BY <1>7 DEF StreamEvent, server
  <2> QED
    BY <2>1, <1>1, <1>2
<1> QED
  BY <1>1, <1>3, <1>4, <1>5, <1>6, <1>7, QuietSteps

\* The handler's copy stays in step with the namespace.
LEMMA InSyncStep == ASSUME Inv, [Next]_vars PROVE InSync'
<1> SUFFICES ASSUME NEW q \in Pods \ todo'
             PROVE  \/ view'[q] = cluster'[pos'][q]
                    \/ \A i \in listed'..pos' : cluster'[i][q] = Absent
  BY DEF InSync, MissedDeletion
<1>1. q \notin todo => \/ view[q] = cluster[pos][q]
                       \/ \A i \in listed..pos : cluster[i][q] = Absent
  BY DEF Inv, InSync, MissedDeletion
<1>2. pos \in 0..rv /\ listed \in 0..pos /\ rv \in Nat
      /\ view \in [Pods -> 0..MaxRV]
  BY DEF Inv, TypeOK
<1>3. CASE \E p \in Pods : Change(p)
  <2>1. (\A i \in 0..rv : cluster'[i] = cluster[i]) /\ UNCHANGED client
    BY <1>3, ChangeExtends
  <2> QED
    BY <2>1, <1>1, <1>2 DEF client
<1>4. CASE ListOK
  <2>1. /\ pos' = rv /\ listed' = rv /\ UNCHANGED cluster
        /\ todo' = {p \in Pods : cluster[rv][p] # Absent}
    BY <1>4 DEF ListOK, ListPoints, server
  <2> QED
    BY <2>1, <1>2
<1>5. CASE Replay
  <2>1. PICK p \in todo : /\ view' = [view EXCEPT ![p] = cluster[listed][p]]
                          /\ todo' = todo \ {p}
    BY <1>5 DEF Replay
  <2>2. UNCHANGED <<cluster, pos, listed>> /\ pos = listed
    BY <1>5 DEF Replay, server, Inv, Position
  <2>3. q = p => view'[q] = cluster[listed][q]
    BY <2>1, <1>2
  <2>4. q # p => view'[q] = view[q] /\ q \notin todo
    BY <2>1, <1>2
  <2> QED
    BY <2>2, <2>3, <2>4, <1>1
<1>6. CASE WatchOK
  BY <1>6, <1>1 DEF WatchOK, StartPoint, server, Inv, Position
<1>7. CASE StreamEvent
  <2>1. /\ pos' = pos + 1
        /\ view'[q] = IF cluster[pos + 1][q] # cluster[pos][q]
                      THEN cluster[pos + 1][q] ELSE view[q]
        /\ UNCHANGED <<cluster, listed, todo>>
    BY <1>7 DEF StreamEvent, server
  <2>2. CASE cluster[pos + 1][q] # cluster[pos][q]
    BY <2>1, <2>2
  <2>3. CASE cluster[pos + 1][q] = cluster[pos][q] /\ view[q] = cluster[pos][q]
    BY <2>1, <2>3
  <2>4. CASE /\ cluster[pos + 1][q] = cluster[pos][q]
             /\ \A i \in listed..pos : cluster[i][q] = Absent
    <3>1. \A i \in listed..pos + 1 : i \in listed..pos \/ i = pos + 1
      BY <1>2
    <3> QED
      BY <2>1, <2>4, <3>1, <1>2
  <2> QED
    BY <2>1, <2>2, <2>3, <2>4, <1>1
<1> QED
  BY <1>1, <1>3, <1>4, <1>5, <1>6, <1>7, QuietSteps

\* The invariant holds in every reachable state.
LEMMA Invariance == Spec => []Inv
<1>1. Inv /\ [Next]_vars => Inv'
  BY TypeStep, PositionStep, HistoryStep, ShownStep, InSyncStep DEF Inv
<1> QED
  BY InitInv, <1>1, PTL DEF Spec

\* TypeOK: every variable of the loop and of the server keeps its type; the
\* position of the watch never passes the server's resource version.
THEOREM TypeCorrect == Spec => []TypeOK
BY Invariance, PTL DEF Inv

\* InSync: for every set of Pods and every length of history, the handler's copy
\* is the namespace at resource version pos, but for items still to be replayed
\* and for Pods deleted while no watch was open.
THEOREM CopyInSync == Spec => []InSync
BY Invariance, PTL DEF Inv

\* The handler is never shown an older revision than before, in one step.
LEMMA NeverBackwardsStep ==
  ASSUME Inv, [Next]_vars
  PROVE  \A p \in Pods : view'[p] # Absent => view'[p] >= view[p]
<1> SUFFICES ASSUME NEW q \in Pods, view'[q] # Absent PROVE view'[q] >= view[q]
  OBVIOUS
<1>1. view[q] = Absent \/ \E i \in 0..pos : view[q] = cluster[i][q]
  BY DEF Inv, Shown
<1>2. /\ pos \in 0..rv /\ listed \in 0..pos /\ rv \in Nat
      /\ view[q] \in Nat /\ \A i \in 0..rv : cluster[i][q] \in Nat
  BY ListWatchAssumption DEF Inv, TypeOK
<1>3. ASSUME NEW n \in 0..rv, pos <= n, view'[q] = cluster[n][q] PROVE view'[q] >= view[q]
  BY <1>1, <1>2, <1>3 DEF Inv, History, Absent
<1>4. CASE UNCHANGED view
  BY <1>4, <1>2
<1>5. CASE Replay
  <2>1. PICK p \in todo : view' = [view EXCEPT ![p] = cluster[listed][p]]
    BY <1>5 DEF Replay
  <2>2. view'[q] = IF q = p THEN cluster[listed][q] ELSE view[q]
    BY <2>1 DEF Inv, TypeOK
  <2>3. pos = listed
    BY <1>5 DEF Replay, Inv, Position
  <2> QED
    BY <2>2, <2>3, <1>2, <1>3
<1>6. CASE StreamEvent
  <2>1. /\ pos < rv
        /\ view'[q] = IF cluster[pos + 1][q] # cluster[pos][q]
                      THEN cluster[pos + 1][q] ELSE view[q]
    BY <1>6 DEF StreamEvent
  <2> QED
    BY <2>1, <1>2, <1>3
<1>7. UNCHANGED view \/ Replay \/ StreamEvent
  BY QuietSteps DEF Change, client, ListOK, WatchOK
<1> QED
  BY <1>4, <1>5, <1>6, <1>7

\* NeverBackwards: no relist and no stream ever takes the handler back to an
\* older revision of a Pod.
THEOREM RevisionsNeverRegress == Spec => NeverBackwards
<1>1. Inv /\ [Next]_vars => [\A p \in Pods : view'[p] # Absent => view'[p] >= view[p]]_vars
  BY NeverBackwardsStep
<1> QED
  BY Invariance, <1>1, PTL DEF Spec, NeverBackwards
=============================================================================
