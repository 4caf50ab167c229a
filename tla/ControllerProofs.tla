-------------------------- MODULE ControllerProofs --------------------------
(***************************************************************************)
(* Proofs about Controller, for every set of objects, every worker pool    *)
(* and every retry limit.                                                  *)
(***************************************************************************)
EXTENDS Controller, TLAPS

-----------------------------------------------------------------------------
(* The inductive invariant, in named parts. *)

\* The queue holds each key once, and exactly the dirty keys that no worker has.
QueueInv ==
  /\ \A i, j \in 1..Len(queue) : queue[i] = queue[j] => i = j
  /\ \A k \in Keys : k \in Queued <=> k \in dirty /\ k \notin processing

\* The keys being processed are those of the busy workers, one worker each.
WorkerInv ==
  /\ \A w \in Workers : pc[w] \in Busy => cur[w] \in processing
  /\ \A k \in processing : \E w \in Workers : pc[w] \in Busy /\ cur[w] = k
  /\ OneWorkerPerKey

\* Where Run is, the workers are accordingly; the last one leaves an empty queue.
ShutdownInv ==
  /\ phase = "starting" => \A w \in Workers : pc[w] = "off"
  /\ phase = "returned" => \A w \in Workers : pc[w] = "exited"
  /\ \A w \in Workers : pc[w] = "exited" => shuttingDown
  /\ (\A w \in Workers : pc[w] = "exited") => queue = <<>>

\* Results and snapshots are never newer than the cache, and no result is newer
\* than the snapshot that a worker is about to turn into a result.
VersionInv ==
  /\ \A k \in Keys : handled[k] <= version[k] /\ gaveUp[k] <= version[k]
  /\ \A w \in Workers : pc[w] \in {"deliver", "failed"} =>
       /\ handled[cur[w]] <= read[w].version
       /\ gaveUp[cur[w]] <= read[w].version
       /\ read[w].version <= version[cur[w]]

\* A snapshot of the current revision agrees with the cache.
SnapshotInv ==
  \A w \in Workers :
    pc[w] = "deliver" /\ read[w].version = version[cur[w]] => read[w].found = present[cur[w]]

\* A worker that is about to call Done leaves no failure count behind unless the
\* key comes back.
RetryInv ==
  \A w \in Workers :
    pc[w] = "done" /\ requeues[cur[w]] > 0 => cur[w] \in waiting \cup dirty \cup abandoned

Inv ==
  /\ TypeOK
  /\ QueueInv
  /\ WorkerInv
  /\ ShutdownInv
  /\ VersionInv
  /\ SnapshotInv
  /\ NoGhostState
  /\ NoLostUpdate
  /\ RetryInv
  /\ RetryBudget

-----------------------------------------------------------------------------
(* Sequences. *)

\* Appending a key keeps the old elements in place.
LEMMA AppendElements ==
  ASSUME NEW s \in Seq(Keys), NEW k \in Keys
  PROVE  /\ Append(s, k) \in Seq(Keys)
         /\ Len(Append(s, k)) = Len(s) + 1
         /\ \A i \in 1..Len(s) : Append(s, k)[i] = s[i]
         /\ Append(s, k)[Len(s) + 1] = k
         /\ Append(s, k) # <<>>
  OBVIOUS

\* The tail of a queue is the queue shifted by one.
LEMMA TailElements ==
  ASSUME NEW s \in Seq(Keys), s # <<>>
  PROVE  /\ Head(s) \in Keys
         /\ Head(s) = s[1]
         /\ Len(s) \in Nat \ {0}
         /\ Tail(s) \in Seq(Keys)
         /\ Len(Tail(s)) = Len(s) - 1
         /\ \A i \in 1..(Len(s) - 1) : Tail(s)[i] = s[i + 1]
  OBVIOUS

Elements(s) == {s[i] : i \in 1..Len(s)}

NoDuplicates(s) == \A i, j \in 1..Len(s) : s[i] = s[j] => i = j

\* A new key joins the elements and the sequence stays free of duplicates.
LEMMA AppendNew ==
  ASSUME NEW s \in Seq(Keys), NEW k \in Keys, NoDuplicates(s), k \notin Elements(s)
  PROVE  Elements(Append(s, k)) = Elements(s) \cup {k} /\ NoDuplicates(Append(s, k))
<1> DEFINE t == Append(s, k)
<1>1. /\ Len(s) \in Nat
      /\ Len(t) = Len(s) + 1
      /\ \A i \in 1..Len(s) : t[i] = s[i]
      /\ t[Len(s) + 1] = k
  BY AppendElements
<1> HIDE DEF t
<1>2. \A i \in 1..Len(t) : i \in 1..Len(s) \/ i = Len(s) + 1
  BY <1>1
<1>3. 1..Len(s) \subseteq 1..Len(t) /\ Len(s) + 1 \in 1..Len(t)
  BY <1>1
<1>4. Elements(t) = Elements(s) \cup {k}
  BY <1>1, <1>2, <1>3 DEF Elements
<1>5. NoDuplicates(t)
  BY <1>1, <1>2 DEF NoDuplicates, Elements
<1> QED
  BY <1>4, <1>5 DEF t

\* Without duplicates, the head is gone from the tail.
LEMMA TailRest ==
  ASSUME NEW s \in Seq(Keys), s # <<>>, NoDuplicates(s)
  PROVE  Elements(Tail(s)) = Elements(s) \ {Head(s)} /\ NoDuplicates(Tail(s))
<1> DEFINE t == Tail(s)
<1>1. /\ Len(s) \in Nat \ {0}
      /\ Head(s) = s[1]
      /\ Len(t) = Len(s) - 1
      /\ \A i \in 1..(Len(s) - 1) : t[i] = s[i + 1]
  BY TailElements
<1> HIDE DEF t
<1>2. \A i \in 1..Len(t) : i + 1 \in 1..Len(s) /\ i + 1 # 1 /\ t[i] = s[i + 1]
  BY <1>1
<1>3. \A i \in 1..Len(s) : i # 1 => i - 1 \in 1..Len(t) /\ t[i - 1] = s[i]
  BY <1>1
<1>4. 1 \in 1..Len(s)
  BY <1>1
<1>5. Elements(t) \subseteq Elements(s) \ {Head(s)}
  BY <1>1, <1>2, <1>4 DEF Elements, NoDuplicates
<1>6. Elements(s) \ {Head(s)} \subseteq Elements(t)
  BY <1>1, <1>3 DEF Elements
<1>7. NoDuplicates(t)
  BY <1>1, <1>2 DEF NoDuplicates
<1> QED
  BY <1>5, <1>6, <1>7 DEF t

-----------------------------------------------------------------------------
(* The queue's operations, by cases. *)

\* Adding a key changes nothing, or makes the key dirty, or is discarded by the
\* shutdown.
LEMMA AddCases ==
  ASSUME NEW k \in Keys, MarkDirty(k)
  PROVE  /\ \/ (shuttingDown \/ k \in dirty) /\ queue' = queue /\ dirty' = dirty
            \/ /\ ~shuttingDown /\ k \notin dirty /\ dirty' = dirty \cup {k}
               /\ queue' = IF k \in processing THEN queue ELSE Append(queue, k)
         /\ k \in dirty' \/ k \in abandoned'
         /\ abandoned' = abandoned \/ abandoned' = abandoned \cup {k}
<1>1. CASE shuttingDown \/ k \in dirty
  BY <1>1 DEF MarkDirty
<1>2. CASE ~(shuttingDown \/ k \in dirty)
  BY <1>2 DEF MarkDirty
<1> QED
  BY <1>1, <1>2

\* The handler and the end of a back-off both mark a key dirty, and touch nothing
\* else but their own bookkeeping.
LEMMA HandlerCases ==
  ASSUME NEW k \in Keys, Handler(k) \/ WaitingReady(k)
  PROVE  /\ MarkDirty(k)
         /\ UNCHANGED <<processing, requeues, shuttingDown, version, present, runVars,
                        workerVars, resultVars>>
         /\ waiting' = waiting \/ waiting' = waiting \ {k}
         /\ events' = events \/ (events[k] > 0 /\ events' = [events EXCEPT ![k] = @ - 1])
BY DEF Handler, Enqueue, QueueAdd, WaitingReady, QueueWaitingReady, informerVars, runVars

\* A failed reconcile is retried or given up; nothing else of the queue changes.
LEMMA FinishErrCases ==
  ASSUME NEW w \in Workers, FinishErr(w)
  PROVE  /\ pc[w] = "failed"
         /\ pc' = [pc EXCEPT ![w] = "done"]
         /\ reconcileErrors' = reconcileErrors + 1
         /\ UNCHANGED <<queue, dirty, processing, shuttingDown, version, present, events,
                        phase, ctxDone, cur, read, handled, holds>>
         /\ \/ /\ requeues[cur[w]] < MaxRequeues
               /\ requeues' = [requeues EXCEPT ![cur[w]] = @ + 1]
               /\ waiting' = IF shuttingDown THEN waiting ELSE waiting \cup {cur[w]}
               /\ abandoned' = IF shuttingDown THEN abandoned \cup {cur[w]} ELSE abandoned
               /\ gaveUp' = gaveUp
            \/ /\ requeues' = [requeues EXCEPT ![cur[w]] = 0]
               /\ gaveUp' = [gaveUp EXCEPT ![cur[w]] = read[w].version]
               /\ UNCHANGED <<waiting, abandoned>>
<1>1. CASE MayRetry(w) /\ QueueAddRateLimited(cur[w]) /\ UNCHANGED gaveUp
  BY <1>1 DEF FinishErr, MayRetry, QueueAddRateLimited, informerVars, runVars
<1>2. CASE ForgetKey(w) /\ gaveUp' = [gaveUp EXCEPT ![cur[w]] = read[w].version]
  BY <1>2 DEF FinishErr, ForgetKey, QueueForget, informerVars, runVars
<1> QED
  BY <1>1, <1>2 DEF FinishErr

-----------------------------------------------------------------------------
(* Type correctness. *)

\* Every step keeps the variables of the queue, the informers, Run, the workers
\* and the results in their types.
LEMMA TypeStep == TypeOK /\ WorkerInv /\ [Next]_vars => TypeOK'
<1> SUFFICES ASSUME TypeOK, WorkerInv, [Next]_vars PROVE TypeOK'
  OBVIOUS
<1> USE DEF TypeOK, WQTypeOK, Phases, PCs, Snapshots, wqVars, informerVars,
        runVars, workerVars, resultVars
<1>1. ASSUME NEW k \in Keys, MarkDirty(k)
      PROVE queue' \in Seq(Keys) /\ dirty' \subseteq Keys /\ abandoned' \subseteq Keys
  <2>1. \/ queue' = queue /\ dirty' = dirty
        \/ dirty' = dirty \cup {k} /\ (queue' = queue \/ queue' = Append(queue, k))
    BY <1>1, AddCases
  <2>2. abandoned' = abandoned \/ abandoned' = abandoned \cup {k}
    BY <1>1, AddCases
  <2> QED
    BY <2>1, <2>2, AppendElements
<1>2. ASSUME NEW k \in Keys, Informer(k) PROVE TypeOK'
  <2>1. CASE CacheSet(k)
    BY <2>1 DEF CacheSet, CacheChange
  <2>2. CASE CacheDelete(k)
    BY <2>2 DEF CacheDelete, CacheChange
  <2>3. CASE Resync(k)
    BY <2>3 DEF Resync
  <2>4. CASE Handler(k) \/ WaitingReady(k)
    <3>1. /\ queue' \in Seq(Keys) /\ dirty' \subseteq Keys /\ abandoned' \subseteq Keys
          /\ UNCHANGED <<processing, requeues, shuttingDown, version, present, runVars,
                         workerVars, resultVars>>
      BY <2>4, <1>1, HandlerCases
    <3>2. waiting' \subseteq Keys
      BY <2>4, HandlerCases
    <3>3. events' \in [Keys -> Nat]
      <4>1. events' = events \/ (events[k] > 0 /\ events' = [events EXCEPT ![k] = @ - 1])
        BY <2>4, HandlerCases
      <4>2. CASE events' = events
        BY <4>2
      <4>3. CASE events[k] > 0 /\ events' = [events EXCEPT ![k] = @ - 1]
        <5>1. events[k] - 1 \in Nat
          BY <4>3
        <5> QED
          BY <4>3, <5>1
      <4> QED
        BY <4>1, <4>2, <4>3
    <3> QED
      BY <3>1, <3>2, <3>3
  <2> QED
    BY <1>2, <2>1, <2>2, <2>3, <2>4 DEF Informer
<1>3. ASSUME Run PROVE TypeOK'
  <2>1. CASE CachesSynced
    BY <2>1 DEF CachesSynced
  <2>2. CASE SyncFailed
    BY <2>2 DEF SyncFailed, QueueShutDown
  <2>3. CASE Cancel
    BY <2>3 DEF Cancel
  <2>4. CASE ShutDownQueue
    BY <2>4 DEF ShutDownQueue, QueueShutDown
  <2>5. CASE Return
    BY <2>5 DEF Return, QueueShutDown
  <2> QED
    BY <1>3, <2>1, <2>2, <2>3, <2>4, <2>5 DEF Run
<1>4. ASSUME NEW w \in Workers, Worker(w) PROVE TypeOK'
  <2> pc[w] \in Busy => cur[w] \in Keys
    BY DEF WorkerInv
  <2>1. CASE Get(w)
    BY <2>1, TailElements DEF Get, QueueGet
  <2>2. CASE Exit(w)
    BY <2>2 DEF Exit
  <2>3. CASE ReadCache(w)
    BY <2>3 DEF ReadCache, Lookup, Busy
  <2>4. CASE ReadFails(w)
    BY <2>4 DEF ReadFails, Lookup, Busy
  <2>5. CASE FinishOk(w)
    BY <2>5 DEF FinishOk, HoldsAfter, ForgetKey, QueueForget, Busy
  <2>6. CASE FinishErr(w)
    <3>1. cur[w] \in Keys /\ read[w].version \in Nat
      BY <2>6 DEF FinishErr, Busy
    <3>2. /\ pc' = [pc EXCEPT ![w] = "done"]
          /\ reconcileErrors' = reconcileErrors + 1
          /\ UNCHANGED <<queue, dirty, processing, shuttingDown, version, present, events,
                         phase, ctxDone, cur, read, handled, holds>>
      BY <2>6, FinishErrCases
    <3>3. /\ \/ requeues' = [requeues EXCEPT ![cur[w]] = @ + 1]
             \/ requeues' = [requeues EXCEPT ![cur[w]] = 0]
          /\ waiting' = waiting \/ waiting' = waiting \cup {cur[w]}
          /\ abandoned' = abandoned \/ abandoned' = abandoned \cup {cur[w]}
          /\ gaveUp' = gaveUp \/ gaveUp' = [gaveUp EXCEPT ![cur[w]] = read[w].version]
      BY <2>6, FinishErrCases
    <3>4. requeues' \in [Keys -> Nat]
      <4>1. requeues \in [Keys -> Nat] /\ requeues[cur[w]] + 1 \in Nat
        BY <3>1
      <4>2. CASE requeues' = [requeues EXCEPT ![cur[w]] = @ + 1]
        BY <4>1, <4>2
      <4>3. CASE requeues' = [requeues EXCEPT ![cur[w]] = 0]
        BY <4>1, <4>3
      <4> QED
        BY <3>3, <4>2, <4>3
    <3>5. waiting' \subseteq Keys /\ abandoned' \subseteq Keys
      BY <3>1, <3>3
    <3>6. gaveUp' \in [Keys -> Nat]
      BY <3>1, <3>3
    <3> QED
      BY <3>2, <3>4, <3>5, <3>6
  <2>7. CASE Done(w)
    BY <2>7, AppendElements DEF Done, QueueDone, Busy
  <2> QED
    BY <1>4, <2>1, <2>2, <2>3, <2>4, <2>5, <2>6, <2>7 DEF Worker
<1>5. ASSUME Terminated \/ UNCHANGED vars PROVE TypeOK'
  BY <1>5 DEF Terminated, vars
<1> QED
  BY <1>2, <1>3, <1>4, <1>5 DEF Next

-----------------------------------------------------------------------------
(* The queue and the workers. *)

\* Add keeps the queue equal to the dirty keys that no worker has.
LEMMA AddKeepsQueueInv ==
  ASSUME TypeOK, QueueInv, NEW k \in Keys, MarkDirty(k), processing' = processing
  PROVE  QueueInv'
<1> USE DEF TypeOK, WQTypeOK
<1>1. NoDuplicates(queue) /\ \A x \in Keys : x \in Elements(queue) <=> x \in dirty /\ x \notin processing
  BY DEF QueueInv, NoDuplicates, Elements, Queued
<1>2. NoDuplicates(queue') /\ \A x \in Keys : x \in Elements(queue') <=> x \in dirty' /\ x \notin processing
  <2>1. CASE queue' = queue /\ dirty' = dirty
    BY <1>1, <2>1
  <2>2. CASE k \in processing /\ queue' = queue /\ dirty' = dirty \cup {k}
    BY <1>1, <2>2
  <2>3. CASE /\ k \notin processing /\ k \notin dirty
             /\ queue' = Append(queue, k) /\ dirty' = dirty \cup {k}
    <3>1. k \notin Elements(queue)
      BY <1>1, <2>3
    <3>2. Elements(queue') = Elements(queue) \cup {k} /\ NoDuplicates(queue')
      BY <1>1, <2>3, <3>1, AppendNew
    <3> QED
      BY <1>1, <2>3, <3>2
  <2> QED
    BY <2>1, <2>2, <2>3, AddCases
<1> QED
  BY <1>2 DEF QueueInv, NoDuplicates, Elements, Queued

\* A step that leaves the queue's sets alone keeps QueueInv.
LEMMA QueueInvFrame ==
  ASSUME QueueInv, UNCHANGED <<queue, dirty, processing>>
  PROVE  QueueInv'
  BY DEF QueueInv, Queued

\* Every step keeps the queue free of duplicates and complete.
LEMMA QueueStep == TypeOK /\ QueueInv /\ WorkerInv /\ [Next]_vars => QueueInv'
<1> SUFFICES ASSUME TypeOK, QueueInv, WorkerInv, [Next]_vars PROVE QueueInv'
  OBVIOUS
<1> USE DEF wqVars
<1>1. ASSUME NEW k \in Keys, Informer(k) PROVE QueueInv'
  <2>1. CASE CacheSet(k) \/ CacheDelete(k) \/ Resync(k)
    BY <2>1, QueueInvFrame DEF CacheSet, CacheDelete, CacheChange, Resync
  <2>2. CASE Handler(k) \/ WaitingReady(k)
    BY <2>2, AddKeepsQueueInv, HandlerCases
  <2> QED
    BY <1>1, <2>1, <2>2 DEF Informer
<1>2. ASSUME Run PROVE QueueInv'
  BY <1>2, QueueInvFrame
     DEF Run, CachesSynced, SyncFailed, Cancel, ShutDownQueue, Return, QueueShutDown
<1>3. ASSUME NEW w \in Workers, Worker(w) PROVE QueueInv'
  <2> USE DEF TypeOK, WQTypeOK
  <2>0. NoDuplicates(queue) /\ \A x \in Keys : x \in Elements(queue) <=> x \in dirty /\ x \notin processing
    BY DEF QueueInv, NoDuplicates, Elements, Queued
  <2>1. CASE Get(w)
    <3>1. /\ queue # <<>>
          /\ queue' = Tail(queue)
          /\ dirty' = dirty \ {Head(queue)}
          /\ processing' = processing \cup {Head(queue)}
      BY <2>1 DEF Get, QueueGet
    <3>2. Elements(queue') = Elements(queue) \ {Head(queue)} /\ NoDuplicates(queue')
      BY <2>0, <3>1, TailRest
    <3>3. \A x \in Keys : x \in Elements(queue') <=> x \in dirty' /\ x \notin processing'
      BY <2>0, <3>1, <3>2
    <3> QED
      BY <3>2, <3>3 DEF QueueInv, NoDuplicates, Elements, Queued
  <2>2. CASE Exit(w) \/ ReadCache(w) \/ ReadFails(w) \/ FinishOk(w)
    BY <2>2, QueueInvFrame
       DEF Exit, ReadCache, ReadFails, Lookup, FinishOk, ForgetKey, QueueForget
  <2>3. CASE FinishErr(w)
    BY <2>3, FinishErrCases, QueueInvFrame
  <2>4. CASE Done(w)
    <3> DEFINE k == cur[w]
    <3>1. /\ k \in processing
          /\ processing' = processing \ {k}
          /\ queue' = IF k \in dirty THEN Append(queue, k) ELSE queue
          /\ dirty' = dirty
      BY <2>4 DEF Done, QueueDone, WorkerInv, Busy
    <3> HIDE DEF k
    <3>2. k \in Keys /\ k \notin Elements(queue)
      BY <2>0, <3>1
    <3>3. NoDuplicates(queue') /\ \A x \in Keys : x \in Elements(queue') <=> x \in dirty' /\ x \notin processing'
      <4>1. CASE k \in dirty
        <5>1. Elements(queue') = Elements(queue) \cup {k} /\ NoDuplicates(queue')
          BY <2>0, <3>1, <3>2, <4>1, AppendNew
        <5> QED
          BY <2>0, <3>1, <4>1, <5>1
      <4>2. CASE k \notin dirty
        BY <2>0, <3>1, <4>2
      <4> QED
        BY <4>1, <4>2
    <3> QED
      BY <3>3 DEF QueueInv, NoDuplicates, Elements, Queued
  <2> QED
    BY <1>3, <2>1, <2>2, <2>3, <2>4 DEF Worker
<1>4. ASSUME Terminated \/ UNCHANGED vars PROVE QueueInv'
  BY <1>4, QueueInvFrame DEF Terminated, vars
<1> QED
  BY <1>1, <1>2, <1>3, <1>4 DEF Next

\* A step that leaves the workers alone keeps WorkerInv, and so does one that
\* moves a worker between two busy places.
LEMMA WorkerInvFrame ==
  ASSUME WorkerInv, UNCHANGED <<processing, cur>>,
         \A w \in Workers : pc'[w] \in Busy <=> pc[w] \in Busy
  PROVE  WorkerInv'
  BY DEF WorkerInv, OneWorkerPerKey

\* Every step keeps one worker per processed key.
LEMMA WorkerStep == TypeOK /\ QueueInv /\ WorkerInv /\ ShutdownInv /\ [Next]_vars => WorkerInv'
<1> SUFFICES ASSUME TypeOK, QueueInv, WorkerInv, ShutdownInv, [Next]_vars PROVE WorkerInv'
  OBVIOUS
<1> USE DEF wqVars, workerVars
<1>1. ASSUME NEW k \in Keys, Informer(k) PROVE WorkerInv'
  BY <1>1, WorkerInvFrame, HandlerCases
     DEF Informer, CacheSet, CacheDelete, CacheChange, Resync
<1>2. ASSUME Run PROVE WorkerInv'
  <2>1. CASE CachesSynced
    <3>1. \A w \in Workers : pc'[w] \notin Busy /\ pc[w] \notin Busy
      BY <2>1 DEF CachesSynced, ShutdownInv, Busy
    <3> QED
      BY <2>1, <3>1, WorkerInvFrame DEF CachesSynced
  <2>2. CASE SyncFailed \/ Cancel \/ ShutDownQueue \/ Return
    BY <2>2, WorkerInvFrame DEF SyncFailed, Cancel, ShutDownQueue, Return, QueueShutDown
  <2> QED
    BY <1>2, <2>1, <2>2 DEF Run
<1>3. ASSUME NEW w \in Workers, Worker(w) PROVE WorkerInv'
  <2> USE DEF TypeOK, WQTypeOK, Busy
  <2>1. CASE Get(w)
    <3> DEFINE k == Head(queue)
    <3>1. /\ queue # <<>>
          /\ pc[w] = "idle"
          /\ pc' = [pc EXCEPT ![w] = "read"]
          /\ cur' = [cur EXCEPT ![w] = k]
          /\ processing' = processing \cup {k}
      BY <2>1 DEF Get, QueueGet
    <3>2. k \in Keys /\ k \notin processing
      BY <3>1, TailElements DEF QueueInv, Queued
    <3> HIDE DEF k
    <3>3. \A v \in Workers : v # w => pc'[v] = pc[v] /\ cur'[v] = cur[v]
      BY <3>1
    <3>4. pc'[w] = "read" /\ cur'[w] = k
      BY <3>1
    <3>5. \A v \in Workers : pc'[v] \in Busy => cur'[v] \in processing'
      BY <3>1, <3>3, <3>4 DEF WorkerInv
    <3>6. \A x \in processing' : \E v \in Workers : pc'[v] \in Busy /\ cur'[v] = x
      <4>1. \A v \in Workers : pc[v] \in Busy => v # w
        BY <3>1
      <4> QED
        BY <3>1, <3>3, <3>4, <4>1 DEF WorkerInv
    <3>7. \A v \in Workers : v # w /\ pc[v] \in Busy => cur[v] # k
      BY <3>2 DEF WorkerInv
    <3>8. OneWorkerPerKey'
      <4> SUFFICES ASSUME NEW u \in Workers, NEW v \in Workers, u # v,
                          pc'[u] \in Busy, pc'[v] \in Busy
                   PROVE  cur'[u] # cur'[v]
        BY DEF OneWorkerPerKey
      <4>1. CASE u = w
        BY <3>3, <3>4, <3>7, <4>1
      <4>2. CASE v = w
        BY <3>3, <3>4, <3>7, <4>2
      <4>3. CASE u # w /\ v # w
        BY <3>3, <4>3 DEF WorkerInv, OneWorkerPerKey
      <4> QED
        BY <4>1, <4>2, <4>3
    <3> QED
      BY <3>5, <3>6, <3>8 DEF WorkerInv
  <2>2. CASE Exit(w) \/ ReadCache(w) \/ ReadFails(w) \/ FinishOk(w)
    BY <2>2, WorkerInvFrame
       DEF Exit, ReadCache, ReadFails, Lookup, FinishOk, ForgetKey, QueueForget
  <2>3. CASE FinishErr(w)
    <3>1. pc[w] = "failed" /\ pc' = [pc EXCEPT ![w] = "done"] /\ UNCHANGED <<processing, cur>>
      BY <2>3, FinishErrCases
    <3> QED
      BY <3>1, WorkerInvFrame
  <2>4. CASE Done(w)
    <3>1. /\ pc[w] = "done"
          /\ pc' = [pc EXCEPT ![w] = "idle"]
          /\ cur' = [cur EXCEPT ![w] = NoKey]
          /\ processing' = processing \ {cur[w]}
      BY <2>4 DEF Done, QueueDone
    <3>2. \A v \in Workers : v # w => pc'[v] = pc[v] /\ cur'[v] = cur[v]
      BY <3>1
    <3>3. pc'[w] = "idle"
      BY <3>1
    <3> QED
      BY <3>1, <3>2, <3>3 DEF WorkerInv, OneWorkerPerKey
  <2> QED
    BY <1>3, <2>1, <2>2, <2>3, <2>4 DEF Worker
<1>4. ASSUME Terminated \/ UNCHANGED vars PROVE WorkerInv'
  BY <1>4, WorkerInvFrame DEF Terminated, vars
<1> QED
  BY <1>1, <1>2, <1>3, <1>4 DEF Next

\* Every step keeps Run and the workers in accord.
LEMMA ShutdownStep == TypeOK /\ ShutdownInv /\ [Next]_vars => ShutdownInv'
<1> SUFFICES ASSUME TypeOK, ShutdownInv, [Next]_vars PROVE ShutdownInv'
  OBVIOUS
<1> USE DEF wqVars, workerVars, runVars, TypeOK, WQTypeOK
<1>0. Workers # {}
  BY ControllerAssumption
<1>1. ASSUME NEW k \in Keys, Informer(k) PROVE ShutdownInv'
  <2>1. CASE CacheSet(k) \/ CacheDelete(k) \/ Resync(k)
    BY <2>1 DEF CacheSet, CacheDelete, CacheChange, Resync, ShutdownInv
  <2>2. CASE Handler(k) \/ WaitingReady(k)
    <3>1. UNCHANGED <<pc, phase, shuttingDown>> /\ MarkDirty(k)
      BY <2>2, HandlerCases
    <3>2. shuttingDown => queue' = queue
      BY <3>1, AddCases
    <3> QED
      BY <1>0, <3>1, <3>2 DEF ShutdownInv
  <2> QED
    BY <1>1, <2>1, <2>2 DEF Informer
<1>2. ASSUME Run PROVE ShutdownInv'
  <2>1. CASE CachesSynced
    BY <1>0, <2>1 DEF CachesSynced, ShutdownInv
  <2>2. CASE SyncFailed
    BY <2>2 DEF SyncFailed, QueueShutDown, ShutdownInv
  <2>3. CASE Cancel
    BY <2>3 DEF Cancel, ShutdownInv
  <2>4. CASE ShutDownQueue
    BY <2>4 DEF ShutDownQueue, QueueShutDown, ShutdownInv
  <2>5. CASE Return
    BY <2>5 DEF Return, WorkersDone, QueueShutDown, ShutdownInv
  <2> QED
    BY <1>2, <2>1, <2>2, <2>3, <2>4, <2>5 DEF Run
<1>3. ASSUME NEW w \in Workers, Worker(w) PROVE ShutdownInv'
  <2>1. CASE Exit(w)
    BY <2>1 DEF Exit, QueueClosed, ShutdownInv
  <2>2. CASE ~Exit(w)
    <3>1. PICK p \in PCs : p \notin {"off", "exited"} /\ pc' = [pc EXCEPT ![w] = p]
      BY <1>3, <2>2, FinishErrCases
         DEF Worker, Get, ReadCache, ReadFails, Lookup, FinishOk, Done, PCs
    <3>2. pc[w] \notin {"off", "exited"} /\ UNCHANGED <<phase, shuttingDown>>
      BY <1>3, <2>2, FinishErrCases
         DEF Worker, Get, QueueGet, ReadCache, ReadFails, Lookup, FinishOk, ForgetKey,
             QueueForget, Done, QueueDone
    <3> QED
      BY <3>1, <3>2 DEF ShutdownInv
  <2> QED
    BY <2>1, <2>2
<1>4. ASSUME Terminated \/ UNCHANGED vars PROVE ShutdownInv'
  BY <1>4 DEF Terminated, vars, ShutdownInv
<1> QED
  BY <1>1, <1>2, <1>3, <1>4 DEF Next

-----------------------------------------------------------------------------
(* Revisions. *)

\* The lister call of a worker, seen from its place and from the others'.
LEMMA LookupCases ==
  ASSUME TypeOK, WorkerInv, NEW w \in Workers, ReadCache(w) \/ ReadFails(w)
  PROVE  /\ cur[w] \in Keys
         /\ pc[w] = "read"
         /\ pc'[w] \in {"deliver", "failed"}
         /\ read'[w] = [version |-> version[cur[w]], found |-> present[cur[w]]]
         /\ \A v \in Workers : v # w => pc'[v] = pc[v] /\ read'[v] = read[v]
         /\ UNCHANGED <<wqVars, informerVars, runVars, cur, resultVars>>
<1>1. cur[w] \in Keys
  BY DEF ReadCache, ReadFails, Lookup, WorkerInv, Busy, TypeOK, WQTypeOK
<1> QED
  BY <1>1 DEF ReadCache, ReadFails, Lookup, TypeOK

\* A reconcile that returned nil touches the results of its own key alone.
LEMMA FinishOkCases ==
  ASSUME TypeOK, WorkerInv, NEW w \in Workers, FinishOk(w)
  PROVE  /\ cur[w] \in Keys
         /\ pc[w] = "deliver"
         /\ pc'[w] = "done"
         /\ \A v \in Workers : v # w => pc'[v] = pc[v]
         /\ handled'[cur[w]] = read[w].version
         /\ holds'[cur[w]] = read[w].found
         /\ requeues'[cur[w]] = 0
         /\ \A k \in Keys : k # cur[w] =>
              handled'[k] = handled[k] /\ holds'[k] = holds[k] /\ requeues'[k] = requeues[k]
         /\ UNCHANGED <<queue, dirty, processing, waiting, shuttingDown, abandoned, version,
                        present, events, phase, ctxDone, cur, read, gaveUp, reconcileErrors>>
<1>1. cur[w] \in Keys
  BY DEF FinishOk, WorkerInv, Busy, TypeOK, WQTypeOK
<1> QED
  BY <1>1 DEF FinishOk, HoldsAfter, ForgetKey, QueueForget, TypeOK, WQTypeOK, informerVars,
     runVars

\* A failed reconcile leaves the key waiting for its retry, or given up.
LEMMA FinishErrEffects ==
  ASSUME TypeOK, WorkerInv, NEW w \in Workers, FinishErr(w)
  PROVE  /\ cur[w] \in Keys
         /\ pc[w] = "failed"
         /\ pc'[w] = "done"
         /\ \A v \in Workers : v # w => pc'[v] = pc[v]
         /\ \/ /\ requeues[cur[w]] < MaxRequeues
               /\ requeues'[cur[w]] = requeues[cur[w]] + 1
               /\ waiting' = IF shuttingDown THEN waiting ELSE waiting \cup {cur[w]}
               /\ abandoned' = IF shuttingDown THEN abandoned \cup {cur[w]} ELSE abandoned
               /\ gaveUp' = gaveUp
            \/ /\ requeues'[cur[w]] = 0
               /\ UNCHANGED <<waiting, abandoned>>
               /\ gaveUp'[cur[w]] = read[w].version
         /\ \A k \in Keys : k # cur[w] => gaveUp'[k] = gaveUp[k] /\ requeues'[k] = requeues[k]
         /\ UNCHANGED <<queue, dirty, processing, shuttingDown, version, present, events,
                        phase, ctxDone, cur, read, handled, holds>>
<1>1. cur[w] \in Keys
  BY DEF FinishErr, WorkerInv, Busy, TypeOK, WQTypeOK
<1>2. CASE /\ requeues[cur[w]] < MaxRequeues
           /\ requeues' = [requeues EXCEPT ![cur[w]] = @ + 1]
           /\ waiting' = IF shuttingDown THEN waiting ELSE waiting \cup {cur[w]}
           /\ abandoned' = IF shuttingDown THEN abandoned \cup {cur[w]} ELSE abandoned
           /\ gaveUp' = gaveUp
  BY <1>1, <1>2, FinishErrCases, ZenonT(40) DEF TypeOK, WQTypeOK
<1>3. CASE /\ requeues' = [requeues EXCEPT ![cur[w]] = 0]
           /\ gaveUp' = [gaveUp EXCEPT ![cur[w]] = read[w].version]
           /\ UNCHANGED <<waiting, abandoned>>
  BY <1>1, <1>3, FinishErrCases, ZenonT(40) DEF TypeOK, WQTypeOK
<1> QED
  BY <1>2, <1>3, FinishErrCases

\* A cache change makes the revision of one key newer than everything about it.
LEMMA CacheChangeCases ==
  ASSUME TypeOK, NEW k \in Keys, CacheSet(k) \/ CacheDelete(k)
  PROVE  /\ version'[k] = version[k] + 1
         /\ events'[k] > 0
         /\ \A x \in Keys : x # k =>
              version'[x] = version[x] /\ present'[x] = present[x] /\ events'[x] = events[x]
         /\ UNCHANGED <<wqVars, runVars, workerVars, resultVars>>
  BY DEF CacheSet, CacheDelete, CacheChange, TypeOK

\* A step that touches neither revisions nor results nor busy workers.
LEMMA VersionInvFrame ==
  ASSUME VersionInv, UNCHANGED <<version, handled, gaveUp>>,
         \A w \in Workers : pc'[w] \in {"deliver", "failed"} =>
           pc'[w] = pc[w] /\ cur'[w] = cur[w] /\ read'[w] = read[w]
  PROVE  VersionInv'
  BY DEF VersionInv

\* Every step keeps results no newer than snapshots, and snapshots no newer than
\* the cache.
LEMMA VersionStep == TypeOK /\ WorkerInv /\ VersionInv /\ [Next]_vars => VersionInv'
<1> SUFFICES ASSUME TypeOK, WorkerInv, VersionInv, [Next]_vars PROVE VersionInv'
  OBVIOUS
<1> USE DEF wqVars, workerVars, runVars, resultVars, informerVars
<1>1. ASSUME NEW k \in Keys, Informer(k) PROVE VersionInv'
  <2>1. CASE CacheSet(k) \/ CacheDelete(k)
    <3>1. \A x \in Keys : version'[x] >= version[x] /\ version[x] \in Nat /\ version'[x] \in Nat
      BY <2>1, CacheChangeCases DEF TypeOK
    <3>2. UNCHANGED <<pc, cur, read, handled, gaveUp>>
      BY <2>1, CacheChangeCases
    <3>3. \A w \in Workers : pc[w] \in {"deliver", "failed"} =>
            cur[w] \in Keys /\ read[w].version \in Nat
      BY DEF TypeOK, WQTypeOK, WorkerInv, Busy, Snapshots
    <3>4. \A x \in Keys : handled[x] \in Nat /\ gaveUp[x] \in Nat
      BY DEF TypeOK
    <3> QED
      BY <3>1, <3>2, <3>3, <3>4 DEF VersionInv
  <2>2. CASE Resync(k) \/ Handler(k) \/ WaitingReady(k)
    BY <2>2, VersionInvFrame, HandlerCases DEF Resync
  <2> QED
    BY <1>1, <2>1, <2>2 DEF Informer
<1>2. ASSUME Run PROVE VersionInv'
  BY <1>2, VersionInvFrame
     DEF Run, CachesSynced, SyncFailed, Cancel, ShutDownQueue, Return, QueueShutDown
<1>3. ASSUME NEW w \in Workers, Worker(w) PROVE VersionInv'
  <2>1. CASE Get(w) \/ Exit(w) \/ Done(w)
    BY <2>1, VersionInvFrame DEF Get, QueueGet, Exit, Done, TypeOK
  <2>2. CASE ReadCache(w) \/ ReadFails(w)
    <3>0. read'[w] = [version |-> version[cur[w]], found |-> present[cur[w]]]
      BY <2>2, LookupCases
    <3>1. /\ cur[w] \in Keys
          /\ read'[w].version = version[cur[w]]
          /\ \A v \in Workers : v # w => pc'[v] = pc[v] /\ read'[v] = read[v]
          /\ UNCHANGED <<version, handled, gaveUp, cur>>
      BY <2>2, <3>0, LookupCases
    <3>2. version[cur[w]] \in Nat
      BY <3>1 DEF TypeOK
    <3> QED
      BY <3>1, <3>2 DEF VersionInv
  <2>3. CASE FinishOk(w)
    <3>1. /\ cur[w] \in Keys /\ pc[w] = "deliver" /\ pc'[w] = "done"
          /\ \A v \in Workers : v # w => pc'[v] = pc[v]
          /\ handled'[cur[w]] = read[w].version
          /\ \A k \in Keys : k # cur[w] => handled'[k] = handled[k]
          /\ UNCHANGED <<version, gaveUp, cur, read>>
      BY <2>3, FinishOkCases
    <3>2. \A v \in Workers : v # w /\ pc[v] \in {"deliver", "failed"} =>
            cur[v] # cur[w] /\ cur[v] \in Keys
      BY <3>1 DEF WorkerInv, OneWorkerPerKey, Busy, TypeOK, WQTypeOK
    <3> QED
      BY <3>1, <3>2 DEF VersionInv
  <2>4. CASE FinishErr(w)
    <3>1. /\ cur[w] \in Keys /\ pc[w] = "failed" /\ pc'[w] = "done"
          /\ \A v \in Workers : v # w => pc'[v] = pc[v]
          /\ gaveUp'[cur[w]] = gaveUp[cur[w]] \/ gaveUp'[cur[w]] = read[w].version
          /\ \A k \in Keys : k # cur[w] => gaveUp'[k] = gaveUp[k]
          /\ UNCHANGED <<version, handled, cur, read>>
      BY <2>4, FinishErrEffects
    <3>2. \A v \in Workers : v # w /\ pc[v] \in {"deliver", "failed"} =>
            cur[v] # cur[w] /\ cur[v] \in Keys
      BY <3>1 DEF WorkerInv, OneWorkerPerKey, Busy, TypeOK, WQTypeOK
    <3> QED
      BY <3>1, <3>2 DEF VersionInv
  <2> QED
    BY <1>3, <2>1, <2>2, <2>3, <2>4 DEF Worker
<1>4. ASSUME Terminated \/ UNCHANGED vars PROVE VersionInv'
  BY <1>4, VersionInvFrame DEF Terminated, vars
<1> QED
  BY <1>1, <1>2, <1>3, <1>4 DEF Next

-----------------------------------------------------------------------------
(* No ghost state. *)

GhostInv == SnapshotInv /\ NoGhostState

\* Steps that change neither cache nor results and start no delivery.
LEMMA GhostInvFrame ==
  ASSUME GhostInv, UNCHANGED <<version, present, handled, holds>>,
         \A w \in Workers : pc'[w] = "deliver" =>
           pc'[w] = pc[w] /\ cur'[w] = cur[w] /\ read'[w] = read[w]
  PROVE  GhostInv'
  BY DEF GhostInv, SnapshotInv, NoGhostState

\* Every step keeps snapshots and results of the current revision in agreement
\* with the cache.
LEMMA GhostStep == TypeOK /\ WorkerInv /\ VersionInv /\ GhostInv /\ [Next]_vars => GhostInv'
<1> SUFFICES ASSUME TypeOK, WorkerInv, VersionInv, GhostInv, [Next]_vars PROVE GhostInv'
  OBVIOUS
<1> USE DEF wqVars, workerVars, runVars, resultVars, informerVars
<1>1. ASSUME NEW k \in Keys, Informer(k) PROVE GhostInv'
  <2>1. CASE CacheSet(k) \/ CacheDelete(k)
    <3>1. /\ version'[k] = version[k] + 1
          /\ \A x \in Keys : x # k => version'[x] = version[x] /\ present'[x] = present[x]
          /\ UNCHANGED <<pc, cur, read, handled, holds>>
      BY <2>1, CacheChangeCases
    <3>2. version[k] \in Nat /\ handled[k] \in Nat /\ handled[k] <= version[k]
      BY DEF TypeOK, VersionInv
    <3>3. NoGhostState'
      BY <3>1, <3>2 DEF GhostInv, NoGhostState
    <3>4. \A w \in Workers : pc[w] = "deliver" =>
            /\ cur[w] \in Keys /\ read[w].version \in Nat
            /\ read[w].version <= version[cur[w]]
      BY DEF TypeOK, WQTypeOK, WorkerInv, VersionInv, Busy, Snapshots
    <3>5. SnapshotInv'
      BY <3>1, <3>2, <3>4 DEF GhostInv, SnapshotInv
    <3> QED
      BY <3>3, <3>5 DEF GhostInv
  <2>2. CASE Resync(k) \/ Handler(k) \/ WaitingReady(k)
    BY <2>2, GhostInvFrame, HandlerCases DEF Resync
  <2> QED
    BY <1>1, <2>1, <2>2 DEF Informer
<1>2. ASSUME Run PROVE GhostInv'
  BY <1>2, GhostInvFrame
     DEF Run, CachesSynced, SyncFailed, Cancel, ShutDownQueue, Return, QueueShutDown
<1>3. ASSUME NEW w \in Workers, Worker(w) PROVE GhostInv'
  <2>1. CASE Get(w) \/ Exit(w) \/ Done(w)
    BY <2>1, GhostInvFrame DEF Get, QueueGet, Exit, Done, TypeOK
  <2>2. CASE ReadCache(w) \/ ReadFails(w)
    <3>0. read'[w] = [version |-> version[cur[w]], found |-> present[cur[w]]]
      BY <2>2, LookupCases
    <3>1. /\ read'[w].found = present[cur[w]]
          /\ \A v \in Workers : v # w => pc'[v] = pc[v] /\ read'[v] = read[v]
          /\ UNCHANGED <<version, present, handled, holds, cur>>
      BY <2>2, <3>0, LookupCases
    <3> QED
      BY <3>1 DEF GhostInv, SnapshotInv, NoGhostState
  <2>3. CASE FinishOk(w)
    <3>1. /\ cur[w] \in Keys /\ pc[w] = "deliver" /\ pc'[w] = "done"
          /\ \A v \in Workers : v # w => pc'[v] = pc[v]
          /\ handled'[cur[w]] = read[w].version
          /\ holds'[cur[w]] = read[w].found
          /\ \A k \in Keys : k # cur[w] => handled'[k] = handled[k] /\ holds'[k] = holds[k]
          /\ UNCHANGED <<version, present, cur, read>>
      BY <2>3, FinishOkCases
    <3> QED
      BY <3>1 DEF GhostInv, SnapshotInv, NoGhostState
  <2>4. CASE FinishErr(w)
    <3>1. /\ pc'[w] = "done"
          /\ \A v \in Workers : v # w => pc'[v] = pc[v]
          /\ UNCHANGED <<version, present, handled, holds, cur, read>>
      BY <2>4, FinishErrEffects
    <3> QED
      BY <3>1, GhostInvFrame
  <2> QED
    BY <1>3, <2>1, <2>2, <2>3, <2>4 DEF Worker
<1>4. ASSUME Terminated \/ UNCHANGED vars PROVE GhostInv'
  BY <1>4, GhostInvFrame DEF Terminated, vars
<1> QED
  BY <1>1, <1>2, <1>3, <1>4 DEF Next

-----------------------------------------------------------------------------
(* No lost update. *)

\* NoLostUpdate for one key.  Where QueueInv holds, a key is scheduled when it has
\* an event coming, waits for its back-off, or is dirty.
Owed(k) == events[k] > 0 \/ k \in waiting \/ k \in dirty

Kept(k) ==
  \/ handled[k] = version[k]
  \/ gaveUp[k] = version[k]
  \/ k \in abandoned
  \/ Owed(k)
  \/ \E w \in Workers : WorksOnCurrent(w, k)

\* Every step keeps every unreconciled revision on its way.
LEMMA KeptStep ==
  ASSUME TypeOK, QueueInv, WorkerInv, ShutdownInv, VersionInv, [Next]_vars,
         NEW x \in Keys, Kept(x)
  PROVE  Kept(x)'
<1> USE DEF wqVars, workerVars, runVars, resultVars, informerVars
<1>1. ASSUME NEW k \in Keys, Informer(k) PROVE Kept(x)'
  <2>1. CASE CacheSet(k) \/ CacheDelete(k)
    <3>1. /\ events'[k] > 0
          /\ k # x => version'[x] = version[x] /\ events'[x] = events[x]
          /\ UNCHANGED <<waiting, dirty, abandoned, pc, cur, read, handled, gaveUp>>
      BY <2>1, CacheChangeCases
    <3>2. CASE k = x
      BY <3>1, <3>2 DEF Kept, Owed
    <3>3. CASE k # x
      BY <3>1, <3>3 DEF Kept, Owed, WorksOnCurrent
    <3> QED
      BY <3>2, <3>3
  <2>2. CASE Resync(k)
    <3>1. events'[x] >= events[x] /\ events[x] \in Nat /\ events'[x] \in Nat
      BY <2>2 DEF Resync, TypeOK
    <3>2. UNCHANGED <<waiting, dirty, abandoned, version, pc, cur, read, handled, gaveUp>>
      BY <2>2 DEF Resync
    <3> QED
      BY <3>1, <3>2 DEF Kept, Owed, WorksOnCurrent
  <2>3. CASE Handler(k) \/ WaitingReady(k)
    <3>1. /\ MarkDirty(k)
          /\ \A y \in Keys : y # k => events'[y] = events[y] /\ (y \in waiting <=> y \in waiting')
          /\ UNCHANGED <<version, pc, cur, read, handled, gaveUp>>
      BY <2>3, HandlerCases DEF TypeOK, WQTypeOK
    <3>2. /\ k \in abandoned' \/ k \in dirty'
          /\ \A y \in Keys : (y \in dirty => y \in dirty') /\ (y \in abandoned => y \in abandoned')
      BY <3>1, AddCases
    <3>3. Owed(x) => Owed(x)' \/ x \in abandoned'
      BY <3>1, <3>2 DEF Owed
    <3>4. \A w \in Workers : WorksOnCurrent(w, x) => WorksOnCurrent(w, x)'
      BY <3>1 DEF WorksOnCurrent
    <3> QED
      BY <3>1, <3>2, <3>3, <3>4 DEF Kept
  <2> QED
    BY <1>1, <2>1, <2>2, <2>3 DEF Informer
<1>2. ASSUME Run PROVE Kept(x)'
  <2>1. CASE CachesSynced
    <3>1. UNCHANGED <<waiting, dirty, abandoned, version, events, cur, read, handled, gaveUp>>
      BY <2>1 DEF CachesSynced
    <3>2. \A w \in Workers : ~WorksOnCurrent(w, x)
      BY <2>1 DEF CachesSynced, ShutdownInv, WorksOnCurrent
    <3> QED
      BY <3>1, <3>2 DEF Kept, Owed
  <2>2. CASE Cancel
    BY <2>2 DEF Cancel, Kept, Owed, WorksOnCurrent
  <2>3. CASE SyncFailed \/ ShutDownQueue \/ Return
    <3>1. /\ abandoned' = abandoned \cup waiting
          /\ UNCHANGED <<dirty, version, events, pc, cur, read, handled, gaveUp>>
      BY <2>3 DEF SyncFailed, ShutDownQueue, Return, QueueShutDown
    <3> QED
      BY <3>1 DEF Kept, Owed, WorksOnCurrent
  <2> QED
    BY <1>2, <2>1, <2>2, <2>3 DEF Run
<1>3. ASSUME NEW w \in Workers, Worker(w) PROVE Kept(x)'
  <2>1. CASE Get(w)
    <3> DEFINE k == Head(queue)
    <3>1. /\ queue # <<>> /\ pc[w] = "idle"
          /\ dirty' = dirty \ {k}
          /\ pc' = [pc EXCEPT ![w] = "read"]
          /\ cur' = [cur EXCEPT ![w] = k]
          /\ UNCHANGED <<waiting, abandoned, version, events, read, handled, gaveUp>>
      BY <2>1 DEF Get, QueueGet
    <3> HIDE DEF k
    <3>2. pc'[w] = "read" /\ cur'[w] = k
      BY <3>1 DEF TypeOK
    <3>3. \A v \in Workers : v # w => pc'[v] = pc[v] /\ cur'[v] = cur[v]
      BY <3>1 DEF TypeOK
    <3>4. CASE x = k
      BY <3>2, <3>4 DEF Kept, WorksOnCurrent
    <3>5. CASE x # k
      <4>1. Owed(x) => Owed(x)'
        BY <3>1, <3>5 DEF Owed
      <4>2. \A v \in Workers : WorksOnCurrent(v, x) => WorksOnCurrent(v, x)'
        BY <3>1, <3>3 DEF WorksOnCurrent
      <4> QED
        BY <3>1, <4>1, <4>2 DEF Kept
    <3> QED
      BY <3>4, <3>5
  <2>2. CASE Exit(w)
    <3>1. /\ pc[w] = "idle" /\ pc' = [pc EXCEPT ![w] = "exited"]
          /\ UNCHANGED <<waiting, dirty, abandoned, version, events, cur, read, handled, gaveUp>>
      BY <2>2 DEF Exit
    <3>2. \A v \in Workers : WorksOnCurrent(v, x) => WorksOnCurrent(v, x)'
      BY <3>1 DEF WorksOnCurrent, TypeOK
    <3> QED
      BY <3>1, <3>2 DEF Kept, Owed
  <2>3. CASE ReadCache(w) \/ ReadFails(w)
    <3>0. read'[w] = [version |-> version[cur[w]], found |-> present[cur[w]]]
      BY <2>3, LookupCases
    <3>1. /\ read'[w].version = version[cur[w]]
          /\ pc'[w] \in {"deliver", "failed"}
          /\ \A v \in Workers : v # w => pc'[v] = pc[v] /\ read'[v] = read[v]
          /\ UNCHANGED <<waiting, dirty, abandoned, version, events, cur, handled, gaveUp>>
      BY <2>3, <3>0, LookupCases
    <3>2. \A v \in Workers : WorksOnCurrent(v, x) => WorksOnCurrent(v, x)'
      BY <3>1 DEF WorksOnCurrent
    <3> QED
      BY <3>1, <3>2 DEF Kept, Owed
  <2>4. CASE FinishOk(w)
    <3>1. /\ cur[w] \in Keys /\ pc[w] = "deliver"
          /\ \A v \in Workers : v # w => pc'[v] = pc[v]
          /\ handled'[cur[w]] = read[w].version
          /\ \A k \in Keys : k # cur[w] => handled'[k] = handled[k]
          /\ UNCHANGED <<waiting, dirty, abandoned, version, events, cur, read, gaveUp>>
      BY <2>4, FinishOkCases
    <3>2. /\ handled[cur[w]] <= read[w].version
          /\ read[w].version <= version[cur[w]]
          /\ handled[cur[w]] \in Nat /\ version[cur[w]] \in Nat /\ read[w].version \in Nat
      BY <3>1 DEF VersionInv, TypeOK, Snapshots
    <3>3. handled[x] = version[x] => handled'[x] = version[x]
      BY <3>1, <3>2
    <3>4. \A v \in Workers : WorksOnCurrent(v, x) =>
            WorksOnCurrent(v, x)' \/ handled'[x] = version[x]
      BY <3>1 DEF WorksOnCurrent
    <3> QED
      BY <3>1, <3>3, <3>4 DEF Kept, Owed
  <2>5. CASE FinishErr(w)
    <3>1. /\ cur[w] \in Keys /\ pc[w] = "failed"
          /\ \A v \in Workers : v # w => pc'[v] = pc[v]
          /\ \/ cur[w] \in waiting' \cup abandoned' /\ gaveUp' = gaveUp
             \/ gaveUp'[cur[w]] = read[w].version
          /\ waiting \subseteq waiting' /\ abandoned \subseteq abandoned'
          /\ \A k \in Keys : k # cur[w] => gaveUp'[k] = gaveUp[k]
          /\ UNCHANGED <<dirty, version, events, cur, read, handled>>
      BY <2>5, FinishErrEffects
    <3>2. /\ gaveUp[cur[w]] <= read[w].version
          /\ read[w].version <= version[cur[w]]
          /\ gaveUp[cur[w]] \in Nat /\ version[cur[w]] \in Nat /\ read[w].version \in Nat
      BY <3>1 DEF VersionInv, TypeOK, Snapshots
    <3>3. gaveUp[x] = version[x] => gaveUp'[x] = version[x]
      BY <3>1, <3>2
    <3>4. \A v \in Workers : WorksOnCurrent(v, x) =>
            \/ WorksOnCurrent(v, x)' \/ gaveUp'[x] = version[x]
            \/ x \in abandoned' \/ x \in waiting'
      BY <3>1 DEF WorksOnCurrent
    <3>5. Owed(x) => Owed(x)'
      BY <3>1 DEF Owed
    <3> QED
      BY <3>1, <3>3, <3>4, <3>5 DEF Kept, Owed
  <2>6. CASE Done(w)
    <3>1. /\ pc[w] = "done" /\ pc' = [pc EXCEPT ![w] = "idle"]
          /\ cur' = [cur EXCEPT ![w] = NoKey]
          /\ UNCHANGED <<waiting, dirty, abandoned, version, events, read, handled, gaveUp>>
      BY <2>6 DEF Done, QueueDone
    <3>2. \A v \in Workers : WorksOnCurrent(v, x) => WorksOnCurrent(v, x)'
      BY <3>1 DEF WorksOnCurrent, TypeOK
    <3> QED
      BY <3>1, <3>2 DEF Kept, Owed
  <2> QED
    BY <1>3, <2>1, <2>2, <2>3, <2>4, <2>5, <2>6 DEF Worker
<1>4. ASSUME Terminated \/ UNCHANGED vars PROVE Kept(x)'
  BY <1>4 DEF Terminated, vars, Kept, Owed, WorksOnCurrent
<1> QED
  BY <1>1, <1>2, <1>3, <1>4 DEF Next

-----------------------------------------------------------------------------
(* The retry budget. *)

BudgetInv == RetryInv /\ RetryBudget

\* Every step keeps the failure counts within their limit and with their keys.
LEMMA BudgetStep ==
  TypeOK /\ QueueInv /\ WorkerInv /\ ShutdownInv /\ BudgetInv /\ [Next]_vars => BudgetInv'
<1> SUFFICES ASSUME TypeOK, QueueInv, WorkerInv, ShutdownInv, BudgetInv, [Next]_vars
             PROVE  BudgetInv'
  OBVIOUS
<1> USE DEF wqVars, workerVars, runVars, resultVars, informerVars
<1>0. MaxRequeues \in Nat /\ \A k \in Keys : requeues[k] \in Nat
  BY ControllerAssumption DEF TypeOK, WQTypeOK
<1>00. \A v \in Workers : pc[v] \in Busy => cur[v] \in Keys
  BY DEF WorkerInv, TypeOK, WQTypeOK
<1>1. ASSUME NEW k \in Keys, Informer(k) PROVE BudgetInv'
  <2>1. CASE CacheSet(k) \/ CacheDelete(k) \/ Resync(k)
    BY <2>1 DEF CacheSet, CacheDelete, CacheChange, Resync, BudgetInv, RetryInv, RetryBudget
  <2>2. CASE Handler(k) \/ WaitingReady(k)
    <3>1. /\ MarkDirty(k) /\ UNCHANGED <<processing, requeues, pc, cur>>
          /\ \A y \in Keys : y \in waiting => y \in waiting' \/ y = k
      BY <2>2, HandlerCases
    <3>2. /\ k \in abandoned' \/ k \in dirty'
          /\ \A y \in Keys : (y \in dirty => y \in dirty') /\ (y \in abandoned => y \in abandoned')
      BY <3>1, AddCases
    <3> QED
      BY <1>00, <3>1, <3>2 DEF BudgetInv, RetryInv, RetryBudget, Busy
  <2> QED
    BY <1>1, <2>1, <2>2 DEF Informer
<1>2. ASSUME Run PROVE BudgetInv'
  <2>1. CASE CachesSynced
    BY <2>1 DEF CachesSynced, BudgetInv, RetryInv, RetryBudget
  <2>2. CASE Cancel
    BY <2>2 DEF Cancel, BudgetInv, RetryInv, RetryBudget
  <2>3. CASE SyncFailed \/ ShutDownQueue \/ Return
    <3>1. abandoned' = abandoned \cup waiting /\ UNCHANGED <<dirty, processing, requeues, pc, cur>>
      BY <2>3 DEF SyncFailed, ShutDownQueue, Return, QueueShutDown
    <3> QED
      BY <3>1 DEF BudgetInv, RetryInv, RetryBudget
  <2> QED
    BY <1>2, <2>1, <2>2, <2>3 DEF Run
<1>3. ASSUME NEW w \in Workers, Worker(w) PROVE BudgetInv'
  <2>1. CASE Get(w)
    <3> DEFINE k == Head(queue)
    <3>1. /\ queue # <<>> /\ pc[w] = "idle"
          /\ dirty' = dirty \ {k} /\ processing' = processing \cup {k}
          /\ pc' = [pc EXCEPT ![w] = "read"]
          /\ cur' = [cur EXCEPT ![w] = k]
          /\ UNCHANGED <<waiting, requeues, abandoned>>
      BY <2>1 DEF Get, QueueGet
    <3>2. k \notin processing
      BY <3>1, TailElements DEF QueueInv, Queued, TypeOK, WQTypeOK
    <3> HIDE DEF k
    <3>3. \A v \in Workers : pc'[v] = "done" =>
            pc[v] = "done" /\ cur'[v] = cur[v] /\ cur[v] # k
      BY <3>1, <3>2 DEF TypeOK, WorkerInv, Busy
    <3>4. RetryInv'
      BY <3>1, <3>3 DEF BudgetInv, RetryInv
    <3>5. RetryBudget'
      BY <3>1 DEF BudgetInv, RetryBudget
    <3> QED
      BY <3>4, <3>5 DEF BudgetInv
  <2>2. CASE Exit(w)
    BY <2>2 DEF Exit, BudgetInv, RetryInv, RetryBudget, TypeOK
  <2>3. CASE ReadCache(w) \/ ReadFails(w)
    <3>1. /\ pc'[w] # "done"
          /\ \A v \in Workers : v # w => pc'[v] = pc[v]
          /\ UNCHANGED <<waiting, dirty, processing, requeues, abandoned, cur>>
      BY <2>3, LookupCases
    <3> QED
      BY <3>1 DEF BudgetInv, RetryInv, RetryBudget
  <2>4. CASE FinishOk(w)
    <3>1. /\ cur[w] \in Keys /\ pc[w] = "deliver"
          /\ \A v \in Workers : v # w => pc'[v] = pc[v]
          /\ requeues'[cur[w]] = 0
          /\ \A k \in Keys : k # cur[w] => requeues'[k] = requeues[k]
          /\ UNCHANGED <<waiting, dirty, processing, abandoned, cur>>
      BY <2>4, FinishOkCases
    <3>2. RetryInv'
      BY <1>00, <3>1 DEF BudgetInv, RetryInv, Busy
    <3>3. RetryBudget'
      BY <1>0, <3>1 DEF BudgetInv, RetryBudget
    <3> QED
      BY <3>2, <3>3 DEF BudgetInv
  <2>5. CASE FinishErr(w)
    <3>1. /\ cur[w] \in Keys /\ pc[w] = "failed"
          /\ \A v \in Workers : v # w => pc'[v] = pc[v]
          /\ \/ /\ requeues[cur[w]] < MaxRequeues
                /\ requeues'[cur[w]] = requeues[cur[w]] + 1
                /\ cur[w] \in waiting' \cup abandoned'
             \/ requeues'[cur[w]] = 0
          /\ waiting \subseteq waiting' /\ abandoned \subseteq abandoned'
          /\ \A k \in Keys : k # cur[w] => requeues'[k] = requeues[k]
          /\ UNCHANGED <<dirty, processing, cur>>
      BY <2>5, FinishErrEffects
    <3>2. RetryInv'
      BY <1>0, <1>00, <3>1 DEF BudgetInv, RetryInv, Busy
    <3>3. RetryBudget'
      BY <1>0, <3>1 DEF BudgetInv, RetryBudget
    <3> QED
      BY <3>2, <3>3 DEF BudgetInv
  <2>6. CASE Done(w)
    <3>1. /\ pc[w] = "done" /\ pc' = [pc EXCEPT ![w] = "idle"]
          /\ cur' = [cur EXCEPT ![w] = NoKey]
          /\ processing' = processing \ {cur[w]}
          /\ UNCHANGED <<waiting, dirty, requeues, abandoned>>
      BY <2>6 DEF Done, QueueDone
    <3>2. \A v \in Workers : pc'[v] = "done" => pc[v] = "done" /\ cur'[v] = cur[v]
      BY <3>1 DEF TypeOK
    <3>3. RetryInv'
      BY <3>1, <3>2 DEF BudgetInv, RetryInv
    <3>4. RetryBudget'
      BY <3>1 DEF BudgetInv, RetryInv, RetryBudget
    <3> QED
      BY <3>3, <3>4 DEF BudgetInv
  <2> QED
    BY <1>3, <2>1, <2>2, <2>3, <2>4, <2>5, <2>6 DEF Worker
<1>4. ASSUME Terminated \/ UNCHANGED vars PROVE BudgetInv'
  BY <1>4 DEF Terminated, vars, BudgetInv, RetryInv, RetryBudget
<1> QED
  BY <1>1, <1>2, <1>3, <1>4 DEF Next

-----------------------------------------------------------------------------
(* The theorems. *)

\* NoLostUpdate is Kept for every key, because the queue is complete.
LEMMA KeptIsNoLostUpdate == TypeOK /\ QueueInv => (NoLostUpdate <=> \A k \in Keys : Kept(k))
  BY DEF NoLostUpdate, Kept, Owed, Scheduled, QueueInv, TypeOK, WQTypeOK

\* The same, of the state after a step.
LEMMA KeptIsNoLostUpdateNext ==
  TypeOK' /\ QueueInv' => (NoLostUpdate' <=> \A k \in Keys : Kept(k)')
  BY DEF NoLostUpdate, Kept, Owed, Scheduled, QueueInv, TypeOK, WQTypeOK, WorksOnCurrent, Queued

\* Run starts in a state of the inductive invariant.
LEMMA InitInv == Init => Inv
<1> SUFFICES ASSUME Init PROVE Inv
  OBVIOUS
<1> USE ControllerAssumption DEF Init, WQInit
<1>1. TypeOK
  <2>1. WQTypeOK
    <3>1. queue = <<>> /\ requeues = [k \in Keys |-> 0] /\ shuttingDown = FALSE
      OBVIOUS
    <3>2. queue \in Seq(Keys)
      BY <3>1
    <3>3. requeues \in [Keys -> Nat]
      BY <3>1
    <3>4. dirty \subseteq Keys /\ processing \subseteq Keys /\ waiting \subseteq Keys
          /\ abandoned \subseteq Keys
      OBVIOUS
    <3> QED
      BY <3>1, <3>2, <3>3, <3>4 DEF WQTypeOK
  <2>2. read \in [Workers -> Snapshots]
    BY DEF Snapshots
  <2>3. /\ version \in [Keys -> Nat] /\ present \in [Keys -> BOOLEAN]
        /\ events \in [Keys -> Nat] /\ handled \in [Keys -> Nat]
        /\ holds \in [Keys -> BOOLEAN] /\ gaveUp \in [Keys -> Nat]
    OBVIOUS
  <2>4. phase \in Phases /\ pc \in [Workers -> PCs]
    BY DEF Phases, PCs
  <2> QED
    BY <2>1, <2>2, <2>3, <2>4 DEF TypeOK
<1>2. QueueInv
  BY DEF QueueInv, Queued
<1>3. WorkerInv /\ ShutdownInv
  BY DEF WorkerInv, OneWorkerPerKey, ShutdownInv, Busy
<1>4. VersionInv /\ SnapshotInv /\ NoGhostState /\ NoLostUpdate
  BY DEF VersionInv, SnapshotInv, NoGhostState, NoLostUpdate
<1>5. RetryInv /\ RetryBudget
  BY DEF RetryInv, RetryBudget
<1> QED
  BY <1>1, <1>2, <1>3, <1>4, <1>5 DEF Inv

\* Every step of the controller keeps the inductive invariant.
LEMMA NextInv == Inv /\ [Next]_vars => Inv'
<1> SUFFICES ASSUME Inv, [Next]_vars PROVE Inv'
  OBVIOUS
<1> USE DEF Inv
<1>1. TypeOK'
  BY TypeStep
<1>2. QueueInv'
  BY QueueStep
<1>3. WorkerInv'
  BY WorkerStep
<1>4. ShutdownInv'
  BY ShutdownStep
<1>5. VersionInv'
  BY VersionStep
<1>6. SnapshotInv' /\ NoGhostState'
  BY GhostStep DEF GhostInv
<1>7. NoLostUpdate'
  <2>1. \A k \in Keys : Kept(k)
    BY KeptIsNoLostUpdate
  <2>2. \A k \in Keys : Kept(k)'
    BY <2>1, KeptStep
  <2> QED
    BY <1>1, <1>2, <2>2, KeptIsNoLostUpdateNext
<1>8. RetryInv' /\ RetryBudget'
  BY BudgetStep DEF BudgetInv
<1> QED
  BY <1>1, <1>2, <1>3, <1>4, <1>5, <1>6, <1>7, <1>8

\* The inductive invariant holds in every reachable state.
THEOREM InvHolds == Spec => []Inv
  BY InitInv, NextInv, PTL DEF Spec

\* Type correctness of the controller, the queue included.
THEOREM TypeCorrect == Spec => []TypeOK
<1>1. Inv => TypeOK
  BY DEF Inv
<1> QED
  BY <1>1, InvHolds, PTL

\* No two workers ever reconcile the same object at once.
THEOREM Serialised == Spec => []OneWorkerPerKey
<1>1. Inv => OneWorkerPerKey
  BY DEF Inv, WorkerInv
<1> QED
  BY <1>1, InvHolds, PTL

\* No cache change is lost between the handler, the queue, the retry timer and
\* the workers.
THEOREM UpdatesKept == Spec => []NoLostUpdate
<1>1. Inv => NoLostUpdate
  BY DEF Inv
<1> QED
  BY <1>1, InvHolds, PTL

\* Nothing remains of a deleted object once its deletion has been reconciled.
THEOREM GhostFree == Spec => []NoGhostState
<1>1. Inv => NoGhostState
  BY DEF Inv
<1> QED
  BY <1>1, InvHolds, PTL

\* The retry budget is respected and never leaks into a later failure.
THEOREM BudgetKept == Spec => []RetryBudget
<1>1. Inv => RetryBudget
  BY DEF Inv
<1> QED
  BY <1>1, InvHolds, PTL

\* When Run returns, every accepted key has been processed.
THEOREM Drained == Spec => []DrainedOnReturn
<1>1. Inv => DrainedOnReturn
  <2> SUFFICES ASSUME Inv, phase = "returned"
               PROVE  queue = <<>> /\ dirty = {} /\ processing = {}
    BY DEF DrainedOnReturn
  <2>1. \A w \in Workers : pc[w] = "exited"
    BY DEF Inv, ShutdownInv
  <2>2. queue = <<>>
    BY <2>1 DEF Inv, ShutdownInv
  <2>3. processing = {}
    BY <2>1 DEF Inv, WorkerInv, Busy
  <2>4. dirty = {}
    BY <2>2, <2>3 DEF Inv, QueueInv, Queued, TypeOK, WQTypeOK
  <2> QED
    BY <2>2, <2>3, <2>4
<1> QED
  BY <1>1, InvHolds, PTL

\* A delayed reconcile never overwrites the result of a newer one.
THEOREM NoRegression == Spec => HandledNeverRegresses
<1>1. Inv /\ [Next]_vars => [\A k \in Keys : handled'[k] >= handled[k]]_vars
  <2> SUFFICES ASSUME Inv, [Next]_vars, NEW k \in Keys PROVE handled'[k] >= handled[k]
    OBVIOUS
  <2> USE DEF Inv, wqVars, workerVars, runVars, resultVars, informerVars
  <2>0. handled[k] \in Nat
    BY DEF TypeOK
  <2>1. ASSUME NEW x \in Keys, Informer(x) PROVE handled' = handled
    BY <2>1, HandlerCases DEF Informer, CacheSet, CacheDelete, CacheChange, Resync
  <2>2. ASSUME Run PROVE handled' = handled
    BY <2>2 DEF Run, CachesSynced, SyncFailed, Cancel, ShutDownQueue, Return
  <2>3. ASSUME NEW w \in Workers, Worker(w) PROVE handled'[k] >= handled[k]
    <3>1. CASE FinishOk(w)
      <4>1. /\ cur[w] \in Keys /\ pc[w] = "deliver"
            /\ handled'[cur[w]] = read[w].version
            /\ \A y \in Keys : y # cur[w] => handled'[y] = handled[y]
        BY <3>1, FinishOkCases
      <4>2. handled[cur[w]] <= read[w].version /\ read[w].version \in Nat
        BY <4>1 DEF VersionInv, TypeOK, Snapshots
      <4> QED
        BY <2>0, <4>1, <4>2
    <3>2. CASE ~FinishOk(w)
      <4>1. handled' = handled
        BY <2>3, <3>2, FinishErrCases DEF Worker, Get, Exit, ReadCache, ReadFails, Lookup, Done
      <4> QED
        BY <2>0, <4>1
    <3> QED
      BY <3>1, <3>2
  <2>4. ASSUME Terminated \/ UNCHANGED vars PROVE handled' = handled
    BY <2>4 DEF Terminated, vars
  <2> QED
    BY <2>0, <2>1, <2>2, <2>3, <2>4 DEF Next
<1> QED
  BY <1>1, InvHolds, PTL DEF Spec, HandledNeverRegresses
=============================================================================
