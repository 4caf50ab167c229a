----------------------------- MODULE Controller -----------------------------
(***************************************************************************)
(* internal/watcher/controller.go: the informer event handlers, the worker *)
(* pool with its retry policy, and Run's start-up and shutdown.            *)
(*                                                                         *)
(* The data of an object is abstracted to a revision number: every change  *)
(* of the informer cache gives key k a new version[k], and a reconcile     *)
(* acts on the revision it read from the cache.  The informers are         *)
(* client-go code: they first change the cache and only later call the     *)
(* event handler, on another goroutine; events[k] counts the calls that    *)
(* are still to come.  What a reconcile does with an object it found       *)
(* (deliver) or did not find (clearObject, forgetPod) is the subject of    *)
(* AlertPipeline; here holds[k] says which of the two happened last, that  *)
(* is, whether the controller may hold local state for k.                  *)
(***************************************************************************)
EXTENDS WorkQueue, FiniteSets

CONSTANTS
  Workers,       \* the worker goroutines (Options.Workers)
  NoKey,         \* the value of a worker's key while it has none
  MaxRequeues,   \* a key is retried while NumRequeues < MaxRequeues; 5 in the code
  MaxVersion,    \* bound: revisions per object
  MaxPending,    \* bound: pending event-handler calls per object at a resync
  MaxErrors      \* bound: failing reconciles in a behaviour

ASSUME ControllerAssumption ==
  /\ NoKey \notin Keys
  /\ Workers # {}
  /\ MaxRequeues \in Nat
  /\ MaxVersion \in Nat
  /\ MaxPending \in Nat
  /\ MaxErrors \in Nat

VARIABLES
  version,          \* version[k]: current revision of k in the informer cache
  present,          \* present[k]: the cache holds the object (else it is deleted)
  events,           \* events[k]: event-handler calls still to be made for k
  phase,            \* where Run is
  ctxDone,          \* ctx has been cancelled
  pc,               \* pc[w]: where worker w is in processNext
  cur,              \* cur[w]: the key worker w is processing
  read,             \* read[w]: what w read from the cache
  handled,          \* handled[k]: revision of the last reconcile that returned nil
  holds,            \* holds[k]: that reconcile found the object
  gaveUp,           \* history: last revision whose reconcile failed for good
  reconcileErrors   \* the sentinel_reconcile_errors_total counter

informerVars == <<version, present, events>>
runVars      == <<phase, ctxDone>>
workerVars   == <<pc, cur, read>>
resultVars   == <<handled, holds, gaveUp, reconcileErrors>>
vars == <<wqVars, informerVars, runVars, workerVars, resultVars>>

Phases == {"starting", "running", "draining", "returned", "syncFailed"}
PCs    == {"off", "idle", "read", "deliver", "failed", "done", "exited"}
Busy   == {"read", "deliver", "failed", "done"}   \* between Get and Done
Snapshots == [version : Nat, found : BOOLEAN]

TypeOK ==
  /\ WQTypeOK
  /\ version \in [Keys -> Nat]
  /\ present \in [Keys -> BOOLEAN]
  /\ events \in [Keys -> Nat]
  /\ phase \in Phases
  /\ ctxDone \in BOOLEAN
  /\ pc \in [Workers -> PCs]
  /\ cur \in [Workers -> Keys \cup {NoKey}]
  /\ read \in [Workers -> Snapshots]
  /\ handled \in [Keys -> Nat]
  /\ holds \in [Keys -> BOOLEAN]
  /\ gaveUp \in [Keys -> Nat]
  /\ reconcileErrors \in Nat

Init ==
  /\ WQInit
  /\ version = [k \in Keys |-> 0]
  /\ present = [k \in Keys |-> FALSE]
  /\ events = [k \in Keys |-> 0]
  /\ phase = "starting"
  /\ ctxDone = FALSE
  /\ pc = [w \in Workers |-> "off"]
  /\ cur = [w \in Workers |-> NoKey]
  /\ read = [w \in Workers |-> [version |-> 0, found |-> FALSE]]
  /\ handled = [k \in Keys |-> 0]
  /\ holds = [k \in Keys |-> FALSE]
  /\ gaveUp = [k \in Keys |-> 0]
  /\ reconcileErrors = 0

-----------------------------------------------------------------------------
(* The informers. *)

\* The cache changes; the handler call for it comes later.
CacheChange(k, found) ==
  /\ version[k] < MaxVersion
  /\ version' = [version EXCEPT ![k] = @ + 1]
  /\ present' = [present EXCEPT ![k] = found]
  /\ events' = [events EXCEPT ![k] = @ + 1]
  /\ UNCHANGED <<wqVars, runVars, workerVars, resultVars>>

\* An object is added or updated.
CacheSet(k) == CacheChange(k, TRUE)

\* An object is deleted, seen as a DELETED event or as a tombstone on relist.
CacheDelete(k) == present[k] /\ CacheChange(k, FALSE)

\* ResyncPeriod elapsed: every cached object is delivered to the handler again.
Resync(k) ==
  /\ present[k]
  /\ events[k] < MaxPending
  /\ events' = [events EXCEPT ![k] = @ + 1]
  /\ UNCHANGED <<wqVars, version, present, runVars, workerVars, resultVars>>

\* Slip: the handler drops a key that is being processed.
EnqueueSkipsBusy(k) == IF k \in processing THEN UNCHANGED wqVars ELSE QueueAdd(k)

\* enqueuePod and enqueueNode: the key alone is queued.
Enqueue(k) == QueueAdd(k)

\* AddFunc, UpdateFunc and DeleteFunc, which all do the same: the events of one
\* object need not be told apart.
Handler(k) ==
  /\ events[k] > 0
  /\ events' = [events EXCEPT ![k] = @ - 1]
  /\ Enqueue(k)
  /\ UNCHANGED <<version, present, runVars, workerVars, resultVars>>

WaitingReady(k) ==
  /\ QueueWaitingReady(k)
  /\ UNCHANGED <<informerVars, runVars, workerVars, resultVars>>

-----------------------------------------------------------------------------
(* Run: start-up and shutdown. *)

\* WaitForCacheSync returned true: the worker pool starts.
CachesSynced ==
  /\ phase = "starting"
  /\ phase' = "running"
  /\ pc' = [w \in Workers |-> "idle"]
  /\ UNCHANGED <<wqVars, informerVars, ctxDone, cur, read, resultVars>>

\* ctx was cancelled first: Run returns an error and the deferred ShutDown runs.
SyncFailed ==
  /\ phase = "starting"
  /\ ctxDone
  /\ phase' = "syncFailed"
  /\ QueueShutDown
  /\ UNCHANGED <<informerVars, ctxDone, workerVars, resultVars>>

\* SIGINT or SIGTERM; a metrics server that fails does not stop the controller.
Cancel ==
  /\ ~ctxDone
  /\ ctxDone' = TRUE
  /\ UNCHANGED <<wqVars, informerVars, phase, workerVars, resultVars>>

\* Slip: Run waits for the workers without shutting the queue down first.
ShutDownQueueForgotten ==
  /\ phase = "running"
  /\ ctxDone
  /\ phase' = "draining"
  /\ UNCHANGED <<wqVars, informerVars, ctxDone, workerVars, resultVars>>

ShutDownQueue ==
  /\ phase = "running"
  /\ ctxDone
  /\ phase' = "draining"
  /\ QueueShutDown
  /\ UNCHANGED <<informerVars, ctxDone, workerVars, resultVars>>

\* Slip: the workers are not waited for.
WorkersNotAwaited == TRUE

\* wg.Wait returns.
WorkersDone == \A w \in Workers : pc[w] = "exited"

\* Run returns.  The deferred second ShutDown changes nothing any more.
Return ==
  /\ phase = "draining"
  /\ WorkersDone
  /\ phase' = "returned"
  /\ QueueShutDown
  /\ UNCHANGED <<informerVars, ctxDone, workerVars, resultVars>>

-----------------------------------------------------------------------------
(* A worker: for c.processNext(ctx) { }. *)

Get(w) ==
  /\ pc[w] = "idle"
  /\ QueueGet
  /\ pc' = [pc EXCEPT ![w] = "read"]
  /\ cur' = [cur EXCEPT ![w] = Head(queue)]
  /\ UNCHANGED <<informerVars, runVars, read, resultVars>>

\* Slip: the worker leaves as soon as shutdown is signalled.
ExitUndrained(w) ==
  /\ pc[w] = "idle"
  /\ shuttingDown
  /\ pc' = [pc EXCEPT ![w] = "exited"]
  /\ UNCHANGED <<wqVars, informerVars, runVars, cur, read, resultVars>>

Exit(w) ==
  /\ pc[w] = "idle"
  /\ QueueClosed
  /\ pc' = [pc EXCEPT ![w] = "exited"]
  /\ UNCHANGED <<wqVars, informerVars, runVars, cur, read, resultVars>>

\* The lister call of reconcilePod / reconcileNode: what it returned decides the
\* rest of the reconcile, whatever the cache does in the meantime.
Lookup(w, next) ==
  /\ pc[w] = "read"
  /\ pc' = [pc EXCEPT ![w] = next]
  /\ read' = [read EXCEPT ![w] =
                [version |-> version[cur[w]], found |-> present[cur[w]]]]
  /\ UNCHANGED <<informerVars, runVars, cur, resultVars>>

\* Slip: Done is called at the start of the reconcile instead of deferred.
ReadCacheEarlyDone(w) == Lookup(w, "deliver") /\ QueueDone(cur[w])

ReadCache(w) == Lookup(w, "deliver") /\ UNCHANGED wqVars

\* The lister failed with an error other than NotFound.
ReadFails(w) ==
  /\ reconcileErrors < MaxErrors
  /\ Lookup(w, "failed")
  /\ UNCHANGED wqVars

\* Slip: the NotFound branch returns nil without clearObject.
HoldsAfterNoClear(w) == holds[cur[w]] \/ read[w].found

\* An object that was found has been delivered, one that was not is cleared.
HoldsAfter(w) == read[w].found

\* Slip: one failure is taken back instead of forgetting them all.
ForgetOne(w) ==
  /\ requeues' = [requeues EXCEPT ![cur[w]] = @ - 1]
  /\ UNCHANGED <<queue, dirty, processing, waiting, shuttingDown, abandoned>>

\* The Forget at the end of processNext.
ForgetKey(w) == QueueForget(cur[w])

\* reconcile returns nil.
FinishOk(w) ==
  /\ pc[w] = "deliver"
  /\ handled' = [handled EXCEPT ![cur[w]] = read[w].version]
  /\ holds' = [holds EXCEPT ![cur[w]] = HoldsAfter(w)]
  /\ ForgetKey(w)
  /\ pc' = [pc EXCEPT ![w] = "done"]
  /\ UNCHANGED <<informerVars, runVars, cur, read, gaveUp, reconcileErrors>>

\* Slip: the limit is compared with <=.
MayRetryOnceMore(w) == requeues[cur[w]] <= MaxRequeues

\* NumRequeues(key) < 5.
MayRetry(w) == requeues[cur[w]] < MaxRequeues

\* reconcile returned an error: retry with back-off, or Forget and drop the key
\* once it has been retried MaxRequeues times.
FinishErr(w) ==
  /\ pc[w] = "failed"
  /\ reconcileErrors' = reconcileErrors + 1
  /\ \/ /\ MayRetry(w)
        /\ QueueAddRateLimited(cur[w])
        /\ UNCHANGED gaveUp
     \/ /\ ~MayRetry(w)
        /\ ForgetKey(w)
        /\ gaveUp' = [gaveUp EXCEPT ![cur[w]] = read[w].version]
  /\ pc' = [pc EXCEPT ![w] = "done"]
  /\ UNCHANGED <<informerVars, runVars, cur, read, handled, holds>>

\* The deferred queue.Done(key).
Done(w) ==
  /\ pc[w] = "done"
  /\ QueueDone(cur[w])
  /\ pc' = [pc EXCEPT ![w] = "idle"]
  /\ cur' = [cur EXCEPT ![w] = NoKey]
  /\ UNCHANGED <<informerVars, runVars, read, resultVars>>

-----------------------------------------------------------------------------
Worker(w) ==
  \/ Get(w)
  \/ Exit(w)
  \/ ReadCache(w)
  \/ ReadFails(w)
  \/ FinishOk(w)
  \/ FinishErr(w)
  \/ Done(w)

Informer(k) ==
  \/ CacheSet(k)
  \/ CacheDelete(k)
  \/ Resync(k)
  \/ Handler(k)
  \/ WaitingReady(k)

Run ==
  \/ CachesSynced
  \/ SyncFailed
  \/ Cancel
  \/ ShutDownQueue
  \/ Return

\* Run has returned: nothing more has to happen.
Terminated == phase \in {"returned", "syncFailed"} /\ UNCHANGED vars

Next ==
  \/ \E w \in Workers : Worker(w)
  \/ \E k \in Keys : Informer(k)
  \/ Run
  \/ Terminated

Spec == Init /\ [][Next]_vars

-----------------------------------------------------------------------------
(* Correctness. *)

\* The queue still owes key k a reconcile.
Scheduled(k) ==
  \/ events[k] > 0
  \/ k \in Queued
  \/ k \in waiting
  \/ k \in dirty /\ k \in processing

\* Worker w is reconciling k and will act, or has to retry, on the revision that
\* the cache holds now.
WorksOnCurrent(w, k) ==
  /\ cur[w] = k
  /\ \/ pc[w] = "read"
     \/ pc[w] \in {"deliver", "failed"} /\ read[w].version = version[k]

\* No cache change is ever lost between the handler, the queue, the retry timer
\* and the workers: a revision that has not been reconciled is still scheduled or
\* being worked on, or it was given up after MaxRequeues retries.  Shutdown is no
\* excuse for a key the queue had accepted: only an event that comes after it, and
\* a retry that is in its back-off or asked for after it, are abandoned.
\* (enqueuePod, processNext, ShutDown, and the dirty set that makes an Add during
\* a reconcile count.)
NoLostUpdate ==
  \A k \in Keys :
    \/ handled[k] = version[k]
    \/ gaveUp[k] = version[k]
    \/ k \in abandoned
    \/ Scheduled(k)
    \/ \E w \in Workers : WorksOnCurrent(w, k)

\* Two workers never reconcile the same object at once: the active map, the
\* restart tracker and the dedup records of an object have one writer at a time,
\* although deliver is not atomic.
OneWorkerPerKey ==
  \A v, w \in Workers :
    v # w /\ pc[v] \in Busy /\ pc[w] \in Busy => cur[v] # cur[w]

\* A reconcile never overwrites the result of a newer one with an older cache
\* snapshot, however long it is delayed between the lister call and deliver.
HandledNeverRegresses ==
  [][\A k \in Keys : handled'[k] >= handled[k]]_vars

\* Once a key has been reconciled at its current revision, the controller holds
\* local state for it only if the object still exists: nothing remains of a
\* deleted Pod or Node, also when the delete raced a reconcile or a retry.
NoGhostState ==
  \A k \in Keys : handled[k] = version[k] => holds[k] = present[k]

\* The back-off budget: a key is never retried more than MaxRequeues times in a
\* row, and a non-zero failure count always belongs to a key that is still on its
\* way or was abandoned by the shutdown, so a later, unrelated failure starts from a fresh budget.
RetryBudget ==
  \A k \in Keys :
    /\ requeues[k] <= MaxRequeues
    /\ requeues[k] > 0 => k \in waiting \cup dirty \cup processing \cup abandoned

\* "draining work queue": when Run returns after its caches synced, no key that
\* was accepted by the queue is left unprocessed and no worker is still running.
DrainedOnReturn ==
  phase = "returned" => queue = <<>> /\ dirty = {} /\ processing = {}

\* Every cache change is eventually reconciled or given up, unless the program is
\* told to stop.
EventuallyHandled ==
  \A k \in Keys :
    phase = "running" /\ handled[k] # version[k]
      ~> ctxDone \/ handled[k] = version[k] \/ gaveUp[k] = version[k]
=============================================================================
