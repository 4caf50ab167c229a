--------------------------- MODULE LifecycleProofs ---------------------------
(***************************************************************************)
(* Proofs about Lifecycle: the process runs the controller of module       *)
(* Controller, so what ControllerProofs shows holds inside it, and main    *)
(* takes the parts down in the right order.                                *)
(***************************************************************************)
EXTENDS Lifecycle, ControllerProofs

-----------------------------------------------------------------------------
(* The process runs the controller. *)

\* Every step of the process is a step of the controller or leaves it alone.
LEMMA StepIsControllerStep == [LifecycleNext]_allVars => [Next]_vars
<1> SUFFICES ASSUME [LifecycleNext]_allVars PROVE Next \/ UNCHANGED vars
  OBVIOUS
<1>1. CASE SetupFails \/ Start \/ Flush \/ Leave
  BY <1>1 DEF SetupFails, Start, Flush, Leave
<1>2. CASE Listen \/ ListenFails \/ CloseServer
  BY <1>2 DEF Listen, ListenFails, CloseServer, Serve
<1>3. ASSUME NEW w \in Workers, ProcessWorker(w) PROVE Next
  BY <1>3 DEF ProcessWorker, Next
<1>4. CASE \/ ProcessRun(CachesSynced) \/ ProcessRun(SyncFailed)
           \/ ProcessRun(ShutDownQueue) \/ ProcessRun(Return)
  BY <1>4 DEF ProcessRun, Next, Run
<1>5. ASSUME NEW k \in Keys, ProcessInformer(Informer(k)) PROVE Next
  BY <1>5 DEF ProcessInformer, Next
<1>6. CASE Signal
  BY <1>6 DEF Signal, Next, Run
<1>7. CASE UNCHANGED allVars
  BY <1>7 DEF allVars
<1> QED
  BY <1>1, <1>2, <1>3, <1>4, <1>5, <1>6, <1>7 DEF LifecycleNext

\* The controller inside the process (main.go) behaves like the controller alone:
\* whatever ControllerProofs shows of it holds in the process too.
THEOREM ProcessRunsController == LifecycleSpec => Spec
<1>1. LifecycleInit => Init
  BY DEF LifecycleInit
<1> QED
  BY <1>1, StepIsControllerStep, PTL DEF LifecycleSpec, Spec

-----------------------------------------------------------------------------
(* The inductive invariant of the process, in named parts. *)

\* Without a worker pool no worker runs, and after Run none does.
PoolInv ==
  /\ phase \in {"starting", "syncFailed"} => \A w \in Workers : pc[w] = "off"
  /\ phase = "returned" => \A w \in Workers : pc[w] = "exited"

\* Where main is, the controller and the broadcaster are accordingly.
MainInv ==
  /\ main = "setup" => phase = "starting" /\ broadcaster = "none"
  /\ main = "flushed" => phase \in {"returned", "syncFailed"}
  /\ Exited => phase \in {"starting", "returned", "syncFailed"}
  /\ main = "flushed" \/ Exited => broadcaster # "open"
  /\ broadcaster = "shut" => phase \in {"returned", "syncFailed"}

\* Readiness is only ever set by a Run that has got past the cache sync.
ReadyInv == ready => phase \in {"running", "draining", "returned"}

ProcessInv ==
  /\ PoolInv
  /\ MainInv
  /\ ReadyInv
  /\ NoEventLost

\* How Run and the workers move: the phase changes in Run only, and forwards.
LEMMA PhaseMoves ==
  ASSUME [Next]_vars
  PROVE  \/ phase' = phase
         \/ phase = "starting" /\ phase' \in {"running", "syncFailed"}
         \/ phase = "running" /\ phase' = "draining"
         \/ phase = "draining" /\ phase' = "returned"
<1>1. ASSUME NEW w \in Workers, Worker(w) PROVE phase' = phase
  BY <1>1 DEF Worker, Get, Exit, ReadCache, ReadFails, Lookup, FinishOk, FinishErr,
              Done, runVars
<1>2. ASSUME NEW k \in Keys, Informer(k) PROVE phase' = phase
  BY <1>2 DEF Informer, CacheSet, CacheDelete, CacheChange, Resync, Handler,
              WaitingReady, runVars
<1>3. CASE Run
  BY <1>3 DEF Run, CachesSynced, SyncFailed, Cancel, ShutDownQueue, Return
<1>4. CASE Terminated \/ UNCHANGED vars
  BY <1>4 DEF Terminated, vars, runVars
<1> QED
  BY <1>1, <1>2, <1>3, <1>4 DEF Next

\* The worker pool starts with CachesSynced, and a worker that is off or has left
\* does not step.
LEMMA PoolStep == PoolInv /\ [Next]_vars => PoolInv'
<1> SUFFICES ASSUME PoolInv, [Next]_vars PROVE PoolInv'
  OBVIOUS
<1> USE DEF PoolInv
<1>1. ASSUME NEW w \in Workers, Worker(w) PROVE PoolInv'
  <2>1. pc[w] \notin {"off", "exited"}
    BY <1>1 DEF Worker, Get, Exit, ReadCache, ReadFails, Lookup, FinishOk, FinishErr, Done
  <2>2. phase' = phase
    BY <1>1 DEF Worker, Get, Exit, ReadCache, ReadFails, Lookup, FinishOk, FinishErr,
                Done, runVars
  <2> QED
    BY <2>1, <2>2
<1>2. ASSUME NEW k \in Keys, Informer(k) PROVE PoolInv'
  <2>1. phase' = phase /\ pc' = pc
    BY <1>2 DEF Informer, CacheSet, CacheDelete, CacheChange, Resync, Handler,
                WaitingReady, runVars, workerVars
  <2> QED
    BY <2>1
<1>3. CASE Run
  BY <1>3 DEF Run, CachesSynced, SyncFailed, Cancel, ShutDownQueue, Return,
              WorkersDone, workerVars
<1>4. CASE Terminated \/ UNCHANGED vars
  BY <1>4 DEF Terminated, vars, runVars, workerVars
<1> QED
  BY <1>1, <1>2, <1>3, <1>4 DEF Next

\* The process starts in a state of the invariant.
LEMMA ProcessInitInv == LifecycleInit => ProcessInv
  BY DEF LifecycleInit, Init, ProcessInv, PoolInv, MainInv, ReadyInv, NoEventLost, Exited

\* Every step of the process keeps the invariant.
LEMMA ProcessNextInv == ProcessInv /\ [LifecycleNext]_allVars => ProcessInv'
<1> SUFFICES ASSUME ProcessInv, [LifecycleNext]_allVars PROVE ProcessInv'
  OBVIOUS
<1> USE DEF ProcessInv
<1>0. [Next]_vars
  BY StepIsControllerStep
<1>1. PoolInv'
  BY <1>0, PoolStep
<1> SUFFICES MainInv' /\ ReadyInv' /\ NoEventLost'
  BY <1>1
<1> USE DEF MainInv, ReadyInv, NoEventLost, Exited
<1>2. CASE SetupFails \/ Start \/ Flush \/ Leave
  <2>1. phase' = phase
    BY <1>2 DEF SetupFails, Start, Flush, Leave, vars, runVars
  <2>2. ready' = ready /\ eventLost' = eventLost
    BY <1>2 DEF SetupFails, Start, Flush, Leave
  <2>3. ReadyInv' /\ NoEventLost'
    BY <2>1, <2>2
  <2>4. MainInv'
    BY <1>2, <2>1 DEF SetupFails, Start, Flush, Leave, BroadcasterAfterRun
  <2> QED
    BY <2>3, <2>4
<1>3. CASE Listen \/ ListenFails \/ CloseServer
  <2>1. phase' = phase
    BY <1>3 DEF Listen, ListenFails, CloseServer, Serve, vars, runVars
  <2>2. UNCHANGED <<main, broadcaster, ready, eventLost>>
    BY <1>3 DEF Listen, ListenFails, CloseServer, Serve
  <2>3. ReadyInv' /\ NoEventLost'
    BY <2>1, <2>2
  <2>4. MainInv'
    BY <2>1, <2>2
  <2> QED
    BY <2>3, <2>4
<1>4. ASSUME NEW w \in Workers, ProcessWorker(w) PROVE MainInv' /\ ReadyInv' /\ NoEventLost'
  <2>1. phase' = phase
    BY <1>4 DEF ProcessWorker, Worker, Get, Exit, ReadCache, ReadFails, Lookup,
                FinishOk, FinishErr, Done, runVars
  <2>2. UNCHANGED <<main, broadcaster, server, ready>>
    BY <1>4 DEF ProcessWorker
  <2>3. ~eventLost'
    <3>1. pc[w] = "deliver" => broadcaster # "shut"
      BY DEF PoolInv
    <3> QED
      BY <3>1, <1>4 DEF ProcessWorker, FireSinks, EventDropped
  <2> QED
    BY <2>1, <2>2, <2>3
<1>5. CASE \/ ProcessRun(CachesSynced) \/ ProcessRun(SyncFailed)
           \/ ProcessRun(ShutDownQueue) \/ ProcessRun(Return)
  <2>1. /\ main = "run"
        /\ ready' = (ready \/ phase' = "running")
        /\ UNCHANGED <<main, broadcaster, server, eventLost>>
    BY <1>5 DEF ProcessRun
  <2> QED
    BY <1>0, <2>1, PhaseMoves
<1>6. ASSUME NEW k \in Keys, ProcessInformer(Informer(k))
      PROVE  MainInv' /\ ReadyInv' /\ NoEventLost'
  <2>1. phase' = phase
    BY <1>6 DEF ProcessInformer, Informer, CacheSet, CacheDelete, CacheChange, Resync,
                Handler, WaitingReady, runVars
  <2>2. UNCHANGED processVars
    BY <1>6 DEF ProcessInformer
  <2> QED
    BY <2>1, <2>2 DEF processVars
<1>7. CASE Signal
  BY <1>7 DEF Signal, Cancel, processVars
<1>8. CASE UNCHANGED allVars
  BY <1>8 DEF allVars, vars, runVars, processVars
<1> QED
  BY <1>2, <1>3, <1>4, <1>5, <1>6, <1>7, <1>8 DEF LifecycleNext

-----------------------------------------------------------------------------
(* The theorems. *)

\* The invariant of the process holds in every reachable state.
THEOREM ProcessInvHolds == LifecycleSpec => []ProcessInv
  BY ProcessInitInv, ProcessNextInv, PTL DEF LifecycleSpec

\* main.go shuts the broadcaster down after Run, and Run waits for the workers: no
\* alert is recorded on a broadcaster that is shut down.
THEOREM EventsKept == LifecycleSpec => []NoEventLost
<1>1. ProcessInv => NoEventLost
  BY DEF ProcessInv
<1> QED
  BY <1>1, ProcessInvHolds, PTL

\* On every way out of main.go the broadcaster is shut down or was never started,
\* and no reconcile is under way.
THEOREM ExitsClean == LifecycleSpec => []CleanExit
<1>1. ProcessInv => CleanExit
  BY DEF ProcessInv, PoolInv, MainInv, CleanExit, Busy
<1> QED
  BY <1>1, ProcessInvHolds, PTL

\* /readyz (metrics.go) says 200 only when Run (controller.go) has seen the caches
\* sync.
THEOREM ReadyAfterSync == LifecycleSpec => []ReadyMeansSynced
<1>1. ProcessInv => ReadyMeansSynced
  BY DEF ProcessInv, ReadyInv, ReadyMeansSynced, Readyz
<1> QED
  BY <1>1, ProcessInvHolds, PTL

\* Updates are not lost inside the process either, signal and draining included.
THEOREM ProcessKeepsUpdates == LifecycleSpec => []NoLostUpdate
  BY ProcessRunsController, UpdatesKept, PTL
=============================================================================
