------------------------------ MODULE Lifecycle ------------------------------
(***************************************************************************)
(* The process around the controller: cmd/sentinel/main.go starts the      *)
(* metrics server (internal/metrics) on a goroutine of its own, builds the *)
(* sinks (internal/alert) and the event broadcaster, runs the controller   *)
(* and takes everything down again.  The controller is module Controller:  *)
(* its goroutines step while the process runs, and stop where they are     *)
(* when it exits.  Log records and the counters of the metrics registry,   *)
(* which no code reads, are left out.                                      *)
(***************************************************************************)
EXTENDS Controller

CONSTANT EnableEvents   \* the --enable-events flag

ASSUME LifecycleAssumption == EnableEvents \in BOOLEAN

VARIABLES
  main,         \* where main.run is
  broadcaster,  \* the EventBroadcaster; "none" before and without --enable-events
  server,       \* the metrics and probes server: "off", "starting", "serving", "failed", "closed"
  ready,        \* Metrics.ready
  eventLost     \* history: an Event was recorded on a broadcaster that was shut down

processVars == <<main, broadcaster, server, ready, eventLost>>
allVars == <<vars, processVars>>

Exited == main \in {"exit 0", "exit 1"}

LifecycleInit ==
  /\ Init
  /\ main = "setup"
  /\ broadcaster = "none"
  /\ server = "off"
  /\ ready = FALSE
  /\ eventLost = FALSE

-----------------------------------------------------------------------------
(* main.run. *)

\* No REST configuration or no clientset.
SetupFails ==
  /\ main = "setup"
  /\ main' = "exit 1"
  /\ UNCHANGED <<vars, broadcaster, server, ready, eventLost>>

\* Slip: the program reports ready as soon as it starts.
StartReady ==
  /\ main = "setup"
  /\ main' = "run"
  /\ server' = "starting"
  /\ ready' = TRUE
  /\ broadcaster' = IF EnableEvents THEN "open" ELSE "none"
  /\ UNCHANGED <<vars, eventLost>>

\* The goroutine of the metrics server and the alert pipeline are set up, and the
\* controller's Run is called.
Start ==
  /\ main = "setup"
  /\ main' = "run"
  /\ server' = "starting"
  /\ broadcaster' = IF EnableEvents THEN "open" ELSE "none"
  /\ UNCHANGED <<vars, ready, eventLost>>

\* Slip: an error of Run is returned before the broadcaster is shut down.
BroadcasterAfterCleanRun ==
  IF broadcaster = "open" /\ phase = "returned" THEN "shut" ELSE broadcaster

BroadcasterAfterRun == IF broadcaster = "open" THEN "shut" ELSE broadcaster

\* Run has returned, with or without an error: broadcaster.Shutdown.
Flush ==
  /\ main = "run"
  /\ phase \in {"returned", "syncFailed"}
  /\ main' = "flushed"
  /\ broadcaster' = BroadcasterAfterRun
  /\ UNCHANGED <<vars, server, ready, eventLost>>

\* run returns and main ends; it does not wait for the server's goroutine.
Leave ==
  /\ main = "flushed"
  /\ main' = IF phase = "returned" THEN "exit 0" ELSE "exit 1"
  /\ UNCHANGED <<vars, broadcaster, server, ready, eventLost>>

-----------------------------------------------------------------------------
(* Metrics.Serve. *)

Serve(from, to) ==
  /\ ~Exited
  /\ server \in from
  /\ server' = to
  /\ UNCHANGED <<vars, main, broadcaster, ready, eventLost>>

Listen      == Serve({"starting"}, "serving")

\* ListenAndServe fails, for example because the address is taken; main only logs it.
ListenFails == Serve({"starting", "serving"}, "failed")

\* ctx is cancelled: srv.Shutdown closes the listener.
CloseServer == ctxDone /\ Serve({"starting", "serving"}, "closed")

\* The answer of /readyz is 200.
Readyz == server = "serving" /\ ready

-----------------------------------------------------------------------------
(* The controller inside the process. *)

\* EventSink: a broadcaster that is shut down drops the Event of the recorder.
EventDropped == broadcaster = "shut"

\* MultiSink: the alert goes to the log and to EventSink.
FireSinks(w) ==
  eventLost' = (eventLost \/ (pc[w] = "deliver" /\ read[w].found /\ EventDropped))

ProcessWorker(w) ==
  /\ ~Exited
  /\ Worker(w)
  /\ FireSinks(w)
  /\ UNCHANGED <<main, broadcaster, server, ready>>

\* Run, and the informers it starts; readiness is set once the caches are synced.
ProcessRun(A) ==
  /\ main = "run"
  /\ A
  /\ ready' = (ready \/ phase' = "running")
  /\ UNCHANGED <<main, broadcaster, server, eventLost>>

ProcessInformer(A) ==
  /\ main \in {"run", "flushed"}
  /\ A
  /\ UNCHANGED processVars

\* SIGINT or SIGTERM.
Signal == ~Exited /\ Cancel /\ UNCHANGED processVars

LifecycleNext ==
  \/ SetupFails \/ Start \/ Flush \/ Leave
  \/ Listen \/ ListenFails \/ CloseServer
  \/ \E w \in Workers : ProcessWorker(w)
  \/ ProcessRun(CachesSynced) \/ ProcessRun(SyncFailed)
  \/ ProcessRun(ShutDownQueue) \/ ProcessRun(Return)
  \/ \E k \in Keys : ProcessInformer(Informer(k))
  \/ Signal

\* Go schedules every runnable goroutine: main and Run, the metrics server, the
\* workers, the informer's handler goroutine and the queue's delaying loop.
\* Nothing obliges the cluster to change, a resync to happen, the caches to sync,
\* the server to fail or the signal to come.
LifecycleFairness ==
  /\ WF_allVars(SetupFails \/ Start) /\ WF_allVars(Flush) /\ WF_allVars(Leave)
  /\ WF_allVars(Listen \/ CloseServer)
  /\ \A w \in Workers : WF_allVars(ProcessWorker(w))
  /\ WF_allVars(ProcessRun(SyncFailed))
  /\ WF_allVars(ProcessRun(ShutDownQueue))
  /\ WF_allVars(ProcessRun(Return))
  /\ \A k \in Keys : /\ WF_allVars(ProcessInformer(Handler(k)))
                     /\ WF_allVars(ProcessInformer(WaitingReady(k)))

LifecycleSpec == LifecycleInit /\ [][LifecycleNext]_allVars
FairLifecycleSpec == LifecycleSpec /\ LifecycleFairness

-----------------------------------------------------------------------------
(* Correctness. *)

\* The broadcaster outlives the workers: no alert that a worker delivers, also
\* while the queue drains after a signal, is recorded on a broadcaster that main
\* has already shut down.
NoEventLost == ~eventLost

\* The process leaves nothing half done: when it exits, with 0 or 1, the
\* broadcaster is not open, and no reconcile is cut off between Get and Done.
CleanExit ==
  Exited => broadcaster # "open" /\ \A w \in Workers : pc[w] \notin Busy

\* /readyz answers 200 only after the caches have synced: the server, main and
\* Run are three goroutines, and the server is up before Run is called.
ReadyMeansSynced ==
  Readyz => phase \in {"running", "draining", "returned"}

\* A signal ends the process, whether it comes during set-up, while the caches
\* sync, or while the workers are busy, and whatever the metrics server does.
SignalExits == ctxDone ~> Exited
=============================================================================
