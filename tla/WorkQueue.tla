----------------------------- MODULE WorkQueue -----------------------------
(***************************************************************************)
(* The rate-limiting work queue of client-go (util/workqueue), as          *)
(* internal/watcher/controller.go uses it.  The library is not part of the *)
(* repository: every definition here is external and states only the       *)
(* contract the controller relies on.                                      *)
(*                                                                         *)
(*   dirty       keys that need processing                                 *)
(*   processing  keys handed out by Get and not yet Done                   *)
(*   queue       the order in which Get hands out dirty keys               *)
(*   waiting     keys parked by AddRateLimited until their back-off ends   *)
(*   requeues    the failure count behind NumRequeues and Forget           *)
(*                                                                         *)
(* Get, Done and AddRateLimited are actions of the controller's workers,   *)
(* so they are given here as the effect on the queue's own variables.      *)
(***************************************************************************)
EXTENDS Integers, Sequences

CONSTANTS Keys           \* the queue keys: (kind, namespace, name) triples

VARIABLES
  queue, dirty, processing, waiting, requeues, shuttingDown,
  abandoned   \* history: keys whose Add or retry was discarded by the shutdown

wqVars == <<queue, dirty, processing, waiting, requeues, shuttingDown, abandoned>>

WQInit ==
  /\ queue = <<>>
  /\ dirty = {}
  /\ processing = {}
  /\ waiting = {}
  /\ requeues = [k \in Keys |-> 0]
  /\ shuttingDown = FALSE
  /\ abandoned = {}

WQTypeOK ==
  /\ queue \in Seq(Keys)
  /\ dirty \subseteq Keys
  /\ processing \subseteq Keys
  /\ waiting \subseteq Keys
  /\ requeues \in [Keys -> Nat]
  /\ shuttingDown \in BOOLEAN
  /\ abandoned \subseteq Keys

\* The keys a Get can hand out, in any order.
Queued == {queue[i] : i \in 1..Len(queue)}

\* A key is ignored during shutdown and when it is already dirty; a key that is
\* being processed becomes dirty but is queued only by its Done.
MarkDirty(k) ==
  IF shuttingDown \/ k \in dirty
  THEN /\ UNCHANGED <<queue, dirty>>
       /\ abandoned' = IF k \in dirty THEN abandoned ELSE abandoned \cup {k}
  ELSE /\ dirty' = dirty \cup {k}
       /\ queue' = IF k \in processing THEN queue ELSE Append(queue, k)
       /\ UNCHANGED abandoned

\* Add(k).
QueueAdd(k) == MarkDirty(k) /\ UNCHANGED <<processing, waiting, requeues, shuttingDown>>

\* Get returns a key: it is processing from now on and no longer dirty.
QueueGet ==
  /\ queue # <<>>
  /\ queue' = Tail(queue)
  /\ dirty' = dirty \ {Head(queue)}
  /\ processing' = processing \cup {Head(queue)}
  /\ UNCHANGED <<waiting, requeues, shuttingDown, abandoned>>

\* Get reports shutdown only once the queue is empty, so ShutDown drains it.
QueueClosed == shuttingDown /\ queue = <<>>

\* Done(k): a key that was added while it was processed is queued again, also
\* during shutdown.
QueueDone(k) ==
  /\ processing' = processing \ {k}
  /\ queue' = IF k \in dirty THEN Append(queue, k) ELSE queue
  /\ UNCHANGED <<dirty, waiting, requeues, shuttingDown, abandoned>>

\* AddRateLimited(k): counts the failure and parks the key; during shutdown
\* the key is not parked and the retry never happens.
QueueAddRateLimited(k) ==
  /\ requeues' = [requeues EXCEPT ![k] = @ + 1]
  /\ waiting' = IF shuttingDown THEN waiting ELSE waiting \cup {k}
  /\ abandoned' = IF shuttingDown THEN abandoned \cup {k} ELSE abandoned
  /\ UNCHANGED <<queue, dirty, processing, shuttingDown>>

\* Forget(k) only resets the failure count.
QueueForget(k) ==
  /\ requeues' = [requeues EXCEPT ![k] = 0]
  /\ UNCHANGED <<queue, dirty, processing, waiting, shuttingDown, abandoned>>

\* The back-off of a parked key ends and it is added.
QueueWaitingReady(k) ==
  /\ ~shuttingDown
  /\ k \in waiting
  /\ waiting' = waiting \ {k}
  /\ MarkDirty(k)
  /\ UNCHANGED <<processing, requeues, shuttingDown>>

\* ShutDown stops Add and the delaying loop: parked retries are lost.
QueueShutDown ==
  /\ shuttingDown' = TRUE
  /\ waiting' = {}
  /\ abandoned' = abandoned \cup waiting
  /\ UNCHANGED <<queue, dirty, processing, requeues>>
=============================================================================
