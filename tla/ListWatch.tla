----------------------------- MODULE ListWatch -----------------------------
(***************************************************************************)
(* internal/k8sclient: ListAndWatch, the list-then-watch loop, against an  *)
(* API server that closes watches, compacts its history, answers 410 Gone  *)
(* and loses connections.                                                  *)
(*                                                                         *)
(* A resource version is a number, and the revision of a Pod is the        *)
(* resource version of its last change; Absent if there is no such Pod.    *)
(* cluster[i] is the state of the namespace at resource version i, so the  *)
(* watch event with number i says how cluster[i] differs from              *)
(* cluster[i - 1].  view is what a handler that keeps a copy of the Pods   *)
(* has been told: an ADDED or MODIFIED call sets the Pod, a DELETED call   *)
(* removes it.  BOOKMARK events are read and dropped, which changes        *)
(* nothing here.                                                           *)
(***************************************************************************)
EXTENDS Integers

CONSTANTS
  Pods,     \* the names of Pods in the namespace
  MaxRV     \* bound: changes of the namespace in a behaviour

ASSUME ListWatchAssumption == MaxRV \in Nat

VARIABLES
  rv,         \* the server's resource version
  cluster,    \* cluster[i][p]: revision of Pod p at resource version i
  compacted,  \* a watch can start at this resource version or later
  ctxDone,    \* ctx has been cancelled
  pc,         \* where ListAndWatch is
  listed,     \* list.Metadata.ResourceVersion
  todo,       \* items of the list the handler has still to be called for
  pos,        \* resource version up to which the handler has been called
  alive,      \* FALSE: an open watch has lost its peer unnoticed
  view        \* view[p]: the revision of p the handler was told last

server == <<rv, cluster, compacted>>
client == <<pc, listed, todo, pos, alive, view>>
vars == <<server, ctxDone, client>>

Absent == 0
PCs == {"loop", "list", "replay", "watch", "stream", "backoff", "returned", "failed"}
Ended == pc \in {"returned", "failed"}

TypeOK ==
  /\ rv \in 0..MaxRV
  /\ cluster \in [0..rv -> [Pods -> 0..MaxRV]]
  /\ compacted \in 0..rv
  /\ ctxDone \in BOOLEAN
  /\ pc \in PCs
  /\ listed \in 0..pos
  /\ todo \in SUBSET Pods
  /\ pos \in 0..rv
  /\ alive \in BOOLEAN
  /\ view \in [Pods -> 0..MaxRV]

Init ==
  /\ rv = 0
  /\ cluster = [i \in 0..0 |-> [p \in Pods |-> Absent]]
  /\ compacted = 0
  /\ ctxDone = FALSE
  /\ pc = "loop"
  /\ listed = 0
  /\ todo = {}
  /\ pos = 0
  /\ alive = TRUE
  /\ view = [p \in Pods |-> Absent]

-----------------------------------------------------------------------------
(* The API server, the network and the caller. *)

\* A Pod is created, changed or deleted.
Change(p) ==
  /\ rv < MaxRV
  /\ \E r \in {rv + 1, Absent} :
       /\ r = Absent => cluster[rv][p] # Absent
       /\ cluster' = [i \in 0..rv + 1 |->
            IF i = rv + 1 THEN [cluster[rv] EXCEPT ![p] = r] ELSE cluster[i]]
  /\ rv' = rv + 1
  /\ UNCHANGED <<compacted, ctxDone, client>>

\* The server drops its history before some resource version.
Compact ==
  /\ compacted' \in compacted + 1..rv
  /\ UNCHANGED <<rv, cluster, ctxDone, client>>

\* The peer of an open watch disappears without closing it.
ConnectionDies ==
  /\ pc = "stream" /\ alive
  /\ alive' = FALSE
  /\ UNCHANGED <<server, ctxDone, pc, listed, todo, pos, view>>

Cancel ==
  /\ ~ctxDone
  /\ ctxDone' = TRUE
  /\ UNCHANGED <<server, client>>

-----------------------------------------------------------------------------
(* The loop of ListAndWatch. *)

\* Control moves on; a stream that is left is closed.
Goto(next) ==
  /\ pc' = next
  /\ alive' = TRUE
  /\ UNCHANGED <<listed, todo, pos, view>>

\* for ctx.Err() == nil.
CheckCtx ==
  /\ pc = "loop"
  /\ Goto(IF ctxDone THEN "returned" ELSE "list")
  /\ UNCHANGED <<server, ctxDone>>

\* Slip: the list may be answered from a server's cache (resourceVersion=0).
ListPointsCached == compacted..rv

\* podsURL(false, ""): a list without resourceVersion is the current state.
ListPoints == {rv}

\* List returned: its items are handed to the handler one by one.
ListOK ==
  /\ pc = "list"
  /\ pc' = "replay"
  /\ listed' \in ListPoints
  /\ pos' = listed'
  /\ todo' = {p \in Pods : cluster[listed'][p] # Absent}
  /\ UNCHANGED <<server, ctxDone, alive, view>>

\* The request fails (also because ctx was cancelled), the status is not 200 or
\* the body cannot be decoded: ListAndWatch returns the error.
ListFails ==
  /\ pc = "list"
  /\ Goto("failed")
  /\ UNCHANGED <<server, ctxDone>>

\* handler(EventAdded, item); ctx is not looked at in between.
Replay ==
  /\ pc = "replay"
  /\ \E p \in todo :
       /\ view' = [view EXCEPT ![p] = cluster[listed][p]]
       /\ todo' = todo \ {p}
  /\ UNCHANGED <<server, ctxDone, pc, listed, pos, alive>>

ReplayDone ==
  /\ pc = "replay" /\ todo = {}
  /\ Goto("watch")
  /\ UNCHANGED <<server, ctxDone>>

\* Slip: the watch starts one event too late.
StartPointNext == listed + 1

\* Slip: resourceVersion is left out of the watch request, which then starts now.
StartPointNow == rv

\* podsURL(true, rv): the watch starts after the list's resource version.
StartPoint == listed

WatchOK ==
  /\ pc = "watch"
  /\ listed >= compacted
  /\ pc' = "stream"
  /\ pos' = StartPoint
  /\ UNCHANGED <<server, ctxDone, listed, todo, alive, view>>

\* Slip: an expired watch is opened again.
RetryWatch == Goto("watch")

\* A 410, as a status or as an ERROR event: relist at once.
Relist == Goto("loop")

WatchGone ==
  /\ pc = "watch"
  /\ listed < compacted
  /\ Relist
  /\ UNCHANGED <<server, ctxDone>>

\* Slip: the watch is opened again at once, whatever the error was.
Reconnect == Goto("watch")

\* Any other error of watchFrom: return if cancelled, else back off.
StreamError == Goto(IF ctxDone THEN "returned" ELSE "backoff")

\* The watch request fails or is answered with another status.
WatchFails ==
  /\ pc = "watch"
  /\ StreamError
  /\ UNCHANGED <<server, ctxDone>>

\* Next returns the next event and the handler is called for its Pod.
StreamEvent ==
  /\ pc = "stream" /\ alive
  /\ pos < rv
  /\ pos' = pos + 1
  /\ view' = [p \in Pods |->
       IF cluster[pos + 1][p] # cluster[pos][p] THEN cluster[pos + 1][p] ELSE view[p]]
  /\ UNCHANGED <<server, ctxDone, pc, listed, todo, alive>>

\* An ERROR event with code 410: the stream fell behind the compaction.
StreamGone ==
  /\ pc = "stream" /\ alive
  /\ pos < compacted
  /\ Relist
  /\ UNCHANGED <<server, ctxDone>>

\* io.EOF, a read error, a line that cannot be decoded, or another ERROR event.
StreamFails ==
  /\ pc = "stream"
  /\ StreamError
  /\ UNCHANGED <<server, ctxDone>>

\* The select after an error: ctx.Done or one second.
Backoff ==
  /\ pc = "backoff"
  /\ Goto("loop") \/ (ctxDone /\ Goto("returned"))
  /\ UNCHANGED <<server, ctxDone>>

-----------------------------------------------------------------------------
Terminated == Ended /\ UNCHANGED vars

\* What ListAndWatch does when nothing fails.
Progress ==
  CheckCtx \/ ListOK \/ Replay \/ ReplayDone \/ WatchOK \/ WatchGone \/
  StreamEvent \/ StreamGone \/ Backoff

Faults == ListFails \/ WatchFails \/ StreamFails

Next ==
  \/ \E p \in Pods : Change(p)
  \/ Compact
  \/ ConnectionDies
  \/ Cancel
  \/ Progress
  \/ Faults
  \/ Terminated

\* The loop runs on, and the transport ends a request whose ctx is cancelled or
\* whose peer is gone (TCP keep-alive; the client itself sets no deadline).
\* Nothing obliges the server to change, to compact or to fail.
Fairness ==
  /\ WF_vars(Progress)
  /\ WF_vars((ctxDone \/ ~alive) /\ (WatchFails \/ StreamFails))

Spec == Init /\ [][Next]_vars
FairSpec == Spec /\ Fairness

-----------------------------------------------------------------------------
(* Correctness. *)

\* Pod p did not exist at any moment since the last list: if the handler was told
\* of it, it was deleted while no watch was open.
MissedDeletion(p) == \A i \in listed..pos : cluster[i][p] = Absent

\* The seam between list and watch loses and repeats nothing: at every moment the
\* handler's copy is the state of the namespace at resource version pos, except
\* for items it is about to be called for and for Pods deleted while ListAndWatch
\* was not watching.  It holds across broken streams, 410s and relists.
InSync ==
  \A p \in Pods \ todo :
    \/ view[p] = cluster[pos][p]
    \/ MissedDeletion(p)

\* The handler is never shown an older revision of a Pod than it was shown
\* before, although every relist replays the whole namespace.
NeverBackwards ==
  [][\A p \in Pods : view'[p] # Absent => view'[p] >= view[p]]_vars

\* A change of a Pod reaches the handler, through the stream or a relist, unless
\* the Pod is deleted first, ctx is cancelled or a list fails: breaking streams,
\* dead connections and compaction do not keep it away for ever.
EventuallyShown ==
  \A p \in Pods, r \in 1..MaxRV :
    cluster[rv][p] = r ~> view[p] >= r \/ cluster[rv][p] = Absent \/ ctxDone \/ Ended

\* A cancelled ListAndWatch returns, wherever it is.
CancelEnds == ctxDone ~> Ended

\* client.go, ListAndWatch: "client-go's SharedInformer does the same thing", and
\* docs/watch-protocol.md: an informer "keeps a local cache of objects in sync
\* with the API server".  A Pod that has been deleted leaves the handler's copy.
DeletionsShown ==
  \A p \in Pods :
    cluster[rv][p] = Absent
      ~> view[p] = Absent \/ cluster[rv][p] # Absent \/ ctxDone \/ Ended
=============================================================================
