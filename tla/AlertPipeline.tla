---------------------------- MODULE AlertPipeline ----------------------------
(***************************************************************************)
(* The alert life cycle: Controller.deliver and Controller.clearObject     *)
(* (internal/watcher/controller.go) together with the Deduper              *)
(* (internal/alert/alert.go).                                              *)
(*                                                                         *)
(* Two maps have to agree although they belong to different components and *)
(* are guarded by different mutexes: the Deduper's lastSeen, and the       *)
(* controller's active map with its clear grace period.  A reconcile takes *)
(* several steps: it fires the alerts one after the other through the      *)
(* Deduper and only then takes the controller's mutex to update active, so *)
(* the clock moves and the other objects' reconciles run in between.  The  *)
(* reconciles of one object are serialised by the work queue               *)
(* (Controller, OneWorkerPerKey).  The goroutine that counts the entries of *)
(* the controller's map for a gauge is module UnhealthyGauge.              *)
(*                                                                         *)
(* An alert is its deduplication key, Alert.Key(); Owner is the object in  *)
(* that key.  The rules that produce the alerts are module Reliability:    *)
(* here the alerts an object has at the moment are chosen freely.          *)
(***************************************************************************)
EXTENDS Integers, Sequences

CONSTANTS
  Objects,      \* the objects being watched: Pods and Nodes
  Alerts,       \* deduplication keys
  Owner,        \* Owner[a]: the object alert a is about
  Evaluations,  \* Evaluations[o]: the alert lists a reconcile of o may compute
  NoAlert,      \* the value of sink when nothing was delivered
  Resend,       \* the Deduper's resend interval
  ClearGrace,   \* Controller.clearGrace
  MaxTime       \* bound: the last instant of a behaviour

ASSUME PipelineAssumption ==
  /\ Owner \in [Alerts -> Objects]
  /\ \A o \in Objects :
       Evaluations[o] \subseteq Seq({a \in Alerts : Owner[a] = o})
  /\ NoAlert \notin Alerts
  /\ Resend \in Nat \ {0}
  /\ ClearGrace \in Nat \ {0}
  /\ MaxTime \in Nat

VARIABLES
  now,            \* the clock
  found,          \* found[o]: the informer cache holds o
  problems,       \* problems[o]: the alerts the rules compute for o at the moment
  pc,             \* pc[o]: where the reconcile of o is
  pending,        \* pending[o]: alerts deliver has still to fire
  current,        \* current[o]: alert keys deliver has fired so far
  at,             \* at[o]: deliver's time.Now()
  lastSeen,       \* Deduper.lastSeen; Never for a key without a record
  active,         \* Controller.active: the alert keys tracked for an object
  clearingSince,  \* alertState.clearingSince; Zero while firing (or untracked)
  sink,           \* the alert the last step passed on to the wrapped sink
  sentAt,         \* history: when the alert last reached the wrapped sink
  absentFrom,     \* history: first of the latest run of reconciles without a sent alert
  resolved,       \* history: since it was sent, absent for ClearGrace or object gone
  lastResult      \* history: the alerts of the last completed reconcile of an object

reconcileVars == <<pc, pending, current, at>>
historyVars   == <<sink, sentAt, absentFrom, resolved, lastResult>>
vars == <<now, found, problems, reconcileVars, lastSeen, active, clearingSince,
          historyVars>>

Never == -1
Zero  == -1
Times == 0..MaxTime

TypeOK ==
  /\ now \in Times
  /\ found \in [Objects -> BOOLEAN]
  /\ problems \in [Objects -> Seq(Alerts)]
  /\ pc \in [Objects -> {"idle", "fire", "clear"}]
  /\ pending \in [Objects -> Seq(Alerts)]
  /\ current \in [Objects -> SUBSET Alerts]
  /\ at \in [Objects -> Times]
  /\ lastSeen \in [Alerts -> Times \cup {Never}]
  /\ active \in [Objects -> SUBSET Alerts]
  /\ clearingSince \in [Alerts -> Times \cup {Zero}]
  /\ sink \in Alerts \cup {NoAlert}
  /\ sentAt \in [Alerts -> Times \cup {Never}]
  /\ absentFrom \in [Alerts -> Times \cup {Never}]
  /\ resolved \in [Alerts -> BOOLEAN]
  /\ lastResult \in [Objects -> SUBSET Alerts]

Init ==
  /\ now = 0
  /\ found = [o \in Objects |-> FALSE]
  /\ problems = [o \in Objects |-> <<>>]
  /\ pc = [o \in Objects |-> "idle"]
  /\ pending = [o \in Objects |-> <<>>]
  /\ current = [o \in Objects |-> {}]
  /\ at = [o \in Objects |-> 0]
  /\ lastSeen = [a \in Alerts |-> Never]
  /\ active = [o \in Objects |-> {}]
  /\ clearingSince = [a \in Alerts |-> Zero]
  /\ sink = NoAlert
  /\ sentAt = [a \in Alerts |-> Never]
  /\ absentFrom = [a \in Alerts |-> Never]
  /\ resolved = [a \in Alerts |-> FALSE]
  /\ lastResult = [o \in Objects |-> {}]

-----------------------------------------------------------------------------
(* The cluster and the clock. *)

NothingSent ==
  sink' = NoAlert /\ UNCHANGED <<sentAt, absentFrom, resolved, lastResult>>

Tick ==
  /\ now < MaxTime
  /\ now' = now + 1
  /\ NothingSent
  /\ UNCHANGED <<found, problems, reconcileVars, lastSeen, active, clearingSince>>

\* An object appears, disappears, or gets another set of problems, through an
\* update or because a rule's threshold has passed.
Change(o) ==
  /\ \E f \in BOOLEAN, list \in Evaluations[o] :
       /\ <<f, list>> # <<found[o], problems[o]>>
       /\ ~f => list = <<>>
       /\ found' = [found EXCEPT ![o] = f]
       /\ problems' = [problems EXCEPT ![o] = list]
  /\ NothingSent
  /\ UNCHANGED <<now, reconcileVars, lastSeen, active, clearingSince>>

-----------------------------------------------------------------------------
(* The Deduper. *)

\* Slip: the resend interval is compared with <=.
SuppressedAtResend(a) == lastSeen[a] # Never /\ now - lastSeen[a] <= Resend

\* An identical alert was delivered less than resend ago.
Suppressed(a) == lastSeen[a] # Never /\ now - lastSeen[a] < Resend

\* Slip: the record holds the next permitted instant, not the last delivery.
RecordedDeadline == now + Resend

\* What Fire writes into lastSeen.
Recorded == now

\* Fire(a): record and pass on, or count as suppressed.
Fire(a) ==
  IF Suppressed(a)
  THEN NothingSent /\ UNCHANGED lastSeen
  ELSE /\ lastSeen' = [lastSeen EXCEPT ![a] = Recorded]
       /\ sink' = a
       /\ sentAt' = [sentAt EXCEPT ![a] = now]
       /\ absentFrom' = [absentFrom EXCEPT ![a] = Never]
       /\ resolved' = [resolved EXCEPT ![a] = FALSE]
       /\ UNCHANGED lastResult

\* Slip: the Deduper is not told that alerts have cleared.
ForgetNothing(S) == UNCHANGED lastSeen

\* Forget for every key of a set.
Forget(S) == lastSeen' = [a \in Alerts |-> IF a \in S THEN Never ELSE lastSeen[a]]

-----------------------------------------------------------------------------
(* A reconcile of object o. *)

\* reconcilePod / reconcileNode: the lister call and the evaluation, then the
\* time.Now() of deliver; or the NotFound branch.
Reconcile(o) ==
  /\ pc[o] = "idle"
  /\ \/ /\ found[o]
        /\ pc' = [pc EXCEPT ![o] = "fire"]
        /\ pending' = [pending EXCEPT ![o] = problems[o]]
        /\ at' = [at EXCEPT ![o] = now]
     \/ /\ ~found[o]
        /\ pc' = [pc EXCEPT ![o] = "clear"]
        /\ UNCHANGED <<pending, at>>
  /\ current' = [current EXCEPT ![o] = {}]
  /\ NothingSent
  /\ UNCHANGED <<now, found, problems, lastSeen, active, clearingSince>>

\* One round of deliver's first loop.
FireHead(o) ==
  /\ pc[o] = "fire"
  /\ pending[o] # <<>>
  /\ current' = [current EXCEPT ![o] = @ \cup {Head(pending[o])}]
  /\ pending' = [pending EXCEPT ![o] = Tail(@)]
  /\ Fire(Head(pending[o]))
  /\ UNCHANGED <<now, found, problems, pc, at, active, clearingSince>>

\* Slip: the grace period is not waited for.
ExpiredAtOnce(o) == {a \in active[o] \ current[o] : clearingSince[a] # Zero}

\* The tracked alerts whose grace period has passed at this reconcile.
Expired(o) ==
  {a \in active[o] \ current[o] :
     clearingSince[a] # Zero /\ at[o] - clearingSince[a] >= ClearGrace}

\* Slip: a reconcile without any alert returns before it looks at the tracked ones.
StartClearingUnlessEmpty(o) ==
  {a \in active[o] \ current[o] : clearingSince[a] = Zero /\ current[o] # {}}

\* Slip: every reconcile without the alert restarts its grace period.
StartClearingAgain(o) == active[o] \ current[o]

\* The tracked alerts this reconcile found absent for the first time.
StartClearing(o) == {a \in active[o] \ current[o] : clearingSince[a] = Zero}

\* The history of a reconcile whose alerts are S: a sent alert that is absent
\* from reconciles at least ClearGrace apart, with none in between that had it,
\* is resolved.
ObserveResults(o, S) ==
  /\ absentFrom' = [a \in Alerts |->
       IF Owner[a] # o \/ sentAt[a] = Never \/ resolved[a] THEN absentFrom[a]
       ELSE IF a \in S THEN Never
       ELSE IF absentFrom[a] = Never THEN at[o]
       ELSE absentFrom[a]]
  /\ resolved' = [a \in Alerts |->
       \/ resolved[a]
       \/ /\ Owner[a] = o /\ a \notin S /\ absentFrom[a] # Never
          /\ at[o] - absentFrom[a] >= ClearGrace]
  /\ lastResult' = [lastResult EXCEPT ![o] = S]
  /\ sink' = NoAlert
  /\ UNCHANGED sentAt

\* Slip: a recurrence within the grace period does not cancel it.
ClearingAfterKept(o) == [a \in Alerts |->
  CASE a \in Expired(o)       -> Zero
    [] a \in StartClearing(o) -> at[o]
    [] OTHER                  -> clearingSince[a]]

\* The alert states that deliver leaves.
ClearingAfter(o) == [a \in Alerts |->
  CASE a \in current[o] \cup Expired(o) -> Zero
    [] a \in StartClearing(o)           -> at[o]
    [] OTHER                            -> clearingSince[a]]

\* The critical section of deliver.
Settle(o) ==
  /\ pc[o] = "fire"
  /\ pending[o] = <<>>
  /\ pc' = [pc EXCEPT ![o] = "idle"]
  /\ active' = [active EXCEPT ![o] = (@ \cup current[o]) \ Expired(o)]
  /\ clearingSince' = ClearingAfter(o)
  /\ Forget(Expired(o))
  /\ current' = [current EXCEPT ![o] = {}]
  /\ ObserveResults(o, current[o])
  /\ UNCHANGED <<now, found, problems, pending, at>>

\* clearObject: forget every tracked alert of a deleted object, at once.
ClearObject(o) ==
  /\ pc[o] = "clear"
  /\ pc' = [pc EXCEPT ![o] = "idle"]
  /\ Forget(active[o])
  /\ clearingSince' = [a \in Alerts |->
       IF a \in active[o] THEN Zero ELSE clearingSince[a]]
  /\ active' = [active EXCEPT ![o] = {}]
  /\ resolved' = [a \in Alerts |->
       resolved[a] \/ (Owner[a] = o /\ sentAt[a] # Never)]
  /\ lastResult' = [lastResult EXCEPT ![o] = {}]
  /\ sink' = NoAlert
  /\ UNCHANGED <<now, found, problems, pending, current, at, sentAt, absentFrom>>

-----------------------------------------------------------------------------
(* The specification. *)

Deliver(o) == Reconcile(o) \/ FireHead(o) \/ Settle(o) \/ ClearObject(o)

Next ==
  \/ Tick
  \/ \E o \in Objects : Change(o) \/ Deliver(o)

\* Time passes; a started reconcile is finished; and every object is reconciled
\* again and again, because the informer redelivers its cache every ResyncPeriod
\* (a deleted object is reconciled for its delete event: Controller,
\* EventuallyHandled).
Fairness == WF_vars(Tick) /\ \A o \in Objects : WF_vars(Deliver(o))

Spec == Init /\ [][Next]_vars
FairSpec == Spec /\ Fairness

-----------------------------------------------------------------------------
(* Correctness. *)

\* The alerts of o that have been fired or are tracked: those whose dedup record
\* must exist.
Known(o) == active[o] \cup current[o]

\* The Deduper and the controller agree: a dedup record exists exactly for the
\* alerts that the controller tracks or has fired in the reconcile under way.  A
\* record the controller does not know of would never be forgotten, and would
\* swallow a recurrence; a tracked alert without a record would be sent on every
\* resync.
DedupMatchesActive ==
  \A a \in Alerts : lastSeen[a] # Never <=> a \in Known(Owner[a])

\* Alert a is handed to the Deduper by the step.
Fires(a) == \E o \in Objects :
  /\ pc[o] = "fire" /\ pending[o] # <<>> /\ Head(pending[o]) = a
  /\ pending'[o] = Tail(pending[o])
  /\ pc'[o] = "fire"

\* A fired alert reaches the wrapped sink exactly when it has to: it was never
\* sent, Resend has passed since it was, or the problem was resolved in between
\* (absent from the reconcile results for ClearGrace, or the object deleted).  So
\* a flapping container does not defeat the resend interval, and a genuine
\* recurrence is not swallowed.  (Fire, deliver and clearObject together.)
SentWhenDue ==
  [][\A a \in Alerts :
       Fires(a) => (sink' = a <=> \/ sentAt[a] = Never
                                  \/ now - sentAt[a] >= Resend
                                  \/ resolved[a])]_vars

\* The rules compute alert a for its object at the moment.
HasProblem(a) ==
  \E i \in 1..Len(problems[Owner[a]]) : problems[Owner[a]][i] = a

\* A problem that an object has is reported or goes away: at some later moment
\* its alert is tracked as firing, or the object no longer has it.
DetectedIsReported ==
  \A a \in Alerts :
    HasProblem(a) ~> \/ a \in active[Owner[a]] /\ clearingSince[a] = Zero
                     \/ ~HasProblem(a)

\* An alert in its grace period does not stay there: it fires again or, once the
\* grace period is over, it is forgotten.  (Asked of grace periods that end before
\* the model's clock stops.)
ClearingEnds ==
  \A a \in Alerts :
    clearingSince[a] # Zero /\ clearingSince[a] + ClearGrace <= MaxTime
      ~> clearingSince[a] = Zero

\* What the Deduper and the controller's map promise together, with one book
\* instead of two maps and without reconciles, fired sets and loops.
Book == INSTANCE AlertBook WITH clock <- now, sentOn <- lastSeen,
                                quietFrom <- clearingSince

\* Deduper, deliver and clearObject implement that promise: what a reconcile does
\* in several steps and under two mutexes is, for the alerts that are sent and
\* the records that are dropped, one entry in one book after the other.
ImplementsBook == Book!Spec
=============================================================================
