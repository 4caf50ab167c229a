------------------------------ MODULE AlertBook ------------------------------
(***************************************************************************)
(* What the alert life cycle promises, without saying how: one book of     *)
(* open alerts.  An entry says when the alert was last sent and, once it   *)
(* is absent, since when.  AlertPipeline implements it with two maps, two  *)
(* mutexes and reconciles of several steps.                                *)
(***************************************************************************)
EXTENDS Integers

CONSTANTS
  Objects, Alerts, Owner, NoAlert,  \* as in AlertPipeline
  Resend,       \* the least time between two notifications of an open alert
  ClearGrace    \* how long an alert is absent before its entry is closed

VARIABLES
  clock,      \* the time
  sentOn,     \* sentOn[a]: when a was last sent; Never when the book has no entry
  quietFrom,  \* quietFrom[a]: the review that first missed a; Never while firing
  sink        \* the alert the last step sent, if any

bookVars == <<clock, sentOn, quietFrom, sink>>

Never == -1

Init ==
  /\ clock = 0
  /\ sentOn = [a \in Alerts |-> Never]
  /\ quietFrom = [a \in Alerts |-> Never]
  /\ sink = NoAlert

Open(o) == {a \in Alerts : Owner[a] = o /\ sentOn[a] # Never}

Tick ==
  /\ clock' = clock + 1
  /\ sink' = NoAlert
  /\ UNCHANGED <<sentOn, quietFrom>>

\* An alert without an entry is sent at once, an open one again after Resend.
Notify(a) ==
  /\ sentOn[a] = Never \/ clock - sentOn[a] >= Resend
  /\ sentOn' = [sentOn EXCEPT ![a] = clock]
  /\ sink' = a
  /\ UNCHANGED <<clock, quietFrom>>

\* The open alerts of o that are not among those present at time t, and have been
\* absent for ClearGrace.
Overdue(o, present, t) ==
  {a \in Open(o) \ present : quietFrom[a] # Never /\ t - quietFrom[a] >= ClearGrace}

\* Object o is reviewed, with what was seen of it at time t: overdue entries are
\* closed, the alerts missed for the first time become quiet.
Review(o, present, t) ==
  /\ sentOn' = [a \in Alerts |->
       IF a \in Overdue(o, present, t) THEN Never ELSE sentOn[a]]
  /\ quietFrom' = [a \in Alerts |->
       IF a \in present \cup Overdue(o, present, t) THEN Never
       ELSE IF a \in Open(o) /\ quietFrom[a] = Never THEN t
       ELSE quietFrom[a]]
  /\ sink' = NoAlert
  /\ UNCHANGED clock

\* Object o is gone: all its entries are closed.
Gone(o) ==
  /\ sentOn' = [a \in Alerts |-> IF a \in Open(o) THEN Never ELSE sentOn[a]]
  /\ quietFrom' = [a \in Alerts |-> IF a \in Open(o) THEN Never ELSE quietFrom[a]]
  /\ sink' = NoAlert
  /\ UNCHANGED clock

\* Nothing is sent, and nothing is entered.
Silence == sink' = NoAlert /\ UNCHANGED <<clock, sentOn, quietFrom>>

Next ==
  \/ Tick \/ Silence
  \/ \E a \in Alerts : Notify(a)
  \/ \E o \in Objects :
       \/ Gone(o)
       \/ \E present \in SUBSET Open(o), t \in 0..clock : Review(o, present, t)

Spec == Init /\ [][Next]_bookVars
=============================================================================
