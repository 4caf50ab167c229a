------------------------- MODULE AlertPipelineProofs -------------------------
(***************************************************************************)
(* Proofs about AlertPipeline and UnhealthyGauge, for every set of objects *)
(* and alerts, every rule outcome, every resend interval and every grace   *)
(* period.                                                                 *)
(***************************************************************************)
EXTENDS UnhealthyGauge, SequenceTheorems, FiniteSetTheorems, TLAPS

-----------------------------------------------------------------------------
(* The inductive invariant, in named parts. *)

\* The alerts that are about object o.
Own(o) == {a \in Alerts : Owner[a] = o}

\* A reconcile computes, fires and tracks alerts of its own object only.
OwnInv ==
  \A o \in Objects :
    /\ problems[o] \in Seq(Own(o))
    /\ pending[o] \in Seq(Own(o))
    /\ current[o] \subseteq Own(o)
    /\ active[o] \subseteq Own(o)

\* Alerts that were fired but are not yet tracked exist only inside deliver.
FiredInv == \A o \in Objects : pc[o] # "fire" => current[o] = {}

\* A dedup record is the time of the last delivery of a problem that has not been
\* resolved since; without a record, the alert was never delivered or is resolved.
RecordInv ==
  \A a \in Alerts :
    /\ lastSeen[a] # Never => lastSeen[a] = sentAt[a] /\ ~resolved[a]
    /\ lastSeen[a] = Never => sentAt[a] = Never \/ resolved[a]

\* The controller's grace period starts with the first reconcile without the
\* alert, unless the reconcile under way has just fired it.
GraceInv ==
  \A a \in Alerts :
    a \in active[Owner[a]] \ current[Owner[a]] => clearingSince[a] = absentFrom[a]

\* The alerts that are tracked as firing are those of the last completed reconcile.
ResultsInv ==
  \A o \in Objects :
    \A a \in Alerts : a \in lastResult[o] <=> a \in active[o] /\ clearingSince[a] = Zero

\* Only a tracked alert is in its grace period, and deliver's time.Now() has passed.
QuietInv == \A a \in Alerts : a \notin active[Owner[a]] => clearingSince[a] = Zero
AtInv    == \A o \in Objects : at[o] <= now

Inv ==
  /\ TypeOK
  /\ OwnInv
  /\ FiredInv
  /\ DedupMatchesActive
  /\ RecordInv
  /\ GraceInv
  /\ ResultsInv
  /\ QuietInv
  /\ AtInv

-----------------------------------------------------------------------------
(* Lemmas. *)

\* An alert has one owner: what one object tracks is of no concern to another.
LEMMA OwnersAreDisjoint ==
  ASSUME NEW o \in Objects, NEW a \in Own(o)
  PROVE  a \in Alerts /\ Owner[a] = o
  BY DEF Own

\* Head and tail of the alerts that deliver has still to fire.
LEMMA FirePending ==
  ASSUME NEW S, NEW s \in Seq(S), s # <<>>
  PROVE  Head(s) \in S /\ Tail(s) \in Seq(S) /\ Tail(s) # s
<1>1. Len(s) \in Nat \ {0}
  BY EmptySeq
<1>2. Head(s) \in S /\ Tail(s) \in Seq(S) /\ Len(Tail(s)) = Len(s) - 1
  BY HeadTailProperties
<1>3. \A n \in Nat \ {0} : n - 1 # n
  OBVIOUS
<1>4. Len(Tail(s)) # Len(s)
  BY <1>1, <1>2, <1>3, Zenon
<1> QED
  BY <1>2, <1>4, Zenon

\* What a list of a narrower set is in a wider one.
LEMMA SeqOfSubset ==
  ASSUME NEW o \in Objects, NEW s \in Seq(Own(o))
  PROVE  s \in Seq(Alerts)
  BY DEF Own

\* The program starts in a state of the inductive invariant.
LEMMA InitInv == Init => Inv
<1> SUFFICES ASSUME Init PROVE Inv
  OBVIOUS
<1>0. \A S : <<>> \in Seq(S)
  OBVIOUS
<1> USE PipelineAssumption DEF Init, Never, Zero
<1>1. TypeOK
  <2>1. <<>> \in Seq(Alerts)
    OBVIOUS
  <2>2. 0 \in Times
    BY DEF Times
  <2> QED
    BY <2>1, <2>2 DEF TypeOK
<1>2. OwnInv
  <2>1. \A o \in Objects : <<>> \in Seq(Own(o))
    BY <1>0, Zenon
  <2> QED
    BY <2>1 DEF OwnInv
<1>3. FiredInv /\ RecordInv /\ GraceInv
  BY DEF FiredInv, RecordInv, GraceInv
<1>4. DedupMatchesActive
  BY DEF DedupMatchesActive, Known
<1>5. ResultsInv /\ QuietInv /\ AtInv
  BY DEF ResultsInv, QuietInv, AtInv
<1> QED
  BY <1>1, <1>2, <1>3, <1>4, <1>5 DEF Inv

\* Time passes.
LEMMA TickStep == Inv /\ Tick => Inv'
<1> SUFFICES ASSUME Inv, Tick PROVE Inv'
  OBVIOUS
<1> USE DEF Inv, Tick, NothingSent, reconcileVars
<1>1. now' \in Times
  BY PipelineAssumption DEF TypeOK, Times
<1>2. TypeOK'
  BY <1>1 DEF TypeOK
<1>3. OwnInv' /\ FiredInv'
  BY DEF OwnInv, FiredInv
<1>4. DedupMatchesActive' /\ RecordInv' /\ GraceInv'
  BY DEF DedupMatchesActive, Known, RecordInv, GraceInv
<1>5. ResultsInv' /\ QuietInv'
  BY DEF ResultsInv, QuietInv
<1>6. AtInv'
  BY PipelineAssumption DEF AtInv, TypeOK, Times
<1> QED
  BY <1>2, <1>3, <1>4, <1>5, <1>6

\* The cluster changes.
LEMMA ChangeStep == ASSUME Inv, NEW o \in Objects, Change(o) PROVE Inv'
<1> USE DEF Inv, reconcileVars
<1>1. PICK f \in BOOLEAN, list \in Evaluations[o] :
        /\ found' = [found EXCEPT ![o] = f]
        /\ problems' = [problems EXCEPT ![o] = list]
  BY DEF Change
<1>2. UNCHANGED <<now, reconcileVars, lastSeen, active, clearingSince,
                  sentAt, absentFrom, resolved, lastResult>> /\ sink' = NoAlert
  BY DEF Change, NothingSent
<1>3. list \in Seq(Own(o)) /\ list \in Seq(Alerts)
  BY PipelineAssumption, SeqOfSubset DEF Own
<1>4. TypeOK'
  BY <1>1, <1>2, <1>3 DEF TypeOK
<1>5. OwnInv' /\ FiredInv'
  BY <1>1, <1>2, <1>3 DEF OwnInv, FiredInv, TypeOK
<1>6. DedupMatchesActive' /\ RecordInv' /\ GraceInv'
  BY <1>2 DEF DedupMatchesActive, Known, RecordInv, GraceInv
<1>7. ResultsInv' /\ QuietInv' /\ AtInv'
  BY <1>2 DEF ResultsInv, QuietInv, AtInv
<1> QED
  BY <1>4, <1>5, <1>6, <1>7

\* A reconcile starts: nothing has been fired by it, and nothing was left over.
LEMMA ReconcileStep == ASSUME Inv, NEW o \in Objects, Reconcile(o) PROVE Inv'
<1> USE DEF Inv
<1>1. /\ pc[o] = "idle"
      /\ current' = [current EXCEPT ![o] = {}]
      /\ sink' = NoAlert
      /\ UNCHANGED <<now, found, problems, lastSeen, active, clearingSince,
                     sentAt, absentFrom, resolved, lastResult>>
  BY DEF Reconcile, NothingSent
<1>2. current' = current
  BY <1>1 DEF FiredInv, TypeOK
<1>3. \/ /\ pc' = [pc EXCEPT ![o] = "fire"]
         /\ pending' = [pending EXCEPT ![o] = problems[o]]
         /\ at' = [at EXCEPT ![o] = now]
      \/ /\ pc' = [pc EXCEPT ![o] = "clear"]
         /\ pending' = pending
         /\ at' = at
  BY DEF Reconcile
<1>4. pc' \in [Objects -> {"idle", "fire", "clear"}] /\ \A p \in Objects : p # o => pc'[p] = pc[p]
  BY <1>3 DEF TypeOK
<1>5. /\ pending' \in [Objects -> Seq(Alerts)]
      /\ at' \in [Objects -> Times]
      /\ \A p \in Objects : pending'[p] = pending[p] \/ pending'[p] = problems[p]
  <2>1. CASE /\ pending' = [pending EXCEPT ![o] = problems[o]]
             /\ at' = [at EXCEPT ![o] = now]
    BY <2>1 DEF TypeOK
  <2>2. CASE pending' = pending /\ at' = at
    BY <2>2 DEF TypeOK
  <2> QED
    BY <1>3, <2>1, <2>2
<1>6. \A p \in Objects : pending'[p] \in Seq(Own(p))
  BY <1>5 DEF OwnInv
<1>7. TypeOK'
  BY <1>1, <1>2, <1>4, <1>5 DEF TypeOK
<1>8. OwnInv'
  BY <1>1, <1>2, <1>6 DEF OwnInv
<1>9. FiredInv'
  BY <1>1, <1>2, <1>4 DEF FiredInv
<1>10. DedupMatchesActive' /\ RecordInv' /\ GraceInv'
  BY <1>1, <1>2 DEF DedupMatchesActive, Known, RecordInv, GraceInv
<1>11. ResultsInv' /\ QuietInv'
  BY <1>1 DEF ResultsInv, QuietInv
<1>12. AtInv'
  <2>1. now <= now
    BY PipelineAssumption DEF TypeOK, Times
  <2>2. \A p \in Objects : at'[p] = at[p] \/ at'[p] = now
    BY <1>3 DEF TypeOK
  <2> QED
    BY <2>1, <2>2, <1>1 DEF AtInv
<1> QED
  BY <1>7, <1>8, <1>9, <1>10, <1>11, <1>12

\* One alert is fired: afterwards it has a record, and it is in current.
LEMMA FireStep == ASSUME Inv, NEW o \in Objects, FireHead(o) PROVE Inv'
<1> USE DEF Inv
<1> DEFINE a == Head(pending[o])
<1>1. /\ a \in Own(o) /\ a \in Alerts /\ Owner[a] = o
      /\ Tail(pending[o]) \in Seq(Own(o))
  BY FirePending, OwnersAreDisjoint DEF FireHead, OwnInv
<1>2. Tail(pending[o]) \in Seq(Alerts)
  BY <1>1, SeqOfSubset
<1>3. /\ pc[o] = "fire"
      /\ current' = [current EXCEPT ![o] = @ \cup {a}]
      /\ pending' = [pending EXCEPT ![o] = Tail(pending[o])]
      /\ Fire(a)
      /\ UNCHANGED <<now, found, problems, pc, at, active, clearingSince>>
  BY DEF FireHead
<1> HIDE DEF a
<1>4. \/ /\ lastSeen[a] # Never
         /\ sink' = NoAlert
         /\ UNCHANGED <<lastSeen, sentAt, absentFrom, resolved>>
      \/ /\ lastSeen' = [lastSeen EXCEPT ![a] = now]
         /\ sink' = a
         /\ sentAt' = [sentAt EXCEPT ![a] = now]
         /\ absentFrom' = [absentFrom EXCEPT ![a] = Never]
         /\ resolved' = [resolved EXCEPT ![a] = FALSE]
  BY <1>3 DEF Fire, Suppressed, Recorded, NothingSent
<1>5. now \in Times /\ now # Never
  BY PipelineAssumption DEF TypeOK, Times, Never
<1>6. lastResult' = lastResult
  BY <1>3 DEF Fire, NothingSent
<1>19. current' \in [Objects -> SUBSET Alerts] /\ pending' \in [Objects -> Seq(Alerts)]
  BY <1>1, <1>2, <1>3 DEF TypeOK
<1>7. /\ lastSeen' \in [Alerts -> Times \cup {Never}]
      /\ sentAt' \in [Alerts -> Times \cup {Never}]
      /\ absentFrom' \in [Alerts -> Times \cup {Never}]
      /\ resolved' \in [Alerts -> BOOLEAN]
      /\ sink' \in Alerts \cup {NoAlert}
  <2>1. CASE UNCHANGED <<lastSeen, sentAt, absentFrom, resolved>> /\ sink' = NoAlert
    BY <2>1 DEF TypeOK
  <2>2. CASE /\ lastSeen' = [lastSeen EXCEPT ![a] = now]
             /\ sink' = a
             /\ sentAt' = [sentAt EXCEPT ![a] = now]
             /\ absentFrom' = [absentFrom EXCEPT ![a] = Never]
             /\ resolved' = [resolved EXCEPT ![a] = FALSE]
    BY <2>2, <1>1, <1>5 DEF TypeOK
  <2> QED
    BY <1>4, <2>1, <2>2
<1>8. TypeOK'
  BY <1>3, <1>6, <1>7, <1>19 DEF TypeOK
<1>9. OwnInv' /\ FiredInv'
  BY <1>1, <1>3 DEF OwnInv, FiredInv, TypeOK
<1>10. \A p \in Objects : current'[p] = IF p = o THEN current[p] \cup {a} ELSE current[p]
  BY <1>3 DEF TypeOK
<1>11. \A b \in Alerts : Owner[b] \in Objects
  BY PipelineAssumption
<1>12. ASSUME NEW b \in Alerts
       PROVE  b \in Known(Owner[b])' <=> b = a \/ b \in Known(Owner[b])
  <2>1. Known(Owner[b])' = active[Owner[b]] \cup current'[Owner[b]]
    BY <1>3 DEF Known
  <2>2. CASE Owner[b] = o
    BY <2>1, <2>2, <1>10 DEF Known
  <2>3. CASE Owner[b] # o
    <3>1. b # a /\ current'[Owner[b]] = current[Owner[b]]
      BY <2>3, <1>1, <1>10, <1>11
    <3> QED
      BY <2>1, <3>1 DEF Known
  <2> QED
    BY <2>2, <2>3
<1>13. /\ lastSeen'[a] # Never
       /\ \A b \in Alerts : b # a =>
            lastSeen'[b] = lastSeen[b] /\ sentAt'[b] = sentAt[b]
            /\ absentFrom'[b] = absentFrom[b] /\ resolved'[b] = resolved[b]
  BY <1>1, <1>4, <1>5 DEF TypeOK
<1>14. DedupMatchesActive'
  BY <1>1, <1>12, <1>13 DEF DedupMatchesActive
<1>15. lastSeen'[a] = sentAt'[a] /\ ~resolved'[a]
  BY <1>1, <1>4, <1>5 DEF TypeOK, RecordInv
<1>16. RecordInv'
  BY <1>1, <1>13, <1>15 DEF RecordInv
<1>17. ASSUME NEW b \in Alerts, b \in active'[Owner[b]] \ current'[Owner[b]]
       PROVE  clearingSince'[b] = absentFrom'[b]
  <2>1. b # a
    BY <1>1, <1>10, <1>17
  <2>2. b \in active[Owner[b]] \ current[Owner[b]]
    BY <1>3, <1>10, <1>11, <1>17
  <2> QED
    BY <2>1, <2>2, <1>3, <1>13 DEF GraceInv
<1>18. GraceInv'
  BY <1>17 DEF GraceInv
<1>20. ResultsInv' /\ QuietInv' /\ AtInv'
  BY <1>3, <1>6 DEF ResultsInv, QuietInv, AtInv
<1> QED
  BY <1>8, <1>9, <1>14, <1>16, <1>18, <1>20

\* The critical section of deliver: the alerts it stops tracking are those whose
\* records it forgets, and those the history calls resolved.
LEMMA SettleStep == ASSUME Inv, NEW o \in Objects, Settle(o) PROVE Inv'
<1> USE DEF Inv
<1> DEFINE E == Expired(o)
           C == current[o]
<1>1. /\ pc[o] = "fire"
      /\ pc' = [pc EXCEPT ![o] = "idle"]
      /\ active' = [active EXCEPT ![o] = (active[o] \cup C) \ E]
      /\ current' = [current EXCEPT ![o] = {}]
      /\ UNCHANGED <<now, found, problems, pending, at, sentAt>>
      /\ sink' = NoAlert
      /\ lastResult' = [lastResult EXCEPT ![o] = C]
  BY DEF Settle, ObserveResults
<1>2. /\ clearingSince' = [a \in Alerts |->
           CASE a \in C \cup E       -> Zero
             [] a \in StartClearing(o) -> at[o]
             [] OTHER                  -> clearingSince[a]]
      /\ lastSeen' = [a \in Alerts |-> IF a \in E THEN Never ELSE lastSeen[a]]
  BY DEF Settle, Forget, ClearingAfter
<1>3. /\ absentFrom' = [a \in Alerts |->
           IF Owner[a] # o \/ sentAt[a] = Never \/ resolved[a] THEN absentFrom[a]
           ELSE IF a \in C THEN Never
           ELSE IF absentFrom[a] = Never THEN at[o]
           ELSE absentFrom[a]]
      /\ resolved' = [a \in Alerts |->
           \/ resolved[a]
           \/ /\ Owner[a] = o /\ a \notin C /\ absentFrom[a] # Never
              /\ at[o] - absentFrom[a] >= ClearGrace]
  BY DEF Settle, ObserveResults
<1>4. /\ E = {a \in active[o] \ C : clearingSince[a] # Zero /\ at[o] - clearingSince[a] >= ClearGrace}
      /\ C \subseteq Own(o) /\ active[o] \subseteq Own(o)
      /\ StartClearing(o) = {a \in active[o] \ C : clearingSince[a] = Zero}
  BY DEF Expired, StartClearing, OwnInv
<1> HIDE DEF E, C
<1>5. at[o] \in Times /\ Own(o) \subseteq Alerts
  BY DEF TypeOK, Own
<1>6. \A b \in Alerts : Owner[b] \in Objects
  BY PipelineAssumption
<1>7. TypeOK'
  <2>1. pc' \in [Objects -> {"idle", "fire", "clear"}]
    BY <1>1 DEF TypeOK
  <2>2. active' \in [Objects -> SUBSET Alerts] /\ current' \in [Objects -> SUBSET Alerts]
    BY <1>1, <1>4, <1>5 DEF TypeOK
  <2>3. lastSeen' \in [Alerts -> Times \cup {Never}]
    BY <1>2 DEF TypeOK
  <2>4. clearingSince' \in [Alerts -> Times \cup {Zero}]
    BY <1>2, <1>5 DEF TypeOK
  <2>5. absentFrom' \in [Alerts -> Times \cup {Never}]
    BY <1>3, <1>5 DEF TypeOK
  <2>6. resolved' \in [Alerts -> BOOLEAN]
    BY <1>3 DEF TypeOK
  <2>7. lastResult' \in [Objects -> SUBSET Alerts]
    BY <1>1, <1>4, <1>5 DEF TypeOK
  <2> QED
    BY <1>1, <2>1, <2>2, <2>3, <2>4, <2>5, <2>6, <2>7 DEF TypeOK
<1>8. /\ \A p \in Objects : active'[p] = IF p = o THEN (active[o] \cup C) \ E ELSE active[p]
      /\ \A p \in Objects : current'[p] = IF p = o THEN {} ELSE current[p]
      /\ \A p \in Objects : pc'[p] = IF p = o THEN "idle" ELSE pc[p]
      /\ \A p \in Objects : lastResult'[p] = IF p = o THEN C ELSE lastResult[p]
  BY <1>1 DEF TypeOK
<1>9. OwnInv'
  BY <1>1, <1>4, <1>8 DEF OwnInv
<1>10. FiredInv'
  BY <1>8 DEF FiredInv
<1>11. ASSUME NEW a \in Alerts, Owner[a] # o
       PROVE  /\ lastSeen'[a] = lastSeen[a] /\ resolved'[a] = resolved[a]
              /\ absentFrom'[a] = absentFrom[a] /\ clearingSince'[a] = clearingSince[a]
              /\ active'[Owner[a]] = active[Owner[a]] /\ current'[Owner[a]] = current[Owner[a]]
  <2>1. a \notin E \cup C /\ a \notin StartClearing(o)
    BY <1>4, <1>11 DEF Own
  <2>2. resolved'[a] = resolved[a]
    BY <1>3, <1>11 DEF TypeOK
  <2> QED
    BY <2>1, <2>2, <1>2, <1>3, <1>6, <1>8, <1>11
<1>12. ASSUME NEW a \in Alerts, Owner[a] = o, a \in active[o] \cup C
       PROVE  /\ sentAt[a] # Never /\ lastSeen[a] = sentAt[a] /\ ~resolved[a]
              /\ a \in E <=> resolved'[a]
              /\ a \notin E => clearingSince'[a] = absentFrom'[a]
  <2>1. sentAt[a] # Never /\ lastSeen[a] = sentAt[a] /\ ~resolved[a]
    BY <1>12 DEF DedupMatchesActive, Known, RecordInv, C
  <2>2. CASE a \in C
    <3>1. a \notin E /\ ~resolved'[a]
      BY <2>1, <2>2, <1>3, <1>4
    <3>2. clearingSince'[a] = Zero /\ absentFrom'[a] = Never
      BY <2>1, <2>2, <1>2, <1>3, <1>4, <1>12
    <3> QED
      BY <2>1, <3>1, <3>2 DEF Zero, Never
  <2>3. CASE a \notin C
    <3>1. a \in active[o] /\ clearingSince[a] = absentFrom[a]
      BY <2>3, <1>12 DEF GraceInv, C
    <3>2. a \in E <=> resolved'[a]
      BY <2>1, <2>3, <3>1, <1>3, <1>4, <1>12 DEF Zero, Never
    <3>3. ASSUME a \notin E PROVE clearingSince'[a] = absentFrom'[a]
      <4>1. CASE absentFrom[a] = Never
        BY <2>1, <2>3, <3>1, <3>3, <4>1, <1>2, <1>3, <1>4, <1>12 DEF Zero, Never
      <4>2. CASE absentFrom[a] # Never
        BY <2>1, <2>3, <3>1, <3>3, <4>2, <1>2, <1>3, <1>4, <1>12 DEF Zero, Never
      <4> QED
        BY <4>1, <4>2
    <3> QED
      BY <2>1, <3>2, <3>3
  <2> QED
    BY <2>2, <2>3
<1>13. ASSUME NEW a \in Alerts, Owner[a] = o, a \notin active[o] \cup C
       PROVE  lastSeen[a] = Never /\ lastSeen'[a] = Never
              /\ (sentAt[a] = Never \/ resolved'[a])
  <2>1. lastSeen[a] = Never
    BY <1>13 DEF DedupMatchesActive, Known, C
  <2>2. sentAt[a] = Never \/ resolved[a]
    BY <2>1 DEF RecordInv
  <2> QED
    BY <2>1, <2>2, <1>2, <1>3
<1>14. DedupMatchesActive'
  <2> SUFFICES ASSUME NEW a \in Alerts
               PROVE  lastSeen'[a] # Never <=> a \in active'[Owner[a]] \cup current'[Owner[a]]
    BY DEF DedupMatchesActive, Known
  <2>1. CASE Owner[a] # o
    BY <2>1, <1>11 DEF DedupMatchesActive, Known
  <2>2. CASE Owner[a] = o /\ a \in active[o] \cup C
    BY <2>2, <1>2, <1>8, <1>12
  <2>3. CASE Owner[a] = o /\ a \notin active[o] \cup C
    BY <2>3, <1>8, <1>13
  <2> QED
    BY <2>1, <2>2, <2>3
<1>15. RecordInv'
  <2> SUFFICES ASSUME NEW a \in Alerts
               PROVE  /\ lastSeen'[a] # Never => lastSeen'[a] = sentAt'[a] /\ ~resolved'[a]
                      /\ lastSeen'[a] = Never => sentAt'[a] = Never \/ resolved'[a]
    BY DEF RecordInv
  <2>1. CASE Owner[a] # o
    BY <2>1, <1>1, <1>11 DEF RecordInv
  <2>2. CASE Owner[a] = o /\ a \in active[o] \cup C
    BY <2>2, <1>1, <1>2, <1>12
  <2>3. CASE Owner[a] = o /\ a \notin active[o] \cup C
    BY <2>3, <1>1, <1>13
  <2> QED
    BY <2>1, <2>2, <2>3
<1>16. GraceInv'
  <2> SUFFICES ASSUME NEW a \in Alerts, a \in active'[Owner[a]] \ current'[Owner[a]]
               PROVE  clearingSince'[a] = absentFrom'[a]
    BY DEF GraceInv
  <2>1. CASE Owner[a] # o
    BY <2>1, <1>11 DEF GraceInv
  <2>2. CASE Owner[a] = o
    BY <2>2, <1>8, <1>12
  <2> QED
    BY <2>1, <2>2
<1>17. at[o] # Zero
  BY <1>5, PipelineAssumption DEF Times, Zero
<1>18. ASSUME NEW a \in Alerts
       PROVE  /\ a \in C => clearingSince'[a] = Zero
              /\ a \in E => clearingSince'[a] = Zero
              /\ a \in ((active[o] \cup C) \ E) \ C => clearingSince'[a] # Zero
              /\ a \notin active[o] \cup C => clearingSince'[a] = clearingSince[a]
  <2>1. CASE a \in C \cup E
    BY <2>1, <1>2, <1>4
  <2>2. CASE a \notin C \cup E /\ a \in StartClearing(o)
    BY <2>2, <1>2, <1>4, <1>17
  <2>3. CASE a \notin C \cup E /\ a \notin StartClearing(o)
    BY <2>3, <1>2, <1>4
  <2> QED
    BY <2>1, <2>2, <2>3
<1>19. ResultsInv'
  <2> SUFFICES ASSUME NEW p \in Objects, NEW a \in Alerts
               PROVE  a \in lastResult'[p] <=> a \in active'[p] /\ clearingSince'[a] = Zero
    BY DEF ResultsInv
  <2>1. CASE p = o
    BY <2>1, <1>4, <1>8, <1>18
  <2>2. CASE p # o
    <3>1. a \in active[p] \cup lastResult[p] => Owner[a] = p
      BY DEF OwnInv, Own, ResultsInv
    <3>2. active'[p] = active[p] /\ lastResult'[p] = lastResult[p]
      BY <2>2, <1>8
    <3>3. CASE Owner[a] = p
      BY <2>2, <3>2, <3>3, <1>11 DEF ResultsInv
    <3>4. CASE Owner[a] # p
      BY <3>1, <3>2, <3>4
    <3> QED
      BY <3>3, <3>4
  <2> QED
    BY <2>1, <2>2
<1>20. QuietInv'
  <2> SUFFICES ASSUME NEW a \in Alerts, a \notin active'[Owner[a]]
               PROVE  clearingSince'[a] = Zero
    BY DEF QuietInv
  <2>1. CASE Owner[a] # o
    BY <2>1, <1>11 DEF QuietInv
  <2>2. CASE Owner[a] = o
    <3>1. a \in E \/ a \notin active[o] \cup C
      BY <2>2, <1>8
    <3>2. CASE a \in E
      BY <3>2, <1>18
    <3>3. CASE a \notin active[o] \cup C
      BY <2>2, <3>3, <1>18 DEF QuietInv
    <3> QED
      BY <3>1, <3>2, <3>3
  <2> QED
    BY <2>1, <2>2
<1>21. AtInv'
  BY <1>1 DEF AtInv
<1> QED
  BY <1>7, <1>9, <1>10, <1>14, <1>15, <1>16, <1>19, <1>20, <1>21

\* clearObject: the records of every tracked alert go with the object.
LEMMA ClearObjectStep == ASSUME Inv, NEW o \in Objects, ClearObject(o) PROVE Inv'
<1> USE DEF Inv
<1>1. /\ pc[o] = "clear"
      /\ pc' = [pc EXCEPT ![o] = "idle"]
      /\ active' = [active EXCEPT ![o] = {}]
      /\ sink' = NoAlert
      /\ lastResult' = [lastResult EXCEPT ![o] = {}]
      /\ UNCHANGED <<now, found, problems, pending, current, at, sentAt,
                     absentFrom>>
  BY DEF ClearObject
<1>2. /\ lastSeen' = [a \in Alerts |-> IF a \in active[o] THEN Never ELSE lastSeen[a]]
      /\ clearingSince' = [a \in Alerts |-> IF a \in active[o] THEN Zero ELSE clearingSince[a]]
      /\ resolved' = [a \in Alerts |-> resolved[a] \/ (Owner[a] = o /\ sentAt[a] # Never)]
  BY DEF ClearObject, Forget
<1>3. current[o] = {} /\ active[o] \subseteq Own(o)
  BY <1>1 DEF FiredInv, OwnInv
<1>4. \A b \in Alerts : Owner[b] \in Objects
  BY PipelineAssumption
<1>5. /\ \A p \in Objects : active'[p] = IF p = o THEN {} ELSE active[p]
      /\ \A p \in Objects : pc'[p] = IF p = o THEN "idle" ELSE pc[p]
      /\ \A p \in Objects : lastResult'[p] = IF p = o THEN {} ELSE lastResult[p]
  BY <1>1 DEF TypeOK
<1>6. TypeOK'
  <2>1. /\ pc' \in [Objects -> {"idle", "fire", "clear"}]
        /\ active' \in [Objects -> SUBSET Alerts]
        /\ lastResult' \in [Objects -> SUBSET Alerts]
    BY <1>1 DEF TypeOK
  <2>2. /\ lastSeen' \in [Alerts -> Times \cup {Never}]
        /\ clearingSince' \in [Alerts -> Times \cup {Zero}]
    BY <1>2 DEF TypeOK
  <2>3. resolved' \in [Alerts -> BOOLEAN]
    BY <1>2 DEF TypeOK
  <2> QED
    BY <1>1, <2>1, <2>2, <2>3 DEF TypeOK
<1>7. OwnInv' /\ FiredInv'
  BY <1>1, <1>3, <1>5 DEF OwnInv, FiredInv
<1>8. ASSUME NEW a \in Alerts, Owner[a] # o
      PROVE  /\ lastSeen'[a] = lastSeen[a] /\ resolved'[a] = resolved[a]
             /\ clearingSince'[a] = clearingSince[a]
             /\ active'[Owner[a]] = active[Owner[a]]
  <2>1. a \notin active[o]
    BY <1>3, <1>8 DEF Own
  <2>2. resolved'[a] = resolved[a]
    BY <1>2, <1>8 DEF TypeOK
  <2> QED
    BY <2>1, <2>2, <1>2, <1>4, <1>5, <1>8
<1>9. ASSUME NEW a \in Alerts, Owner[a] = o
      PROVE  lastSeen'[a] = Never /\ (sentAt[a] = Never \/ resolved'[a])
  <2>1. a \notin active[o] => lastSeen[a] = Never
    BY <1>3, <1>9 DEF DedupMatchesActive, Known
  <2> QED
    BY <2>1, <1>2, <1>9
<1>10. DedupMatchesActive'
  <2> SUFFICES ASSUME NEW a \in Alerts
               PROVE  lastSeen'[a] # Never <=> a \in active'[Owner[a]] \cup current'[Owner[a]]
    BY DEF DedupMatchesActive, Known
  <2>1. CASE Owner[a] # o
    BY <2>1, <1>1, <1>8 DEF DedupMatchesActive, Known
  <2>2. CASE Owner[a] = o
    BY <2>2, <1>1, <1>3, <1>5, <1>9
  <2> QED
    BY <2>1, <2>2
<1>11. RecordInv'
  <2> SUFFICES ASSUME NEW a \in Alerts
               PROVE  /\ lastSeen'[a] # Never => lastSeen'[a] = sentAt'[a] /\ ~resolved'[a]
                      /\ lastSeen'[a] = Never => sentAt'[a] = Never \/ resolved'[a]
    BY DEF RecordInv
  <2>1. CASE Owner[a] # o
    BY <2>1, <1>1, <1>8 DEF RecordInv
  <2>2. CASE Owner[a] = o
    BY <2>2, <1>1, <1>9
  <2> QED
    BY <2>1, <2>2
<1>12. GraceInv'
  <2> SUFFICES ASSUME NEW a \in Alerts, a \in active'[Owner[a]] \ current'[Owner[a]]
               PROVE  clearingSince'[a] = absentFrom'[a]
    BY DEF GraceInv
  <2>1. Owner[a] # o
    BY <1>5
  <2> QED
    BY <2>1, <1>1, <1>8 DEF GraceInv
<1>13. ResultsInv'
  <2> SUFFICES ASSUME NEW p \in Objects, NEW a \in Alerts
               PROVE  a \in lastResult'[p] <=> a \in active'[p] /\ clearingSince'[a] = Zero
    BY DEF ResultsInv
  <2>1. CASE p = o
    BY <2>1, <1>5
  <2>2. CASE p # o
    <3>1. a \in active[p] \cup lastResult[p] => Owner[a] = p
      BY DEF OwnInv, Own, ResultsInv
    <3>2. active'[p] = active[p] /\ lastResult'[p] = lastResult[p]
      BY <2>2, <1>5
    <3>3. CASE Owner[a] = p
      BY <2>2, <3>2, <3>3, <1>8 DEF ResultsInv
    <3>4. CASE Owner[a] # p
      BY <3>1, <3>2, <3>4
    <3> QED
      BY <3>3, <3>4
  <2> QED
    BY <2>1, <2>2
<1>14. QuietInv'
  <2> SUFFICES ASSUME NEW a \in Alerts, a \notin active'[Owner[a]]
               PROVE  clearingSince'[a] = Zero
    BY DEF QuietInv
  <2>1. CASE Owner[a] # o
    BY <2>1, <1>8 DEF QuietInv
  <2>2. CASE Owner[a] = o
    BY <2>2, <1>2 DEF QuietInv
  <2> QED
    BY <2>1, <2>2
<1>15. AtInv'
  BY <1>1 DEF AtInv
<1> QED
  BY <1>6, <1>7, <1>10, <1>11, <1>12, <1>13, <1>14, <1>15

\* Every step keeps the inductive invariant.
LEMMA NextInv == Inv /\ [Next]_vars => Inv'
<1> SUFFICES ASSUME Inv, [Next]_vars PROVE Inv'
  OBVIOUS
<1>1. CASE Tick
  BY <1>1, TickStep
<1>2. ASSUME NEW o \in Objects, Change(o) PROVE Inv'
  BY <1>2, ChangeStep
<1>3. ASSUME NEW o \in Objects, Deliver(o) PROVE Inv'
  BY <1>3, ReconcileStep, FireStep, SettleStep, ClearObjectStep DEF Deliver
<1>4. CASE UNCHANGED vars
  <2> USE <1>4 DEF Inv, vars, reconcileVars, historyVars
  <2>1. TypeOK'
    BY DEF TypeOK
  <2>2. OwnInv' /\ FiredInv'
    BY DEF OwnInv, FiredInv
  <2>3. DedupMatchesActive' /\ RecordInv' /\ GraceInv'
    BY DEF DedupMatchesActive, Known, RecordInv, GraceInv
  <2>4. ResultsInv' /\ QuietInv' /\ AtInv'
    BY DEF ResultsInv, QuietInv, AtInv
  <2> QED
    BY <2>1, <2>2, <2>3, <2>4
<1> QED
  BY <1>1, <1>2, <1>3, <1>4 DEF Next

-----------------------------------------------------------------------------
(* The theorems. *)

\* The inductive invariant holds in every reachable state.
THEOREM InvHolds == Spec => []Inv
  BY InitInv, NextInv, PTL DEF Spec

\* Type correctness of the Deduper's and the controller's maps.
THEOREM TypeCorrect == Spec => []TypeOK
<1>1. Inv => TypeOK
  BY DEF Inv
<1> QED
  BY <1>1, InvHolds, PTL

\* The Deduper (alert.go) holds a record exactly for the alerts the controller
\* (controller.go) tracks or is firing, although two mutexes guard the two maps.
THEOREM RecordsAreTracked == Spec => []DedupMatchesActive
<1>1. Inv => DedupMatchesActive
  BY DEF Inv
<1> QED
  BY <1>1, InvHolds, PTL

\* A step that hands an alert to the Deduper is a round of deliver's loop.
LEMMA FiresIsFireHead ==
  ASSUME Inv, [Next]_vars, NEW a \in Alerts, Fires(a)
  PROVE  \E o \in Objects : FireHead(o) /\ Head(pending[o]) = a
<1>1. PICK o \in Objects :
        /\ pc[o] = "fire" /\ pending[o] # <<>> /\ Head(pending[o]) = a
        /\ pending'[o] = Tail(pending[o])
        /\ pc'[o] = "fire"
  BY DEF Fires
<1>2. pending'[o] # pending[o]
  BY <1>1, FirePending DEF Inv, OwnInv
<1>3. ~Tick /\ ~UNCHANGED vars
  BY <1>2 DEF Tick, vars, reconcileVars
<1>4. ASSUME NEW p \in Objects PROVE ~Change(p) /\ ~Settle(p) /\ ~ClearObject(p)
  BY <1>2 DEF Change, Settle, ClearObject, reconcileVars
<1>5. ASSUME NEW p \in Objects, Reconcile(p) PROVE FALSE
  <2>1. p # o
    BY <1>1, <1>5 DEF Reconcile
  <2>2. pending'[o] = pending[o]
    BY <2>1, <1>5 DEF Reconcile, Inv, TypeOK
  <2> QED
    BY <2>2, <1>2
<1>6. PICK p \in Objects : FireHead(p)
  BY <1>3, <1>4, <1>5 DEF Next, Deliver
<1>7. p = o
  BY <1>2, <1>6 DEF FireHead, Inv, TypeOK
<1> QED
  BY <1>1, <1>6, <1>7

\* An alert that deliver fires reaches the wrapped sink exactly when it is new,
\* Resend has passed, or the problem was resolved in between: for every resend
\* interval, grace period and interleaving of reconciles.
THEOREM DeliveredWhenDue == Spec => SentWhenDue
<1>1. Inv /\ [Next]_vars =>
        [\A a \in Alerts :
           Fires(a) => (sink' = a <=> \/ sentAt[a] = Never
                                      \/ now - sentAt[a] >= Resend
                                      \/ resolved[a])]_vars
  <2> SUFFICES ASSUME Inv, [Next]_vars, NEW a \in Alerts, Fires(a)
               PROVE  sink' = a <=> \/ sentAt[a] = Never
                                    \/ now - sentAt[a] >= Resend
                                    \/ resolved[a]
    OBVIOUS
  <2>1. PICK o \in Objects : FireHead(o) /\ Head(pending[o]) = a
    BY FiresIsFireHead
  <2>2. Fire(a)
    BY <2>1 DEF FireHead
  <2>3. a # NoAlert
    BY PipelineAssumption
  <2>4. sink' = a <=> ~Suppressed(a)
    BY <2>2, <2>3 DEF Fire, NothingSent
  <2>5. CASE lastSeen[a] = Never
    <3>1. sentAt[a] = Never \/ resolved[a]
      BY <2>5 DEF Inv, RecordInv
    <3> QED
      BY <2>4, <2>5, <3>1 DEF Suppressed
  <2>6. CASE lastSeen[a] # Never
    <3>1. lastSeen[a] = sentAt[a] /\ ~resolved[a]
      BY <2>6 DEF Inv, RecordInv
    <3>2. now \in Int /\ sentAt[a] \in Int /\ Resend \in Int
      BY PipelineAssumption DEF Inv, TypeOK, Times, Never
    <3>3. Suppressed(a) <=> now - sentAt[a] < Resend
      BY <2>6, <3>1 DEF Suppressed
    <3>4. now - sentAt[a] < Resend <=> ~(now - sentAt[a] >= Resend)
      BY <3>2
    <3> QED
      BY <2>4, <2>6, <3>1, <3>3, <3>4
  <2> QED
    BY <2>5, <2>6
<1> QED
  BY <1>1, InvHolds, PTL DEF Spec, SentWhenDue

-----------------------------------------------------------------------------
(* The refinement: Deduper, deliver and clearObject keep one book. *)

\* The entries of the book are the alerts the controller tracks or has fired.
LEMMA OpenIsKnown ==
  ASSUME Inv, NEW o \in Objects
  PROVE  Book!Open(o) = active[o] \cup current[o]
<1>1. Book!Open(o) = {a \in Alerts : Owner[a] = o /\ lastSeen[a] # Never}
  BY DEF Book!Open, Book!Never, Never
<1>2. active[o] \cup current[o] \subseteq Own(o)
  BY DEF Inv, OwnInv
<1> QED
  BY <1>1, <1>2 DEF Inv, DedupMatchesActive, Known, Own

\* Firing an alert is a notification, or nothing.
LEMMA FireIsNotify ==
  ASSUME Inv, NEW o \in Objects, FireHead(o)
  PROVE  Book!Next
<1> DEFINE a == Head(pending[o])
<1>1. a \in Alerts
  BY FirePending, OwnersAreDisjoint DEF FireHead, Inv, OwnInv
<1>2. Fire(a) /\ UNCHANGED <<now, clearingSince>>
  BY DEF FireHead
<1> HIDE DEF a
<1>3. CASE Suppressed(a)
  <2>1. sink' = NoAlert /\ lastSeen' = lastSeen
    BY <1>2, <1>3 DEF Fire, NothingSent
  <2> QED
    BY <1>2, <2>1 DEF Book!Next, Book!Silence
<1>4. CASE ~Suppressed(a)
  <2>1. sink' = a /\ lastSeen' = [lastSeen EXCEPT ![a] = now]
    BY <1>2, <1>4 DEF Fire, Recorded
  <2>2. now \in Int /\ lastSeen[a] \in Int /\ Resend \in Int
    BY <1>1, PipelineAssumption DEF Inv, TypeOK, Times, Never
  <2>3. lastSeen[a] = Never \/ now - lastSeen[a] >= Resend
    BY <1>4, <2>2 DEF Suppressed
  <2>4. Book!Notify(a)
    BY <1>2, <2>1, <2>3 DEF Book!Notify, Book!Never, Never
  <2> QED
    BY <1>1, <2>4 DEF Book!Next
<1> QED
  BY <1>3, <1>4

\* The critical section of deliver is a review of the object, dated at the time
\* the reconcile read the clock.
LEMMA SettleIsReview ==
  ASSUME Inv, NEW o \in Objects, Settle(o)
  PROVE  Book!Next
<1> DEFINE C == current[o]
           t == at[o]
<1>1. Book!Open(o) = active[o] \cup C
  BY OpenIsKnown
<1>2. Book!Overdue(o, C, t) = Expired(o)
  <2>1. Book!Overdue(o, C, t) =
          {a \in Book!Open(o) \ C :
             clearingSince[a] # Zero /\ t - clearingSince[a] >= ClearGrace}
    BY DEF Book!Overdue, Book!Never, Zero
  <2>2. Book!Open(o) \ C = active[o] \ C
    BY <1>1
  <2> QED
    BY <2>1, <2>2 DEF Expired
<1>3. /\ lastSeen' = [a \in Alerts |-> IF a \in Expired(o) THEN Never ELSE lastSeen[a]]
      /\ clearingSince' = ClearingAfter(o)
      /\ sink' = NoAlert
      /\ now' = now
  BY DEF Settle, Forget, ObserveResults
<1>4. ASSUME NEW a \in Alerts
      PROVE  ClearingAfter(o)[a] =
               IF a \in C \cup Expired(o) THEN Never
               ELSE IF a \in Book!Open(o) /\ clearingSince[a] = Never THEN t
               ELSE clearingSince[a]
  <2>1. /\ StartClearing(o) = {b \in active[o] \ C : clearingSince[b] = Zero}
        /\ Expired(o) \subseteq active[o] \ C
        /\ \A b \in Expired(o) : clearingSince[b] # Zero
    BY DEF StartClearing, Expired
  <2>2. ClearingAfter(o)[a] =
          CASE a \in C \cup Expired(o)   -> Zero
            [] a \in StartClearing(o)    -> t
            [] OTHER                     -> clearingSince[a]
    BY DEF ClearingAfter
  <2> HIDE DEF C, t
  <2>3. CASE a \in C \cup Expired(o)
    BY <2>1, <2>2, <2>3 DEF Zero, Never
  <2>4. CASE a \notin C \cup Expired(o) /\ a \in StartClearing(o)
    BY <1>1, <2>1, <2>2, <2>4 DEF Zero, Never
  <2>5. CASE a \notin C \cup Expired(o) /\ a \notin StartClearing(o)
    BY <1>1, <2>1, <2>2, <2>5 DEF Zero, Never
  <2> QED
    BY <2>3, <2>4, <2>5
<1>5. ClearingAfter(o) = [a \in Alerts |->
        IF a \in C \cup Expired(o) THEN Never
        ELSE IF a \in Book!Open(o) /\ clearingSince[a] = Never THEN t
        ELSE clearingSince[a]]
  BY <1>4 DEF ClearingAfter
<1>6. Book!Review(o, C, t)
  BY <1>2, <1>3, <1>5 DEF Book!Review, Book!Never, Never
<1>7. C \in SUBSET Book!Open(o)
  BY <1>1
<1>8. t \in 0..now
  BY PipelineAssumption DEF Inv, AtInv, TypeOK, Times
<1> QED
  BY <1>6, <1>7, <1>8 DEF Book!Next

\* clearObject closes the entries of an object that is gone.
LEMMA ClearObjectIsGone ==
  ASSUME Inv, NEW o \in Objects, ClearObject(o)
  PROVE  Book!Next
<1>1. current[o] = {}
  BY DEF ClearObject, Inv, FiredInv
<1>2. Book!Open(o) = active[o]
  BY <1>1, OpenIsKnown
<1>3. Book!Gone(o)
  BY <1>2 DEF ClearObject, Forget, Book!Gone, Book!Never, Never, Zero
<1> QED
  BY <1>3 DEF Book!Next

\* The two maps, two mutexes and several steps of a reconcile (alert.go, Fire and
\* Forget; controller.go, deliver and clearObject) implement one book of alerts in
\* which each notification, review and closing is one step.
THEOREM PipelineImplementsBook == Spec => ImplementsBook
<1>1. Init => Book!Init
  BY DEF Init, Book!Init, Book!Never, Never, Zero
<1>2. Inv /\ [Next]_vars => [Book!Next]_(Book!bookVars)
  <2> SUFFICES ASSUME Inv, [Next]_vars PROVE Book!Next \/ UNCHANGED Book!bookVars
    OBVIOUS
  <2>1. CASE Tick
    BY <2>1 DEF Tick, NothingSent, Book!Next, Book!Tick
  <2>3. ASSUME NEW o \in Objects, Change(o) PROVE Book!Next
    BY <2>3 DEF Change, NothingSent, Book!Next, Book!Silence
  <2>4. ASSUME NEW o \in Objects, Reconcile(o) PROVE Book!Next
    BY <2>4 DEF Reconcile, NothingSent, Book!Next, Book!Silence
  <2>5. ASSUME NEW o \in Objects, Deliver(o) PROVE Book!Next
    BY <2>4, <2>5, FireIsNotify, SettleIsReview, ClearObjectIsGone DEF Deliver
  <2>6. CASE UNCHANGED vars
    BY <2>6 DEF vars, historyVars, Book!bookVars
  <2> QED
    BY <2>1, <2>3, <2>5, <2>6 DEF Next
<1> QED
  BY <1>1, <1>2, InvHolds, PTL DEF Spec, ImplementsBook, Book!Spec
-----------------------------------------------------------------------------
(* The gauge. *)

\* The number n counts the Pods with an alert at their last reconcile, but for
\* those in T.
CountsBut(n, T) ==
  \E S \in SUBSET Pods :
    /\ n = Cardinality(S)
    /\ \A o \in Pods \ T : o \in S <=> lastResult[o] # {}

\* What is on its way to the gauge is as good as what the gauge shows: it lags
\* behind the results that have turned since the count, and behind no other.
GaugeInv ==
  /\ CountsBut(gauge, gaugeTurned)
  /\ counted # NoCount => CountsBut(counted, turned)

\* The gauge's goroutine only reads what the reconciles maintain.
LEMMA GaugeStepIsPipelineStep == [GaugeNext]_allVars => [Next]_vars
  BY DEF GaugeNext, RefreshGauges, CountUnhealthy, SetGauge, Pipeline, allVars

LEMMA GaugeSpecKeepsInv == GaugeSpec => []Inv
<1>1. GaugeInit => Init
  BY DEF GaugeInit
<1> QED
  BY <1>1, GaugeStepIsPipelineStep, InitInv, NextInv, PTL DEF GaugeSpec

\* The map the poller reads has exactly the Pods whose last reconcile had an alert.
LEMMA UnhealthyIsLastResult ==
  ASSUME Inv, NEW o \in Pods
  PROVE  o \in UnhealthyPods <=> lastResult[o] # {}
<1>1. o \in Objects
  BY PodsAssumption
<1>2. lastResult[o] \subseteq Alerts /\ active[o] \subseteq Alerts
  BY <1>1 DEF Inv, TypeOK
<1> QED
  BY <1>1, <1>2 DEF Inv, ResultsInv, UnhealthyPods

\* Whatever a reconcile does, a count is wrong at most about the Pods whose result
\* turns.
LEMMA CountsButTurning ==
  ASSUME NEW n, NEW T \in SUBSET Pods, CountsBut(n, T)
  PROVE  \E S \in SUBSET Pods :
           /\ n = Cardinality(S)
           /\ \A o \in Pods \ (T \cup Turning) : o \in S <=> lastResult'[o] # {}
<1>1. PICK S \in SUBSET Pods :
        n = Cardinality(S) /\ \A o \in Pods \ T : o \in S <=> lastResult[o] # {}
  BY DEF CountsBut
<1>2. \A o \in Pods \ Turning : lastResult[o] # {} <=> lastResult'[o] # {}
  BY DEF Turning
<1> QED
  BY <1>1, <1>2

\* Every step keeps the count and the gauge that accurate.
LEMMA GaugeInvStep ==
  ASSUME Inv, turned \subseteq Pods, gaugeTurned \subseteq Pods, GaugeInv, [GaugeNext]_allVars
  PROVE  GaugeInv' /\ turned' \subseteq Pods /\ gaugeTurned' \subseteq Pods
<1>1. CASE CountUnhealthy
  <2>1. lastResult' = lastResult /\ gauge' = gauge /\ gaugeTurned' = gaugeTurned
    BY <1>1 DEF CountUnhealthy, vars, historyVars
  <2>2. UnhealthyPods \in SUBSET Pods /\ counted' = Cardinality(UnhealthyPods) /\ turned' = {}
    BY <1>1 DEF CountUnhealthy, UnhealthyPods
  <2>3. \A o \in Pods : o \in UnhealthyPods <=> lastResult[o] # {}
    BY UnhealthyIsLastResult
  <2> HIDE DEF UnhealthyPods
  <2>4. CountsBut(counted, turned)'
    BY <2>1, <2>2, <2>3 DEF CountsBut
  <2>5. CountsBut(gauge, gaugeTurned)'
    BY <2>1 DEF GaugeInv, CountsBut
  <2> QED
    BY <2>1, <2>2, <2>4, <2>5 DEF GaugeInv
<1>2. CASE SetGauge
  <2>1. lastResult' = lastResult /\ counted' = NoCount /\ counted # NoCount
        /\ gauge' = counted /\ gaugeTurned' = turned /\ turned' = turned
    BY <1>2 DEF SetGauge, vars, historyVars
  <2>2. CountsBut(gauge, gaugeTurned)'
    BY <2>1 DEF GaugeInv, CountsBut
  <2> QED
    BY <2>1, <2>2 DEF GaugeInv
<1>3. CASE Pipeline(Next)
  <2>1. turned' = turned \cup Turning /\ gaugeTurned' = gaugeTurned \cup Turning
        /\ counted' = counted /\ gauge' = gauge /\ Turning \subseteq Pods
    BY <1>3 DEF Pipeline, Turning
  <2>2. CountsBut(gauge, gaugeTurned)'
    <3>1. \E S \in SUBSET Pods :
            /\ gauge = Cardinality(S)
            /\ \A o \in Pods \ (gaugeTurned \cup Turning) : o \in S <=> lastResult'[o] # {}
      BY CountsButTurning DEF GaugeInv
    <3> HIDE DEF Turning
    <3> QED
      BY <2>1, <3>1 DEF CountsBut
  <2>3. counted # NoCount => CountsBut(counted, turned)'
    <3> SUFFICES ASSUME counted # NoCount PROVE CountsBut(counted, turned)'
      OBVIOUS
    <3>1. \E S \in SUBSET Pods :
            /\ counted = Cardinality(S)
            /\ \A o \in Pods \ (turned \cup Turning) : o \in S <=> lastResult'[o] # {}
      BY CountsButTurning DEF GaugeInv
    <3> HIDE DEF Turning
    <3> QED
      BY <2>1, <3>1 DEF CountsBut
  <2> QED
    BY <2>1, <2>2, <2>3 DEF GaugeInv, NoCount
<1>4. CASE UNCHANGED allVars
  BY <1>4 DEF allVars, vars, historyVars, gaugeVars, GaugeInv, CountsBut, NoCount
<1> QED
  BY <1>1, <1>2, <1>3, <1>4 DEF GaugeNext, RefreshGauges

\* sentinel_unhealthy_pods counts the Pods whose last completed reconcile had an
\* alert and lags behind those alone whose result has turned since refreshGauges
\* held the mutex, for any number of Pods and whatever settles before the Set.
THEOREM GaugeCountsLastResults == GaugeSpec => []GaugeLagsOnlyTurned
<1> DEFINE G == GaugeInv /\ turned \subseteq Pods /\ gaugeTurned \subseteq Pods
<1>1. GaugeInit => G
  <2> SUFFICES ASSUME GaugeInit PROVE G
    OBVIOUS
  <2>1. \A o \in Pods : lastResult[o] = {}
    BY PodsAssumption DEF GaugeInit, Init
  <2>2. gauge = Cardinality({})
    BY FS_EmptySet DEF GaugeInit
  <2> QED
    BY <2>1, <2>2 DEF GaugeInit, GaugeInv, CountsBut
<1>2. Inv /\ G /\ [GaugeNext]_allVars => G'
  BY GaugeInvStep
<1>3. G => GaugeLagsOnlyTurned
  BY DEF GaugeInv, CountsBut, GaugeLagsOnlyTurned
<1> QED
  BY <1>1, <1>2, <1>3, GaugeSpecKeepsInv, PTL DEF GaugeSpec
=============================================================================
