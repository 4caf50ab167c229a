------------------------ MODULE RestartTrackerProofs ------------------------
(***************************************************************************)
(* Proofs about RestartTracker, for any Pods and containers with names the *)
(* API server admits, any window and any threshold: the detector answers   *)
(* as if it had kept every observation, and forgets exactly what it must.  *)
(***************************************************************************)
EXTENDS RestartTracker, LoopTheorems

-----------------------------------------------------------------------------
(* The keys: which container keys the prefix test selects. *)

\* A sequence followed by one or by two more elements.
LEMMA Concatenation ==
  ASSUME NEW S, NEW s \in Seq(S), NEW x \in S, NEW y \in S
  PROVE  /\ s \o <<x>> \in Seq(S) /\ Len(s \o <<x>>) = Len(s) + 1
         /\ \A i \in 1..Len(s) : (s \o <<x>>)[i] = s[i]
         /\ (s \o <<x>>)[Len(s) + 1] = x
         /\ s \o <<x, y>> \in Seq(S) /\ Len(s \o <<x, y>>) = Len(s) + 2
         /\ \A i \in 1..Len(s) : (s \o <<x, y>>)[i] = s[i]
         /\ (s \o <<x, y>>)[Len(s) + 1] = x /\ (s \o <<x, y>>)[Len(s) + 2] = y
OBVIOUS

\* The prefix of a Pod selects the containers of that Pod and of no other, also
\* when one Pod's name is the beginning of the other's: the slash after the name
\* is the second one of the key.  (podContainerKeyMatchesPod)
LEMMA PrefixSelectsPod ==
  ASSUME NEW p \in Pods, NEW q \in Pods, NEW c \in Containers
  PROVE  MatchesPod(ContainerKey(q, c), p) <=> p = q
<1> DEFINE ck == ContainerKey(q, c)
           pre == p \o <<"/">>
<1>1. p \in Seq(STRING) /\ q \in Seq(STRING) /\ c \in STRING /\ c # "/"
      /\ Len(p) \in Nat /\ Len(q) \in Nat
  BY NamesAssumption
<1>0. PICK x \in STRING : x = "/"
  <2>1. PICK i \in 1..Len(p) : p[i] = "/"
    BY NamesAssumption
  <2> QED
    BY <1>1, <2>1
<1>2. /\ ck \in Seq(STRING) /\ Len(ck) = Len(q) + 2
      /\ ck[Len(q) + 1] = "/" /\ ck[Len(q) + 2] = c
      /\ \A i \in 1..Len(q) : ck[i] = q[i]
  <2>2. ck = q \o <<x, c>>
    BY <1>0 DEF ContainerKey
  <2> HIDE DEF ck
  <2>3. /\ ck \in Seq(STRING) /\ Len(ck) = Len(q) + 2
        /\ ck[Len(q) + 1] = x /\ ck[Len(q) + 2] = c
        /\ \A i \in 1..Len(q) : ck[i] = q[i]
    BY <1>1, <2>2, Concatenation
  <2> QED
    BY <1>0, <2>3
<1>3. /\ pre \in Seq(STRING) /\ Len(pre) = Len(p) + 1
      /\ pre[Len(p) + 1] = "/"
      /\ \A i \in 1..Len(p) : pre[i] = p[i]
  <2>2. pre = p \o <<x>>
    BY <1>0
  <2> HIDE DEF pre
  <2>3. /\ pre \in Seq(STRING) /\ Len(pre) = Len(p) + 1
        /\ pre[Len(p) + 1] = x
        /\ \A i \in 1..Len(p) : pre[i] = p[i]
    BY <1>1, <2>2, Concatenation
  <2> QED
    BY <1>0, <2>3
<1> HIDE DEF ck, pre
<1>4. IsPrefix(pre, ck) <=> Len(pre) <= Len(ck) /\ \A i \in 1..Len(pre) : pre[i] = ck[i]
  <2>1. ASSUME Len(pre) <= Len(ck)
        PROVE  SubSeq(pre, 1, Len(pre)) = SubSeq(ck, 1, Len(pre))
                 <=> \A i \in 1..Len(pre) : pre[i] = ck[i]
    <3> DEFINE s == SubSeq(pre, 1, Len(pre))
               t == SubSeq(ck, 1, Len(pre))
    <3>1. /\ s \in Seq(STRING) /\ t \in Seq(STRING) /\ Len(s) = Len(pre) /\ Len(t) = Len(pre)
          /\ \A i \in 1..Len(pre) : s[i] = pre[i] /\ t[i] = ck[i]
      BY <1>1, <1>2, <1>3, <2>1
    <3> HIDE DEF s, t
    <3>2. (\A i \in 1..Len(pre) : s[i] = t[i]) => s = t
      BY <3>1
    <3>3. s = t <=> \A i \in 1..Len(pre) : pre[i] = ck[i]
      BY <3>1, <3>2
    <3> QED
      BY <3>3 DEF s, t
  <2> QED
    BY <2>1 DEF IsPrefix
<1>5. ASSUME p = q PROVE IsPrefix(pre, ck)
  BY <1>1, <1>2, <1>3, <1>4, <1>5
<1>6. ASSUME IsPrefix(pre, ck) PROVE p = q
  <2>1. Len(pre) <= Len(ck) /\ \A i \in 1..Len(pre) : pre[i] = ck[i]
    BY <1>4, <1>6
  <2>2. PICK i \in 1..Len(p) : \A j \in 1..Len(p) : p[j] = "/" <=> j = i
    BY NamesAssumption
  <2>3. PICK k \in 1..Len(q) : \A j \in 1..Len(q) : q[j] = "/" <=> j = k
    BY NamesAssumption
  <2>4. ck[Len(p) + 1] = "/" /\ Len(p) + 1 \in 1..(Len(q) + 2)
    <3>1. Len(p) + 1 \in 1..Len(pre)
      BY <1>1, <1>3
    <3> QED
      BY <3>1, <2>1, <1>1, <1>2, <1>3
  <2>5. ck[i] = "/" /\ i \in 1..Len(pre) /\ i \in 1..(Len(q) + 2)
    <3>1. i \in 1..Len(pre) /\ p[i] = "/" /\ pre[i] = p[i]
      BY <2>2, <1>1, <1>3
    <3> QED
      BY <3>1, <2>1, <1>1, <1>2
  <2>6. \A j \in 1..(Len(q) + 2) : ck[j] = "/" => j = k \/ j = Len(q) + 1
    <3> SUFFICES ASSUME NEW j \in 1..(Len(q) + 2), ck[j] = "/", j # Len(q) + 1
                 PROVE  j = k
      OBVIOUS
    <3>1. j # Len(q) + 2
      BY <1>1, <1>2
    <3>2. j \in 1..Len(q)
      BY <3>1, <1>1
    <3> QED
      BY <3>2, <1>2, <2>3
  <2>7. Len(p) = Len(q)
    <3>1. i < Len(p) + 1
      BY <1>1
    <3>2. CASE Len(p) + 1 = Len(q) + 1
      BY <3>2, <1>1
    <3>3. CASE Len(p) + 1 = k
      <4>1. i = k \/ i = Len(q) + 1
        BY <2>5, <2>6
      <4> QED
        BY <4>1, <3>1, <3>3, <1>1
    <3> QED
      BY <3>2, <3>3, <2>4, <2>6
  <2>8. \A j \in 1..Len(p) : p[j] = q[j]
    <3> SUFFICES ASSUME NEW j \in 1..Len(p) PROVE p[j] = q[j]
      OBVIOUS
    <3>1. j \in 1..Len(pre) /\ j \in 1..Len(q)
      BY <2>7, <1>1, <1>3
    <3> QED
      BY <3>1, <2>1, <1>2, <1>3
  <2> QED
    BY <2>7, <2>8, <1>1
<1> QED
  BY <1>5, <1>6 DEF MatchesPod, ck, pre

\* A key of a Pod is not a key of another Pod, and the prefix test finds out.
LEMMA PrefixSelectsKeys ==
  ASSUME NEW p \in Pods, NEW ck \in ContainerKeys
  PROVE  MatchesPod(ck, p) <=> ck \in KeysOf(p)
<1>1. PICK q \in Pods, c \in Containers : ck = ContainerKey(q, c)
  BY DEF ContainerKeys
<1>2. ASSUME ck \in KeysOf(p) PROVE MatchesPod(ck, p)
  <2>1. PICK d \in Containers : ck = ContainerKey(p, d)
    BY <1>2 DEF KeysOf
  <2> QED
    BY <2>1, PrefixSelectsPod
<1>3. ASSUME MatchesPod(ck, p) PROVE ck \in KeysOf(p)
  <2>1. p = q
    BY <1>1, <1>3, PrefixSelectsPod
  <2> QED
    BY <1>1, <2>1 DEF KeysOf
<1> QED
  BY <1>2, <1>3

-----------------------------------------------------------------------------
(* One observation. *)

\* What the loop of observe keeps.
LEMMA PruneKeeps ==
  ASSUME NEW s \in Seq(Int), NEW t \in Int
  PROVE  Keeps(s, t - Window, Len(s), Prune(s, t))
<1>1. t - Window \in Int
  BY HistoryAssumption
<1> QED
  BY <1>1, FilterLoop DEF Prune

Histories(C, T) == [lastCount : C, increments : Seq(T)]
Observations(C, T) == [count : C, time : T]

\* History h is what is left of the observations o: the last count, and an entry
\* for each increase within the window of the last one.
Remembers(h, o) ==
  /\ h.lastCount = IF o = <<>> THEN 0 ELSE o[Len(o)].count
  /\ \E g : /\ Numbers(g, Len(h.increments), InWindow(o, 0))
            /\ \A j \in 1..Len(h.increments) : h.increments[j] = o[g[j]].time

\* One more observation is an increase if it shows more than the history has.
LEMMA IncreasesNext ==
  ASSUME NEW C \in SUBSET Nat, NEW T \in SUBSET Nat, NEW n \in C, NEW t \in T,
         NEW o \in Seq(Observations(C, T)), NEW last \in C,
         last = IF o = <<>> THEN 0 ELSE o[Len(o)].count
  PROVE  Increases(Append(o, [count |-> n, time |-> t]), 0)
           = Increases(o, 0) \cup (IF n > last THEN {Len(o) + 1} ELSE {})
<1> DEFINE r == [count |-> n, time |-> t]
           p == Append(o, r)
           m == Len(o)
<1>1. /\ m \in Nat /\ r \in Observations(C, T) /\ r.count = n
      /\ \A i \in 1..m : o[i] \in Observations(C, T)
  <2>1. m \in Nat /\ \A i \in 1..m : o[i] \in Observations(C, T)
    OBVIOUS
  <2>2. r \in Observations(C, T) /\ r.count = n
    BY DEF Observations
  <2> QED
    BY <2>1, <2>2
<1>2. /\ DOMAIN p = 1..(m + 1) /\ DOMAIN o = 1..m /\ p[m + 1] = r
      /\ \A i \in 1..m : p[i] = o[i]
  BY <1>1
<1> HIDE DEF r, p
<1>3. ASSUME NEW i \in 1..m PROVE i \in Increases(p, 0) <=> i \in Increases(o, 0)
  <2>1. CASE i = 1
    BY <2>1, <1>1, <1>2 DEF Increases
  <2>2. CASE i # 1
    <3>1. i - 1 \in 1..m
      BY <2>2, <1>1
    <3> QED
      BY <2>2, <3>1, <1>1, <1>2 DEF Increases
  <2> QED
    BY <2>1, <2>2
<1>4. m + 1 \in Increases(p, 0) <=> n > last
  <2>1. CASE o = <<>>
    BY <2>1, <1>1, <1>2 DEF Increases
  <2>2. CASE o # <<>>
    <3>1. m \in 1..m
      BY <2>2, <1>1
    <3> QED
      BY <2>2, <3>1, <1>1, <1>2 DEF Increases
  <2> QED
    BY <2>1, <2>2
<1>5. Increases(p, 0) \subseteq 1..(m + 1) /\ Increases(o, 0) \subseteq 1..m
  BY <1>2 DEF Increases
<1>6. Increases(p, 0) = Increases(o, 0) \cup (IF n > last THEN {m + 1} ELSE {})
  BY <1>1, <1>3, <1>4, <1>5
<1> QED
  BY <1>6 DEF p, r

\* What observe makes of a history that remembers the observations so far
\* remembers them and the new one: pruning at each observation loses nothing,
\* because the clock does not go back.
LEMMA ObserveRemembers ==
  ASSUME NEW C \in SUBSET Nat, NEW T \in SUBSET Nat, NEW n \in C, NEW t \in T,
         NEW h \in Histories(C, T), NEW o \in Seq(Observations(C, T)),
         Remembers(h, o), o # <<>> => o[Len(o)].time <= t
  PROVE  /\ Observe(h, n, t) \in Histories(C, T)
         /\ Remembers(Observe(h, n, t), Append(o, [count |-> n, time |-> t]))
<1> DEFINE r == [count |-> n, time |-> t]
           p == Append(o, r)
           m == Len(o)
           s == IF n > h.lastCount THEN Append(h.increments, t) ELSE h.increments
           New == IF n > h.lastCount THEN {m + 1} ELSE {}
           k == Prune(s, t)
           D == {i \in 1..Len(s) : s[i] > t - Window}
<1>0. Window \in Nat /\ t \in Nat /\ n \in Nat
  BY HistoryAssumption
<1>1. /\ h.lastCount \in C /\ h.increments \in Seq(T) /\ Len(h.increments) \in Nat
      /\ h.lastCount = IF o = <<>> THEN 0 ELSE o[Len(o)].count
  BY DEF Histories, Remembers
<1>2. /\ m \in Nat /\ r \in Observations(C, T) /\ r.count = n /\ r.time = t
      /\ \A i \in 1..m : o[i] \in Observations(C, T) /\ o[i].time \in T
  <2>1. m \in Nat /\ \A i \in 1..m : o[i] \in Observations(C, T)
    OBVIOUS
  <2>2. r \in Observations(C, T) /\ r.count = n /\ r.time = t
    BY DEF Observations
  <2>3. \A x \in Observations(C, T) : x.time \in T
    BY DEF Observations
  <2> QED
    BY <2>1, <2>2, <2>3
<1>3. /\ p \in Seq(Observations(C, T)) /\ Len(p) = m + 1 /\ p[m + 1] = r
      /\ \A i \in 1..m : p[i] = o[i]
  BY <1>2
<1>4. Increases(p, 0) = Increases(o, 0) \cup New
  <2>1. PICK last \in C : last = h.lastCount
    BY <1>1
  <2>2. last = IF o = <<>> THEN 0 ELSE o[Len(o)].count
    BY <1>1, <2>1
  <2>3. Increases(p, 0) = Increases(o, 0) \cup (IF n > last THEN {m + 1} ELSE {})
    BY <2>2, IncreasesNext
  <2> QED
    BY <2>1, <2>3
<1>5. s \in Seq(T) /\ Len(s) \in Nat
  BY <1>1
<1>6. Increases(o, 0) \subseteq 1..m
  BY <1>2 DEF Increases
<1>7. InWindow(o, 0) \subseteq 1..m
  BY <1>6 DEF InWindow
<1> HIDE DEF p, r
<1>8. \E g : /\ Numbers(g, Len(s), InWindow(o, 0) \cup New)
             /\ \A j \in 1..Len(s) : s[j] = p[g[j]].time
  <2>1. PICK g : /\ Numbers(g, Len(h.increments), InWindow(o, 0))
                 /\ \A j \in 1..Len(h.increments) : h.increments[j] = o[g[j]].time
    BY DEF Remembers
  <2>2. \A j \in 1..Len(h.increments) : h.increments[j] = p[g[j]].time
    <3>1. \A j \in 1..Len(h.increments) : g[j] \in 1..m
      BY <2>1, <1>7 DEF Numbers
    <3> QED
      BY <2>1, <3>1, <1>3
  <2>3. CASE ~(n > h.lastCount)
    BY <2>1, <2>2, <2>3
  <2>4. CASE n > h.lastCount
    <3> DEFINE l == Len(h.increments)
               f == [j \in 1..(l + 1) |-> IF j = l + 1 THEN m + 1 ELSE g[j]]
    <3>1. m + 1 \notin InWindow(o, 0)
      BY <1>7, <1>2
    <3>2. Numbers(f, l + 1, InWindow(o, 0) \cup {m + 1})
      <4> HIDE DEF l
      <4>1. l \in Nat /\ Numbers(g, l, InWindow(o, 0))
        BY <1>1, <2>1 DEF l
      <4> QED
        BY <4>1, <3>1, NumberNext
    <3>3. s = Append(h.increments, t) /\ Len(s) = l + 1 /\ s[l + 1] = t
          /\ \A j \in 1..l : s[j] = h.increments[j]
      BY <2>4, <1>1
    <3> HIDE DEF s
    <3>4. ASSUME NEW j \in 1..(l + 1) PROVE s[j] = p[f[j]].time
      <4>1. CASE j = l + 1
        BY <4>1, <3>3, <1>2, <1>3
      <4>2. CASE j # l + 1
        <5>1. j \in 1..l /\ f[j] = g[j]
          BY <4>2, <1>1
        <5> QED
          BY <5>1, <2>2, <3>3
      <4> QED
        BY <4>1, <4>2
    <3> HIDE DEF f, l
    <3> QED
      BY <2>4, <3>2, <3>3, <3>4
  <2> QED
    BY <2>3, <2>4
<1>9. PICK g : /\ Numbers(g, Len(s), InWindow(o, 0) \cup New)
               /\ \A j \in 1..Len(s) : s[j] = p[g[j]].time
  BY <1>8
<1> HIDE DEF s
<1>10. Keeps(s, t - Window, Len(s), k)
  <2>1. T \subseteq Int
    OBVIOUS
  <2>2. s \in Seq(Int)
    BY <1>5, <2>1, SeqGrows
  <2> QED
    BY <1>0, <2>2, PruneKeeps
<1>11. PICK d : Numbers(d, Len(k), D) /\ \A j \in 1..Len(k) : k[j] = s[d[j]]
  BY <1>10 DEF Keeps
<1>12. k \in Seq(T) /\ Len(k) \in Nat
  <2>1. k \in Seq(Int)
    BY <1>10 DEF Keeps
  <2> HIDE DEF k
  <2>2. \A j \in 1..Len(k) : k[j] \in T
    BY <1>5, <1>11 DEF Numbers
  <2>3. Len(k) \in Nat
    BY <2>1
  <2>4. k \in Seq(T)
    BY <2>1, <2>2
  <2> QED
    BY <2>3, <2>4
<1> HIDE DEF k
<1>13. {g[i] : i \in D} = InWindow(p, 0)
  <2>1. InWindow(p, 0) = {i \in Increases(p, 0) : p[i].time > t - Window}
    BY <1>2, <1>3 DEF InWindow
  <2>2. ASSUME NEW i \in D PROVE g[i] \in InWindow(p, 0)
    <3>1. g[i] \in InWindow(o, 0) \cup New /\ p[g[i]].time > t - Window
      BY <1>9 DEF Numbers
    <3> QED
      BY <2>1, <3>1, <1>4 DEF InWindow
  <2>3. ASSUME NEW x \in InWindow(p, 0) PROVE \E i \in D : x = g[i]
    <3>1. x \in Increases(o, 0) \cup New /\ p[x].time > t - Window
      BY <2>1, <1>4
    <3>2. x \in InWindow(o, 0) \cup New
      <4>1. CASE x \in Increases(o, 0)
        <5>1. x \in 1..m /\ o # <<>> /\ m \in 1..m
          BY <4>1, <1>2, <1>6
        <5>2. o[m].time \in Nat /\ o[x].time \in Nat /\ o[m].time <= t /\ o[x].time > t - Window
          BY <5>1, <3>1, <1>2, <1>3
        <5>3. o[x].time > o[m].time - Window
          BY <5>2, <1>0
        <5> QED
          BY <4>1, <5>3 DEF InWindow
      <4> QED
        BY <4>1, <3>1
    <3>3. PICK i \in 1..Len(s) : g[i] = x
      BY <3>2, <1>9 DEF Numbers
    <3> QED
      BY <3>1, <3>3, <1>9
  <2> HIDE DEF D
  <2> QED
    BY <2>2, <2>3
<1>14. Numbers([j \in 1..Len(k) |-> g[d[j]]], Len(k), InWindow(p, 0))
  <2> DEFINE W == InWindow(p, 0)
  <2>1. \A j \in 1..Len(k) : d[j] \in D /\ d[j] \in 1..Len(s)
    BY <1>11 DEF Numbers
  <2>2. \A i \in D : g[i] \in W
    BY <1>13
  <2>3. \A x \in W : \E i \in D : g[i] = x
    BY <1>13
  <2> HIDE DEF D, W
  <2>4. \A j \in 1..Len(k) : g[d[j]] \in W
    BY <2>1, <2>2
  <2>5. ASSUME NEW i \in 1..Len(k), NEW j \in 1..Len(k), g[d[i]] = g[d[j]] PROVE i = j
    <3>1. d[i] = d[j]
      BY <2>1, <2>5, <1>9 DEF Numbers
    <3> QED
      BY <3>1, <1>11 DEF Numbers
  <2>6. ASSUME NEW x \in W PROVE \E j \in 1..Len(k) : g[d[j]] = x
    <3>1. PICK i \in D : g[i] = x
      BY <2>3
    <3>2. PICK j \in 1..Len(k) : d[j] = i
      BY <1>11 DEF Numbers
    <3> QED
      BY <3>1, <3>2
  <2>7. Numbers([j \in 1..Len(k) |-> g[d[j]]], Len(k), W)
    BY <2>4, <2>5, <2>6 DEF Numbers
  <2> QED
    BY <2>7 DEF W
<1>15. \A j \in 1..Len(k) : k[j] = p[g[d[j]]].time
  BY <1>9, <1>11 DEF Numbers
<1>16. Observe(h, n, t) = [lastCount |-> n, increments |-> k]
  BY DEF Observe, s, k
<1>17. Observe(h, n, t) \in Histories(C, T)
  BY <1>12, <1>16 DEF Histories
<1>18. Remembers(Observe(h, n, t), p)
  <2> DEFINE f == [j \in 1..Len(k) |-> g[d[j]]]
  <2>1. Numbers(f, Len(k), InWindow(p, 0)) /\ \A j \in 1..Len(k) : k[j] = p[f[j]].time
    BY <1>14, <1>15
  <2>2. p # <<>> /\ p[Len(p)].count = n
    BY <1>2, <1>3
  <2> HIDE DEF f
  <2> QED
    BY <2>1, <2>2, <1>16 DEF Remembers
<1> QED
  BY <1>17, <1>18 DEF p, r

-----------------------------------------------------------------------------
(* The inductive invariant. *)

\* Each history remembers the observations since the last forget, and the last
\* verdict is the one of that history.
HistoryInv ==
  \A ck \in ContainerKeys :
    /\ Remembers(HistoryOf(ck), obs[ck])
    /\ obs[ck] # <<>> => burst[ck] = IsBurst(seen[ck])

Inv == TypeOK /\ TracksObserved /\ HistoryInv

\* A container that was never observed has the history of the zero value.
LEMMA NothingRemembered == Remembers(NoHistory, <<>>)
<1> DEFINE g == [j \in 1..0 |-> 0]
<1>1. InWindow(<<>>, 0) = {}
  BY DEF InWindow, Increases
<1>2. NoHistory.lastCount = 0 /\ NoHistory.increments = <<>> /\ Len(NoHistory.increments) = 0
  BY DEF NoHistory
<1>3. Numbers(g, 0, {})
  BY DEF Numbers
<1> HIDE DEF g
<1>4. Numbers(g, Len(NoHistory.increments), InWindow(<<>>, 0))
  BY <1>1, <1>2, <1>3
<1>5. \A j \in 1..Len(NoHistory.increments) : NoHistory.increments[j] = <<>>[g[j]].time
  BY <1>2
<1> QED
  BY <1>2, <1>4, <1>5, Zenon DEF Remembers

\* The keys of a Pod are container keys.
LEMMA KeysOfPod ==
  ASSUME NEW p \in Pods
  PROVE  KeysOf(p) \subseteq ContainerKeys
BY DEF KeysOf, ContainerKeys

\* What a lookup returns has the type of a history.
LEMMA LookupType ==
  ASSUME TypeOK, NEW ck
  PROVE  HistoryOf(ck) \in Histories(0..MaxCount, 0..now)
<1>1. CASE ck \in DOMAIN seen
  BY <1>1 DEF TypeOK, HistoryOf, Histories
<1>2. CASE ck \notin DOMAIN seen
  <2>1. HistoryOf(ck) = [lastCount |-> 0, increments |-> <<>>]
    BY <1>2 DEF HistoryOf, NoHistory
  <2>2. 0 \in 0..MaxCount
    BY TrackerAssumption
  <2>3. <<>> \in Seq(0..now)
    OBVIOUS
  <2> QED
    BY <2>1, <2>2, <2>3 DEF Histories
<1> QED
  BY <1>1, <1>2

\* Initially nothing has been observed.
LEMMA InitInv == Init => Inv
<1> SUFFICES ASSUME Init PROVE Inv
  OBVIOUS
<1>1. DOMAIN seen = {}
  BY DEF Init
<1>2. TypeOK
  <2>1. seen \in [DOMAIN seen -> [lastCount : 0..MaxCount, increments : Seq(0..now)]]
    BY <1>1 DEF Init
  <2>2. now \in 0..MaxTime /\ count \in [ContainerKeys -> 0..MaxCount]
    BY TrackerAssumption DEF Init
  <2>3. <<>> \in Seq([count : 0..MaxCount, time : 0..now])
    OBVIOUS
  <2> QED
    BY <1>1, <2>1, <2>2, <2>3 DEF Init, TypeOK
<1>3. TracksObserved
  BY <1>1 DEF Init, TracksObserved
<1>4. HistoryInv
  <2> SUFFICES ASSUME NEW ck \in ContainerKeys
               PROVE  Remembers(HistoryOf(ck), obs[ck]) /\ obs[ck] = <<>>
    BY DEF HistoryInv
  <2>1. HistoryOf(ck) = NoHistory /\ obs[ck] = <<>>
    BY <1>1 DEF Init, HistoryOf
  <2> QED
    BY <2>1, NothingRemembered
<1> QED
  BY <1>2, <1>3, <1>4 DEF Inv

\* The clock: what was typed by it stays typed.
LEMMA TickInv ==
  ASSUME Inv, Tick
  PROVE  Inv'
<1>1. now \in Nat /\ now' \in 0..MaxTime /\ 0..now \subseteq 0..now'
  BY TrackerAssumption DEF Inv, TypeOK, Tick
<1>2. TypeOK'
  <2>1. Seq(0..now) \subseteq Seq(0..now')
    BY <1>1, SeqGrows
  <2>2. [lastCount : 0..MaxCount, increments : Seq(0..now)]
          \subseteq [lastCount : 0..MaxCount, increments : Seq(0..now')]
    BY <2>1
  <2>3. Seq([count : 0..MaxCount, time : 0..now]) \subseteq Seq([count : 0..MaxCount, time : 0..now'])
    <3>1. [count : 0..MaxCount, time : 0..now] \subseteq [count : 0..MaxCount, time : 0..now']
      BY <1>1
    <3> QED
      BY <3>1, SeqGrows
  <2>4. seen \in [DOMAIN seen -> [lastCount : 0..MaxCount, increments : Seq(0..now')]]
    BY <2>2 DEF Inv, TypeOK
  <2>5. obs \in [ContainerKeys -> Seq([count : 0..MaxCount, time : 0..now'])]
    BY <2>3 DEF Inv, TypeOK
  <2> QED
    BY <1>1, <2>4, <2>5 DEF Inv, TypeOK, Tick
<1>3. TracksObserved' /\ HistoryInv'
  BY DEF Inv, Tick, TracksObserved, HistoryInv, HistoryOf
<1> QED
  BY <1>2, <1>3 DEF Inv

\* The cluster's steps leave the tracker alone.
LEMMA ClusterInv ==
  ASSUME Inv,
         \/ \E p \in Pods : Appear(p) \/ Disappear(p)
         \/ \E ck \in ContainerKeys : Restart(ck)
         \/ UNCHANGED vars
  PROVE  Inv'
<1>1. UNCHANGED <<now, seen, burst, obs>>
  BY DEF Appear, Disappear, Restart, vars
<1>2. exists' \in [Pods -> BOOLEAN]
  BY DEF Inv, TypeOK, Appear, Disappear, Restart, vars
<1>3. count' \in [ContainerKeys -> 0..MaxCount]
  <2>1. ASSUME NEW p \in Pods, Appear(p) PROVE count' \in [ContainerKeys -> 0..MaxCount]
    BY <2>1 DEF Inv, TypeOK, Appear
  <2>2. ASSUME NEW ck \in ContainerKeys, Restart(ck) PROVE count' \in [ContainerKeys -> 0..MaxCount]
    <3>1. count[ck] + 1 \in 0..MaxCount
      BY <2>2, TrackerAssumption DEF Inv, TypeOK, Restart
    <3> QED
      BY <2>2, <3>1 DEF Inv, TypeOK, Restart
  <2> QED
    BY <2>1, <2>2 DEF Inv, TypeOK, Disappear, vars
<1> QED
  BY <1>1, <1>2, <1>3 DEF Inv, TypeOK, TracksObserved, HistoryInv, HistoryOf

\* An observation adds to the history of each container the Pod's status lists what
\* it adds to the observations of it.  (reconcilePod, rapidRestartAlerts)
LEMMA ReconcileFoundInv ==
  ASSUME Inv, NEW p \in Pods, ReconcileFound(p)
  PROVE  Inv'
<1>a. PICK K \in SUBSET KeysOf(p) : ObserveAll(K)
  BY DEF ReconcileFound
<1> DEFINE C == 0..MaxCount
           T == 0..now
           h == [ck \in K |-> Observe(HistoryOf(ck), count[ck], now)]
           r(ck) == [count |-> count[ck], time |-> now]
<1>0. TypeOK /\ K \subseteq ContainerKeys
  BY KeysOfPod DEF Inv
<1>1. now \in Nat /\ now \in T /\ now' = now /\ C \in SUBSET Nat /\ T \in SUBSET Nat
  <2>1. now \in 0..MaxTime
    BY <1>0 DEF TypeOK
  <2>2. now' = now
    BY Zenon DEF ReconcileFound
  <2> QED
    BY <2>1, <2>2, TrackerAssumption
<1>2. \A ck \in ContainerKeys : count[ck] \in C /\ obs[ck] \in Seq(Observations(C, T))
  <2>1. count \in [ContainerKeys -> C] /\ obs \in [ContainerKeys -> Seq(Observations(C, T))]
    BY <1>0, Zenon DEF TypeOK, Observations
  <2> QED
    BY <2>1
<1>3. /\ seen' = [ck \in DOMAIN seen \cup K |->
                    IF ck \in K THEN h[ck] ELSE seen[ck]]
      /\ burst' = [ck \in ContainerKeys |-> IF ck \in K THEN IsBurst(h[ck]) ELSE burst[ck]]
      /\ obs' = [ck \in ContainerKeys |-> IF ck \in K THEN Append(obs[ck], r(ck)) ELSE obs[ck]]
  BY <1>a DEF ObserveAll
<1>4. ASSUME NEW ck \in K
      PROVE  h[ck] \in Histories(C, T) /\ Remembers(h[ck], Append(obs[ck], r(ck)))
  <2>1. HistoryOf(ck) \in Histories(C, T)
    BY <1>0, LookupType
  <2>2. Remembers(HistoryOf(ck), obs[ck])
    BY <1>0 DEF Inv, HistoryInv
  <2>3. count[ck] \in C /\ obs[ck] \in Seq(Observations(C, T))
    BY <1>0, <1>2
  <2>4. obs[ck] # <<>> => obs[ck][Len(obs[ck])].time <= now
    <3> SUFFICES ASSUME obs[ck] # <<>> PROVE obs[ck][Len(obs[ck])].time <= now
      OBVIOUS
    <3>1. obs[ck][Len(obs[ck])] \in Observations(C, T)
      BY <2>3
    <3>2. obs[ck][Len(obs[ck])].time \in T
      BY <3>1 DEF Observations
    <3> QED
      BY <3>2, <1>1
  <2>5. h[ck] = Observe(HistoryOf(ck), count[ck], now)
    OBVIOUS
  <2> HIDE DEF C, T, h
  <2> QED
    BY <1>1, <2>1, <2>2, <2>3, <2>4, <2>5, ObserveRemembers
<1>5. \A ck \in ContainerKeys :
        /\ r(ck) \in Observations(C, T)
        /\ Append(obs[ck], r(ck)) \in Seq(Observations(C, T)) /\ Append(obs[ck], r(ck)) # <<>>
  <2> SUFFICES ASSUME NEW ck \in ContainerKeys
               PROVE  /\ r(ck) \in Observations(C, T)
                      /\ Append(obs[ck], r(ck)) \in Seq(Observations(C, T))
                      /\ Append(obs[ck], r(ck)) # <<>>
    OBVIOUS
  <2>1. r(ck) \in Observations(C, T)
    BY <1>1, <1>2 DEF Observations
  <2>2. obs[ck] \in Seq(Observations(C, T))
    BY <1>2
  <2> HIDE DEF C, T, r
  <2> QED
    BY <2>1, <2>2
<1> HIDE DEF h, r
<1>6. DOMAIN seen' = DOMAIN seen \cup K
  BY <1>3
<1>7. TypeOK'
  <2>1. seen' \in [DOMAIN seen' -> Histories(C, T)]
    <3>1. \A ck \in DOMAIN seen : seen[ck] \in Histories(C, T)
      BY <1>0 DEF TypeOK, Histories
    <3> QED
      BY <1>3, <1>4, <3>1
  <2>2. burst' \in [ContainerKeys -> BOOLEAN]
    <3>1. \A ck \in K : IsBurst(h[ck]) \in BOOLEAN
      BY DEF IsBurst
    <3> QED
      BY <1>0, <1>3, <3>1 DEF TypeOK
  <2>3. obs' \in [ContainerKeys -> Seq(Observations(C, T))]
    BY <1>2, <1>3, <1>5
  <2>4. DOMAIN seen' \subseteq ContainerKeys
    BY <1>0, <1>6 DEF TypeOK
  <2> QED
    BY <1>0, <1>1, <2>1, <2>2, <2>3, <2>4 DEF TypeOK, Histories, Observations, ReconcileFound
<1>8. TracksObserved'
  <2>1. \A ck \in ContainerKeys : obs'[ck] # <<>> <=> ck \in K \/ obs[ck] # <<>>
    BY <1>3, <1>5
  <2> QED
    BY <1>0, <1>6, <2>1 DEF Inv, TracksObserved
<1>9. HistoryInv'
  <2> SUFFICES ASSUME NEW ck \in ContainerKeys
               PROVE  /\ Remembers(HistoryOf(ck)', obs'[ck])
                      /\ obs'[ck] # <<>> => burst'[ck] = IsBurst(seen'[ck])
    BY DEF HistoryInv, Remembers, InWindow, Increases, IsBurst
  <2>1. CASE ck \in K
    <3>1. HistoryOf(ck)' = h[ck] /\ seen'[ck] = h[ck]
      BY <2>1, <1>3, <1>6 DEF HistoryOf
    <3> QED
      BY <2>1, <3>1, <1>3, <1>4
  <2>2. CASE ck \notin K
    <3>1. HistoryOf(ck)' = HistoryOf(ck) /\ obs'[ck] = obs[ck] /\ burst'[ck] = burst[ck]
      BY <2>2, <1>3, <1>6 DEF HistoryOf
    <3>2. ck \in DOMAIN seen => seen'[ck] = seen[ck]
      BY <2>2, <1>3
    <3>3. obs[ck] # <<>> => ck \in DOMAIN seen
      BY DEF Inv, TracksObserved
    <3> QED
      BY <3>1, <3>2, <3>3 DEF Inv, HistoryInv
  <2> QED
    BY <2>1, <2>2
<1> QED
  BY <1>7, <1>8, <1>9 DEF Inv

\* A forget removes the histories of the Pod's containers and no other.  (forgetPod)
LEMMA ReconcileMissingInv ==
  ASSUME Inv, NEW p \in Pods, ReconcileMissing(p)
  PROVE  Inv'
<1>0. TypeOK /\ KeysOf(p) \subseteq ContainerKeys /\ now' = now
  BY KeysOfPod DEF Inv, ReconcileMissing
<1>1. DOMAIN seen' = DOMAIN seen \ KeysOf(p)
  <2>1. DOMAIN seen' = {ck \in DOMAIN seen : ~MatchesPod(ck, p)}
    BY DEF ReconcileMissing
  <2>2. \A ck \in DOMAIN seen : MatchesPod(ck, p) <=> ck \in KeysOf(p)
    BY <1>0, PrefixSelectsKeys DEF TypeOK
  <2> QED
    BY <2>1, <2>2
<1>2. \A ck \in DOMAIN seen' : seen'[ck] = seen[ck]
  BY DEF ReconcileMissing
<1>3. obs' = [ck \in ContainerKeys |-> IF ck \in KeysOf(p) THEN <<>> ELSE obs[ck]]
  BY DEF ReconcileMissing
<1>4. TypeOK'
  <2>1. seen' \in [DOMAIN seen' -> [lastCount : 0..MaxCount, increments : Seq(0..now)]]
    <3>1. seen' = [ck \in DOMAIN seen' |-> seen'[ck]]
      BY DEF ReconcileMissing
    <3>2. \A ck \in DOMAIN seen' : seen'[ck] \in [lastCount : 0..MaxCount, increments : Seq(0..now)]
      BY <1>0, <1>1, <1>2 DEF TypeOK
    <3> QED
      BY <3>1, <3>2
  <2>2. burst' \in [ContainerKeys -> BOOLEAN]
    BY <1>0 DEF ReconcileMissing, TypeOK
  <2>3. obs' \in [ContainerKeys -> Seq([count : 0..MaxCount, time : 0..now])]
    <3>1. <<>> \in Seq([count : 0..MaxCount, time : 0..now])
      OBVIOUS
    <3> QED
      BY <3>1, <1>0, <1>3 DEF TypeOK
  <2> QED
    BY <1>0, <1>1, <2>1, <2>2, <2>3 DEF TypeOK, ReconcileMissing
<1>5. TracksObserved'
  BY <1>0, <1>1, <1>3 DEF Inv, TracksObserved
<1>6. HistoryInv'
  <2> SUFFICES ASSUME NEW ck \in ContainerKeys
               PROVE  /\ Remembers(HistoryOf(ck)', obs'[ck])
                      /\ obs'[ck] # <<>> => burst'[ck] = IsBurst(seen'[ck])
    BY DEF HistoryInv, Remembers, InWindow, Increases, IsBurst
  <2>1. CASE ck \in KeysOf(p)
    <3>1. HistoryOf(ck)' = NoHistory /\ obs'[ck] = <<>>
      BY <2>1, <1>1, <1>3 DEF HistoryOf, NoHistory
    <3> QED
      BY <3>1, NothingRemembered
  <2>2. CASE ck \notin KeysOf(p)
    <3>1. HistoryOf(ck)' = HistoryOf(ck) /\ obs'[ck] = obs[ck]
      BY <2>2, <1>1, <1>2, <1>3 DEF HistoryOf, NoHistory
    <3>2. burst'[ck] = burst[ck]
      BY <2>2, <1>0 DEF ReconcileMissing, TypeOK
    <3>3. obs[ck] # <<>> => ck \in DOMAIN seen /\ seen'[ck] = seen[ck]
      BY <2>2, <1>1, <1>2 DEF Inv, TracksObserved
    <3> QED
      BY <3>1, <3>2, <3>3 DEF Inv, HistoryInv
  <2> QED
    BY <2>1, <2>2
<1> QED
  BY <1>4, <1>5, <1>6 DEF Inv

\* Every step keeps the invariant.
LEMMA StepInv == Inv /\ [Next]_vars => Inv'
<1> SUFFICES ASSUME Inv, [Next]_vars PROVE Inv'
  OBVIOUS
<1>1. CASE Tick
  BY <1>1, TickInv
<1>2. ASSUME NEW p \in Pods, ReconcileFound(p) PROVE Inv'
  BY <1>2, ReconcileFoundInv
<1>3. ASSUME NEW p \in Pods, ReconcileMissing(p) PROVE Inv'
  BY <1>3, ReconcileMissingInv
<1> QED
  BY <1>1, <1>2, <1>3, ClusterInv DEF Next

\* Hence it holds of every behaviour.
LEMMA InvHolds == Spec => []Inv
BY InitInv, StepInv, PTL DEF Spec

-----------------------------------------------------------------------------
(* The theorems. *)

\* The tracker's map, the verdicts and the observations have their types: no
\* increment and no observation is dated later than the clock.
THEOREM TypeCorrect == Spec => []TypeOK
BY InvHolds, PTL DEF Inv

\* The tracker holds a history for exactly the containers observed since their
\* Pod was last found missing.  (seen, forgetPod)
THEOREM ForgetsExactly == Spec => []TracksObserved
BY InvHolds, PTL DEF Inv

\* The detector answers as if it had kept every observation.  (observe)
THEOREM DetectsBursts == Spec => []BurstMatchesHistory
<1>1. Inv => BurstMatchesHistory
  <2> SUFFICES ASSUME Inv, NEW ck \in ContainerKeys, obs[ck] # <<>>
               PROVE  burst[ck] <=> Cardinality(InWindow(obs[ck], 0)) >= Threshold
    BY DEF BurstMatchesHistory
  <2>1. HistoryOf(ck) = seen[ck]
    BY DEF Inv, TracksObserved, HistoryOf
  <2>2. Len(seen[ck].increments) \in Nat
    <3>1. seen[ck] \in Histories(0..MaxCount, 0..now)
      BY <2>1, LookupType DEF Inv
    <3> QED
      BY <3>1 DEF Histories
  <2>3. PICK g : Numbers(g, Len(seen[ck].increments), InWindow(obs[ck], 0))
    BY <2>1 DEF Inv, HistoryInv, Remembers
  <2>4. Cardinality(InWindow(obs[ck], 0)) = Len(seen[ck].increments)
    BY <2>2, <2>3, NumberedCardinality
  <2> QED
    BY <2>4 DEF Inv, HistoryInv, IsBurst
<1> QED
  BY <1>1, InvHolds, PTL
=============================================================================
