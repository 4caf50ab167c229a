-------------------------- MODULE RuleTableProofs --------------------------
(***************************************************************************)
(* Proofs about RuleTable: the rule engine computes the table of README.md *)
(* for every Pod with any number of containers in any state, and for every *)
(* Node with any conditions, at every instant.                             *)
(***************************************************************************)
EXTENDS RuleTable, LoopTheorems

Reasons == ContainerReasons \cup {"PodStuckPending", "NodeNotReady", "NodePressure"}

Alerts == [reason : Reasons, severity : {"Critical", "Warning"}, container : STRING \cup {""}]

\* The alerts s have the keys K, each once.
Lists(s, K) ==
  /\ s \in Seq(Alerts)
  /\ Numbers([i \in 1..Len(s) |-> Key(s[i])], Len(s), K)

-----------------------------------------------------------------------------
(* One rule after the other. *)

\* No rule has been looked at yet.
LEMMA ListsNothing == Lists(<<>>, {})
<1>1. Numbers([i \in 1..Len(<<>>) |-> Key(<<>>[i])], Len(<<>>), {})
  BY DEF Numbers
<1>2. <<>> \in Seq(Alerts)
  OBVIOUS
<1> QED
  BY <1>1, <1>2, Zenon DEF Lists

\* A rule that appends its alert adds its key.  (append, in EvaluatePod)
LEMMA AddRule ==
  ASSUME NEW s, NEW K, Lists(s, K), NEW b \in BOOLEAN, NEW a \in Alerts, Key(a) \notin K
  PROVE  Lists(s \o When(b, a), K \cup (IF b THEN {Key(a)} ELSE {}))
<1>1. s \in Seq(Alerts) /\ Len(s) \in Nat
  BY DEF Lists
<1>2. CASE ~b
  <2>1. s \o When(b, a) = s
    BY <1>1, <1>2 DEF When
  <2> QED
    BY <1>2, <2>1
<1>3. CASE b
  <2> DEFINE n == Len(s)
             q == s \o <<a>>
             k == [i \in 1..n |-> Key(s[i])]
             l == [i \in 1..(n + 1) |-> IF i = n + 1 THEN Key(a) ELSE k[i]]
  <2>1. /\ q \in Seq(Alerts) /\ Len(q) = n + 1 /\ q[n + 1] = a
        /\ \A i \in 1..n : q[i] = s[i]
    BY <1>1
  <2>2. Numbers(l, n + 1, K \cup {Key(a)})
    <3>1. Numbers(k, n, K)
      BY DEF Lists
    <3> HIDE DEF k, n
    <3>2. n \in Nat
      BY <1>1 DEF n
    <3> QED
      BY <3>1, <3>2, NumberNext
  <2> HIDE DEF q
  <2>3. l = [i \in 1..Len(q) |-> Key(q[i])]
    <3>1. ASSUME NEW i \in 1..(n + 1) PROVE l[i] = Key(q[i])
      <4>1. CASE i = n + 1
        BY <4>1, <2>1
      <4>2. CASE i # n + 1
        <5>1. i \in 1..n
          BY <4>2, <1>1
        <5> QED
          BY <4>2, <5>1, <2>1
      <4> QED
        BY <4>1, <4>2
    <3> HIDE DEF n
    <3> QED
      BY <3>1, <2>1
  <2>4. Lists(q, K \cup {Key(a)})
    <3> HIDE DEF l
    <3> QED
      BY <2>1, <2>2, <2>3 DEF Lists
  <2>5. s \o When(b, a) = q
    BY <1>3 DEF When, q
  <2> QED
    BY <1>3, <2>4, <2>5
<1> QED
  BY <1>2, <1>3

\* The keys the table gives container c.
ContainerKeys(c) == {<<r, c.name>> : r \in {x \in ContainerReasons : Row(x, c)}}

\* The body of the loop computes the rows of the table for its container.
LEMMA ContainerRows ==
  ASSUME NEW c \in ContainerStatus
  PROVE  Lists(ContainerAlerts(c), ContainerKeys(c))
<1> DEFINE a1 == Alert("CrashLoopBackOff", "Critical", c.name)
           a2 == Alert("ImagePullError", "Warning", c.name)
           a3 == Alert("OOMKilled", "Critical", c.name)
           a4 == Alert("HighRestartCount", "Warning", c.name)
           b1 == c.waiting = "CrashLoopBackOff"
           b2 == ImagePullFailing(c)
           b3 == OomTermination(c)
           b4 == HighRestarts(c)
           K(b, a) == IF b THEN {Key(a)} ELSE {}
           K1 == K(b1, a1)
           K2 == K1 \cup K(b2, a2)
           K3 == K2 \cup K(b3, a3)
           K4 == K3 \cup K(b4, a4)
<1>1. a1 \in Alerts /\ a2 \in Alerts /\ a3 \in Alerts /\ a4 \in Alerts
  BY DEF Alert, Alerts, Reasons, ContainerReasons, ContainerStatus
<1>2. /\ b1 \in BOOLEAN /\ b2 \in BOOLEAN /\ b3 \in BOOLEAN /\ b4 \in BOOLEAN
  BY DEF ImagePullFailing, OomTermination, HighRestarts, ContainerStatus
<1>3. /\ Key(a1) = <<"CrashLoopBackOff", c.name>> /\ Key(a2) = <<"ImagePullError", c.name>>
      /\ Key(a3) = <<"OOMKilled", c.name>> /\ Key(a4) = <<"HighRestartCount", c.name>>
  BY DEF Alert, Key
<1>4. Key(a2) \notin K1 /\ Key(a3) \notin K2 /\ Key(a4) \notin K3
  BY <1>3
<1>5. K4 = ContainerKeys(c)
  <2>1. /\ Row("CrashLoopBackOff", c) <=> b1
        /\ Row("ImagePullError", c) <=> b2
        /\ Row("OOMKilled", c) <=> b3
        /\ Row("HighRestartCount", c) <=> b4
    BY DEF Row, ImagePullFailing, OomTermination, HighRestarts
  <2>2. K4 = {<<r, c.name>> : r \in {x \in ContainerReasons : Row(x, c)}}
    <3> HIDE DEF b1, b2, b3, b4
    <3> QED
      BY <1>3, <2>1 DEF ContainerReasons
  <2> QED
    BY <2>2 DEF ContainerKeys
<1> HIDE DEF a1, a2, a3, a4, b1, b2, b3, b4
<1>6. Lists(When(b1, a1), K1)
  <2>1. Lists(<<>> \o When(b1, a1), {} \cup K1)
    BY <1>1, <1>2, ListsNothing, AddRule
  <2>2. <<>> \o When(b1, a1) = When(b1, a1)
    <3>1. When(b1, a1) \in Seq(Alerts)
      BY <1>1, <1>2 DEF When
    <3> QED
      BY <3>1
  <2> QED
    BY <2>1, <2>2
<1> HIDE DEF K1
<1>7. Lists(When(b1, a1) \o When(b2, a2), K2)
  BY <1>1, <1>2, <1>4, <1>6, AddRule
<1> HIDE DEF K2
<1>8. Lists(When(b1, a1) \o When(b2, a2) \o When(b3, a3), K3)
  BY <1>1, <1>2, <1>4, <1>7, AddRule
<1> HIDE DEF K3
<1>9. Lists(When(b1, a1) \o When(b2, a2) \o When(b3, a3) \o When(b4, a4), K4)
  BY <1>1, <1>2, <1>4, <1>8, AddRule
<1> QED
  BY <1>5, <1>9 DEF ContainerAlerts, a1, a2, a3, a4, b1, b2, b3, b4

-----------------------------------------------------------------------------
(* All containers. *)

\* A place is the number of a part and an index into it.
LEMMA PlaceParts ==
  ASSUME NEW seqs, NEW n, NEW x \in Places(seqs, n)
  PROVE  \E a \in 1..n, b \in Nat : x = <<a, b>> /\ b \in 1..Len(seqs[a])
BY DEF Places

\* The keys of a concatenation are the keys of its parts, and it has none twice
\* if no part has and no two parts share one.
LEMMA FlattenLists ==
  ASSUME NEW seqs \in Seq(Seq(Alerts)), NEW K,
         \A i \in 1..Len(seqs) : Lists(seqs[i], K[i]),
         \A i, j \in 1..Len(seqs) : i # j => K[i] \cap K[j] = {}
  PROVE  Lists(FlattenSeq(seqs), UNION {K[i] : i \in 1..Len(seqs)})
<1> DEFINE n == Len(seqs)
           r == FlattenSeq(seqs)
           k == [j \in 1..Len(r) |-> Key(r[j])]
           U == UNION {K[i] : i \in 1..n}
<1>1. Gathers(seqs, n, Alerts, r)
  BY FlattenLoop
<1>2. PICK g : /\ Numbers(g, Len(r), Places(seqs, n))
               /\ \A j \in 1..Len(r) : r[j] = seqs[g[j][1]][g[j][2]]
  BY <1>1 DEF Gathers
<1>3. r \in Seq(Alerts)
  BY <1>1 DEF Gathers
<1> HIDE DEF r, n
<1>4. ASSUME NEW i \in 1..n, NEW b \in 1..Len(seqs[i]) PROVE Key(seqs[i][b]) \in K[i]
  <2>1. Numbers([x \in 1..Len(seqs[i]) |-> Key(seqs[i][x])], Len(seqs[i]), K[i])
    BY DEF Lists, n
  <2> QED
    BY <2>1 DEF Numbers
<1>5. ASSUME NEW i \in 1..n, NEW b \in 1..Len(seqs[i]), NEW d \in 1..Len(seqs[i]),
             Key(seqs[i][b]) = Key(seqs[i][d])
      PROVE  b = d
  <2> DEFINE f == [x \in 1..Len(seqs[i]) |-> Key(seqs[i][x])]
  <2>1. Numbers(f, Len(seqs[i]), K[i])
    BY DEF Lists, n
  <2>2. f[b] = f[d]
    BY <1>5
  <2> HIDE DEF f
  <2> QED
    BY <2>1, <2>2 DEF Numbers
<1>6. ASSUME NEW i \in 1..n, NEW x \in K[i] PROVE \E b \in 1..Len(seqs[i]) : Key(seqs[i][b]) = x
  <2>1. Numbers([y \in 1..Len(seqs[i]) |-> Key(seqs[i][y])], Len(seqs[i]), K[i])
    BY DEF Lists, n
  <2> QED
    BY <2>1 DEF Numbers
<1>7. ASSUME NEW j \in 1..Len(r)
      PROVE  \E a \in 1..n : \E b \in 1..Len(seqs[a]) : g[j] = <<a, b>> /\ k[j] = Key(seqs[a][b])
  <2>1. g[j] \in Places(seqs, n) /\ r[j] = seqs[g[j][1]][g[j][2]]
    BY <1>2 DEF Numbers
  <2>2. PICK a \in 1..n, b \in Nat : g[j] = <<a, b>> /\ b \in 1..Len(seqs[a])
    <3>1. PICK x \in Places(seqs, n) : x = g[j]
      BY <2>1
    <3> QED
      BY <3>1, PlaceParts
  <2>3. r[j] = seqs[a][b]
    BY <2>1, <2>2
  <2>4. k[j] = Key(seqs[a][b])
    BY <2>3
  <2> HIDE DEF k
  <2> QED
    BY <2>2, <2>4
<1> HIDE DEF k
<1>8. ASSUME NEW j \in 1..Len(r) PROVE k[j] \in U
  <2>1. PICK a \in 1..n : \E b \in 1..Len(seqs[a]) : k[j] = Key(seqs[a][b])
    BY <1>7
  <2>2. k[j] \in K[a]
    BY <2>1, <1>4
  <2> QED
    BY <2>2
<1>9. ASSUME NEW j \in 1..Len(r), NEW m \in 1..Len(r), k[j] = k[m] PROVE j = m
  <2>1. PICK a \in 1..n : \E b \in 1..Len(seqs[a]) : g[j] = <<a, b>> /\ k[j] = Key(seqs[a][b])
    BY <1>7
  <2>2. PICK b \in 1..Len(seqs[a]) : g[j] = <<a, b>> /\ k[j] = Key(seqs[a][b])
    BY <2>1
  <2>3. PICK e \in 1..n : \E d \in 1..Len(seqs[e]) : g[m] = <<e, d>> /\ k[m] = Key(seqs[e][d])
    BY <1>7
  <2>4. PICK d \in 1..Len(seqs[e]) : g[m] = <<e, d>> /\ k[m] = Key(seqs[e][d])
    BY <2>3
  <2>5. k[j] \in K[a] /\ k[j] \in K[e]
    <3>1. Key(seqs[a][b]) \in K[a] /\ Key(seqs[e][d]) \in K[e]
      BY <1>4
    <3> QED
      BY <3>1, <2>2, <2>4, <1>9
  <2>6. a = e
    <3>1. a # e => K[a] \cap K[e] = {}
      BY DEF n
    <3> QED
      BY <2>5, <3>1
  <2>7. b = d
    BY <2>2, <2>4, <2>6, <1>5, <1>9
  <2>8. g[j] = g[m]
    BY <2>2, <2>4, <2>6, <2>7
  <2> QED
    BY <2>8, <1>2 DEF Numbers
<1>10. ASSUME NEW x \in U PROVE \E j \in 1..Len(r) : k[j] = x
  <2>1. PICK i \in 1..n : x \in K[i]
    OBVIOUS
  <2>2. PICK b \in 1..Len(seqs[i]) : Key(seqs[i][b]) = x
    BY <2>1, <1>6
  <2>3. <<i, b>> \in Places(seqs, n)
    BY DEF Places
  <2>4. PICK j \in 1..Len(r) : g[j] = <<i, b>>
    BY <2>3, <1>2 DEF Numbers
  <2>5. k[j] = Key(seqs[i][b])
    <3>1. r[j] = seqs[g[j][1]][g[j][2]]
      BY <1>2
    <3>2. r[j] = seqs[i][b]
      BY <2>4, <3>1
    <3>3. k[j] = Key(r[j])
      BY DEF k
    <3> QED
      BY <3>2, <3>3
  <2> QED
    BY <2>2, <2>5
<1>11. Numbers(k, Len(r), U)
  <2>1. k \in [1..Len(r) -> U]
    BY <1>8 DEF k
  <2> HIDE DEF U
  <2> QED
    BY <2>1, <1>9, <1>10 DEF Numbers
<1> QED
  BY <1>3, <1>11 DEF Lists, k, r, n

-----------------------------------------------------------------------------
(* Pods. *)

\* The keys the table gives Pod p at instant t.
PodKeys(p, t) ==
  IF p.deleting THEN {}
  ELSE (UNION {ContainerKeys(p.containers[i]) : i \in 1..Len(p.containers)})
       \cup (IF StuckPending(p, t) THEN {<<"PodStuckPending", "">>} ELSE {})

\* EvaluatePod lists those keys, each once: the containers have different names.
LEMMA PodRows ==
  ASSUME NEW p \in PodUniverse, NEW t \in Int
  PROVE  Lists(EvaluatePod(p, t), PodKeys(p, t))
<1> DEFINE cs == p.containers
           seqs == [i \in DOMAIN cs |-> ContainerAlerts(cs[i])]
           K == [i \in 1..Len(cs) |-> ContainerKeys(cs[i])]
           a == Alert("PodStuckPending", "Warning", "")
           b == StuckPending(p, t)
           U == UNION {K[i] : i \in 1..Len(cs)}
<1>1. /\ cs \in Seq(ContainerStatus) /\ Len(cs) \in Nat /\ DOMAIN cs = 1..Len(cs)
      /\ \A i \in 1..Len(cs) : cs[i] \in ContainerStatus
      /\ \A i, j \in 1..Len(cs) : cs[i].name = cs[j].name => i = j
  <2>1. cs \in Seq(ContainerStatus)
    BY UniverseAssumption
  <2>2. \A i, j \in DOMAIN cs : cs[i].name = cs[j].name => i = j
    BY UniverseAssumption
  <2> HIDE DEF cs
  <2> QED
    BY <2>1, <2>2
<1> HIDE DEF cs
<1>2. \A i \in 1..Len(cs) : Lists(ContainerAlerts(cs[i]), ContainerKeys(cs[i]))
  BY <1>1, ContainerRows
<1>3. \A i \in 1..Len(cs) : ContainerAlerts(cs[i]) \in Seq(Alerts)
  BY <1>2 DEF Lists
<1>4. seqs \in Seq(Seq(Alerts)) /\ Len(seqs) = Len(cs)
  BY <1>1, <1>3
<1>5. \A i \in 1..Len(seqs) : Lists(seqs[i], K[i])
  BY <1>1, <1>2, <1>4
<1>6. \A i, j \in 1..Len(seqs) : i # j => K[i] \cap K[j] = {}
  <2> SUFFICES ASSUME NEW i \in 1..Len(cs), NEW j \in 1..Len(cs), i # j
               PROVE  ContainerKeys(cs[i]) \cap ContainerKeys(cs[j]) = {}
    BY <1>4
  <2>1. cs[i].name # cs[j].name
    BY <1>1
  <2> QED
    BY <2>1 DEF ContainerKeys
<1>7. Lists(FlattenSeq(seqs), U)
  <2> HIDE DEF seqs, K
  <2>1. Lists(FlattenSeq(seqs), UNION {K[i] : i \in 1..Len(seqs)})
    BY <1>4, <1>5, <1>6, FlattenLists
  <2> QED
    BY <2>1, <1>4
<1>8. a \in Alerts /\ Key(a) = <<"PodStuckPending", "">> /\ b \in BOOLEAN
  BY DEF Alert, Alerts, Reasons, Key, StuckPending
<1>9. Key(a) \notin U
  <2>1. ASSUME NEW i \in 1..Len(cs) PROVE Key(a) \notin K[i]
    <3>1. \A r \in ContainerReasons : r # "PodStuckPending"
      BY DEF ContainerReasons
    <3>2. \A x \in ContainerKeys(cs[i]) : x[1] \in ContainerReasons
      BY DEF ContainerKeys
    <3> HIDE DEF a
    <3>3. Key(a) \notin ContainerKeys(cs[i])
      <4>1. Key(a)[1] = "PodStuckPending"
        BY DEF Key, Alert, a
      <4> QED
        BY <3>1, <3>2, <4>1
    <3> QED
      BY <3>3
  <2> HIDE DEF K, a
  <2> QED
    BY <2>1
<1>10. Lists(FlattenSeq(seqs) \o When(b, a), U \cup (IF b THEN {Key(a)} ELSE {}))
  <2> HIDE DEF seqs, U, a, b
  <2> QED
    BY <1>7, <1>8, <1>9, AddRule
<1>11. CASE p.deleting
  BY <1>11, ListsNothing DEF EvaluatePod, PodKeys
<1>12. CASE ~p.deleting
  <2>1. EvaluatePod(p, t) = FlattenSeq(seqs) \o When(b, a)
    BY <1>12 DEF EvaluatePod, cs
  <2>2. U = UNION {ContainerKeys(cs[i]) : i \in 1..Len(cs)}
    OBVIOUS
  <2>3. PodKeys(p, t) = U \cup (IF b THEN {Key(a)} ELSE {})
    <3>1. PodKeys(p, t) = (UNION {ContainerKeys(cs[i]) : i \in 1..Len(cs)})
                            \cup (IF b THEN {<<"PodStuckPending", "">>} ELSE {})
      BY <1>12, Zenon DEF PodKeys, cs
    <3> HIDE DEF U, a, b
    <3> QED
      BY <1>8, <2>2, <3>1
  <2> QED
    BY <1>10, <2>1, <2>3
<1> QED
  BY <1>11, <1>12

\* What is listed is a set of keys without repetition.
LEMMA ListsSet ==
  ASSUME NEW s, NEW K, Lists(s, K)
  PROVE  KeySet(s) = K /\ Len(s) = Cardinality(K)
<1> DEFINE k == [i \in 1..Len(s) |-> Key(s[i])]
<1>1. s \in Seq(Alerts) /\ Len(s) \in Nat /\ DOMAIN s = 1..Len(s)
  BY DEF Lists
<1>2. Numbers(k, Len(s), K)
  BY DEF Lists
<1>3. KeySet(s) = {k[i] : i \in 1..Len(s)}
  BY <1>1 DEF KeySet
<1> HIDE DEF k
<1>4. {k[i] : i \in 1..Len(s)} = K
  BY <1>2 DEF Numbers
<1>5. Len(s) = Cardinality(K)
  BY <1>1, <1>2, NumberedCardinality
<1> QED
  BY <1>3, <1>4, <1>5

\* The keys are those of the table.
LEMMA PodTableKeys ==
  ASSUME pod \in PodUniverse, now \in Int
  PROVE  PodTable = PodKeys(pod, now)
<1> DEFINE cs == pod.containers
           Table == {<<x[1], x[2].name>> : x \in {y \in ContainerReasons \X ContainerSet : Row(y[1], y[2])}}
           U == UNION {ContainerKeys(cs[i]) : i \in 1..Len(cs)}
<1>1. DOMAIN cs = 1..Len(cs) /\ pod.created \in Int
  BY UniverseAssumption
<1>2. ContainerSet = {cs[i] : i \in 1..Len(cs)}
  BY <1>1 DEF ContainerSet
<1> HIDE DEF cs
<1>3. ASSUME NEW x \in Table PROVE x \in U
  <2>1. PICK y \in ContainerReasons \X ContainerSet : Row(y[1], y[2]) /\ x = <<y[1], y[2].name>>
    BY <1>3
  <2>2. PICK i \in 1..Len(cs) : y[2] = cs[i]
    BY <2>1, <1>2
  <2>3. x \in ContainerKeys(cs[i])
    BY <2>1, <2>2 DEF ContainerKeys
  <2> QED
    BY <2>3
<1>4. ASSUME NEW x \in U PROVE x \in Table
  <2>1. PICK i \in 1..Len(cs) : x \in ContainerKeys(cs[i])
    BY <1>4
  <2>2. PICK r \in ContainerReasons : Row(r, cs[i]) /\ x = <<r, cs[i].name>>
    BY <2>1 DEF ContainerKeys
  <2>3. <<r, cs[i]>> \in ContainerReasons \X ContainerSet
    BY <1>2, <2>2
  <2> QED
    BY <2>2, <2>3
<1>5. StuckPending(pod, now)
        <=> pod.phase = "Pending" /\ now >= pod.created + PendingGracePeriod /\ ~HasWaitingReason
  <2>1. SawContainerWaitingAlert(pod) <=> HasWaitingReason
    BY <1>1, <1>2 DEF SawContainerWaitingAlert, HasWaitingReason, Row, ImagePullFailing, cs
  <2>2. now - pod.created >= PendingGracePeriod <=> now >= pod.created + PendingGracePeriod
    BY <1>1, ThresholdsAssumption
  <2> QED
    BY <2>1, <2>2 DEF StuckPending
<1>6. Table = U
  BY <1>3, <1>4
<1>7. PodTable = IF pod.deleting THEN {}
                 ELSE Table \cup (IF StuckPending(pod, now) THEN {<<"PodStuckPending", "">>} ELSE {})
  <2> HIDE DEF Table
  <2>1. CASE StuckPending(pod, now)
    BY <2>1, <1>5, Zenon DEF PodTable, Table
  <2>2. CASE ~StuckPending(pod, now)
    BY <2>2, <1>5, Zenon DEF PodTable, Table
  <2> QED
    BY <2>1, <2>2
<1>8. PodKeys(pod, now) = IF pod.deleting THEN {}
                          ELSE U \cup (IF StuckPending(pod, now) THEN {<<"PodStuckPending", "">>} ELSE {})
  BY Zenon DEF PodKeys, cs
<1> HIDE DEF Table, U
<1> QED
  BY <1>6, <1>7, <1>8

-----------------------------------------------------------------------------
(* Nodes. *)

\* The keys the table gives one condition at instant t.
ConditionKeys(c, t) ==
  (IF NotReady(c, t) THEN {<<"NodeNotReady", "">>} ELSE {})
  \cup (IF UnderPressure(c) THEN {<<"NodePressure", "">>} ELSE {})

ConditionAlerts(c, t) ==
  When(NotReady(c, t), Alert("NodeNotReady", "Critical", ""))
  \o When(UnderPressure(c), Alert("NodePressure", "Warning", ""))

NodeKeys(n, t) == UNION {ConditionKeys(n.conditions[i], t) : i \in 1..Len(n.conditions)}

\* The body of EvaluateNode's loop.
LEMMA ConditionRows ==
  ASSUME NEW c, NEW t
  PROVE  Lists(ConditionAlerts(c, t), ConditionKeys(c, t))
<1> DEFINE a1 == Alert("NodeNotReady", "Critical", "")
           a2 == Alert("NodePressure", "Warning", "")
           b1 == NotReady(c, t)
           b2 == UnderPressure(c)
           K1 == IF b1 THEN {Key(a1)} ELSE {}
           K2 == IF b2 THEN {Key(a2)} ELSE {}
<1>1. a1 \in Alerts /\ a2 \in Alerts
  BY DEF Alert, Alerts, Reasons
<1>2. b1 \in BOOLEAN /\ b2 \in BOOLEAN
  BY DEF NotReady, UnderPressure
<1>3. Key(a1) = <<"NodeNotReady", "">> /\ Key(a2) = <<"NodePressure", "">>
  BY DEF Alert, Key
<1>4. Key(a2) \notin K1
  <2>1. Key(a1)[1] = "NodeNotReady" /\ Key(a2)[1] = "NodePressure"
    BY DEF Alert, Key
  <2> HIDE DEF a1, a2, b1
  <2> QED
    BY <2>1
<1>5. K1 \cup K2 = ConditionKeys(c, t)
  <2> HIDE DEF a1, a2
  <2> QED
    BY <1>3 DEF ConditionKeys
<1> HIDE DEF a1, a2, b1, b2
<1>6. Lists(When(b1, a1), K1)
  <2>1. Lists(<<>> \o When(b1, a1), {} \cup K1)
    BY <1>1, <1>2, ListsNothing, AddRule
  <2>2. <<>> \o When(b1, a1) = When(b1, a1)
    <3>1. When(b1, a1) \in Seq(Alerts)
      BY <1>1, <1>2 DEF When
    <3> QED
      BY <3>1
  <2> QED
    BY <2>1, <2>2
<1> HIDE DEF K1
<1>7. Lists(When(b1, a1) \o When(b2, a2), K1 \cup K2)
  BY <1>1, <1>2, <1>4, <1>6, AddRule
<1> QED
  BY <1>5, <1>7 DEF ConditionAlerts, a1, a2, b1, b2

\* The keys of a concatenation are the keys of its parts.
LEMMA FlattenKeys ==
  ASSUME NEW seqs \in Seq(Seq(Alerts))
  PROVE  KeySet(FlattenSeq(seqs)) = UNION {KeySet(seqs[i]) : i \in 1..Len(seqs)}
<1> DEFINE n == Len(seqs)
           r == FlattenSeq(seqs)
<1>1. Gathers(seqs, n, Alerts, r)
  BY FlattenLoop
<1>2. PICK g : /\ Numbers(g, Len(r), Places(seqs, n))
               /\ \A j \in 1..Len(r) : r[j] = seqs[g[j][1]][g[j][2]]
  BY <1>1 DEF Gathers
<1>3. r \in Seq(Alerts) /\ DOMAIN r = 1..Len(r)
  BY <1>1 DEF Gathers
<1>4. \A i \in 1..n : DOMAIN seqs[i] = 1..Len(seqs[i])
  OBVIOUS
<1> HIDE DEF r, n
<1>5. ASSUME NEW x \in KeySet(r) PROVE \E i \in 1..n : x \in KeySet(seqs[i])
  <2>1. PICK j \in 1..Len(r) : x = Key(r[j])
    BY <1>3 DEF KeySet
  <2>2. PICK y \in Places(seqs, n) : y = g[j] /\ r[j] = seqs[y[1]][y[2]]
    BY <1>2 DEF Numbers
  <2>3. PICK a \in 1..n, b \in Nat : y = <<a, b>> /\ b \in 1..Len(seqs[a])
    BY PlaceParts
  <2>4. r[j] = seqs[a][b]
    BY <2>2, <2>3
  <2> QED
    BY <2>1, <2>3, <2>4, <1>4 DEF KeySet
<1>6. ASSUME NEW i \in 1..n, NEW x \in KeySet(seqs[i]) PROVE x \in KeySet(r)
  <2>1. PICK b \in 1..Len(seqs[i]) : x = Key(seqs[i][b])
    BY <1>4 DEF KeySet
  <2>2. <<i, b>> \in Places(seqs, n)
    BY DEF Places
  <2>3. PICK j \in 1..Len(r) : g[j] = <<i, b>>
    BY <2>2, <1>2 DEF Numbers
  <2>4. r[j] = seqs[i][b]
    BY <2>3, <1>2
  <2> QED
    BY <2>1, <2>4, <1>3 DEF KeySet
<1>7. KeySet(r) = UNION {KeySet(seqs[i]) : i \in 1..n}
  BY <1>5, <1>6
<1> QED
  BY <1>7 DEF r, n

\* EvaluateNode has those keys.
LEMMA NodeRows ==
  ASSUME NEW n \in NodeUniverse, NEW t \in Int
  PROVE  KeySet(EvaluateNode(n, t)) = NodeKeys(n, t)
<1> DEFINE cs == n.conditions
           seqs == [i \in DOMAIN cs |-> ConditionAlerts(cs[i], t)]
<1>1. cs \in Seq(NodeCondition) /\ Len(cs) \in Nat /\ DOMAIN cs = 1..Len(cs)
  BY UniverseAssumption
<1> HIDE DEF cs
<1>2. \A i \in 1..Len(cs) : Lists(ConditionAlerts(cs[i], t), ConditionKeys(cs[i], t))
  BY ConditionRows
<1>3. \A i \in 1..Len(cs) : KeySet(ConditionAlerts(cs[i], t)) = ConditionKeys(cs[i], t)
  BY <1>2, ListsSet
<1>4. \A i \in 1..Len(cs) : ConditionAlerts(cs[i], t) \in Seq(Alerts)
  BY <1>2 DEF Lists
<1>5. seqs \in Seq(Seq(Alerts)) /\ Len(seqs) = Len(cs)
  BY <1>1, <1>4
<1>6. \A i \in 1..Len(seqs) : KeySet(seqs[i]) = ConditionKeys(cs[i], t)
  BY <1>1, <1>3, <1>5
<1>7. EvaluateNode(n, t) = FlattenSeq(seqs)
  BY Zenon DEF EvaluateNode, ConditionAlerts, cs
<1> HIDE DEF seqs
<1>8. KeySet(FlattenSeq(seqs)) = UNION {ConditionKeys(cs[i], t) : i \in 1..Len(cs)}
  <2>1. KeySet(FlattenSeq(seqs)) = UNION {KeySet(seqs[i]) : i \in 1..Len(seqs)}
    BY <1>5, FlattenKeys
  <2>2. {KeySet(seqs[i]) : i \in 1..Len(seqs)} = {ConditionKeys(cs[i], t) : i \in 1..Len(cs)}
    BY <1>5, <1>6
  <2> QED
    BY <2>1, <2>2
<1> QED
  BY <1>7, <1>8 DEF NodeKeys, cs

\* They are those of the table: a status other than True is False or Unknown.
LEMMA NodeTableKeys ==
  ASSUME node \in NodeUniverse, now \in Int
  PROVE  {k[1] : k \in NodeKeys(node, now)} = NodeTable
<1> DEFINE cs == node.conditions
           Applies(r, c) ==
             \/ r = "NodeNotReady" /\ NotReady(c, now)
             \/ r = "NodePressure" /\ UnderPressure(c)
<1>1. /\ DOMAIN cs = 1..Len(cs)
      /\ \A i \in 1..Len(cs) : cs[i].since \in Int /\ cs[i].status \in ConditionStatuses
  <2>1. cs \in Seq(NodeCondition)
    BY UniverseAssumption
  <2>2. \A c \in NodeCondition : c.since \in Int /\ c.status \in ConditionStatuses
    BY DEF NodeCondition
  <2> HIDE DEF cs
  <2> QED
    BY <2>1, <2>2
<1>2. \A i \in 1..Len(cs) :
        NotReady(cs[i], now) <=> /\ cs[i].type = "Ready" /\ cs[i].status \in {"False", "Unknown"}
                                 /\ now >= cs[i].since + NodeNotReadyGracePeriod
  BY <1>1, ThresholdsAssumption DEF NotReady, ConditionStatuses
<1>3. NodeTable = {r \in {"NodeNotReady", "NodePressure"} : \E i \in 1..Len(cs) : Applies(r, cs[i])}
  <2> HIDE DEF cs
  <2>1. {node.conditions[i] : i \in DOMAIN node.conditions} = {cs[i] : i \in 1..Len(cs)}
    BY <1>1 DEF cs
  <2> QED
    BY <1>2, <2>1 DEF NodeTable, UnderPressure
<1> HIDE DEF cs
<1>4. ASSUME NEW k \in NodeKeys(node, now) PROVE k[1] \in NodeTable
  <2>1. PICK i \in 1..Len(cs) : k \in ConditionKeys(cs[i], now)
    BY DEF NodeKeys, cs
  <2>2. \/ k = <<"NodeNotReady", "">> /\ NotReady(cs[i], now)
        \/ k = <<"NodePressure", "">> /\ UnderPressure(cs[i])
    BY <2>1 DEF ConditionKeys
  <2>3. k[1] \in {"NodeNotReady", "NodePressure"} /\ Applies(k[1], cs[i])
    <3>1. CASE k = <<"NodeNotReady", "">> /\ NotReady(cs[i], now)
      <4>1. k[1] = "NodeNotReady"
        BY <3>1
      <4> QED
        BY <3>1, <4>1
    <3>2. CASE k = <<"NodePressure", "">> /\ UnderPressure(cs[i])
      <4>1. k[1] = "NodePressure"
        BY <3>2
      <4> QED
        BY <3>2, <4>1
    <3> QED
      BY <2>2, <3>1, <3>2
  <2> QED
    BY <2>3, <1>3
<1>5. ASSUME NEW r \in NodeTable PROVE \E k \in NodeKeys(node, now) : r = k[1]
  <2>1. PICK i \in 1..Len(cs) : Applies(r, cs[i])
    BY <1>3
  <2>2. <<r, "">> \in ConditionKeys(cs[i], now)
    BY <2>1 DEF ConditionKeys
  <2>3. <<r, "">> \in NodeKeys(node, now)
    BY <2>2 DEF NodeKeys, cs
  <2>4. <<r, "">>[1] = r
    OBVIOUS
  <2> QED
    BY <2>3, <2>4
<1> QED
  BY <1>4, <1>5

-----------------------------------------------------------------------------
(* The theorems. *)

\* The object stays the one chosen initially, and the clock within its bound.
Chosen == pod \in PodUniverse /\ node \in NodeUniverse /\ now \in 0..MaxTime

\* Nothing but the clock moves.
LEMMA ChosenHolds == Spec => []Chosen
<1>1. Init => Chosen
  BY UniverseAssumption DEF Init, Chosen
<1>2. Chosen /\ [Next]_vars => Chosen'
  BY UniverseAssumption DEF Chosen, Next, Tick, Stop, vars
<1> QED
  BY <1>1, <1>2, PTL DEF Spec

\* EvaluatePod produces the alerts of the table and no others, each under a key
\* of its own.  (EvaluatePod)
THEOREM PodRulesCorrect == Spec => []PodMatchesTable
<1>1. Chosen => PodMatchesTable
  <2> SUFFICES ASSUME Chosen PROVE PodMatchesTable
    OBVIOUS
  <2>1. pod \in PodUniverse /\ now \in Int
    BY UniverseAssumption DEF Chosen
  <2>2. Lists(EvaluatePod(pod, now), PodKeys(pod, now))
    BY <2>1, PodRows
  <2>3. PodKeys(pod, now) = PodTable
    BY <2>1, PodTableKeys
  <2> QED
    BY <2>2, <2>3, ListsSet DEF PodMatchesTable
<1> QED
  BY <1>1, ChosenHolds, PTL

\* EvaluateNode produces the alerts of the table and no others.  (EvaluateNode)
THEOREM NodeRulesCorrect == Spec => []NodeMatchesTable
<1>1. Chosen => NodeMatchesTable
  <2> SUFFICES ASSUME Chosen PROVE NodeMatchesTable
    OBVIOUS
  <2>1. node \in NodeUniverse /\ now \in Int
    BY UniverseAssumption DEF Chosen
  <2> QED
    BY <2>1, NodeRows, NodeTableKeys DEF NodeMatchesTable
<1> QED
  BY <1>1, ChosenHolds, PTL

\* Later, an unchanged object has at least the alerts it had.
LEMMA TimeOnlyAdds ==
  ASSUME NEW p \in PodUniverse, NEW n \in NodeUniverse, NEW t \in Int, NEW u \in Int, t <= u
  PROVE  PodKeys(p, t) \subseteq PodKeys(p, u) /\ NodeKeys(n, t) \subseteq NodeKeys(n, u)
<1>1. StuckPending(p, t) => StuckPending(p, u)
  BY UniverseAssumption, ThresholdsAssumption DEF StuckPending
<1>2. PodKeys(p, t) \subseteq PodKeys(p, u)
  <2> DEFINE U == UNION {ContainerKeys(p.containers[i]) : i \in 1..Len(p.containers)}
  <2>1. \A x : PodKeys(p, x) = IF p.deleting THEN {}
                               ELSE U \cup (IF StuckPending(p, x) THEN {<<"PodStuckPending", "">>} ELSE {})
    BY Zenon DEF PodKeys
  <2> HIDE DEF U
  <2> QED
    BY <1>1, <2>1
<1>3. ASSUME NEW i \in 1..Len(n.conditions)
      PROVE  ConditionKeys(n.conditions[i], t) \subseteq ConditionKeys(n.conditions[i], u)
  <2>1. n.conditions[i] \in NodeCondition
    BY UniverseAssumption
  <2>2. n.conditions[i].since \in Int
    BY <2>1 DEF NodeCondition
  <2>3. NotReady(n.conditions[i], t) => NotReady(n.conditions[i], u)
    BY <2>2, ThresholdsAssumption DEF NotReady
  <2> QED
    BY <2>3 DEF ConditionKeys
<1>4. NodeKeys(n, t) \subseteq NodeKeys(n, u)
  BY <1>3 DEF NodeKeys
<1> QED
  BY <1>2, <1>4

\* Time alone never clears an alert.
THEOREM TimeMonotone == Spec => TimeOnlyAddsAlerts
<1> DEFINE Adds ==
      /\ pod' = pod => KeySet(EvaluatePod(pod, now)) \subseteq KeySet(EvaluatePod(pod', now'))
      /\ node' = node => KeySet(EvaluateNode(node, now)) \subseteq KeySet(EvaluateNode(node', now'))
<1>1. Chosen /\ [Next]_vars => [Adds]_vars
  <2> SUFFICES ASSUME Chosen, Next PROVE Adds
    OBVIOUS
  <2>1. /\ pod \in PodUniverse /\ node \in NodeUniverse /\ pod' = pod /\ node' = node
        /\ now \in Int /\ now' \in Int /\ now <= now'
    BY UniverseAssumption DEF Chosen, Next, Tick, Stop, vars
  <2>2. /\ KeySet(EvaluatePod(pod, now)) = PodKeys(pod, now)
        /\ KeySet(EvaluatePod(pod, now')) = PodKeys(pod, now')
    BY <2>1, PodRows, ListsSet
  <2>3. /\ KeySet(EvaluateNode(node, now)) = NodeKeys(node, now)
        /\ KeySet(EvaluateNode(node, now')) = NodeKeys(node, now')
    BY <2>1, NodeRows
  <2>4. /\ PodKeys(pod, now) \subseteq PodKeys(pod, now')
        /\ NodeKeys(node, now) \subseteq NodeKeys(node, now')
    BY <2>1, TimeOnlyAdds
  <2> QED
    BY <2>1, <2>2, <2>3, <2>4
<1> QED
  BY <1>1, ChosenHolds, PTL DEF TimeOnlyAddsAlerts, Spec
=============================================================================
