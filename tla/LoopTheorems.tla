---------------------------- MODULE LoopTheorems ----------------------------
(***************************************************************************)
(* What the loops of the code compute.  A loop over a slice is a recursive *)
(* function in the models: module RestartHistory filters a sequence of     *)
(* instants, module Reliability concatenates the alerts of the containers  *)
(* with FlattenSeq.  The lemmas say of any sequence what comes out, by     *)
(* induction over the rounds of the loop.                                  *)
(***************************************************************************)
EXTENDS Integers, SequencesExt, FiniteSets, Functions, FiniteSetTheorems, TLAPS

\* Induction over the natural numbers, in the form the proofs below use it: of
\* the rounds at which a claim fails there is a first one.
LEMMA SmallestElement ==
  ASSUME NEW T \in SUBSET Nat, T # {}
  PROVE  \E n \in T : \A m \in T : n <= m
<1> DEFINE Initials == {0..n : n \in T}
<1>1. IsWellFoundedOn(StrictSubsetOrdering(Nat), FiniteSubsetsOf(Nat))
  BY FS_StrictSubsetOrderingWellFounded
<1>2. Initials \subseteq FiniteSubsetsOf(Nat)
  <2>1. \A n \in T : 0..n \in SUBSET Nat /\ IsFiniteSet(0..n)
    BY FS_Interval
  <2> QED
    BY <2>1 DEF FiniteSubsetsOf
<1>3. Initials # {}
  OBVIOUS
<1>4. \E x \in Initials : \A y \in Initials : ~(<<y, x>> \in StrictSubsetOrdering(Nat))
  <2> HIDE DEF Initials
  <2> QED
    BY <1>1, <1>2, <1>3, WFMin
<1>5. PICK n \in T : \A y \in Initials : ~(<<y, 0..n>> \in StrictSubsetOrdering(Nat))
  BY <1>4
<1>6. ASSUME NEW m \in T, m < n PROVE FALSE
  <2>1. 0..m \in Initials
    OBVIOUS
  <2>2. 0..m \in SUBSET Nat /\ 0..n \in SUBSET Nat /\ 0..m \subseteq 0..n
    BY <1>6
  <2>3. n \in 0..n /\ n \notin 0..m
    BY <1>6
  <2> QED
    BY <2>1, <2>2, <2>3, <1>5 DEF StrictSubsetOrdering
<1> QED
  BY <1>6

\* A set of rounds that contains the first and, with each, the next one contains
\* them all.
LEMMA Rounds ==
  ASSUME NEW n \in Nat, NEW G, 0 \in G,
         \A m \in 1..n : m - 1 \in G => m \in G
  PROVE  \A m \in 0..n : m \in G
<1> DEFINE Failing == {m \in 0..n : m \notin G}
<1>1. SUFFICES ASSUME Failing # {} PROVE FALSE
  OBVIOUS
<1>2. PICK m \in Failing : \A k \in Failing : m <= k
  <2>1. Failing \in SUBSET Nat
    OBVIOUS
  <2> HIDE DEF Failing
  <2> QED
    BY <1>1, <2>1, SmallestElement
<1>3. m \in 1..n /\ m - 1 \in 0..n /\ m - 1 \notin Failing
  BY <1>2
<1> QED
  BY <1>2, <1>3

-----------------------------------------------------------------------------
(* Numberings: what has been counted. *)

\* g numbers the elements of K.
Numbers(g, n, K) ==
  /\ g \in [1..n -> K]
  /\ \A j, k \in 1..n : g[j] = g[k] => j = k
  /\ \A i \in K : \E j \in 1..n : g[j] = i

\* A numbering goes on with one more element.
LEMMA NumberNext ==
  ASSUME NEW n \in Nat, NEW K, NEW g, Numbers(g, n, K), NEW x, x \notin K
  PROVE  Numbers([j \in 1..(n + 1) |-> IF j = n + 1 THEN x ELSE g[j]], n + 1, K \cup {x})
<1> DEFINE h == [j \in 1..(n + 1) |-> IF j = n + 1 THEN x ELSE g[j]]
<1>1. h \in [1..(n + 1) -> K \cup {x}]
  BY DEF Numbers
<1>2. ASSUME NEW j \in 1..(n + 1), NEW k \in 1..(n + 1), h[j] = h[k] PROVE j = k
  <2>1. CASE j = n + 1 /\ k = n + 1
    BY <2>1
  <2>2. CASE j # n + 1 /\ k # n + 1
    <3>1. j \in 1..n /\ k \in 1..n /\ g[j] = g[k]
      BY <2>2, <1>2
    <3> QED
      BY <3>1 DEF Numbers
  <2>3. CASE j # n + 1 /\ k = n + 1
    <3>1. j \in 1..n /\ g[j] = x
      BY <2>3, <1>2
    <3> QED
      BY <3>1 DEF Numbers
  <2>4. CASE j = n + 1 /\ k # n + 1
    <3>1. k \in 1..n /\ g[k] = x
      BY <2>4, <1>2
    <3> QED
      BY <3>1 DEF Numbers
  <2> QED
    BY <2>1, <2>2, <2>3, <2>4
<1>3. ASSUME NEW i \in K \cup {x} PROVE \E j \in 1..(n + 1) : h[j] = i
  <2>1. CASE i = x
    <3>1. n + 1 \in 1..(n + 1) /\ h[n + 1] = i
      BY <2>1
    <3> QED
      BY <3>1
  <2>2. CASE i \in K
    <3>1. PICK j \in 1..n : g[j] = i
      BY <2>2 DEF Numbers
    <3>2. j \in 1..(n + 1) /\ h[j] = i
      BY <3>1
    <3> QED
      BY <3>2
  <2> QED
    BY <2>1, <2>2
<1> QED
  BY <1>1, <1>2, <1>3 DEF Numbers

\* What is numbered up to n has n elements.
LEMMA NumberedCardinality ==
  ASSUME NEW n \in Nat, NEW K, NEW g, Numbers(g, n, K)
  PROVE  IsFiniteSet(K) /\ Cardinality(K) = n
<1>1. g \in Bijection(1..n, K)
  BY DEF Numbers, Bijection, Injection, Surjection, IsInjective
<1>2. ExistsBijection(1..n, K)
  BY <1>1 DEF ExistsBijection
<1>3. IsFiniteSet(1..n) /\ Cardinality(1..n) = n
  BY FS_Interval
<1> QED
  BY <1>2, <1>3, FS_Bijection

\* A set of sequences grows with the set of their elements.
LEMMA SeqGrows ==
  ASSUME NEW A, NEW B, A \subseteq B
  PROVE  Seq(A) \subseteq Seq(B)
<1> SUFFICES ASSUME NEW s \in Seq(A) PROVE s \in Seq(B)
  OBVIOUS
<1>1. \A i \in 1..Len(s) : s[i] \in A
  OBVIOUS
<1> QED
  BY <1>1

-----------------------------------------------------------------------------
(* The loop that keeps the elements after a cutoff. *)

FilterRound(s, cutoff, f, i) ==
  IF i = 0 THEN <<>>
  ELSE IF s[i] > cutoff THEN Append(f[i - 1], s[i]) ELSE f[i - 1]

\* The loop is well defined: a function that satisfies its equation exists.
LEMMA FilterDefined ==
  ASSUME NEW s \in Seq(Int), NEW cutoff \in Int, NEW n \in Nat
  PROVE  \E f : f = [i \in 0..n |-> FilterRound(s, cutoff, f, i)]
<1> DEFINE G == {m \in Nat : \E f : f = [i \in 0..m |-> FilterRound(s, cutoff, f, i)]}
<1>1. 0 \in G
  <2> DEFINE g == [i \in 0..0 |-> <<>>]
  <2>1. g = [i \in 0..0 |-> FilterRound(s, cutoff, g, i)]
    BY DEF FilterRound
  <2> QED
    BY <2>1
<1>2. ASSUME NEW m \in 1..n, m - 1 \in G PROVE m \in G
  <2>1. PICK f : f = [i \in 0..(m - 1) |-> FilterRound(s, cutoff, f, i)]
    BY <1>2
  <2> DEFINE g == [i \in 0..m |-> IF i = m THEN FilterRound(s, cutoff, f, m) ELSE f[i]]
  <2>2. ASSUME NEW i \in 0..m PROVE g[i] = FilterRound(s, cutoff, g, i)
    <3>1. CASE i = 0
      BY <3>1, <2>1 DEF FilterRound
    <3>2. CASE i # 0
      <4>1. i - 1 \in 0..m /\ i - 1 # m /\ g[i - 1] = f[i - 1]
        BY <3>2
      <4>2. FilterRound(s, cutoff, g, i) = FilterRound(s, cutoff, f, i)
        BY <4>1 DEF FilterRound
      <4>3. g[i] = FilterRound(s, cutoff, f, i)
        <5>1. CASE i = m
          BY <5>1
        <5>2. CASE i # m
          <6>1. i \in 0..(m - 1) /\ g[i] = f[i]
            BY <5>2
          <6> QED
            BY <6>1, <2>1
        <5> QED
          BY <5>1, <5>2
      <4> QED
        BY <4>2, <4>3
    <3> QED
      BY <3>1, <3>2
  <2>3. g = [i \in 0..m |-> FilterRound(s, cutoff, g, i)]
    BY <2>2
  <2>4. m \in Nat
    OBVIOUS
  <2> HIDE DEF g
  <2> QED
    BY <2>3, <2>4
<1>3. \A m \in 0..n : m \in G
  <2> HIDE DEF G
  <2> QED
    BY <1>1, <1>2, Rounds
<1> QED
  BY <1>3

\* What is kept: each element after the cutoff once, and nothing else.
Keeps(s, cutoff, n, r) ==
  /\ r \in Seq(Int)
  /\ \E g : /\ Numbers(g, Len(r), {i \in 1..n : s[i] > cutoff})
            /\ \A j \in 1..Len(r) : r[j] = s[g[j]]

\* One more round keeps the element it looks at if that is after the cutoff.
LEMMA FilterStep ==
  ASSUME NEW s \in Seq(Int), NEW cutoff \in Int, NEW n \in 1..Len(s),
         NEW r, Keeps(s, cutoff, n - 1, r)
  PROVE  Keeps(s, cutoff, n, IF s[n] > cutoff THEN Append(r, s[n]) ELSE r)
<1>0. s[n] \in Int /\ n - 1 \in Nat
  OBVIOUS
<1> DEFINE K == {i \in 1..(n - 1) : s[i] > cutoff}
           L == {i \in 1..n : s[i] > cutoff}
<1>1. r \in Seq(Int) /\ Len(r) \in Nat
  BY DEF Keeps
<1>2. PICK g : /\ Numbers(g, Len(r), K)
               /\ \A j \in 1..Len(r) : r[j] = s[g[j]]
  BY DEF Keeps
<1>3. CASE s[n] > cutoff
  <2> DEFINE q == Append(r, s[n])
             h == [j \in 1..(Len(r) + 1) |-> IF j = Len(r) + 1 THEN n ELSE g[j]]
  <2>1. q \in Seq(Int) /\ Len(q) = Len(r) + 1 /\ q[Len(r) + 1] = s[n]
        /\ \A j \in 1..Len(r) : q[j] = r[j]
    BY <1>0, <1>1
  <2>2. L = K \cup {n} /\ n \notin K
    BY <1>3, <1>0
  <2>3. ASSUME NEW j \in 1..(Len(r) + 1) PROVE q[j] = s[h[j]]
    <3> HIDE DEF q
    <3>1. CASE j = Len(r) + 1
      BY <3>1, <2>1
    <3>2. CASE j # Len(r) + 1
      <4>1. j \in 1..Len(r) /\ h[j] = g[j]
        BY <3>2, <1>1
      <4> QED
        BY <4>1, <2>1, <1>2
    <3> QED
      BY <3>1, <3>2
  <2>4. Numbers(h, Len(q), L)
    <3> HIDE DEF K, L, q
    <3>1. Numbers(h, Len(r) + 1, K \cup {n})
      BY <1>1, <1>2, <2>2, NumberNext
    <3> QED
      BY <3>1, <2>1, <2>2
  <2>5. Keeps(s, cutoff, n, q)
    <3> HIDE DEF h, q
    <3> QED
      BY <2>1, <2>3, <2>4 DEF Keeps
  <2> QED
    BY <2>5, <1>3
<1>4. CASE ~(s[n] > cutoff)
  <2>1. K = L
    BY <1>4, <1>0
  <2> QED
    BY <2>1, <1>1, <1>2, <1>4 DEF Keeps
<1> QED
  BY <1>3, <1>4

\* The filter, as it is written in a definition: it keeps what is after the cutoff.
LEMMA FilterLoop ==
  ASSUME NEW s \in Seq(Int), NEW cutoff \in Int
  PROVE  LET f == CHOOSE f : f = [i \in 0..Len(s) |->
                    IF i = 0 THEN <<>>
                    ELSE IF s[i] > cutoff THEN Append(f[i - 1], s[i]) ELSE f[i - 1]]
         IN  Keeps(s, cutoff, Len(s), f[Len(s)])
<1> DEFINE n == Len(s)
           f == CHOOSE f : f = [i \in 0..n |->
                    IF i = 0 THEN <<>>
                    ELSE IF s[i] > cutoff THEN Append(f[i - 1], s[i]) ELSE f[i - 1]]
<1>0. n \in Nat
  OBVIOUS
<1>1. \E g : g = [i \in 0..n |->
                    IF i = 0 THEN <<>>
                    ELSE IF s[i] > cutoff THEN Append(g[i - 1], s[i]) ELSE g[i - 1]]
  <2> HIDE DEF n
  <2> QED
    BY <1>0, FilterDefined DEF FilterRound
<1>2. f = [i \in 0..n |->
             IF i = 0 THEN <<>>
             ELSE IF s[i] > cutoff THEN Append(f[i - 1], s[i]) ELSE f[i - 1]]
  <2> HIDE DEF n
  <2> QED
    BY <1>1
<1> HIDE DEF f
<1> DEFINE G == {m \in 0..n : Keeps(s, cutoff, m, f[m])}
<1>3. 0 \in G
  <2>1. f[0] = <<>>
    BY <1>2, <1>0
  <2>2. Keeps(s, cutoff, 0, <<>>)
    <3> DEFINE g == [i \in 1..0 |-> 0]
    <3>1. Numbers(g, Len(<<>>), {i \in 1..0 : s[i] > cutoff})
      BY DEF Numbers
    <3> HIDE DEF g
    <3> QED
      BY <3>1 DEF Keeps
  <2> QED
    BY <2>1, <2>2, <1>0
<1>4. ASSUME NEW m \in 1..n, m - 1 \in G PROVE m \in G
  <2>1. f[m] = IF s[m] > cutoff THEN Append(f[m - 1], s[m]) ELSE f[m - 1]
    <3>1. m \in 0..n /\ m # 0
      BY <1>0
    <3> HIDE DEF n
    <3> QED
      BY <1>2, <3>1
  <2>2. Keeps(s, cutoff, m - 1, f[m - 1])
    BY <1>4
  <2>3. Keeps(s, cutoff, m, f[m])
    BY <2>1, <2>2, FilterStep
  <2> QED
    BY <2>3
<1>5. \A m \in 0..n : m \in G
  <2> HIDE DEF G, n
  <2> QED
    BY <1>0, <1>3, <1>4, Rounds
<1>6. Keeps(s, cutoff, n, f[n])
  BY <1>5, <1>0
<1> QED
  BY <1>6 DEF f

-----------------------------------------------------------------------------
(* FlattenSeq, the loop that appends one slice after the other. *)

FlattenRound(seqs, f, i) == IF i = 1 THEN seqs[i] ELSE f[i - 1] \o seqs[i]

\* The loop is well defined.
LEMMA FlattenDefined ==
  ASSUME NEW seqs, NEW n \in Nat
  PROVE  \E f : f = [i \in 1..n |-> FlattenRound(seqs, f, i)]
<1> DEFINE G == {m \in Nat : \E f : f = [i \in 1..m |-> FlattenRound(seqs, f, i)]}
<1>1. 0 \in G
  <2> DEFINE g == [i \in 1..0 |-> <<>>]
  <2>1. g = [i \in 1..0 |-> FlattenRound(seqs, g, i)]
    OBVIOUS
  <2> HIDE DEF g
  <2> QED
    BY <2>1
<1>2. ASSUME NEW m \in 1..n, m - 1 \in G PROVE m \in G
  <2>1. PICK f : f = [i \in 1..(m - 1) |-> FlattenRound(seqs, f, i)]
    BY <1>2
  <2> DEFINE g == [i \in 1..m |-> IF i = m THEN FlattenRound(seqs, f, m) ELSE f[i]]
  <2>2. ASSUME NEW i \in 1..m PROVE g[i] = FlattenRound(seqs, g, i)
    <3>1. g[i] = FlattenRound(seqs, f, i)
      <4>1. CASE i = m
        BY <4>1
      <4>2. CASE i # m
        <5>1. i \in 1..(m - 1) /\ g[i] = f[i]
          BY <4>2
        <5> QED
          BY <5>1, <2>1
      <4> QED
        BY <4>1, <4>2
    <3>2. CASE i = 1
      BY <3>1, <3>2 DEF FlattenRound
    <3>3. CASE i # 1
      <4>1. i - 1 \in 1..m /\ i - 1 # m /\ g[i - 1] = f[i - 1]
        BY <3>3
      <4> HIDE DEF g
      <4> QED
        BY <4>1, <3>1 DEF FlattenRound
    <3> QED
      BY <3>2, <3>3
  <2>3. g = [i \in 1..m |-> FlattenRound(seqs, g, i)]
    BY <2>2
  <2>4. m \in Nat
    OBVIOUS
  <2> HIDE DEF g
  <2> QED
    BY <2>3, <2>4
<1>3. \A m \in 0..n : m \in G
  <2> HIDE DEF G
  <2> QED
    BY <1>1, <1>2, Rounds
<1> QED
  BY <1>3

\* The places of the elements in the first n of the sequences.
Places(seqs, n) == {x \in (1..n) \X Nat : x[2] \in 1..Len(seqs[x[1]])}

\* What comes out: every element of every sequence once, and nothing else.
Gathers(seqs, n, S, r) ==
  /\ r \in Seq(S)
  /\ \E g : /\ Numbers(g, Len(r), Places(seqs, n))
            /\ \A j \in 1..Len(r) : r[j] = seqs[g[j][1]][g[j][2]]

\* One more round adds the elements of the next sequence.
LEMMA FlattenStep ==
  ASSUME NEW S, NEW seqs \in Seq(Seq(S)), NEW n \in 1..Len(seqs),
         NEW r, Gathers(seqs, n - 1, S, r)
  PROVE  Gathers(seqs, n, S, r \o seqs[n])
<1> DEFINE t == seqs[n]
           q == r \o t
<1>1. t \in Seq(S) /\ r \in Seq(S) /\ Len(r) \in Nat /\ Len(t) \in Nat
  BY DEF Gathers
<1>2. PICK g : /\ Numbers(g, Len(r), Places(seqs, n - 1))
               /\ \A j \in 1..Len(r) : r[j] = seqs[g[j][1]][g[j][2]]
  BY DEF Gathers
<1> DEFINE h == [j \in 1..Len(q) |-> IF j <= Len(r) THEN g[j] ELSE <<n, j - Len(r)>>]
<1>3. /\ q \in Seq(S) /\ Len(q) = Len(r) + Len(t)
      /\ \A j \in 1..Len(r) : q[j] = r[j]
      /\ \A j \in 1..Len(t) : q[Len(r) + j] = t[j]
  <2> HIDE DEF t
  <2> QED
    BY <1>1
<1>4. ASSUME NEW x
      PROVE  x \in Places(seqs, n)
               <=> x \in Places(seqs, n - 1) \/ \E j \in 1..Len(t) : x = <<n, j>>
  <2>1. CASE x \in Places(seqs, n)
    <3>1. PICK a \in 1..n, b \in Nat : x = <<a, b>> /\ b \in 1..Len(seqs[a])
      BY <2>1 DEF Places
    <3>2. CASE a = n
      BY <2>1, <3>1, <3>2
    <3>3. CASE a # n
      <4>1. a \in 1..(n - 1)
        BY <3>3
      <4> QED
        BY <2>1, <3>1, <4>1 DEF Places
    <3> QED
      BY <3>2, <3>3
  <2>2. CASE x \in Places(seqs, n - 1)
    <3>1. PICK a \in 1..(n - 1), b \in Nat : x = <<a, b>> /\ b \in 1..Len(seqs[a])
      BY <2>2 DEF Places
    <3>2. a \in 1..n
      OBVIOUS
    <3> QED
      BY <2>2, <3>1, <3>2 DEF Places
  <2>3. ASSUME NEW j \in 1..Len(t), x = <<n, j>> PROVE x \in Places(seqs, n)
    <3>1. n \in 1..n /\ j \in Nat
      BY <1>1
    <3> QED
      BY <2>3, <3>1 DEF Places
  <2> QED
    BY <2>1, <2>2, <2>3
<1>5. \A x \in Places(seqs, n - 1) : x[1] # n
  BY DEF Places
<1>6. ASSUME NEW j \in 1..Len(q)
      PROVE  \/ j \in 1..Len(r) /\ h[j] = g[j] /\ g[j] \in Places(seqs, n - 1)
             \/ j - Len(r) \in 1..Len(t) /\ h[j] = <<n, j - Len(r)>>
  <2> HIDE DEF q, t
  <2>1. CASE j <= Len(r)
    <3>1. j \in 1..Len(r)
      BY <2>1, <1>1, <1>3
    <3> QED
      BY <2>1, <3>1, <1>2 DEF Numbers
  <2>2. CASE ~(j <= Len(r))
    <3>1. j - Len(r) \in 1..Len(t)
      BY <2>2, <1>1, <1>3
    <3> QED
      BY <2>2, <3>1
  <2> QED
    BY <2>1, <2>2
<1> HIDE DEF h, q, t
<1>7. \A j \in 1..Len(q) : h[j] \in Places(seqs, n)
  BY <1>4, <1>6
<1>8. ASSUME NEW j \in 1..Len(q), NEW k \in 1..Len(q), h[j] = h[k] PROVE j = k
  <2>1. CASE j \in 1..Len(r) /\ k \in 1..Len(r) /\ h[j] = g[j] /\ h[k] = g[k]
    <3>1. \A a, b \in 1..Len(r) : g[a] = g[b] => a = b
      BY <1>2 DEF Numbers
    <3>2. g[j] = g[k]
      BY <2>1, <1>8
    <3> QED
      BY <2>1, <3>1, <3>2
  <2>2. CASE h[j] = <<n, j - Len(r)>> /\ h[k] = <<n, k - Len(r)>>
    BY <2>2, <1>8, <1>1, <1>3
  <2>3. CASE h[j] \in Places(seqs, n - 1) /\ h[k] = <<n, k - Len(r)>>
    BY <2>3, <1>8, <1>5
  <2>4. CASE h[k] \in Places(seqs, n - 1) /\ h[j] = <<n, j - Len(r)>>
    BY <2>4, <1>8, <1>5
  <2> QED
    BY <2>1, <2>2, <2>3, <2>4, <1>6
<1>9. ASSUME NEW x \in Places(seqs, n) PROVE \E j \in 1..Len(q) : h[j] = x
  <2>1. CASE x \in Places(seqs, n - 1)
    <3>1. PICK j \in 1..Len(r) : g[j] = x
      BY <2>1, <1>2 DEF Numbers
    <3>2. j \in 1..Len(q) /\ h[j] = g[j]
      BY <1>1, <1>3 DEF h
    <3> QED
      BY <3>1, <3>2
  <2>2. ASSUME NEW k \in 1..Len(t), x = <<n, k>> PROVE \E j \in 1..Len(q) : h[j] = x
    <3>1. Len(r) + k \in 1..Len(q) /\ ~(Len(r) + k <= Len(r)) /\ Len(r) + k - Len(r) = k
      BY <1>1, <1>3
    <3>2. h[Len(r) + k] = x
      BY <3>1, <2>2 DEF h
    <3> QED
      BY <3>1, <3>2
  <2> QED
    BY <2>1, <2>2, <1>4
<1>10. ASSUME NEW j \in 1..Len(q) PROVE q[j] = seqs[h[j][1]][h[j][2]]
  <2>1. CASE j \in 1..Len(r) /\ h[j] = g[j]
    BY <2>1, <1>2, <1>3
  <2>2. CASE j - Len(r) \in 1..Len(t) /\ h[j] = <<n, j - Len(r)>>
    <3>1. PICK k \in 1..Len(t) : k = j - Len(r)
      BY <2>2
    <3>2. j = Len(r) + k
      BY <3>1, <1>1, <1>3
    <3>3. q[j] = t[k]
      BY <3>2, <1>3
    <3> QED
      BY <3>1, <3>3, <2>2 DEF t
  <2> QED
    BY <2>1, <2>2, <1>6
<1>11. Numbers(h, Len(q), Places(seqs, n))
  <2>1. h \in [1..Len(q) -> Places(seqs, n)]
    BY <1>7 DEF h
  <2> QED
    BY <2>1, <1>8, <1>9 DEF Numbers
<1>12. Gathers(seqs, n, S, q)
  BY <1>3, <1>10, <1>11 DEF Gathers
<1> QED
  BY <1>12 DEF q, t

\* FlattenSeq gathers the elements of all its sequences.
LEMMA FlattenLoop ==
  ASSUME NEW S, NEW seqs \in Seq(Seq(S))
  PROVE  Gathers(seqs, Len(seqs), S, FlattenSeq(seqs))
<1> DEFINE n == Len(seqs)
           f == CHOOSE f : f = [i \in 1..n |-> IF i = 1 THEN seqs[i] ELSE f[i - 1] \o seqs[i]]
<1>0. n \in Nat
  OBVIOUS
<1>1. Gathers(seqs, 0, S, <<>>)
  <2> DEFINE g == [i \in 1..0 |-> <<0, 0>>]
  <2>1. Places(seqs, 0) = {}
    BY DEF Places
  <2>2. Numbers(g, 0, Places(seqs, 0))
    BY <2>1 DEF Numbers
  <2>3. <<>> \in Seq(S) /\ Len(<<>>) = 0 /\ \A j \in 1..0 : FALSE
    OBVIOUS
  <2> HIDE DEF g, f
  <2> QED
    BY <2>2, <2>3 DEF Gathers
<1>2. CASE n = 0
  <2>1. seqs = <<>> /\ FlattenSeq(seqs) = <<>>
    BY <1>2 DEF FlattenSeq
  <2> QED
    BY <2>1, <1>1, <1>2
<1>3. CASE n # 0
  <2>1. FlattenSeq(seqs) = f[n]
    BY <1>3, <1>0 DEF FlattenSeq
  <2>2. \E g : g = [i \in 1..n |-> IF i = 1 THEN seqs[i] ELSE g[i - 1] \o seqs[i]]
    <3> HIDE DEF n
    <3> QED
      BY <1>0, FlattenDefined DEF FlattenRound
  <2>3. f = [i \in 1..n |-> IF i = 1 THEN seqs[i] ELSE f[i - 1] \o seqs[i]]
    <3> HIDE DEF n
    <3> QED
      BY <2>2
  <2> HIDE DEF f
  <2> DEFINE G == {m \in Nat : m = 0 \/ Gathers(seqs, m, S, f[m])}
  <2>4. 0 \in G
    OBVIOUS
  <2>5. ASSUME NEW m \in 1..n, m - 1 \in G PROVE m \in G
    <3>0. m \in Nat
      OBVIOUS
    <3>1. CASE m = 1
      <4>1. f[m] = seqs[m] /\ seqs[m] \in Seq(S)
        <5>1. seqs[m] \in Seq(S)
          OBVIOUS
        <5> HIDE DEF n
        <5> QED
          BY <3>1, <2>3, <5>1
      <4>2. <<>> \o seqs[m] = seqs[m]
        BY <4>1
      <4>3. Gathers(seqs, m, S, <<>> \o seqs[m])
        <5>1. m - 1 = 0 /\ Gathers(seqs, m - 1, S, <<>>)
          BY <3>1, <1>1
        <5> QED
          BY <5>1, FlattenStep
      <4> QED
        BY <4>1, <4>2, <4>3, <3>0
    <3>2. CASE m # 1
      <4>1. f[m] = f[m - 1] \o seqs[m]
        <5> HIDE DEF n
        <5> QED
          BY <3>2, <2>3
      <4>2. Gathers(seqs, m - 1, S, f[m - 1])
        BY <3>2, <2>5
      <4>3. Gathers(seqs, m, S, f[m])
        BY <4>1, <4>2, FlattenStep
      <4> QED
        BY <4>3, <3>0
    <3> QED
      BY <3>1, <3>2
  <2>6. \A m \in 0..n : m \in G
    <3> HIDE DEF G, n
    <3> QED
      BY <1>0, <2>4, <2>5, Rounds
  <2>7. Gathers(seqs, n, S, f[n])
    BY <2>6, <1>0, <1>3
  <2> QED
    BY <2>1, <2>7
<1> QED
  BY <1>2, <1>3
=============================================================================
