---------------------------- MODULE SearchProofs ----------------------------
(***************************************************************************)
(* What List returns, for databases, texts and queries of any length; and  *)
(* what the proofs about loops rest on, which is said of sets and of       *)
(* functions because no prover here instantiates an operator.              *)
(***************************************************************************)
EXTENDS Search, FiniteSetTheorems, TLAPS

-----------------------------------------------------------------------------
(* Induction, and the loops that are folds.                                *)

(* Induction, said of a set: the library says it of an operator. What is  *)
(* missing from T would make i -> i + 1 an injection of a finite set       *)
(* into itself that misses 0.                                              *)
LEMMA Inductive ==
    ASSUME NEW T \in SUBSET Nat, 0 \in T, \A n \in T : n + 1 \in T
    PROVE  T = Nat
<1>. SUFFICES ASSUME NEW n \in Nat, n \notin T PROVE FALSE
  OBVIOUS
<1>1. PICK A : A = {i \in T : i < n}
  OBVIOUS
<1>2. PICK f : f = [i \in A |-> i + 1]
  OBVIOUS
<1>3. A \in SUBSET Nat /\ IsFiniteSet(A)
  <2>1. A \subseteq Nat
    BY <1>1
  <2>2. \A i \in A : i <= n
    BY <1>1
  <2>. QED
    BY <2>1, <2>2, FS_BoundedSetOfNaturals
<1>4. \A i \in A : i + 1 \in A
  BY <1>1
<1>5. f \in [A -> A] /\ \A i \in A : f[i] = i + 1
  BY <1>2, <1>4
<1>6. f \in Injection(A, A)
  <2>1. \A i, j \in A : f[i] = f[j] => i = j
    BY <1>3, <1>5
  <2>. QED
    BY <1>5, <2>1 DEF Injection, IsInjective
<1>7. f \in Surjection(A, A)
  BY <1>3, <1>6, FS_Injection
<1>8. PICK i \in A : f[i] = 0
  <2>1. 0 \in A
    BY <1>1
  <2>. QED
    BY <1>7, <2>1 DEF Surjection
<1>. QED
  BY <1>3, <1>5, <1>8

(* The same from 0 to n.                                                   *)
LEMMA InductiveUpTo ==
    ASSUME NEW n \in Nat, NEW T, 0 \in T, \A k \in 0..(n - 1) : k \in T => k + 1 \in T
    PROVE  n \in T
<1>1. PICK U : U = {k \in Nat : k <= n => k \in T}
  OBVIOUS
<1>2. U \in SUBSET Nat /\ 0 \in U
  BY <1>1
<1>3. ASSUME NEW k \in U PROVE k + 1 \in U
  BY <1>1
<1>4. U = Nat
  BY <1>2, <1>3, Inductive
<1>. QED
  BY <1>1, <1>4

LEMMA MaxIs ==
    ASSUME NEW n \in Nat, NEW s \in SUBSET (1..n), s # {}
    PROVE  Max(s) \in s /\ \A y \in s : Max(s) >= y
<1>1. PICK T : T = {m \in Nat : \A u \in SUBSET (1..m) : u # {} => \E x \in u : \A y \in u : x >= y}
  OBVIOUS
<1>2. T \in SUBSET Nat /\ 0 \in T
  <2>1. \A u \in SUBSET (1..0) : u = {}
    OBVIOUS
  <2>. QED
    BY <1>1, <2>1
<1>3. ASSUME NEW m \in T PROVE m + 1 \in T
  <2>. SUFFICES ASSUME NEW u \in SUBSET (1..(m + 1)), u # {}
               PROVE  \E x \in u : \A y \in u : x >= y
    BY <1>1
  <2>1. m \in Nat
    BY <1>1
  <2>2. CASE m + 1 \in u
    BY <2>1, <2>2
  <2>3. CASE m + 1 \notin u
    <3>1. u \in SUBSET (1..m)
      BY <2>1, <2>3
    <3>. QED
      BY <1>1, <3>1
  <2>. QED
    BY <2>2, <2>3
<1>4. n \in T
  BY <1>2, <1>3, Inductive
<1>5. \E x \in s : \A y \in s : x >= y
  BY <1>1, <1>4
<1>. QED
  BY <1>5 DEF Max

(* What to do with the k-th element in a state from S.                     *)
Steps(n, S) == [(1..n) \X S -> S]

(* it is the function by which FoldLeft is defined, with such a step.      *)
IsFold(it, n, S, b, g) ==
    /\ it \in [SUBSET (1..n) -> S]
    /\ it[{}] = b
    /\ \A s \in SUBSET (1..n) : s # {} => it[s] = g[<<Max(s), it[s \ {Max(s)}]>>]

(* There is one, whatever the step.                                        *)
LEMMA FoldExists ==
    ASSUME NEW n \in Nat, NEW S, NEW b \in S, NEW g \in Steps(n, S)
    PROVE  \E it : IsFold(it, n, S, b, g)
<1>. USE DEF Steps
<1>. DEFINE Folds(it, m) ==
        /\ it \in [SUBSET (1..m) -> S]
        /\ it[{}] = b
        /\ \A s \in SUBSET (1..m) : s # {} => it[s] = g[<<Max(s), it[s \ {Max(s)}]>>]
<1>1. PICK T : T = {m \in 0..n : \E it : Folds(it, m)}
  OBVIOUS
<1>2. 0 \in T
  <2>1. PICK it : it = [s \in SUBSET (1..0) |-> b]
    OBVIOUS
  <2>2. \A s \in SUBSET (1..0) : s = {}
    OBVIOUS
  <2>3. Folds(it, 0)
    BY <2>1, <2>2
  <2>4. 0 \in 0..n
    OBVIOUS
  <2>. HIDE DEF Folds
  <2>. QED
    BY <1>1, <2>3, <2>4
<1>3. ASSUME NEW m \in 0..(n - 1), m \in T PROVE m + 1 \in T
  <2>1. PICK it : Folds(it, m)
    BY <1>1, <1>3
  <2>2. PICK up : up = [s \in SUBSET (1..(m + 1)) |->
                           IF m + 1 \in s THEN g[<<m + 1, it[s \ {m + 1}]>>] ELSE it[s]]
    OBVIOUS
  <2>3. \A s \in SUBSET (1..(m + 1)) :
            /\ m + 1 \in s => s \ {m + 1} \in SUBSET (1..m)
            /\ m + 1 \notin s => s \in SUBSET (1..m)
    OBVIOUS
  <2>4. \A s \in SUBSET (1..m) : s \in SUBSET (1..(m + 1)) /\ m + 1 \notin s
    OBVIOUS
  <2>5. \A s \in SUBSET (1..m) : up[s] = it[s]
    BY <2>2, <2>4
  <2>6. up \in [SUBSET (1..(m + 1)) -> S]
    <3>1. ASSUME NEW s \in SUBSET (1..(m + 1))
          PROVE  (IF m + 1 \in s THEN g[<<m + 1, it[s \ {m + 1}]>>] ELSE it[s]) \in S
      <4>1. CASE m + 1 \in s
        <5>1. it[s \ {m + 1}] \in S
          BY <2>1, <2>3, <4>1
        <5>2. m + 1 \in 1..n
          OBVIOUS
        <5>. QED
          BY <4>1, <5>1, <5>2
      <4>2. CASE m + 1 \notin s
        BY <2>1, <2>3, <4>2
      <4>. QED
        BY <4>1, <4>2
    <3>. QED
      BY <2>2, <3>1
  <2>7. up[{}] = b
    BY <2>1, <2>5
  <2>8. ASSUME NEW s \in SUBSET (1..(m + 1)), s # {}
        PROVE  up[s] = g[<<Max(s), up[s \ {Max(s)}]>>]
    <3>1. Max(s) \in s /\ \A y \in s : Max(s) >= y
      <4>1. m + 1 \in Nat
        OBVIOUS
      <4>. QED
        BY <2>8, <4>1, MaxIs
    <3>2. CASE m + 1 \in s
      <4>1. Max(s) = m + 1
        <5>1. PICK x : x = Max(s)
          OBVIOUS
        <5>2. x \in s /\ x >= m + 1
          BY <3>1, <3>2, <5>1
        <5>3. x \in Int /\ x <= m + 1
          BY <5>2
        <5>. QED
          BY <5>1, <5>2, <5>3
      <4>. QED
        BY <2>2, <2>3, <2>5, <3>2, <4>1
    <3>3. CASE m + 1 \notin s
      <4>1. s \in SUBSET (1..m) /\ s \ {Max(s)} \in SUBSET (1..m)
        BY <2>3, <3>3
      <4>. QED
        BY <2>1, <2>5, <2>8, <4>1
    <3>. QED
      BY <3>2, <3>3
  <2>9. Folds(up, m + 1)
    BY <2>6, <2>7, <2>8
  <2>10. m + 1 \in 0..n
    OBVIOUS
  <2>. QED
    BY <1>1, <2>9, <2>10
<1>4. n \in T
  BY <1>2, <1>3, InductiveUpTo
<1>5. PICK it : Folds(it, n)
  BY <1>1, <1>4
<1>6. IsFold(it, n, S, b, g)
  BY <1>5 DEF IsFold
<1>. QED
  BY <1>6

(* Up to k, the greatest is k and the others are those up to k - 1.        *)
LEMMA Downwards ==
    ASSUME NEW n \in Nat, NEW k \in 1..n
    PROVE  /\ 1..k \in SUBSET (1..n) /\ 1..k # {}
           /\ Max(1..k) = k /\ (1..k) \ {k} = 1..(k - 1)
<1>1. 1..k \in SUBSET (1..n) /\ k \in 1..k /\ (1..k) \ {k} = 1..(k - 1)
  OBVIOUS
<1>2. Max(1..k) \in 1..k /\ \A y \in 1..k : Max(1..k) >= y
  BY <1>1, MaxIs
<1>. QED
  BY <1>1, <1>2

LEMMA MinIs ==
    ASSUME NEW S \in SUBSET Nat, S # {}
    PROVE  Min(S) \in S /\ \A y \in S : Min(S) <= y
<1>1. PICK T : T = {m \in Nat : \A u \in SUBSET Nat :
                                   (\E x \in u : x <= m) => \E x \in u : \A y \in u : x <= y}
  OBVIOUS
<1>2. T \in SUBSET Nat /\ 0 \in T
  BY <1>1
<1>3. ASSUME NEW m \in T PROVE m + 1 \in T
  <2>. SUFFICES ASSUME NEW u \in SUBSET Nat, NEW z \in u, z <= m + 1
               PROVE  \E x \in u : \A y \in u : x <= y
    BY <1>1
  <2>1. CASE \E x \in u : x <= m
    BY <1>1, <2>1
  <2>2. CASE ~\E x \in u : x <= m
    <3>1. \A y \in u : z <= y
      BY <1>1, <2>2
    <3>. QED
      BY <3>1
  <2>. QED
    BY <2>1, <2>2
<1>4. PICK m \in S : m \in T
  BY <1>2, <1>3, Inductive
<1>5. \E x \in S : \A y \in S : x <= y
  BY <1>1, <1>4
<1>. QED
  BY <1>5 DEF Min

(* What n such steps lead through.                                         *)
IsIteration(h, n, S, b, g) ==
    h \in [0..n -> S] /\ h[0] = b /\ \A k \in 1..n : h[k] = g[<<k, h[k - 1]>>]

LEMMA IteratesExist ==
    ASSUME NEW n \in Nat, NEW S, NEW b \in S, NEW g \in Steps(n, S)
    PROVE  \E h : IsIteration(h, n, S, b, g)
<1>1. PICK it : IsFold(it, n, S, b, g)
  BY FoldExists
<1>2. PICK h : h = [k \in 0..n |-> it[1..k]]
  OBVIOUS
<1>3. h \in [0..n -> S]
  <2>1. \A k \in 0..n : 1..k \in SUBSET (1..n)
    OBVIOUS
  <2>. QED
    BY <1>1, <1>2, <2>1 DEF IsFold
<1>4. h[0] = b
  <2>1. 1..0 = {} /\ 0 \in 0..n
    OBVIOUS
  <2>. QED
    BY <1>1, <1>2, <2>1 DEF IsFold
<1>5. ASSUME NEW k \in 1..n PROVE h[k] = g[<<k, h[k - 1]>>]
  <2>1. k \in 0..n /\ k - 1 \in 0..n
    OBVIOUS
  <2>2. it[1..k] = g[<<Max(1..k), it[(1..k) \ {Max(1..k)}]>>]
    BY <1>1, Downwards DEF IsFold
  <2>. QED
    BY <1>2, <2>1, <2>2, Downwards
<1>6. IsIteration(h, n, S, b, g)
  BY <1>3, <1>4, <1>5 DEF IsIteration
<1>. QED
  BY <1>6

-----------------------------------------------------------------------------
(* Sorting.                                                                *)

(* below orders S strictly and totally: below[i] are those before i.       *)
IsOrder(below, S) ==
    /\ below \in [S -> SUBSET S]
    /\ \A i \in S : i \notin below[i] /\ \A j \in below[i] : below[j] \subseteq below[i]
    /\ \A i, j \in S : i # j => i \in below[j] \/ j \in below[i]

IsRanking(sorted, below, S) ==
    /\ sorted \in [1..Cardinality(S) -> S]
    /\ \A i \in S : \E n \in 1..Cardinality(S) : sorted[n] = i
    /\ \A m, n \in 1..Cardinality(S) : m < n => sorted[m] \in below[sorted[n]]

(* Each stands where the number of those before it puts it.                *)
IsPlaced(sorted, below, S) ==
    /\ sorted = [n \in 1..Cardinality(S) |-> sorted[n]]
    /\ \A n \in 1..Cardinality(S), i \in S :
          Cardinality(below[i]) = n - 1 =>
              sorted[n] \in S /\ Cardinality(below[sorted[n]]) = n - 1

(* Who stands where the number of those before him puts him is in order.   *)
LEMMA Ranked ==
    ASSUME NEW S, IsFiniteSet(S), NEW below, IsOrder(below, S),
           NEW sorted, IsPlaced(sorted, below, S)
    PROVE  IsRanking(sorted, below, S)
<1>. PICK c : c = Cardinality(S)
  OBVIOUS
<1>1. c \in Nat
  BY FS_CardinalityType
<1>2. ASSUME NEW i \in S
      PROVE  /\ below[i] \in SUBSET S /\ i \notin below[i] /\ IsFiniteSet(below[i])
             /\ Cardinality(below[i]) \in Nat /\ Cardinality(below[i]) < c
  <2>1. below[i] \in SUBSET S /\ i \notin below[i]
    BY DEF IsOrder
  <2>2. IsFiniteSet(below[i]) /\ Cardinality(below[i]) \in Nat
    BY <2>1, FS_Subset, FS_CardinalityType
  <2>3. Cardinality(below[i]) <= c /\ Cardinality(below[i]) # c
    BY <2>1, FS_Subset
  <2>. QED
    BY <1>1, <2>1, <2>2, <2>3
<1>3. ASSUME NEW i \in S, NEW j \in below[i] PROVE Cardinality(below[j]) < Cardinality(below[i])
  <2>1. j \in S /\ below[j] \in SUBSET below[i] /\ below[j] # below[i]
    BY <1>2 DEF IsOrder
  <2>2. Cardinality(below[j]) <= Cardinality(below[i]) /\ Cardinality(below[j]) # Cardinality(below[i])
    BY <1>2, <2>1, FS_Subset
  <2>. QED
    BY <1>2, <2>1, <2>2
<1>4. PICK rank : rank = [i \in S |-> Cardinality(below[i]) + 1]
  OBVIOUS
<1>5. rank \in [S -> 1..c]
  BY <1>1, <1>2, <1>4
<1>6. \A i, j \in S : j \in below[i] => rank[j] < rank[i]
  BY <1>2, <1>3, <1>4 DEF IsOrder
<1>7. \A i, j \in S : rank[i] = rank[j] => i = j
  BY <1>5, <1>6 DEF IsOrder
<1>8. rank \in Surjection(S, 1..c)
  <2>1. rank \in Injection(S, 1..c)
    BY <1>5, <1>7 DEF Injection, IsInjective
  <2>2. IsFiniteSet(1..c) /\ Cardinality(1..c) = c
    BY <1>1, FS_Interval
  <2>. QED
    BY <2>1, <2>2, FS_Injection
<1>9. ASSUME NEW n \in 1..c PROVE sorted[n] \in S /\ rank[sorted[n]] = n
  <2>1. PICK i \in S : rank[i] = n
    BY <1>8 DEF Surjection
  <2>2. Cardinality(below[i]) = n - 1
    BY <1>2, <1>4, <2>1
  <2>3. sorted[n] \in S /\ Cardinality(below[sorted[n]]) = n - 1
    BY <2>2 DEF IsPlaced
  <2>. QED
    BY <1>4, <2>3
<1>10. sorted \in [1..c -> S]
  BY <1>9 DEF IsPlaced
<1>11. \A i \in S : \E n \in 1..c : sorted[n] = i
  BY <1>5, <1>7, <1>9
<1>12. ASSUME NEW m \in 1..c, NEW n \in 1..c, m < n PROVE sorted[m] \in below[sorted[n]]
  <2>1. PICK i, j : i = sorted[m] /\ j = sorted[n]
    OBVIOUS
  <2>2. i \in S /\ j \in S /\ rank[i] = m /\ rank[j] = n
    BY <1>9, <2>1
  <2>3. i # j /\ j \notin below[i]
    BY <1>6, <1>12, <2>2
  <2>. QED
    BY <2>1, <2>2, <2>3 DEF IsOrder
<1>. QED
  BY <1>10, <1>11, <1>12 DEF IsRanking

-----------------------------------------------------------------------------
(* Texts.                                                                  *)

LEMMA TextIs ==
    ASSUME NEW s \in Text
    PROVE  /\ Len(s) \in Nat /\ DOMAIN s = 1..Len(s)
           /\ s \in Seq(Int) /\ \A i \in 1..Len(s) : s[i] \in Int /\ s[i] >= 0
<1>1. s \in Seq(Ascii)
  BY DEF Text
<1>2. Len(s) \in Nat /\ DOMAIN s = 1..Len(s) /\ \A i \in 1..Len(s) : s[i] \in Ascii
  BY <1>1
<1>3. \A i \in 1..Len(s) : s[i] \in Int /\ s[i] >= 0
  <2>1. \A c \in Ascii : c \in Int /\ c >= 0
    BY DEF Ascii
  <2>. QED
    BY <1>2, <2>1
<1>4. s \in Seq(Int)
  <2>1. s \in [1..Len(s) -> Int]
    BY <1>1, <1>3
  <2>. QED
    BY <1>2, <2>1
<1>. QED
  BY <1>2, <1>3, <1>4

(* The first difference of s and t is at n and there s is less.            *)
LessAt(s, t, n) ==
    /\ n \in 1..Len(t) /\ n <= Len(s) + 1
    /\ \A i \in 1..(n - 1) : s[i] = t[i]
    /\ n <= Len(s) => s[n] < t[n]

LEMMA TextLessIs ==
    ASSUME NEW s \in Text, NEW t \in Text
    PROVE  TextLess(s, t) <=> \E n : LessAt(s, t, n)
<1>. s \in Seq(Int) /\ t \in Seq(Int)
  BY TextIs
<1>1. ASSUME IsStrictPrefix(s, t) PROVE LessAt(s, t, Len(s) + 1)
  <2>1. Len(s) <= Len(t) /\ SubSeq(s, 1, Len(s)) = SubSeq(t, 1, Len(s)) /\ s # t
    BY <1>1 DEF IsStrictPrefix, IsPrefix
  <2>2. \A i \in 1..Len(s) : s[i] = t[i]
    <3>1. PICK u, v : u = SubSeq(s, 1, Len(s)) /\ v = SubSeq(t, 1, Len(s))
      OBVIOUS
    <3>2. \A i \in 1..Len(s) : u[i] = s[i] /\ v[i] = t[i]
      BY <2>1, <3>1
    <3>. QED
      BY <2>1, <3>1, <3>2
  <2>3. Len(s) # Len(t)
    <3>1. Len(s) = Len(t) => s = t
      BY <2>2
    <3>. QED
      BY <2>1, <3>1
  <2>. QED
    BY <2>1, <2>2, <2>3 DEF LessAt
<1>2. ASSUME NEW n \in 1..Len(s), n <= Len(t), s[n] < t[n],
             SubSeq(s, 1, n - 1) = SubSeq(t, 1, n - 1)
      PROVE  LessAt(s, t, n)
  <2>1. PICK u, v : u = SubSeq(s, 1, n - 1) /\ v = SubSeq(t, 1, n - 1)
    OBVIOUS
  <2>2. \A i \in 1..(n - 1) : u[i] = s[i] /\ v[i] = t[i]
    BY <1>2, <2>1
  <2>. QED
    BY <1>2, <2>1, <2>2 DEF LessAt
<1>3. ASSUME NEW n, LessAt(s, t, n) PROVE TextLess(s, t)
  <2>1. /\ n \in 1..Len(t) /\ n <= Len(s) + 1 /\ \A i \in 1..(n - 1) : s[i] = t[i]
        /\ n <= Len(s) => s[n] < t[n]
    BY <1>3 DEF LessAt
  <2>2. PICK u, v : u = SubSeq(s, 1, n - 1) /\ v = SubSeq(t, 1, n - 1)
    OBVIOUS
  <2>3. u = v
    <3>1. /\ u \in Seq(Int) /\ v \in Seq(Int) /\ Len(u) = n - 1 /\ Len(v) = n - 1
          /\ \A i \in 1..(n - 1) : u[i] = s[i] /\ v[i] = t[i]
      BY <2>1, <2>2
    <3>. QED
      BY <2>1, <3>1
  <2>4. CASE n <= Len(s)
    BY <2>1, <2>2, <2>3, <2>4 DEF TextLess
  <2>5. CASE n = Len(s) + 1
    <3>1. Len(s) <= Len(t) /\ SubSeq(s, 1, Len(s)) = SubSeq(t, 1, Len(s)) /\ s # t
      BY <2>1, <2>2, <2>3, <2>5
    <3>. QED
      BY <3>1 DEF TextLess, IsStrictPrefix, IsPrefix
  <2>. QED
    BY <2>1, <2>4, <2>5
<1>. QED
  BY <1>1, <1>2, <1>3 DEF TextLess

(* It is a strict and total order.                                         *)
LEMMA TextOrder ==
    /\ \A s \in Text : ~TextLess(s, s)
    /\ \A s, t, u \in Text : TextLess(s, t) /\ TextLess(t, u) => TextLess(s, u)
    /\ \A s, t \in Text : s # t => TextLess(s, t) \/ TextLess(t, s)
<1>1. ASSUME NEW s \in Text PROVE ~TextLess(s, s)
  <2>1. ~\E n : LessAt(s, s, n)
    BY TextIs DEF LessAt
  <2>. QED
    BY <2>1, TextLessIs
<1>2. ASSUME NEW s \in Text, NEW t \in Text, NEW u \in Text, TextLess(s, t), TextLess(t, u)
      PROVE  TextLess(s, u)
  <2>1. PICK m, n : LessAt(s, t, m) /\ LessAt(t, u, n)
    BY <1>2, TextLessIs
  <2>2. /\ m \in 1..Len(t) /\ m <= Len(s) + 1 /\ \A i \in 1..(m - 1) : s[i] = t[i]
        /\ m <= Len(s) => s[m] < t[m]
        /\ n \in 1..Len(u) /\ n <= Len(t) + 1 /\ \A i \in 1..(n - 1) : t[i] = u[i]
        /\ n <= Len(t) => t[n] < u[n]
    BY <2>1 DEF LessAt
  <2>3. CASE m < n
    <3>1. m \in 1..(n - 1) /\ t[m] = u[m]
      BY <2>2, <2>3
    <3>2. \A i \in 1..(m - 1) : s[i] = u[i]
      BY <2>2, <2>3
    <3>3. LessAt(s, u, m)
      BY <2>2, <2>3, <3>1, <3>2 DEF LessAt
    <3>. QED
      BY <3>3, TextLessIs
  <2>4. CASE n <= m
    <3>1. \A i \in 1..(n - 1) : s[i] = u[i]
      BY <2>2, <2>4
    <3>2. n <= Len(s) => s[n] < u[n]
      <4>. SUFFICES ASSUME n <= Len(s) PROVE s[n] < u[n]
        OBVIOUS
      <4>1. PICK x, y, z : x = s[n] /\ y = t[n] /\ z = u[n]
        OBVIOUS
      <4>2. n \in 1..Len(t) /\ y < z
        BY <2>2, <2>4, <4>1
      <4>3. x \in Int /\ y \in Int /\ z \in Int
        <5>1. n \in 1..Len(s) /\ n \in 1..Len(t) /\ n \in 1..Len(u)
          BY <2>2, <4>2, TextIs
        <5>2. s[n] \in Int /\ t[n] \in Int /\ u[n] \in Int
          BY <5>1, TextIs
        <5>. QED
          BY <4>1, <5>2
      <4>4. x <= y
        BY <2>2, <2>4, <4>1, <4>3
      <4>. QED
        BY <4>1, <4>2, <4>3, <4>4
    <3>3. LessAt(s, u, n)
      BY <2>2, <2>4, <3>1, <3>2 DEF LessAt
    <3>. QED
      BY <3>3, TextLessIs
  <2>. QED
    BY <2>2, <2>3, <2>4
<1>3. ASSUME NEW s \in Text, NEW t \in Text, s # t PROVE TextLess(s, t) \/ TextLess(t, s)
  <2>1. PICK D : D = {n \in Nat : n > 0 /\ ~(n <= Len(s) /\ n <= Len(t) /\ s[n] = t[n])}
    OBVIOUS
  <2>2. Len(s) \in Nat /\ Len(t) \in Nat
    BY TextIs
  <2>3. D \in SUBSET Nat /\ Len(s) + 1 \in D
    BY <2>1, <2>2
  <2>4. PICK n : n \in D /\ \A y \in D : n <= y
    BY <2>3, MinIs
  <2>5. /\ n \in Nat /\ n > 0 /\ ~(n <= Len(s) /\ n <= Len(t) /\ s[n] = t[n])
        /\ n <= Len(s) + 1
    BY <2>1, <2>3, <2>4
  <2>6. ASSUME NEW i \in 1..(n - 1) PROVE i <= Len(s) /\ i <= Len(t) /\ s[i] = t[i]
    <3>1. i \notin D /\ i \in Nat /\ i > 0
      BY <2>4, <2>5
    <3>. QED
      BY <2>1, <3>1
  <2>7. n <= Len(t) + 1
    <3>1. CASE n = 1
      BY <2>2, <3>1
    <3>2. CASE n # 1
      <4>1. n - 1 \in 1..(n - 1)
        BY <2>5, <3>2
      <4>. QED
        BY <2>2, <2>5, <2>6, <4>1
    <3>. QED
      BY <3>1, <3>2
  <2>8. CASE n <= Len(s) /\ n <= Len(t)
    <3>1. s[n] \in Int /\ t[n] \in Int /\ s[n] # t[n]
      BY <2>5, <2>8, TextIs
    <3>2. s[n] < t[n] \/ t[n] < s[n]
      BY <3>1
    <3>3. LessAt(s, t, n) \/ LessAt(t, s, n)
      BY <2>2, <2>5, <2>6, <2>8, <3>2 DEF LessAt
    <3>. QED
      BY <3>3, TextLessIs
  <2>9. CASE n <= Len(s) /\ n = Len(t) + 1
    <3>1. LessAt(t, s, n)
      BY <2>2, <2>5, <2>6, <2>9 DEF LessAt
    <3>. QED
      BY <3>1, TextLessIs
  <2>10. CASE n <= Len(t) /\ n = Len(s) + 1
    <3>1. LessAt(s, t, n)
      BY <2>2, <2>5, <2>6, <2>10 DEF LessAt
    <3>. QED
      BY <3>1, TextLessIs
  <2>11. CASE n = Len(s) + 1 /\ n = Len(t) + 1
    <3>1. Len(s) = Len(t) /\ \A i \in 1..Len(s) : s[i] = t[i]
      BY <2>2, <2>6, <2>11
    <3>2. s \in Seq(Int) /\ t \in Seq(Int)
      BY TextIs
    <3>3. s = t
      BY <3>1, <3>2
    <3>. QED
      BY <1>3, <3>3
  <2>. QED
    BY <2>2, <2>5, <2>7, <2>8, <2>9, <2>10, <2>11
<1>. QED
  BY <1>1, <1>2, <1>3

LEMMA LowerIs ==
    ASSUME NEW s \in Text
    PROVE  /\ Lower(s) \in Text /\ Len(Lower(s)) = Len(s)
           /\ \A i \in 1..Len(s) :
                 Lower(s)[i] = IF s[i] \in 65..90 THEN s[i] + 32 ELSE s[i]
<1>1. PICK n : n = Len(s)
  OBVIOUS
<1>2. n \in Nat /\ DOMAIN s = 1..n /\ s \in Seq(Ascii)
  BY <1>1, TextIs DEF Text
<1>3. ASSUME NEW i \in 1..n PROVE (IF s[i] \in 65..90 THEN s[i] + 32 ELSE s[i]) \in Ascii
  <2>1. PICK c : c = s[i]
    OBVIOUS
  <2>2. c \in Ascii
    BY <1>1, <1>2, <2>1
  <2>3. (IF c \in 65..90 THEN c + 32 ELSE c) \in Ascii
    BY <2>2 DEF Ascii
  <2>. QED
    BY <2>1, <2>3
<1>4. PICK l : l = Lower(s)
  OBVIOUS
<1>5. l = [i \in 1..n |-> IF s[i] \in 65..90 THEN s[i] + 32 ELSE s[i]]
  BY <1>2, <1>4 DEF Lower
<1>6. l \in [1..n -> Ascii]
  BY <1>3, <1>5
<1>7. l \in Seq(Ascii) /\ Len(l) = n
  BY <1>2, <1>6
<1>. QED
  BY <1>1, <1>4, <1>5, <1>7 DEF Text

LEMMA SameText ==
    ASSUME NEW s \in Text, NEW t \in Text, Len(s) = Len(t), \A i \in 1..Len(s) : s[i] = t[i]
    PROVE  s = t
<1>1. s \in Seq(Int) /\ t \in Seq(Int)
  BY TextIs
<1>. QED
  BY <1>1

LEMMA PartIs ==
    ASSUME NEW s \in Text, NEW a \in Nat, NEW b \in Nat, a <= b, b <= Len(s)
    PROVE  /\ SubSeq(s, a + 1, b) \in Text /\ Len(SubSeq(s, a + 1, b)) = b - a
           /\ \A i \in 1..(b - a) : SubSeq(s, a + 1, b)[i] = s[a + i]
<1>1. s \in Seq(Ascii)
  BY DEF Text
<1>2. PICK u : u = SubSeq(s, a + 1, b)
  OBVIOUS
<1>3. u \in Seq(Ascii) /\ Len(u) = b - a /\ \A i \in 1..(b - a) : u[i] = s[a + i]
  BY <1>1, <1>2
<1>. QED
  BY <1>2, <1>3 DEF Text

(* Lower-casing a part is a part of what is lower-cased.                   *)
LEMMA LowerPart ==
    ASSUME NEW s \in Text, NEW a \in Nat, NEW b \in Nat, a <= b, b <= Len(s)
    PROVE  Lower(SubSeq(s, a + 1, b)) = SubSeq(Lower(s), a + 1, b)
<1>1. PICK u, l : u = SubSeq(s, a + 1, b) /\ l = Lower(s)
  OBVIOUS
<1>2. u \in Text /\ Len(u) = b - a /\ \A i \in 1..(b - a) : u[i] = s[a + i]
  BY <1>1, PartIs
<1>3. /\ l \in Text /\ Len(l) = Len(s)
      /\ \A i \in 1..Len(s) : l[i] = IF s[i] \in 65..90 THEN s[i] + 32 ELSE s[i]
  BY <1>1, LowerIs
<1>4. PICK v, w : v = Lower(u) /\ w = SubSeq(l, a + 1, b)
  OBVIOUS
<1>5. /\ v \in Text /\ Len(v) = b - a
      /\ \A i \in 1..(b - a) : v[i] = IF u[i] \in 65..90 THEN u[i] + 32 ELSE u[i]
  BY <1>2, <1>4, LowerIs
<1>6. w \in Text /\ Len(w) = b - a /\ \A i \in 1..(b - a) : w[i] = l[a + i]
  BY <1>3, <1>4, PartIs
<1>7. Len(s) \in Nat
  BY TextIs
<1>8. ASSUME NEW i \in 1..(b - a) PROVE v[i] = w[i]
  <2>1. PICK j : j = a + i
    OBVIOUS
  <2>2. j \in 1..Len(s)
    BY <1>7, <2>1
  <2>3. u[i] = s[j] /\ w[i] = l[j]
    BY <1>2, <1>6, <2>1
  <2>4. l[j] = IF s[j] \in 65..90 THEN s[j] + 32 ELSE s[j]
    BY <1>3, <2>2
  <2>5. v[i] = IF u[i] \in 65..90 THEN u[i] + 32 ELSE u[i]
    BY <1>5
  <2>. QED
    BY <2>3, <2>4, <2>5
<1>9. v = w
  BY <1>5, <1>6, <1>8, SameText
<1>. QED
  BY <1>1, <1>4, <1>9

LEMMA OffsetsAre ==
    ASSUME NEW q \in Text, NEW t \in Text
    PROVE  Offsets(q, t) \in SUBSET Nat
<1>1. Len(q) \in Nat /\ Len(t) \in Nat
  BY TextIs
<1>. QED
  BY <1>1 DEF Offsets

LEMMA HitsAreHeld ==
    ASSUME NEW q \in Text, NEW t \in Text
    PROVE  Offsets(Lower(q), Lower(t)) # {} <=> Holds(t, q)
<1>1. PICK l, m : l = Lower(q) /\ m = Lower(t)
  OBVIOUS
<1>2. /\ l \in Text /\ m \in Text /\ Len(l) = Len(q) /\ Len(m) = Len(t)
      /\ Len(q) \in Nat /\ Len(t) \in Nat
  BY <1>1, LowerIs, TextIs
<1>3. ASSUME NEW p \in Offsets(l, m) PROVE Holds(t, q)
  <2>1. /\ p \in 0..(Len(t) - Len(q)) /\ SubSeq(m, p + 1, p + Len(q)) = l
    BY <1>2 DEF Offsets
  <2>2. PICK b : b = p + Len(q)
    OBVIOUS
  <2>3. p \in 0..Len(t) /\ b \in 0..Len(t) /\ p <= b
    BY <1>2, <2>1, <2>2
  <2>4. Lower(SubSeq(t, p + 1, b)) = SubSeq(m, p + 1, b)
    BY <1>1, <2>3, LowerPart
  <2>5. Lower(SubSeq(t, p + 1, b)) = Lower(q)
    BY <1>1, <2>1, <2>2, <2>4
  <2>. QED
    BY <2>3, <2>5 DEF Holds
<1>4. ASSUME NEW a \in 0..Len(t), NEW b \in 0..Len(t), a <= b,
             Lower(SubSeq(t, a + 1, b)) = Lower(q)
      PROVE  a \in Offsets(l, m)
  <2>1. SubSeq(m, a + 1, b) = l
    BY <1>1, <1>4, LowerPart
  <2>2. Len(SubSeq(m, a + 1, b)) = b - a
    BY <1>2, <1>4, PartIs
  <2>3. b - a = Len(q)
    BY <1>2, <2>1, <2>2
  <2>4. a \in 0..(Len(t) - Len(q)) /\ b = a + Len(q)
    BY <1>2, <1>4, <2>3
  <2>. QED
    BY <1>2, <2>1, <2>4 DEF Offsets
<1>5. Offsets(l, m) # {} <=> Holds(t, q)
  BY <1>3, <1>4 DEF Holds
<1>. QED
  BY <1>1, <1>5

-----------------------------------------------------------------------------
(* Subsequences.                                                           *)

(* Where the character of the needle after the first n - 1 is found, when  *)
(* those end at before.                                                    *)
TakenNext(needle, haystack, n, before) ==
    Min({i \in (before + 1)..Len(haystack) : haystack[i] = needle[n]} \cup {Len(haystack) + 1})

LEMMA TakenNextIs ==
    ASSUME NEW needle, NEW haystack, Len(haystack) \in Nat, NEW n, NEW before \in Nat,
           NEW next, next = TakenNext(needle, haystack, n, before)
    PROVE  /\ next \in Nat /\ next <= Len(haystack) + 1
           /\ next <= Len(haystack) => before < next /\ haystack[next] = needle[n]
           /\ \A i \in (before + 1)..Len(haystack) : haystack[i] = needle[n] => next <= i
<1>1. PICK S : S = {i \in (before + 1)..Len(haystack) : haystack[i] = needle[n]}
                       \cup {Len(haystack) + 1}
  OBVIOUS
<1>2. S \in SUBSET Nat /\ Len(haystack) + 1 \in S
  BY <1>1
<1>3. next = Min(S)
  BY <1>1 DEF TakenNext
<1>4. next \in S /\ \A y \in S : next <= y
  BY <1>2, <1>3, MinIs
<1>5. next <= Len(haystack) + 1
  BY <1>2, <1>4
<1>6. next <= Len(haystack) => next \in (before + 1)..Len(haystack) /\ haystack[next] = needle[n]
  BY <1>1, <1>4
<1>7. \A i \in (before + 1)..Len(haystack) : haystack[i] = needle[n] => next <= i
  BY <1>1, <1>4
<1>8. next \in Nat
  BY <1>2, <1>4
<1>. QED
  BY <1>5, <1>6, <1>7, <1>8

(* The positions the iterator has been at; 0 is before the first.          *)
IsTaking(taken, needle, haystack) ==
    /\ taken \in [0..Len(needle) -> Nat] /\ taken[0] = 0
    /\ \A n \in 1..Len(needle) : taken[n] = TakenNext(needle, haystack, n, taken[n - 1])

(* There are such, and all has been found if the last is not the end.      *)
LEMMA Taking ==
    ASSUME NEW needle, Len(needle) \in Nat, NEW haystack, Len(haystack) \in Nat
    PROVE  \E taken :
              /\ IsTaking(taken, needle, haystack)
              /\ IsSubsequence(needle, haystack) <=> taken[Len(needle)] <= Len(haystack)
<1>. DEFINE Takes(f) ==
        f = [n \in 0..Len(needle) |->
                IF n = 0 THEN 0
                ELSE Min({i \in (f[n - 1] + 1)..Len(haystack) : haystack[i] = needle[n]}
                             \cup {Len(haystack) + 1})]
<1>1. PICK g : g = [x \in (1..Len(needle)) \X Nat |-> TakenNext(needle, haystack, x[1], x[2])]
  OBVIOUS
<1>2. g \in Steps(Len(needle), Nat)
  <2>1. \A n, before : before \in Nat => TakenNext(needle, haystack, n, before) \in Nat
    BY TakenNextIs
  <2>. QED
    BY <1>1, <2>1 DEF Steps
<1>3. PICK h : IsIteration(h, Len(needle), Nat, 0, g)
  <2>1. PICK S, b : S = Nat /\ b = 0
    OBVIOUS
  <2>2. b \in S /\ g \in Steps(Len(needle), S)
    BY <1>2, <2>1
  <2>3. PICK h : IsIteration(h, Len(needle), S, b, g)
    BY <2>2, IteratesExist
  <2>4. IsIteration(h, Len(needle), Nat, 0, g)
    BY <2>1, <2>3 DEF IsIteration
  <2>. QED
    BY <2>4
<1>4. ASSUME NEW k \in 1..Len(needle) PROVE h[k] = TakenNext(needle, haystack, k, h[k - 1])
  <2>1. k - 1 \in 0..Len(needle)
    OBVIOUS
  <2>2. h[k - 1] \in Nat
    BY <1>3, <2>1 DEF IsIteration
  <2>3. g[<<k, h[k - 1]>>] = TakenNext(needle, haystack, k, h[k - 1])
    BY <1>1, <2>2
  <2>. QED
    BY <1>3, <2>3 DEF IsIteration
<1>5. Takes(h)
  BY <1>3, <1>4 DEF TakenNext, IsIteration
<1>6. PICK taken : taken = CHOOSE f : Takes(f)
  OBVIOUS
<1>7. Takes(taken)
  <2>. HIDE DEF Takes
  <2>. QED
    BY <1>5, <1>6
<1>8. IsSubsequence(needle, haystack) <=> taken[Len(needle)] <= Len(haystack)
  BY <1>6 DEF IsSubsequence
<1>9. taken[0] = 0
  BY <1>7
<1>10. ASSUME NEW n \in 1..Len(needle) PROVE taken[n] = TakenNext(needle, haystack, n, taken[n - 1])
  <2>1. n \in 0..Len(needle) /\ n # 0
    OBVIOUS
  <2>2. taken[n] = Min({i \in (taken[n - 1] + 1)..Len(haystack) : haystack[i] = needle[n]}
                          \cup {Len(haystack) + 1})
    BY <1>7, <2>1
  <2>. QED
    BY <2>2 DEF TakenNext
<1>11. taken \in [0..Len(needle) -> Nat]
  <2>1. PICK T : T = {k \in 0..Len(needle) : \A j \in 0..k : taken[j] = h[j]}
    OBVIOUS
  <2>2. 0 \in T
    BY <1>3, <1>9, <2>1 DEF IsIteration
  <2>3. ASSUME NEW k \in 0..(Len(needle) - 1), k \in T PROVE k + 1 \in T
    <3>1. k + 1 \in 1..Len(needle) /\ (k + 1) - 1 = k
      OBVIOUS
    <3>2. taken[k] = h[k]
      BY <2>1, <2>3
    <3>3. taken[k + 1] = h[k + 1]
      BY <1>4, <1>10, <3>1, <3>2
    <3>. QED
      BY <2>1, <2>3, <3>1, <3>3
  <2>4. Len(needle) \in T
    BY <2>2, <2>3, InductiveUpTo
  <2>5. \A j \in 0..Len(needle) : taken[j] \in Nat
    BY <1>3, <2>1, <2>4 DEF IsIteration
  <2>. QED
    BY <1>7, <2>5
<1>12. IsTaking(taken, needle, haystack)
  BY <1>9, <1>10, <1>11 DEF IsTaking
<1>. QED
  BY <1>8, <1>12

(* In 1..n, what grows from each to the next grows from each to all after. *)
LEMMA Growing ==
    ASSUME NEW n \in Nat, NEW f \in [0..n -> Nat], NEW top \in Nat,
           \A k \in 1..n : f[k] <= top => f[k - 1] < f[k],
           f[n] <= top
    PROVE  \A i, j \in 0..n : i < j => f[i] < f[j] /\ f[j] <= top
<1>1. PICK T : T = {m \in 0..n : /\ f[n - m] <= top
                                 /\ \A i, j \in (n - m)..n : i < j => f[i] < f[j] /\ f[j] <= top}
  OBVIOUS
<1>2. 0 \in T
  BY <1>1
<1>3. ASSUME NEW m \in 0..(n - 1), m \in T PROVE m + 1 \in T
  <2>1. PICK k : k = n - m
    OBVIOUS
  <2>2. k \in 1..n /\ f[k] <= top /\ \A i, j \in k..n : i < j => f[i] < f[j] /\ f[j] <= top
    BY <1>1, <1>3, <2>1
  <2>3. k - 1 \in 0..n /\ f[k - 1] \in Nat /\ f[k] \in Nat /\ f[k - 1] < f[k]
    BY <2>2
  <2>4. ASSUME NEW i \in (k - 1)..n, NEW j \in (k - 1)..n, i < j PROVE f[i] < f[j] /\ f[j] <= top
    <3>1. CASE i # k - 1
      BY <2>2, <2>4, <3>1
    <3>2. CASE i = k - 1 /\ j = k
      BY <2>2, <2>3, <3>2
    <3>3. CASE i = k - 1 /\ j # k
      <4>1. j \in k..n /\ k \in k..n /\ k < j
        BY <2>2, <2>4, <3>3
      <4>2. f[k] < f[j] /\ f[j] <= top
        BY <2>2, <4>1
      <4>3. f[j] \in Nat
        BY <2>2, <4>1
      <4>. QED
        BY <2>3, <3>3, <4>2, <4>3
    <3>. QED
      BY <3>1, <3>2, <3>3
  <2>5. n - (m + 1) = k - 1 /\ m + 1 \in 0..n
    BY <2>1
  <2>6. f[k - 1] <= top
    BY <2>2, <2>3
  <2>. QED
    BY <1>1, <2>4, <2>5, <2>6
<1>4. n \in T
  BY <1>2, <1>3, InductiveUpTo
<1>. QED
  BY <1>1, <1>4

(* A greedy search finds the needle exactly when it is there.              *)
LEMMA SubsequenceIs ==
    ASSUME NEW q \in Text, NEW t \in Text
    PROVE  IsSubsequence(Lower(q), Lower(t)) <=> Embeds(q, t)
<1>1. PICK needle, hay : needle = Lower(q) /\ hay = Lower(t)
  OBVIOUS
<1>2. PICK n, l : n = Len(q) /\ l = Len(t)
  OBVIOUS
<1>3. /\ Len(needle) = n /\ Len(hay) = l /\ n \in Nat /\ l \in Nat
      /\ DOMAIN q = 1..n /\ DOMAIN t = 1..l
  BY <1>1, <1>2, LowerIs, TextIs
<1>4. PICK taken \in [0..n -> Nat] :
          /\ taken[0] = 0
          /\ \A k \in 1..n : taken[k] = TakenNext(needle, hay, k, taken[k - 1])
          /\ IsSubsequence(needle, hay) <=> taken[n] <= l
  <2>1. Len(needle) \in Nat /\ Len(hay) \in Nat
    BY <1>3
  <2>2. PICK taken : /\ IsTaking(taken, needle, hay)
                     /\ IsSubsequence(needle, hay) <=> taken[Len(needle)] <= Len(hay)
    BY <2>1, Taking
  <2>. QED
    BY <1>3, <2>2 DEF IsTaking
<1>5. ASSUME NEW k \in 1..n
      PROVE  /\ taken[k - 1] \in Nat
             /\ taken[k] <= l => taken[k - 1] < taken[k] /\ hay[taken[k]] = needle[k]
             /\ \A i \in (taken[k - 1] + 1)..l : hay[i] = needle[k] => taken[k] <= i
  <2>1. PICK a, b : a = taken[k - 1] /\ b = taken[k]
    OBVIOUS
  <2>2. a \in Nat /\ b = TakenNext(needle, hay, k, a)
    <3>1. k - 1 \in 0..n
      BY <1>3
    <3>. QED
      BY <1>4, <2>1, <3>1
  <2>3. Len(hay) \in Nat
    BY <1>3
  <2>4. /\ b <= Len(hay) => a < b /\ hay[b] = needle[k]
        /\ \A i \in (a + 1)..Len(hay) : hay[i] = needle[k] => b <= i
    BY <2>2, <2>3, TakenNextIs
  <2>. QED
    BY <1>3, <2>1, <2>2, <2>4
<1>6. ASSUME taken[n] <= l PROVE Embeds(q, t)
  <2>1. \A k \in 1..n : taken[k] <= l => taken[k - 1] < taken[k]
    BY <1>5
  <2>2. \A i, j \in 0..n : i < j => taken[i] < taken[j] /\ taken[j] <= l
    BY <1>3, <1>4, <1>6, <2>1, Growing
  <2>3. \A k \in 1..n : taken[k] \in 1..l
    <3>1. ASSUME NEW k \in 1..n PROVE taken[k] \in 1..l
      <4>1. 0 \in 0..n /\ k \in 0..n /\ 0 < k
        BY <1>3
      <4>2. taken[0] < taken[k] /\ taken[k] <= l
        BY <2>2, <4>1
      <4>. QED
        BY <1>3, <1>4, <4>1, <4>2
    <3>. QED
      BY <3>1
  <2>4. PICK at : at = [k \in 1..n |-> taken[k]]
    OBVIOUS
  <2>5. at \in [1..n -> 1..l] /\ \A k \in 1..n : at[k] = taken[k]
    BY <2>3, <2>4
  <2>6. \A i, j \in 1..n : i < j => at[i] < at[j]
    BY <2>2, <2>5
  <2>7. \A k \in 1..n : needle[k] = hay[at[k]]
    <3>1. ASSUME NEW k \in 1..n PROVE needle[k] = hay[at[k]]
      <4>1. taken[k] <= l
        BY <1>3, <2>3
      <4>. QED
        BY <1>5, <2>5, <4>1
    <3>. QED
      BY <3>1
  <2>. QED
    BY <1>1, <1>3, <2>5, <2>6, <2>7 DEF Embeds
<1>7. ASSUME Embeds(q, t) PROVE taken[n] <= l
  <2>1. PICK at \in [1..n -> 1..l] :
            /\ \A i, j \in 1..n : i < j => at[i] < at[j]
            /\ \A k \in 1..n : needle[k] = hay[at[k]]
    <3>1. PICK at \in [DOMAIN q -> DOMAIN t] :
              /\ \A i, j \in DOMAIN q : i < j => at[i] < at[j]
              /\ \A k \in DOMAIN q : Lower(q)[k] = Lower(t)[at[k]]
      BY <1>7 DEF Embeds
    <3>2. at \in [1..n -> 1..l]
      BY <1>3, <3>1
    <3>3. \A i, j \in 1..n : i < j => at[i] < at[j]
      BY <1>3, <3>1
    <3>4. \A k \in 1..n : needle[k] = hay[at[k]]
      BY <1>1, <1>3, <3>1
    <3>. QED
      BY <3>2, <3>3, <3>4
  <2>2. PICK T : T = {k \in 0..n : k = 0 \/ taken[k] <= at[k]}
    OBVIOUS
  <2>3. 0 \in T
    BY <1>3, <2>2
  <2>4. ASSUME NEW k \in 0..(n - 1), k \in T PROVE k + 1 \in T
    <3>1. k + 1 \in 1..n /\ (k + 1) - 1 = k /\ k \in 0..n
      BY <1>3
    <3>2. taken[k] \in Nat /\ at[k + 1] \in 1..l
      BY <1>4, <2>1, <3>1
    <3>3. taken[k] < at[k + 1]
      <4>1. CASE k = 0
        BY <1>4, <3>2, <4>1
      <4>2. CASE k # 0
        <5>1. k \in 1..n /\ k < k + 1
          BY <3>1, <4>2
        <5>2. at[k] < at[k + 1] /\ at[k] \in 1..l
          BY <2>1, <3>1, <5>1
        <5>3. taken[k] <= at[k]
          BY <2>2, <2>4, <4>2
        <5>. QED
          BY <3>2, <5>2, <5>3
      <4>. QED
        BY <4>1, <4>2
    <3>4. at[k + 1] \in (taken[k] + 1)..l
      BY <1>3, <3>2, <3>3
    <3>5. hay[at[k + 1]] = needle[k + 1]
      BY <2>1, <3>1
    <3>6. taken[k + 1] <= at[k + 1]
      BY <1>5, <3>1, <3>4, <3>5
    <3>. QED
      BY <2>2, <3>1, <3>6
  <2>5. n \in T
    BY <1>3, <2>3, <2>4, InductiveUpTo
  <2>6. CASE n = 0
    BY <1>3, <1>4, <2>6
  <2>7. CASE n # 0
    <3>1. n \in 1..n /\ n \in 0..n
      BY <1>3, <2>7
    <3>2. taken[n] \in Nat /\ taken[n] <= at[n] /\ at[n] \in 1..l
      BY <1>4, <2>1, <2>2, <2>5, <2>7, <3>1
    <3>. QED
      BY <1>3, <3>2
  <2>. QED
    BY <2>6, <2>7
<1>. QED
  BY <1>1, <1>4, <1>6, <1>7

-----------------------------------------------------------------------------
(* Scores.                                                                 *)

LEMMA SingletonMax == ASSUME NEW x \in Int PROVE Max({x}) = x
BY DEF Max

LEMMA PairMin ==
    ASSUME NEW x \in Nat, NEW y \in Nat
    PROVE  Min({x, y}) = IF x <= y THEN x ELSE y
<1>1. {x, y} \in SUBSET Nat /\ {x, y} # {}
  OBVIOUS
<1>2. Min({x, y}) \in {x, y} /\ \A z \in {x, y} : Min({x, y}) <= z
  BY <1>1, MinIs
<1>. QED
  BY <1>2

Fields == {"title", "username", "url", "group"}

LEMMA FieldIs ==
    ASSUME NEW e \in EntryMeta, NEW f \in Fields
    PROVE  e[f] \in Text /\ f \in DOMAIN Weight
<1>1. e.title \in Text /\ e.username \in Text /\ e.url \in Text /\ e.group \in Text
  BY DEF EntryMeta
<1>. QED
  BY <1>1 DEF Fields, Weight

LEMMA FieldsAre == DOMAIN Weight = Fields
BY DEF Weight, Fields

(* The score of a field with a hit; only a title that begins with the      *)
(* query has as much as 125.                                               *)
LEMMA FieldScoreIs ==
    ASSUME NEW q \in Text, NEW e \in EntryMeta, NEW f \in Hits(q, e)
    PROVE  /\ f \in Fields /\ FieldScore(q, e, f) \in Int /\ FieldScore(q, e, f) <= 125
           /\ FieldScore(q, e, f) = 125 <=> f = "title" /\ 0 \in Offsets(q, Lower(e.title))
<1>1. f \in Fields /\ Offsets(q, Lower(e[f])) # {}
  BY FieldsAre DEF Hits
<1>2. PICK O, pos : O = Offsets(q, Lower(e[f])) /\ pos = Min(O)
  OBVIOUS
<1>3. O \in SUBSET Nat /\ O # {}
  BY <1>1, <1>2, FieldIs, LowerIs, OffsetsAre
<1>4. pos \in O /\ pos \in Nat /\ \A p \in O : pos <= p
  BY <1>2, <1>3, MinIs
<1>5. pos = 0 <=> 0 \in O
  BY <1>4
<1>6. FieldScore(q, e, f) = Weight[f] - pos + (IF pos = 0 THEN 25 ELSE 0)
  BY <1>2 DEF FieldScore
<1>7. CASE f = "title"
  <2>1. Weight[f] = 100
    BY <1>7 DEF Weight
  <2>2. FieldScore(q, e, f) = IF pos = 0 THEN 125 ELSE 100 - pos
    BY <1>4, <1>6, <2>1
  <2>. QED
    BY <1>1, <1>2, <1>4, <1>5, <1>7, <2>2
<1>8. CASE f # "title"
  <2>1. Weight[f] \in {40, 30, 20}
    BY <1>1, <1>8 DEF Weight, Fields
  <2>2. FieldScore(q, e, f) \in Int /\ FieldScore(q, e, f) <= 65
    BY <1>4, <1>6, <2>1
  <2>. QED
    BY <1>1, <1>8, <2>2
<1>. QED
  BY <1>7, <1>8

(* The best of the hits is the score of one of them.                       *)
LEMMA BestScoreIs ==
    ASSUME NEW q \in Text, NEW e \in EntryMeta, Hits(q, e) # {}
    PROVE  \E f \in Hits(q, e) :
              /\ BestScore(q, e) = FieldScore(q, e, f)
              /\ \A g \in Hits(q, e) : FieldScore(q, e, g) <= FieldScore(q, e, f)
<1>1. PICK H, F : H = Hits(q, e) /\ F = [f \in H |-> FieldScore(q, e, f)]
  OBVIOUS
<1>2. \A f \in H : F[f] \in Int /\ F[f] <= 125 /\ F[f] = FieldScore(q, e, f)
  BY <1>1, FieldScoreIs
<1>3. PICK D : D = {n \in Nat : \E f \in H : n = 125 - F[f]}
  OBVIOUS
<1>4. D \in SUBSET Nat /\ D # {}
  <2>1. PICK f \in H : TRUE
    BY <1>1
  <2>2. 125 - F[f] \in Nat
    BY <1>2, <2>1
  <2>. QED
    BY <1>3, <2>1, <2>2
<1>5. PICK d \in D : \A y \in D : d <= y
  BY <1>4, MinIs
<1>6. PICK f \in H : d = 125 - F[f]
  BY <1>3, <1>5
<1>7. ASSUME NEW g \in H PROVE F[g] <= F[f]
  <2>1. 125 - F[g] \in D
    BY <1>2, <1>3
  <2>2. d <= 125 - F[g]
    BY <1>5, <2>1
  <2>. QED
    BY <1>2, <1>6, <2>2
<1>8. PICK V : V = {FieldScore(q, e, h) : h \in Hits(q, e)}
  OBVIOUS
<1>9. F[f] \in V /\ \A v \in V : F[f] >= v
  BY <1>1, <1>2, <1>6, <1>7, <1>8
<1>10. Max(V) \in V /\ \A v \in V : Max(V) >= v
  BY <1>9 DEF Max
<1>11. \A v \in V : v \in Int
  BY <1>1, <1>2, <1>8
<1>12. Max(V) = F[f]
  <2>1. PICK x, y : x = Max(V) /\ y = F[f]
    OBVIOUS
  <2>2. x >= y /\ y >= x /\ x \in Int /\ y \in Int
    BY <1>9, <1>10, <1>11, <2>1
  <2>. QED
    BY <2>1, <2>2
<1>. QED
  BY <1>1, <1>2, <1>6, <1>7, <1>8, <1>12 DEF BestScore

LEMMA PrefixIsAtZero ==
    ASSUME NEW q \in Text, NEW t \in Text
    PROVE  StartsWith(t, q) <=> 0 \in Offsets(Lower(q), Lower(t))
<1>1. PICK l, m : l = Lower(q) /\ m = Lower(t)
  OBVIOUS
<1>2. l \in Seq(Int) /\ m \in Seq(Int) /\ Len(l) \in Nat /\ Len(m) \in Nat
  BY <1>1, LowerIs, TextIs
<1>3. SubSeq(l, 1, Len(l)) = l
  BY <1>2
<1>4. IsPrefix(l, m) <=> Len(l) <= Len(m) /\ l = SubSeq(m, 1, Len(l))
  BY <1>3 DEF IsPrefix
<1>5. 0 \in Offsets(l, m) <=> 0 \in 0..(Len(m) - Len(l)) /\ SubSeq(m, 0 + 1, 0 + Len(l)) = l
  BY DEF Offsets
<1>6. 0 \in 0..(Len(m) - Len(l)) <=> Len(l) <= Len(m)
  BY <1>2
<1>7. 0 + 1 = 1 /\ 0 + Len(l) = Len(l)
  BY <1>2
<1>. QED
  BY <1>1, <1>4, <1>5, <1>6, <1>7 DEF StartsWith

LEMMA EmptyIsHeld == ASSUME NEW t \in Text, NEW q \in Text, q = << >> PROVE Holds(t, q)
<1>1. Len(t) \in Nat
  BY TextIs
<1>2. SubSeq(t, 1, 0) = q
  <2>1. t \in Seq(Int)
    BY TextIs
  <2>. QED
    BY <2>1
<1>3. 0 \in 0..Len(t) /\ 0 + 1 = 1
  BY <1>1
<1>4. Lower(SubSeq(t, 0 + 1, 0)) = Lower(q)
  BY <1>2, <1>3
<1>. QED
  BY <1>3, <1>4 DEF Holds

(* An entry has a score exactly when it contains the query or, in its      *)
(* title, the characters of the query in order; and the score is 125 when  *)
(* the title begins with it, and otherwise less.                           *)
LEMMA FuzzyScoreIs ==
    ASSUME NEW query \in Text, NEW e \in EntryMeta
    PROVE  /\ FuzzyScore(query, e) # {} <=> Wanted(query, e)
           /\ FuzzyScore(query, e) # {} => Max(FuzzyScore(query, e)) \in Int
           /\ query # << >> /\ FuzzyScore(query, e) # {} =>
                 /\ Max(FuzzyScore(query, e)) <= 125
                 /\ Max(FuzzyScore(query, e)) = 125 <=> StartsWith(e.title, query)
           /\ query # << >> /\ StartsWith(e.title, query) => FuzzyScore(query, e) # {}
<1>1. PICK q : q = Lower(query)
  OBVIOUS
<1>2. q \in Text /\ e.title \in Text /\ e["title"] = e.title
  BY <1>1, LowerIs, FieldIs DEF Fields
<1>3. ASSUME NEW f \in Fields PROVE Offsets(q, Lower(e[f])) # {} <=> Holds(e[f], query)
  BY <1>1, FieldIs, HitsAreHeld
<1>4. Hits(q, e) # {} <=> \E f \in DOMAIN Weight : Holds(e[f], query)
  BY <1>3, FieldsAre DEF Hits
<1>5. IsSubsequence(q, Lower(e.title)) <=> Embeds(query, e.title)
  BY <1>1, <1>2, SubsequenceIs
<1>6. StartsWith(e.title, query) <=> 0 \in Offsets(q, Lower(e.title))
  BY <1>1, <1>2, PrefixIsAtZero
<1>7. StartsWith(e.title, query) => "title" \in Hits(q, e)
  <2>1. "title" \in DOMAIN Weight
    BY FieldsAre DEF Fields
  <2>. QED
    BY <1>2, <1>6, <2>1 DEF Hits
<1>8. PICK S : S = FuzzyScore(query, e)
  OBVIOUS
<1>9. S = IF query = << >> THEN {0}
          ELSE IF Hits(q, e) # {} THEN {BestScore(q, e)}
          ELSE IF IsSubsequence(q, Lower(e.title)) THEN {5}
          ELSE {}
  BY <1>1, <1>8 DEF FuzzyScore
<1>10. CASE query = << >>
  <2>1. S = {0} /\ Max(S) = 0
    BY <1>9, <1>10, SingletonMax
  <2>2. Holds(e["title"], query) /\ "title" \in DOMAIN Weight
    BY <1>2, <1>10, EmptyIsHeld, FieldsAre DEF Fields
  <2>3. Wanted(query, e)
    BY <2>2 DEF Wanted
  <2>4. S # {} /\ Max(S) \in Int
    <3>1. Max(S) \in Int
      BY <2>1
    <3>. QED
      BY <2>1, <3>1
  <2>. QED
    BY <1>8, <1>10, <2>3, <2>4
<1>11. CASE query # << >> /\ Hits(q, e) # {}
  <2>1. PICK f \in Hits(q, e) :
            /\ BestScore(q, e) = FieldScore(q, e, f)
            /\ \A g \in Hits(q, e) : FieldScore(q, e, g) <= FieldScore(q, e, f)
    BY <1>2, <1>11, BestScoreIs
  <2>2. PICK x : x = FieldScore(q, e, f)
    OBVIOUS
  <2>3. x \in Int /\ x <= 125 /\ (x = 125 <=> f = "title" /\ 0 \in Offsets(q, Lower(e.title)))
    BY <1>2, <2>2, FieldScoreIs
  <2>4. S = {x} /\ Max(S) = x
    BY <1>9, <1>11, <2>1, <2>2, <2>3, SingletonMax
  <2>5. StartsWith(e.title, query) => x = 125
    <3>. SUFFICES ASSUME StartsWith(e.title, query) PROVE x = 125
      OBVIOUS
    <3>1. PICK y : y = FieldScore(q, e, "title")
      OBVIOUS
    <3>2. y <= x
      BY <1>7, <2>1, <2>2, <3>1
    <3>3. y = 125
      BY <1>2, <1>6, <1>7, <3>1, FieldScoreIs
    <3>. QED
      BY <2>3, <3>2, <3>3
  <2>6. Wanted(query, e)
    BY <1>4, <1>11 DEF Wanted
  <2>. QED
    BY <1>6, <1>8, <2>3, <2>4, <2>5, <2>6
<1>12. CASE query # << >> /\ Hits(q, e) = {}
  <2>1. ~StartsWith(e.title, query)
    BY <1>7, <1>12
  <2>2. Wanted(query, e) <=> Embeds(query, e.title)
    BY <1>4, <1>12 DEF Wanted
  <2>3. S = IF Embeds(query, e.title) THEN {5} ELSE {}
    BY <1>5, <1>9, <1>12
  <2>4. Max({5}) = 5
    BY SingletonMax
  <2>. QED
    BY <1>8, <2>1, <2>2, <2>3, <2>4
<1>. QED
  BY <1>10, <1>11, <1>12

-----------------------------------------------------------------------------
(* The order of what is listed.                                            *)

(* The entries that are found, by their positions.                         *)
Found(entries, query) == {i \in DOMAIN entries : FuzzyScore(query, entries[i]) # {}}

Below(entries, query) ==
    [i \in Found(entries, query) |->
        {j \in Found(entries, query) : Before(entries, query, j, i)}]

LEMMA FoundAre ==
    ASSUME NEW n \in Nat, NEW entries \in [1..n -> EntryMeta], NEW query \in Text
    PROVE  /\ Found(entries, query) = {i \in 1..n : Wanted(query, entries[i])}
           /\ Found(entries, query) \in SUBSET (1..n) /\ IsFiniteSet(Found(entries, query))
           /\ Cardinality(Found(entries, query)) \in Nat
<1>1. \A i \in 1..n : FuzzyScore(query, entries[i]) # {} <=> Wanted(query, entries[i])
  BY FuzzyScoreIs
<1>2. Found(entries, query) = {i \in 1..n : Wanted(query, entries[i])}
  BY <1>1 DEF Found
<1>3. IsFiniteSet(1..n)
  BY FS_Interval
<1>. QED
  BY <1>2, <1>3, FS_Subset, FS_CardinalityType

(* Score, title and position order them, and no two alike.                 *)
LEMMA BeforeOrders ==
    ASSUME NEW n \in Nat, NEW entries \in [1..n -> EntryMeta], NEW query \in Text,
           NEW below, below = Below(entries, query),
           NEW found, found = Found(entries, query)
    PROVE  IsOrder(below, found)
<1>1. PICK score, title : /\ score = [i \in found |-> Max(FuzzyScore(query, entries[i]))]
                          /\ title = [i \in found |-> entries[i].title]
  OBVIOUS
<1>2. found \in SUBSET (1..n)
  BY FoundAre
<1>3. ASSUME NEW i \in found
      PROVE  /\ i \in Nat /\ score[i] \in Int /\ title[i] \in Text
             /\ score[i] = Max(FuzzyScore(query, entries[i])) /\ title[i] = entries[i].title
  <2>1. i \in 1..n /\ FuzzyScore(query, entries[i]) # {}
    BY <1>2 DEF Found
  <2>2. entries[i] \in EntryMeta
    BY <2>1
  <2>3. entries[i].title \in Text
    BY <2>2 DEF EntryMeta
  <2>4. Max(FuzzyScore(query, entries[i])) \in Int
    BY <2>1, <2>2, FuzzyScoreIs
  <2>. QED
    BY <1>1, <2>1, <2>3, <2>4
<1>. DEFINE B(i, j) == \/ score[i] > score[j]
                       \/ score[i] = score[j] /\ TextLess(title[i], title[j])
                       \/ score[i] = score[j] /\ title[i] = title[j] /\ i < j
<1>4. ASSUME NEW i \in found, NEW j \in found
      PROVE  j \in below[i] <=> B(j, i)
  <2>1. Before(entries, query, j, i) <=> B(j, i)
    BY <1>3 DEF Before
  <2>. QED
    BY <2>1 DEF Below
<1>5. below \in [found -> SUBSET found]
  BY DEF Below
<1>6. \A i \in found : ~B(i, i)
  BY <1>3, TextOrder
<1>7. ASSUME NEW i \in found, NEW j \in found, NEW k \in found, B(k, j), B(j, i)
      PROVE  B(k, i)
  <2>1. PICK a, b, c : a = title[k] /\ b = title[j] /\ c = title[i]
    OBVIOUS
  <2>2. a \in Text /\ b \in Text /\ c \in Text
    BY <1>3, <2>1
  <2>3. TextLess(a, b) /\ TextLess(b, c) => TextLess(a, c)
    BY <2>2, TextOrder
  <2>4. PICK x, y, z : x = score[k] /\ y = score[j] /\ z = score[i]
    OBVIOUS
  <2>5. x \in Int /\ y \in Int /\ z \in Int /\ i \in Nat /\ j \in Nat /\ k \in Nat
    BY <1>3, <2>4
  <2>6. \/ x > y
        \/ x = y /\ TextLess(a, b)
        \/ x = y /\ a = b /\ k < j
    BY <1>7, <2>1, <2>4
  <2>7. \/ y > z
        \/ y = z /\ TextLess(b, c)
        \/ y = z /\ b = c /\ j < i
    BY <1>7, <2>1, <2>4
  <2>8. \/ x > z
        \/ x = z /\ TextLess(a, c)
        \/ x = z /\ a = c /\ k < i
    BY <2>3, <2>5, <2>6, <2>7
  <2>. QED
    BY <2>1, <2>4, <2>8
<1>8. ASSUME NEW i \in found, NEW j \in found, i # j PROVE B(i, j) \/ B(j, i)
  <2>1. /\ score[i] \in Int /\ score[j] \in Int /\ i \in Nat /\ j \in Nat
        /\ title[i] \in Text /\ title[j] \in Text
    BY <1>3
  <2>2. title[i] # title[j] => TextLess(title[i], title[j]) \/ TextLess(title[j], title[i])
    BY <2>1, TextOrder
  <2>. QED
    BY <1>8, <2>1, <2>2
<1>. HIDE DEF B
<1>9. \A i \in found : i \notin below[i] /\ \A j \in below[i] : below[j] \subseteq below[i]
  BY <1>4, <1>5, <1>6, <1>7
<1>10. \A i, j \in found : i # j => i \in below[j] \/ j \in below[i]
  BY <1>4, <1>8
<1>. QED
  BY <1>5, <1>9, <1>10 DEF IsOrder

(* r is the beginning of the ranking, up to the limit.                     *)
IsHead(r, m, sorted, below, found, limit) ==
    /\ IsRanking(sorted, below, found) /\ m \in 0..Cardinality(found)
    /\ m = Min({limit, Cardinality(found)})
    /\ Len(r) = m /\ DOMAIN r = 1..m /\ \A i \in 1..m : r[i] = sorted[i]

(* What List returns: the beginning of a ranking of what is found.         *)
LEMMA ListIs ==
    ASSUME NEW n \in Nat, NEW entries \in [1..n -> EntryMeta], NEW query \in Text,
           NEW limit \in Nat, NEW r, r = List(entries, query, limit),
           NEW found, found = Found(entries, query),
           NEW below, below = Below(entries, query)
    PROVE  \E sorted, m : IsHead(r, m, sorted, below, found, limit)
<1>1. PICK c : c = Cardinality(found)
  OBVIOUS
<1>2. c \in Nat /\ IsFiniteSet(found)
  BY <1>1, FoundAre
<1>. DEFINE place(i) == Cardinality({j \in found : Before(entries, query, j, i)})
<1>3. PICK sorted : sorted = [k \in 1..c |-> CHOOSE i \in found : place(i) = k - 1]
  OBVIOUS
<1>4. IsOrder(below, found)
  BY BeforeOrders
<1>4a. \A i \in found : place(i) = Cardinality(below[i])
  BY DEF Below
<1>5a. IsPlaced(sorted, below, found)
  <2>. HIDE DEF place
  <2>1. ASSUME NEW k \in 1..c, NEW i \in found, Cardinality(below[i]) = k - 1
        PROVE  sorted[k] \in found /\ Cardinality(below[sorted[k]]) = k - 1
    <3>1. place(i) = k - 1
      BY <1>4a, <2>1
    <3>2. sorted[k] \in found /\ place(sorted[k]) = k - 1
      BY <1>3, <3>1
    <3>. QED
      BY <1>4a, <3>2
  <2>2. sorted = [k \in 1..c |-> sorted[k]]
    BY <1>3
  <2>. QED
    BY <1>1, <2>1, <2>2 DEF IsPlaced
<1>5. IsRanking(sorted, below, found)
  BY <1>2, <1>4, <1>5a, Ranked
<1>6. PICK m : m = Min({limit, c})
  OBVIOUS
<1>7. m \in 0..c
  BY <1>2, <1>6, PairMin
<1>8. r = SubSeq(sorted, 1, m)
  BY <1>1, <1>3, <1>6 DEF List, Found
<1>9. sorted \in [1..c -> found]
  BY <1>1, <1>5 DEF IsRanking
<1>10. sorted \in Seq(found) /\ Len(sorted) = c
  BY <1>2, <1>9
<1>11. Len(r) = m /\ DOMAIN r = 1..m /\ \A i \in 1..m : r[i] = sorted[i]
  BY <1>7, <1>8, <1>10
<1>. QED
  BY <1>1, <1>5, <1>6, <1>7, <1>11 DEF IsHead
=============================================================================
