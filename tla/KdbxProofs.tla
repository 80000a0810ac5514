----------------------------- MODULE KdbxProofs -----------------------------
(***************************************************************************)
(* What loading makes of a group tree, for trees of any height and width.  *)
(***************************************************************************)
EXTENDS Kdbx, SearchProofs, SequenceTheorems

-----------------------------------------------------------------------------
(* The recursion of walk_node.                                             *)

(* What walk_node makes of a node, given what it makes of its children.    *)
Walked(f, at) ==
    IF at[1].kind = "entry"
    THEN <<[uuid |-> at[1].uuid, group |-> at[2]]>>
    ELSE FlattenSeq([i \in DOMAIN at[1].children |->
                        f[<<at[1].children[i], ChildPath(at[2], at[1].name)>>]])

IsWalk(f) == f = [at \in Nodes \X Seq(STRING) |-> Walked(f, at)]

LEMMA Singleton ==
    ASSUME NEW S, NEW e \in S
    PROVE  <<e>> \in Seq(S) /\ Len(<<e>>) = 1 /\ <<e>>[1] = e
  OBVIOUS

LEMMA ChildPathType ==
    ASSUME NEW path \in Seq(STRING), NEW name \in STRING
    PROVE  ChildPath(path, name) \in Seq(STRING)
<1>1. PICK S : S = STRING
  OBVIOUS
<1>2. path \in Seq(S) /\ name \in S
  BY <1>1
<1>3. << >> \in Seq(S) /\ <<name>> \in Seq(S)
  <2>1. <<name>> \in Seq(S)
    BY <1>2, Singleton
  <2>2. << >> \in Seq(S)
    BY EmptySeq
  <2>. QED
    BY <2>1, <2>2
<1>4. path \o <<name>> \in Seq(S)
  BY <1>2, <1>3, ConcatProperties
<1>. QED
  BY <1>1, <1>3, <1>4 DEF ChildPath

LEMMA GroupIs ==
    ASSUME NEW node \in Nodes, node.kind # "entry"
    PROVE  /\ node.name \in STRING /\ node.children \in Seq(Nodes)
           /\ \A i \in DOMAIN node.children :
                 node.children[i] \in Nodes /\ Height[node.children[i]] < Height[node]
<1>1. /\ node.name \in STRING /\ node.children \in Seq(Nodes)
      /\ \A i \in DOMAIN node.children : Height[node.children[i]] < Height[node]
  BY KdbxAssumption
<1>. QED
  BY <1>1

(* A walk is right about nodes below a height if it is about the lower     *)
(* ones, so there is one that is right about all.                          *)
LEMMA WalkExists == \E f : IsWalk(f)
<1>. DEFINE D == Nodes \X Seq(STRING)
            Right(f, m) == /\ f = [at \in D |-> f[at]]
                           /\ \A at \in D : Height[at[1]] < m => f[at] = Walked(f, at)
<1>1. PICK T : T = {m \in 0..(MaxHeight + 1) : \E f : Right(f, m)}
  OBVIOUS
<1>2. MaxHeight \in Nat /\ \A at \in D : Height[at[1]] \in 0..MaxHeight
  BY KdbxAssumption
<1>3. 0 \in T
  <2>1. PICK f : f = [at \in D |-> << >>]
    OBVIOUS
  <2>2. Right(f, 0)
    BY <1>2, <2>1
  <2>3. 0 \in 0..(MaxHeight + 1)
    BY <1>2
  <2>. HIDE DEF Right
  <2>. QED
    BY <1>1, <2>2, <2>3
<1>4. ASSUME NEW m \in 0..MaxHeight, m \in T PROVE m + 1 \in T
  <2>1. PICK f : Right(f, m)
    <3>. HIDE DEF Right
    <3>. QED
      BY <1>1, <1>4
  <2>2. PICK g : g = [at \in D |-> Walked(f, at)]
    OBVIOUS
  <2>3. ASSUME NEW at \in D, Height[at[1]] < m + 1 PROVE Walked(g, at) = Walked(f, at)
    <3>1. CASE at[1].kind = "entry"
      BY <3>1 DEF Walked
    <3>2. CASE at[1].kind # "entry"
      <4>1. PICK node, path : node = at[1] /\ path = at[2]
        OBVIOUS
      <4>2. node \in Nodes /\ path \in Seq(STRING) /\ Height[node] < m + 1 /\ node.kind # "entry"
        BY <2>3, <3>2, <4>1
      <4>3. ASSUME NEW i \in DOMAIN node.children
            PROVE  g[<<node.children[i], ChildPath(path, node.name)>>] =
                   f[<<node.children[i], ChildPath(path, node.name)>>]
        <5>1. PICK x : x = <<node.children[i], ChildPath(path, node.name)>>
          OBVIOUS
        <5>2. /\ node.children[i] \in Nodes /\ Height[node.children[i]] < Height[node]
              /\ ChildPath(path, node.name) \in Seq(STRING)
          BY <4>2, GroupIs, ChildPathType
        <5>3. x \in D /\ x[1] = node.children[i]
          BY <5>1, <5>2
        <5>4. Height[x[1]] < m
          <6>1. Height[node] \in Nat /\ Height[x[1]] \in Nat
            BY <4>2, <5>2, <5>3, KdbxAssumption
          <6>. QED
            BY <4>2, <5>2, <5>3, <6>1
        <5>5. f[x] = Walked(f, x) /\ g[x] = Walked(f, x)
          BY <2>1, <2>2, <5>3, <5>4
        <5>. QED
          BY <5>1, <5>5
      <4>4. [i \in DOMAIN node.children |-> g[<<node.children[i], ChildPath(path, node.name)>>]] =
            [i \in DOMAIN node.children |-> f[<<node.children[i], ChildPath(path, node.name)>>]]
        BY <4>3
      <4>. QED
        BY <4>1, <4>2, <4>4 DEF Walked
    <3>. QED
      BY <3>1, <3>2
  <2>4. Right(g, m + 1)
    <3>1. \A at \in D : g[at] = Walked(f, at)
      BY <2>2
    <3>2. \A at \in D : Height[at[1]] < m + 1 => g[at] = Walked(g, at)
      BY <2>3, <3>1
    <3>3. g = [at \in D |-> g[at]]
      BY <2>2
    <3>. QED
      BY <3>2, <3>3
  <2>5. m + 1 \in 0..(MaxHeight + 1)
    BY <1>2
  <2>. HIDE DEF Right
  <2>. QED
    BY <1>1, <2>4, <2>5
<1>5. MaxHeight + 1 \in T
  <2>1. PICK n : n = MaxHeight + 1
    OBVIOUS
  <2>2. n \in Nat /\ \A k \in 0..(n - 1) : k \in 0..MaxHeight
    BY <1>2, <2>1
  <2>3. \A k \in 0..(n - 1) : k \in T => k + 1 \in T
    BY <1>4, <2>2
  <2>4. n \in T
    BY <1>3, <2>2, <2>3, InductiveUpTo
  <2>. QED
    BY <2>1, <2>4
<1>6. PICK f : Right(f, MaxHeight + 1)
  <2>. HIDE DEF Right
  <2>. QED
    BY <1>1, <1>5
<1>7. \A at \in D : Height[at[1]] < MaxHeight + 1
  BY <1>2
<1>8. \A at \in D : f[at] = Walked(f, at)
  BY <1>6, <1>7
<1>9. f = [at \in D |-> f[at]]
  BY <1>6
<1>10. f = [at \in D |-> Walked(f, at)]
  <2>1. [at \in D |-> f[at]] = [at \in D |-> Walked(f, at)]
    BY <1>8
  <2>. QED
    BY <1>9, <2>1
<1>. QED
  BY <1>10 DEF IsWalk

(* What the children of a node are loaded to, one after the other.         *)
Loads(children, path) == FlattenSeq([i \in DOMAIN children |-> WalkNode(children[i], path)])

LEMMA WalkIs ==
    ASSUME NEW node \in Nodes, NEW path \in Seq(STRING)
    PROVE  WalkNode(node, path) =
              IF node.kind = "entry" THEN <<[uuid |-> node.uuid, group |-> path]>>
              ELSE Loads(node.children, ChildPath(path, node.name))
<1>1. PICK walk : walk = CHOOSE f : IsWalk(f)
  OBVIOUS
<1>2. IsWalk(walk)
  BY <1>1, WalkExists
<1>3. \A n, p : WalkNode(n, p) = walk[<<n, p>>]
  BY <1>1 DEF WalkNode, IsWalk, Walked
<1>4. walk[<<node, path>>] = Walked(walk, <<node, path>>)
  BY <1>2 DEF IsWalk
<1>5. [i \in DOMAIN node.children |-> walk[<<node.children[i], ChildPath(path, node.name)>>]] =
      [i \in DOMAIN node.children |-> WalkNode(node.children[i], ChildPath(path, node.name))]
  BY <1>3
<1>6. Walked(walk, <<node, path>>) =
         IF node.kind = "entry" THEN <<[uuid |-> node.uuid, group |-> path]>>
         ELSE Loads(node.children, ChildPath(path, node.name))
  BY <1>5 DEF Walked, Loads
<1>. QED
  BY <1>3, <1>4, <1>6

-----------------------------------------------------------------------------
(* FlattenSeq, piece by piece.                                             *)

IsFlattening(flat, seqs, n) ==
    /\ flat[0] = << >>
    /\ \A k \in 1..n : flat[k] = flat[k - 1] \o seqs[k]

LEMMA Flattening ==
    ASSUME NEW n \in Nat, NEW S, NEW seqs \in [1..n -> Seq(S)]
    PROVE  \E flat : /\ flat \in [0..n -> Seq(S)] /\ IsFlattening(flat, seqs, n)
                     /\ FlattenSeq(seqs) = flat[n]
<1>. DEFINE Flat(f) == f = [i \in 1..Len(seqs) |-> IF i = 1 THEN seqs[i] ELSE f[i - 1] \o seqs[i]]
<1>1. Len(seqs) = n /\ << >> \in Seq(S)
  OBVIOUS
<1>2. PICK Q, b : Q = Seq(S) /\ b = << >>
  OBVIOUS
<1>3. PICK g : g = [x \in (1..n) \X Q |-> x[2] \o seqs[x[1]]]
  OBVIOUS
<1>4. g \in Steps(n, Q)
  <2>1. \A x \in (1..n) \X Q : x[2] \o seqs[x[1]] \in Q
    BY <1>2, ConcatProperties
  <2>. QED
    BY <1>3, <2>1 DEF Steps
<1>5. PICK h : IsIteration(h, n, Q, b, g)
  BY <1>1, <1>2, <1>4, IteratesExist
<1>6. h \in [0..n -> Seq(S)] /\ h[0] = << >>
  BY <1>2, <1>5 DEF IsIteration
<1>7. ASSUME NEW k \in 1..n PROVE h[k] = h[k - 1] \o seqs[k]
  <2>1. h[k] = g[<<k, h[k - 1]>>]
    BY <1>5 DEF IsIteration
  <2>2. h[k - 1] \in Q
    BY <1>2, <1>6
  <2>. QED
    BY <1>3, <2>1, <2>2
<1>8. n # 0 => h[1] = seqs[1]
  <2>. SUFFICES ASSUME n # 0 PROVE h[1] = seqs[1]
    OBVIOUS
  <2>1. 1 \in 1..n /\ seqs[1] \in Seq(S)
    OBVIOUS
  <2>2. << >> \o seqs[1] = seqs[1]
    BY <2>1, ConcatEmptySeq
  <2>3. h[1] = h[0] \o seqs[1]
    <3>1. 1 - 1 = 0
      OBVIOUS
    <3>2. h[1] = h[1 - 1] \o seqs[1]
      BY <1>7, <2>1
    <3>. QED
      BY <3>1, <3>2
  <2>. QED
    BY <1>6, <2>2, <2>3
<1>9. PICK r : r = [i \in 1..n |-> h[i]]
  OBVIOUS
<1>10. Flat(r)
  <2>1. ASSUME NEW i \in 1..n
        PROVE  r[i] = IF i = 1 THEN seqs[i] ELSE r[i - 1] \o seqs[i]
    <3>1. CASE i = 1
      BY <1>8, <1>9, <3>1
    <3>2. CASE i # 1
      <4>1. i - 1 \in 1..n
        BY <3>2
      <4>. QED
        BY <1>7, <1>9, <3>2, <4>1
    <3>. QED
      BY <3>1, <3>2
  <2>. QED
    BY <1>1, <1>9, <2>1
<1>11. PICK f : f = CHOOSE e : Flat(e)
  OBVIOUS
<1>12. Flat(f)
  <2>. HIDE DEF Flat
  <2>. QED
    BY <1>10, <1>11
<1>13. FlattenSeq(seqs) = IF n = 0 THEN seqs ELSE f[n]
  BY <1>1, <1>11 DEF FlattenSeq
<1>14. ASSUME NEW i \in 1..n
       PROVE  f[i] = IF i = 1 THEN seqs[i] ELSE f[i - 1] \o seqs[i]
  BY <1>1, <1>12
<1>15. n # 0 => f[n] = h[n]
  <2>1. PICK T : T = {k \in 0..n : k # 0 => f[k] = h[k]}
    OBVIOUS
  <2>2. 0 \in T
    BY <2>1
  <2>3. ASSUME NEW k \in 0..(n - 1), k \in T PROVE k + 1 \in T
    <3>1. k + 1 \in 1..n /\ (k + 1) - 1 = k /\ k + 1 \in 0..n
      OBVIOUS
    <3>2. CASE k = 0
      BY <1>8, <1>14, <2>1, <3>1, <3>2
    <3>3. CASE k # 0
      <4>1. f[k + 1] = f[k] \o seqs[k + 1]
        <5>1. PICK i \in 1..n : i = k + 1 /\ i - 1 = k /\ i # 1
          BY <3>1, <3>3
        <5>2. f[i] = f[i - 1] \o seqs[i]
          BY <1>14, <5>1
        <5>. QED
          BY <5>1, <5>2
      <4>2. h[k + 1] = h[k] \o seqs[k + 1]
        BY <1>7, <3>1
      <4>3. f[k] = h[k]
        BY <2>1, <2>3, <3>3
      <4>. QED
        BY <2>1, <3>1, <4>1, <4>2, <4>3
    <3>. QED
      BY <3>2, <3>3
  <2>4. n \in T
    BY <2>2, <2>3, InductiveUpTo
  <2>. QED
    BY <2>1, <2>4
<1>16. FlattenSeq(seqs) = h[n]
  <2>1. CASE n = 0
    <3>1. seqs = << >>
      BY <2>1
    <3>. QED
      BY <1>6, <1>13, <2>1, <3>1
  <2>2. CASE n # 0
    BY <1>13, <1>15, <2>2
  <2>. QED
    BY <2>1, <2>2
<1>17. IsFlattening(h, seqs, n)
  BY <1>6, <1>7 DEF IsFlattening
<1>. QED
  BY <1>6, <1>16, <1>17

-----------------------------------------------------------------------------
(* Ways, and the group path at the end of one.                             *)

Branch == [child : Nat, node : Nodes]

(* Only the last node of a way may be an entry.                            *)
Routes == {w \in Seq(Branch) : /\ Len(w) # 0
                              /\ \A k \in 1..(Len(w) - 1) : w[k].node.kind # "entry"}

Names(w) == [k \in 1..(Len(w) - 1) |-> w[k].node.name]

Trimmed(names, empty) ==
    LET named == {k \in DOMAIN names : names[k] # empty}
    IN  IF named = {} THEN << >> ELSE SubSeq(names, Min(named), Len(names))

(* The group at the end of a way that begins below the group path.         *)
GroupFrom(path, w) == IF path = << >> THEN Trimmed(Names(w), "") ELSE path \o Names(w)

LEMMA GroupFromTop == \A w : GroupFrom(<< >>, w) = GroupOf(w)
  BY DEF GroupFrom, GroupOf, Trimmed, Names

LEMMA RouteIs ==
    ASSUME NEW w \in Routes
    PROVE  /\ w \in Seq(Branch) /\ Len(w) \in Nat \ {0} /\ DOMAIN w = 1..Len(w)
           /\ \A k \in 1..Len(w) : w[k] \in Branch /\ w[k].child \in Nat /\ w[k].node \in Nodes
           /\ Names(w) \in Seq(STRING) /\ Len(Names(w)) = Len(w) - 1
<1>1. w \in Seq(Branch) /\ Len(w) \in Nat \ {0} /\ DOMAIN w = 1..Len(w)
  BY DEF Routes
<1>2. ASSUME NEW k \in 1..Len(w)
      PROVE  w[k] \in Branch /\ w[k].child \in Nat /\ w[k].node \in Nodes
  <2>1. w[k] \in Branch
    BY <1>1
  <2>. QED
    BY <2>1 DEF Branch
<1>3. PICK n : n = Len(w) - 1 /\ n \in Nat
  <2>1. PICK l \in Nat \ {0} : l = Len(w)
    BY <1>1
  <2>. QED
    BY <2>1
<1>4. \A k \in 1..n : w[k].node.name \in STRING
  <2>1. ASSUME NEW k \in 1..n PROVE w[k].node.name \in STRING
    <3>1. w[k].node \in Nodes /\ w[k].node.kind # "entry"
      BY <1>1, <1>2, <1>3 DEF Routes
    <3>. QED
      BY <3>1, GroupIs
  <2>. QED
    BY <2>1
<1>5. Names(w) = [k \in 1..n |-> w[k].node.name]
  BY <1>3 DEF Names
<1>6. Names(w) \in Seq(STRING) /\ Len(Names(w)) = n
  <2>1. PICK S, v : S = STRING /\ v = Names(w)
    OBVIOUS
  <2>2. v \in [1..n -> S]
    BY <1>4, <1>5, <2>1
  <2>3. v \in Seq(S) /\ Len(v) = n
    BY <1>3, <2>2
  <2>. QED
    BY <2>1, <2>3
<1>. QED
  BY <1>1, <1>2, <1>3, <1>6

LEMMA TrimmedNamed ==
    ASSUME NEW S, NEW empty, NEW name \in S, NEW rest \in Seq(S), name # empty
    PROVE  Trimmed(<<name>> \o rest, empty) = <<name>> \o rest
<1>1. PICK names : names = <<name>> \o rest
  OBVIOUS
<1>2. names \in Seq(S) /\ Len(names) = 1 + Len(rest) /\ names[1] = name
  <2>1. <<name>> \in Seq(S) /\ Len(<<name>>) = 1 /\ <<name>>[1] = name
    BY Singleton
  <2>2. Len(rest) \in Nat
    OBVIOUS
  <2>3. 1 \in 1..(Len(<<name>>) + Len(rest)) /\ 1 <= Len(<<name>>)
    BY <2>1, <2>2
  <2>. QED
    BY <1>1, <2>1, <2>3, ConcatProperties
<1>3. PICK named : named = {k \in DOMAIN names : names[k] # empty}
  OBVIOUS
<1>4. named \in SUBSET Nat /\ 1 \in named /\ \A k \in named : 1 <= k
  <2>1. DOMAIN names = 1..Len(names) /\ Len(names) \in Nat /\ 1 \in 1..Len(names)
    BY <1>2
  <2>. QED
    BY <1>2, <1>3, <2>1
<1>5. Min(named) = 1
  <2>1. PICK a : a = Min(named)
    OBVIOUS
  <2>2. a \in named /\ a <= 1
    BY <1>4, <2>1, MinIs
  <2>3. a \in Nat /\ 1 <= a
    BY <1>4, <2>2
  <2>. QED
    BY <2>1, <2>2, <2>3
<1>6. Trimmed(names, empty) = SubSeq(names, 1, Len(names))
  BY <1>3, <1>4, <1>5 DEF Trimmed
<1>. QED
  BY <1>1, <1>2, <1>6, SubSeqFull

LEMMA TrimmedUnnamed ==
    ASSUME NEW S, NEW empty, NEW name \in S, NEW rest \in Seq(S), name = empty
    PROVE  Trimmed(<<name>> \o rest, empty) = Trimmed(rest, empty)
<1>1. PICK names, n : names = <<name>> \o rest /\ n = Len(rest)
  OBVIOUS
<1>2. n \in Nat /\ DOMAIN rest = 1..n
  BY <1>1
<1>3. /\ names \in Seq(S) /\ Len(names) = n + 1 /\ DOMAIN names = 1..(n + 1) /\ names[1] = name
      /\ \A k \in 1..n : names[k + 1] = rest[k]
  <2>1. <<name>> \in Seq(S) /\ Len(<<name>>) = 1 /\ <<name>>[1] = name
    BY Singleton
  <2>2. /\ names \in Seq(S) /\ Len(names) = 1 + n
        /\ \A i \in 1..(1 + n) : names[i] = IF i <= 1 THEN <<name>>[i] ELSE rest[i - 1]
    BY <1>1, <2>1, ConcatProperties
  <2>3. \A k \in 1..n : names[k + 1] = rest[k]
    <3>1. ASSUME NEW k \in 1..n PROVE names[k + 1] = rest[k]
      <4>1. PICK i : i = k + 1
        OBVIOUS
      <4>2. i \in 1..(1 + n) /\ ~(i <= 1) /\ i - 1 = k
        BY <1>2, <4>1
      <4>. QED
        BY <2>2, <4>1, <4>2
    <3>. QED
      BY <3>1
  <2>4. 1 \in 1..(1 + n) /\ 1 <= 1
    BY <1>2
  <2>5. names[1] = name
    BY <2>1, <2>2, <2>4
  <2>6. DOMAIN names = 1..Len(names) /\ Len(names) = n + 1
    BY <1>2, <2>2
  <2>. QED
    BY <2>2, <2>3, <2>5, <2>6
<1>4. PICK named, later : /\ named = {k \in DOMAIN rest : rest[k] # empty}
                          /\ later = {k \in DOMAIN names : names[k] # empty}
  OBVIOUS
<1>5. named \in SUBSET (1..n) /\ named \in SUBSET Nat /\ later \in SUBSET Nat
  BY <1>2, <1>3, <1>4
<1>6. \A k \in named : k + 1 \in later
  <2>1. ASSUME NEW k \in named PROVE k + 1 \in later
    <3>1. k \in 1..n /\ rest[k] # empty /\ k + 1 \in 1..(n + 1)
      BY <1>2, <1>4, <1>5
    <3>. QED
      BY <1>3, <1>4, <3>1
  <2>. QED
    BY <2>1
<1>7. \A i \in later : i - 1 \in named
  <2>1. ASSUME NEW i \in later PROVE i - 1 \in named
    <3>1. i \in 1..(n + 1) /\ names[i] # empty /\ i # 1
      BY <1>3, <1>4
    <3>2. PICK k \in 1..n : k = i - 1 /\ k + 1 = i
      BY <1>2, <3>1
    <3>. QED
      BY <1>2, <1>3, <1>4, <3>1, <3>2
  <2>. QED
    BY <2>1
<1>8. Trimmed(names, empty) = IF later = {} THEN << >> ELSE SubSeq(names, Min(later), n + 1)
  BY <1>3, <1>4 DEF Trimmed
<1>9. Trimmed(rest, empty) = IF named = {} THEN << >> ELSE SubSeq(rest, Min(named), n)
  BY <1>1, <1>4 DEF Trimmed
<1>10. CASE named = {}
  <2>1. later = {}
    BY <1>7, <1>10
  <2>. QED
    BY <1>1, <1>8, <1>9, <1>10, <2>1
<1>11. CASE named # {}
  <2>1. later # {}
    BY <1>6, <1>11
  <2>2. PICK a, b : a = Min(named) /\ b = Min(later)
    OBVIOUS
  <2>3. a \in named /\ \A k \in named : a <= k
    BY <1>5, <1>11, <2>2, MinIs
  <2>4. b \in later /\ \A k \in later : b <= k
    BY <1>5, <2>1, <2>2, MinIs
  <2>5. a \in 1..n /\ b \in Nat /\ b = a + 1
    <3>1. b <= a + 1 /\ a <= b - 1 /\ a \in 1..n /\ b \in Nat
      BY <1>5, <1>6, <1>7, <2>3, <2>4
    <3>. QED
      BY <3>1
  <2>6. PICK s, t : s = SubSeq(names, b, n + 1) /\ t = SubSeq(rest, a, n)
    OBVIOUS
  <2>7. /\ t \in Seq(S) /\ Len(t) = n - a + 1
        /\ \A i \in 1..(n - a + 1) : t[i] = rest[a + i - 1]
    <3>1. \A i \in a..n : rest[i] \in S
      BY <1>2, <2>5
    <3>2. a \in Int /\ n \in Int /\ a <= n
      BY <1>2, <2>5
    <3>. QED
      BY <2>6, <3>1, <3>2, SubSeqProperties
  <2>8. /\ s \in Seq(S) /\ Len(s) = n - a + 1
        /\ \A i \in 1..(n - a + 1) : s[i] = names[a + i]
    <3>1. \A i \in b..(n + 1) : names[i] \in S
      BY <1>2, <1>3, <2>5
    <3>2. PICK m : m = n + 1
      OBVIOUS
    <3>3. b \in Int /\ m \in Int /\ b <= m /\ m - b + 1 = n - a + 1
      BY <1>2, <2>5, <3>2
    <3>4. /\ s \in Seq(S) /\ Len(s) = m - b + 1
          /\ \A i \in 1..(m - b + 1) : s[i] = names[b + i - 1]
      BY <2>6, <3>1, <3>2, <3>3, SubSeqProperties
    <3>5. \A i \in 1..(n - a + 1) : b + i - 1 = a + i
      BY <2>5
    <3>. QED
      BY <3>3, <3>4, <3>5
  <2>9. ASSUME NEW i \in 1..Len(s) PROVE s[i] = t[i]
    <3>1. PICK k : k = a + i - 1
      OBVIOUS
    <3>2. k \in 1..n /\ k + 1 = a + i /\ i \in 1..(n - a + 1)
      BY <1>2, <2>5, <2>8, <3>1
    <3>. QED
      BY <1>3, <2>7, <2>8, <3>1, <3>2
  <2>10. s = t
    BY <2>7, <2>8, <2>9, SeqEqual
  <2>. QED
    BY <1>1, <1>8, <1>9, <1>11, <2>1, <2>2, <2>6, <2>10
<1>. QED
  BY <1>10, <1>11

(* A step further down: walk_node's path and the names agree.              *)
LEMMA PathDown ==
    ASSUME NEW path \in Seq(STRING), NEW b \in Branch, b.node.kind # "entry", NEW w \in Routes
    PROVE  /\ <<b>> \o w \in Routes /\ Len(<<b>> \o w) = Len(w) + 1
           /\ (<<b>> \o w)[1] = b /\ \A k \in 1..Len(w) : (<<b>> \o w)[k + 1] = w[k]
           /\ GroupFrom(path, <<b>> \o w) = GroupFrom(ChildPath(path, b.node.name), w)
<1>1. PICK v, n, name : v = <<b>> \o w /\ n = Len(w) /\ name = b.node.name
  OBVIOUS
<1>2. /\ w \in Seq(Branch) /\ n \in Nat \ {0}
      /\ Names(w) \in Seq(STRING) /\ Len(Names(w)) = n - 1
  BY <1>1, RouteIs
<1>3. b.node \in Nodes /\ name \in STRING
  <2>1. b.node \in Nodes
    BY DEF Branch
  <2>. QED
    BY <1>1, <2>1, GroupIs
<1>4. v \in Seq(Branch) /\ Len(v) = n + 1 /\ v[1] = b /\ \A k \in 1..n : v[k + 1] = w[k]
  <2>1. <<b>> \in Seq(Branch) /\ Len(<<b>>) = 1 /\ <<b>>[1] = b
    BY Singleton
  <2>2. /\ v \in Seq(Branch) /\ Len(v) = 1 + n
        /\ \A i \in 1..(1 + n) : v[i] = IF i <= 1 THEN <<b>>[i] ELSE w[i - 1]
    BY <1>1, <1>2, <2>1, ConcatProperties
  <2>3. \A k \in 1..n : v[k + 1] = w[k]
    <3>1. ASSUME NEW k \in 1..n PROVE v[k + 1] = w[k]
      <4>1. PICK i : i = k + 1
        OBVIOUS
      <4>2. i \in 1..(1 + n) /\ ~(i <= 1) /\ i - 1 = k
        BY <1>2, <4>1
      <4>. QED
        BY <2>2, <4>1, <4>2
    <3>. QED
      BY <3>1
  <2>4. 1 \in 1..(1 + n) /\ 1 <= 1 /\ 1 + n = n + 1
    BY <1>2
  <2>5. v[1] = b
    BY <2>1, <2>2, <2>4
  <2>. QED
    BY <2>2, <2>3, <2>4, <2>5
<1>5. v \in Routes
  <2>1. ASSUME NEW k \in 1..n PROVE v[k].node.kind # "entry"
    <3>1. CASE k = 1
      BY <1>4, <3>1
    <3>2. CASE k # 1
      <4>1. PICK i : i = k - 1
        OBVIOUS
      <4>2. i \in 1..n /\ i \in 1..(n - 1) /\ i + 1 = k
        BY <1>2, <3>2, <4>1
      <4>3. v[k] = w[i]
        BY <1>4, <4>2
      <4>4. w[i].node.kind # "entry"
        BY <1>1, <4>2 DEF Routes
      <4>. QED
        BY <4>3, <4>4
    <3>. QED
      BY <3>1, <3>2
  <2>2. Len(v) # 0 /\ Len(v) - 1 = n
    BY <1>2, <1>4
  <2>. QED
    BY <1>4, <2>1, <2>2 DEF Routes
<1>6. Names(v) = <<name>> \o Names(w)
  <2>1. PICK S, s, t, u : S = STRING /\ s = Names(v) /\ t = Names(w) /\ u = <<name>> \o t
    OBVIOUS
  <2>2. s \in Seq(S) /\ Len(s) = n /\ t \in Seq(S) /\ Len(t) = n - 1
    <3>1. Len(v) - 1 = n
      BY <1>2, <1>4
    <3>. QED
      BY <1>2, <1>5, <2>1, <3>1, RouteIs
  <2>3. /\ u \in Seq(S) /\ Len(u) = n
        /\ \A i \in 1..n : u[i] = IF i <= 1 THEN name ELSE t[i - 1]
    <3>1. name \in S
      BY <1>3, <2>1
    <3>2. <<name>> \in Seq(S) /\ Len(<<name>>) = 1 /\ <<name>>[1] = name
      BY <3>1, Singleton
    <3>3. /\ u \in Seq(S) /\ Len(u) = 1 + (n - 1)
          /\ \A i \in 1..(1 + (n - 1)) : u[i] = IF i <= 1 THEN <<name>>[i] ELSE t[i - 1]
      BY <2>1, <2>2, <3>2, ConcatProperties
    <3>4. 1 + (n - 1) = n /\ \A i \in 1..n : i <= 1 => i = 1
      BY <1>2
    <3>. QED
      BY <3>2, <3>3, <3>4
  <2>4. ASSUME NEW i \in 1..n PROVE s[i] = u[i]
    <3>1. s[i] = v[i].node.name
      <4>1. Len(v) - 1 = n
        BY <1>2, <1>4
      <4>. QED
        BY <2>1, <4>1 DEF Names
    <3>2. CASE i = 1
      BY <1>1, <1>4, <2>3, <3>1, <3>2
    <3>3. CASE i # 1
      <4>1. PICK k : k = i - 1
        OBVIOUS
      <4>2. k \in 1..n /\ k \in 1..(n - 1) /\ k + 1 = i /\ ~(i <= 1)
        BY <1>2, <3>3, <4>1
      <4>3. v[i] = w[k]
        BY <1>4, <4>2
      <4>4. t[k] = w[k].node.name
        BY <1>1, <2>1, <4>2 DEF Names
      <4>. QED
        BY <2>3, <3>1, <4>1, <4>2, <4>3, <4>4
    <3>. QED
      BY <3>2, <3>3
  <2>5. s = u
    BY <2>2, <2>3, <2>4, SeqEqual
  <2>. QED
    BY <2>1, <2>5
<1>7. GroupFrom(path, v) = GroupFrom(ChildPath(path, name), w)
  <2>1. PICK S, t : S = STRING /\ t = Names(w)
    OBVIOUS
  <2>2. path \in Seq(S) /\ name \in S /\ t \in Seq(S) /\ <<name>> \in Seq(S)
    <3>1. name \in S
      BY <1>3, <2>1
    <3>. QED
      BY <1>2, <2>1, <3>1, Singleton
  <2>3. CASE path # << >>
    <3>1. PICK p : p = path \o <<name>>
      OBVIOUS
    <3>2. p # << >> /\ ChildPath(path, name) = p
      <4>1. p # << >>
        <5>1. p = << >> => <<name>> = << >>
          BY <2>2, <3>1, ConcatEqualIffEmpty
        <5>. QED
          BY <5>1
      <4>. QED
        BY <2>3, <3>1, <4>1 DEF ChildPath
    <3>3. GroupFrom(p, w) = p \o t
      BY <2>1, <3>2 DEF GroupFrom
    <3>4. GroupFrom(path, v) = path \o (<<name>> \o t)
      BY <1>6, <2>1, <2>3 DEF GroupFrom
    <3>5. (path \o <<name>>) \o t = path \o (<<name>> \o t)
      BY <2>2, ConcatAssociative
    <3>. QED
      BY <3>1, <3>2, <3>3, <3>4, <3>5
  <2>4. CASE path = << >> /\ name # ""
    <3>1. PICK p : p = <<name>>
      OBVIOUS
    <3>2. p # << >> /\ ChildPath(path, name) = p
      BY <2>4, <3>1 DEF ChildPath
    <3>3. GroupFrom(p, w) = p \o t
      BY <2>1, <3>2 DEF GroupFrom
    <3>4. GroupFrom(path, v) = Trimmed(<<name>> \o t, "")
      BY <1>6, <2>1, <2>4 DEF GroupFrom
    <3>5. PICK empty : empty = ""
      OBVIOUS
    <3>6. name # empty
      BY <2>4, <3>5
    <3>7. Trimmed(<<name>> \o t, empty) = <<name>> \o t
      BY <2>2, <3>6, TrimmedNamed
    <3>. QED
      BY <3>1, <3>2, <3>3, <3>4, <3>5, <3>7
  <2>5. CASE path = << >> /\ name = ""
    <3>1. ChildPath(path, name) = << >>
      BY <2>5 DEF ChildPath
    <3>2. GroupFrom(<< >>, w) = Trimmed(t, "")
      BY <2>1 DEF GroupFrom
    <3>3. GroupFrom(path, v) = Trimmed(<<name>> \o t, "")
      BY <1>6, <2>1, <2>5 DEF GroupFrom
    <3>4. PICK empty : empty = ""
      OBVIOUS
    <3>5. name = empty
      BY <2>5, <3>4
    <3>6. Trimmed(<<name>> \o t, empty) = Trimmed(t, empty)
      BY <2>2, <3>5, TrimmedUnnamed
    <3>. QED
      BY <3>1, <3>2, <3>3, <3>4, <3>6
  <2>. QED
    BY <2>3, <2>4, <2>5
<1>. QED
  BY <1>1, <1>4, <1>5, <1>7

-----------------------------------------------------------------------------
(* A list of entries that enumerates ways in their order.                  *)

LEMMA EarlierStrict ==
    ASSUME NEW v \in Routes, NEW w \in Routes, Earlier(v, w)
    PROVE  ~Earlier(w, v) /\ v # w
<1>1. PICK k \in DOMAIN v \cap DOMAIN w :
          v[k].child < w[k].child /\ \A i \in 1..(k - 1) : v[i] = w[i]
  BY DEF Earlier
<1>2. k \in Nat /\ v[k].child \in Nat /\ w[k].child \in Nat
  <2>1. k \in 1..Len(v) /\ k \in 1..Len(w) /\ Len(v) \in Nat
    BY <1>1, RouteIs
  <2>. QED
    BY <2>1, RouteIs
<1>3. v # w
  BY <1>1, <1>2
<1>4. ASSUME Earlier(w, v) PROVE FALSE
  <2>1. PICK l \in DOMAIN w \cap DOMAIN v :
            w[l].child < v[l].child /\ \A i \in 1..(l - 1) : w[i] = v[i]
    BY <1>4 DEF Earlier
  <2>2. l \in 1..Len(v) /\ l \in 1..Len(w) /\ Len(v) \in Nat
    BY <2>1, RouteIs
  <2>3. l \in Nat /\ l >= 1 /\ v[l].child \in Nat /\ w[l].child \in Nat
    BY <2>2, RouteIs
  <2>4. k >= 1
    BY <1>1, RouteIs
  <2>5. CASE k < l
    <3>1. k \in 1..(l - 1)
      BY <1>2, <2>3, <2>4, <2>5
    <3>. QED
      BY <1>1, <1>2, <2>1, <3>1
  <2>6. CASE l < k
    <3>1. l \in 1..(k - 1)
      BY <1>2, <2>3, <2>6
    <3>. QED
      BY <1>1, <2>1, <2>3, <3>1
  <2>7. CASE k = l
    BY <1>1, <1>2, <2>1, <2>7
  <2>. QED
    BY <1>2, <2>3, <2>5, <2>6, <2>7
<1>. QED
  BY <1>3, <1>4

(* What becomes of the entry at the end of a way.                          *)
Placed(path, w) == [uuid |-> w[Len(w)].node.uuid, group |-> GroupFrom(path, w)]

Loaded == {[uuid |-> node.uuid, group |-> path] : node \in Nodes, path \in Seq(STRING)}

(* at[i] is the way to the entry es[i], and V are all the ways.            *)
Enumerates(at, es, V, path) ==
    /\ V \subseteq Routes
    /\ es \in Seq(Loaded) /\ at \in [1..Len(es) -> V]
    /\ \A w \in V : \E i \in 1..Len(es) : at[i] = w
    /\ \A i, j \in 1..Len(es) : i < j => Earlier(at[i], at[j])
    /\ \A i \in 1..Len(es) : es[i] = Placed(path, at[i])

LEMMA EnumeratesNone == \A path : Enumerates(<< >>, << >>, {}, path)
<1>1. << >> \in Seq(Loaded) /\ Len(<< >>) = 0 /\ 1..0 = {}
  OBVIOUS
<1>2. << >> \in [{} -> {}]
  OBVIOUS
<1>. QED
  BY <1>1, <1>2 DEF Enumerates

LEMMA EnumeratesOne ==
    ASSUME NEW path \in Seq(STRING), NEW b \in Branch
    PROVE  Enumerates(<< <<b>> >>, <<[uuid |-> b.node.uuid, group |-> path]>>, {<<b>>}, path)
<1>1. PICK w, e : w = <<b>> /\ e = [uuid |-> b.node.uuid, group |-> path]
  OBVIOUS
<1>2. w \in Seq(Branch) /\ Len(w) = 1 /\ w[1] = b
  BY <1>1, Singleton
<1>3. w \in Routes /\ {w} \subseteq Routes
  <2>1. Len(w) # 0 /\ 1..(Len(w) - 1) = {}
    BY <1>2
  <2>. QED
    BY <1>2, <2>1 DEF Routes
<1>4. e \in Loaded
  <2>1. b.node \in Nodes
    BY DEF Branch
  <2>. QED
    BY <1>1, <2>1 DEF Loaded
<1>5. <<e>> \in Seq(Loaded) /\ Len(<<e>>) = 1 /\ <<e>>[1] = e
  BY <1>4, Singleton
<1>6. <<w>> \in [1..1 -> {w}] /\ <<w>>[1] = w
  OBVIOUS
<1>7. GroupFrom(path, w) = path
  <2>1. Names(w) = << >>
    <3>1. 1..(Len(w) - 1) = {}
      BY <1>2
    <3>2. Len(w) - 1 = 0
      BY <1>2
    <3>3. Names(w) \in Seq(STRING) /\ Len(Names(w)) = 0
      BY <1>3, <3>2, RouteIs
    <3>. QED
      BY <3>3, EmptySeq
  <2>2. Trimmed(<< >>, "") = << >>
    <3>1. PICK e0 : e0 = << >>
      OBVIOUS
    <3>2. DOMAIN e0 = {}
      BY <3>1
    <3>3. {k \in DOMAIN e0 : e0[k] # ""} = {}
      BY <3>2
    <3>4. Trimmed(e0, "") = << >>
      BY <3>3 DEF Trimmed
    <3>. QED
      BY <3>1, <3>4
  <2>3. path \o << >> = path
    BY ConcatEmptySeq
  <2>. QED
    BY <2>1, <2>2, <2>3 DEF GroupFrom
<1>8. e = Placed(path, w)
  BY <1>1, <1>2, <1>7 DEF Placed
<1>9. /\ <<e>> \in Seq(Loaded) /\ <<w>> \in [1..Len(<<e>>) -> {w}]
      /\ \A v \in {w} : \E i \in 1..Len(<<e>>) : <<w>>[i] = v
      /\ \A i, j \in 1..Len(<<e>>) : ~(i < j)
      /\ \A i \in 1..Len(<<e>>) : <<e>>[i] = Placed(path, <<w>>[i])
  BY <1>5, <1>6, <1>8
<1>10. Enumerates(<<w>>, <<e>>, {w}, path)
  BY <1>3, <1>9 DEF Enumerates
<1>. QED
  BY <1>1, <1>10

LEMMA EnumeratesBoth ==
    ASSUME NEW path, NEW V, NEW W, NEW d, NEW e, NEW at, NEW bt,
           Enumerates(at, d, V, path), Enumerates(bt, e, W, path),
           \A v \in V, w \in W : Earlier(v, w)
    PROVE  \E ct : Enumerates(ct, d \o e, V \cup W, path)
<1>1. PICK m, n, es : m = Len(d) /\ n = Len(e) /\ es = d \o e
  OBVIOUS
<1>2. d \in Seq(Loaded) /\ e \in Seq(Loaded) /\ m \in Nat /\ n \in Nat
  BY <1>1 DEF Enumerates
<1>3. /\ es \in Seq(Loaded) /\ Len(es) = m + n
      /\ \A i \in 1..(m + n) : es[i] = IF i <= m THEN d[i] ELSE e[i - m]
  BY <1>1, <1>2, ConcatProperties
<1>4. PICK ct : ct = [i \in 1..(m + n) |-> IF i <= m THEN at[i] ELSE bt[i - m]]
  OBVIOUS
<1>5. /\ at \in [1..m -> V] /\ bt \in [1..n -> W]
      /\ \A v \in V : \E i \in 1..m : at[i] = v
      /\ \A w \in W : \E i \in 1..n : bt[i] = w
      /\ \A i, j \in 1..m : i < j => Earlier(at[i], at[j])
      /\ \A i, j \in 1..n : i < j => Earlier(bt[i], bt[j])
      /\ \A i \in 1..m : d[i] = Placed(path, at[i])
      /\ \A i \in 1..n : e[i] = Placed(path, bt[i])
      /\ V \subseteq Routes /\ W \subseteq Routes
  BY <1>1 DEF Enumerates
<1>6. \A i \in 1..m : i \in 1..(m + n) /\ ct[i] = at[i] /\ es[i] = d[i]
  <2>1. \A i \in 1..m : i \in 1..(m + n) /\ i <= m
    BY <1>2
  <2>. QED
    BY <1>3, <1>4, <2>1
<1>7. \A j \in 1..n : j + m \in 1..(m + n) /\ ct[j + m] = bt[j] /\ es[j + m] = e[j]
  <2>1. ASSUME NEW j \in 1..n
        PROVE  j + m \in 1..(m + n) /\ ct[j + m] = bt[j] /\ es[j + m] = e[j]
    <3>1. PICK i : i = j + m
      OBVIOUS
    <3>2. i \in 1..(m + n) /\ ~(i <= m) /\ i - m = j
      BY <1>2, <3>1
    <3>. QED
      BY <1>3, <1>4, <3>1, <3>2
  <2>. QED
    BY <2>1
<1>8. ASSUME NEW i \in 1..(m + n)
      PROVE  i \in 1..m \/ \E j \in 1..n : i = j + m
  <2>1. i \in 1..m \/ i - m \in 1..n
    BY <1>2
  <2>2. i = (i - m) + m
    BY <1>2
  <2>. QED
    BY <2>1, <2>2
<1>9. ASSUME NEW i \in 1..(m + n) PROVE ct[i] \in V \cup W /\ es[i] = Placed(path, ct[i])
  <2>1. CASE i \in 1..m
    BY <1>5, <1>6, <2>1
  <2>2. CASE \E j \in 1..n : i = j + m
    BY <1>5, <1>7, <2>2
  <2>. QED
    BY <1>8, <2>1, <2>2
<1>10. ct \in [1..(m + n) -> V \cup W]
  <2>1. ct = [i \in 1..(m + n) |-> ct[i]]
    BY <1>4
  <2>2. \A i \in 1..(m + n) : ct[i] \in V \cup W
    BY <1>9
  <2>. QED
    BY <2>1, <2>2
<1>11. ASSUME NEW w \in V \cup W PROVE \E i \in 1..(m + n) : ct[i] = w
  <2>1. CASE w \in V
    BY <1>5, <1>6, <2>1
  <2>2. CASE w \in W
    BY <1>5, <1>7, <2>2
  <2>. QED
    BY <2>1, <2>2
<1>12. ASSUME NEW i \in 1..(m + n), NEW j \in 1..(m + n), i < j
       PROVE  Earlier(ct[i], ct[j])
  <2>1. CASE i \in 1..m /\ j \in 1..m
    BY <1>5, <1>6, <1>12, <2>1
  <2>2. CASE i \in 1..m /\ \E l \in 1..n : j = l + m
    <3>1. ct[i] \in V /\ ct[j] \in W
      BY <1>5, <1>6, <1>7, <2>2
    <3>. QED
      BY <3>1
  <2>3. CASE (\E k \in 1..n : i = k + m) /\ \E l \in 1..n : j = l + m
    <3>1. PICK k \in 1..n, l \in 1..n : i = k + m /\ j = l + m
      BY <2>3
    <3>2. k < l
      BY <1>2, <1>12, <3>1
    <3>. QED
      BY <1>5, <1>7, <3>1, <3>2
  <2>4. CASE (\E k \in 1..n : i = k + m) /\ j \in 1..m
    BY <1>2, <1>12, <2>4
  <2>. QED
    BY <1>8, <2>1, <2>2, <2>3, <2>4
<1>13. V \cup W \subseteq Routes
  BY <1>5
<1>14. Enumerates(ct, es, V \cup W, path)
  BY <1>3, <1>9, <1>10, <1>11, <1>12, <1>13 DEF Enumerates
<1>. QED
  BY <1>1, <1>14

(* The ways through a group are those below it with one step before.       *)
LEMMA EnumeratesDeeper ==
    ASSUME NEW path \in Seq(STRING), NEW b \in Branch, b.node.kind # "entry",
           NEW V, NEW es, NEW at,
           Enumerates(at, es, V, ChildPath(path, b.node.name))
    PROVE  \E bt : Enumerates(bt, es, {<<b>> \o w : w \in V}, path)
<1>1. PICK n, low : n = Len(es) /\ low = ChildPath(path, b.node.name)
  OBVIOUS
<1>2. /\ V \subseteq Routes /\ es \in Seq(Loaded) /\ at \in [1..n -> V]
      /\ \A w \in V : \E i \in 1..n : at[i] = w
      /\ \A i, j \in 1..n : i < j => Earlier(at[i], at[j])
      /\ \A i \in 1..n : es[i] = Placed(low, at[i])
  BY <1>1 DEF Enumerates
<1>3. PICK down : down = [w \in V |-> <<b>> \o w]
  OBVIOUS
<1>4. PICK U : U = {<<b>> \o w : w \in V}
  OBVIOUS
<1>5. ASSUME NEW w \in V
      PROVE  /\ down[w] \in U /\ down[w] \in Routes /\ Len(down[w]) = Len(w) + 1
             /\ down[w][1] = b /\ \A k \in 1..Len(w) : down[w][k + 1] = w[k]
             /\ GroupFrom(path, down[w]) = GroupFrom(low, w)
             /\ Len(w) \in Nat \ {0} /\ w \in Routes
  <2>1. w \in Routes /\ down[w] = <<b>> \o w /\ down[w] \in U
    BY <1>2, <1>3, <1>4
  <2>2. PICK u : u = <<b>> \o w
    OBVIOUS
  <2>3. /\ u \in Routes /\ Len(u) = Len(w) + 1
        /\ u[1] = b /\ \A k \in 1..Len(w) : u[k + 1] = w[k]
        /\ GroupFrom(path, u) = GroupFrom(low, w)
    BY <1>1, <2>1, <2>2, PathDown
  <2>4. Len(w) \in Nat \ {0}
    BY <2>1, RouteIs
  <2>. QED
    BY <2>1, <2>2, <2>3, <2>4
<1>6. ASSUME NEW w \in V PROVE Placed(path, down[w]) = Placed(low, w)
  <2>1. PICK k : k = Len(w)
    OBVIOUS
  <2>2. k \in 1..Len(w) /\ down[w][k + 1] = w[k] /\ Len(down[w]) = k + 1
    BY <1>5, <2>1
  <2>3. down[w][Len(down[w])] = w[Len(w)]
    BY <2>1, <2>2
  <2>. QED
    BY <1>5, <2>3 DEF Placed
<1>7. ASSUME NEW v \in V, NEW w \in V, Earlier(v, w) PROVE Earlier(down[v], down[w])
  <2>1. PICK k \in DOMAIN v \cap DOMAIN w :
            v[k].child < w[k].child /\ \A i \in 1..(k - 1) : v[i] = w[i]
    BY <1>7 DEF Earlier
  <2>2. k \in 1..Len(v) /\ k \in 1..Len(w) /\ Len(v) \in Nat /\ Len(w) \in Nat
    BY <1>5, <2>1, RouteIs
  <2>3. PICK l : l = k + 1
    OBVIOUS
  <2>4. /\ l \in 1..Len(down[v]) /\ l \in 1..Len(down[w])
        /\ down[v][l] = v[k] /\ down[w][l] = w[k]
    <3>1. l \in 1..(Len(v) + 1) /\ l \in 1..(Len(w) + 1)
      BY <2>2, <2>3
    <3>. QED
      BY <1>5, <2>2, <2>3, <3>1
  <2>5. ASSUME NEW i \in 1..(l - 1) PROVE down[v][i] = down[w][i]
    <3>1. CASE i = 1
      BY <1>5, <3>1
    <3>2. CASE i # 1
      <4>1. PICK j : j = i - 1
        OBVIOUS
      <4>2. j \in 1..(k - 1) /\ j \in 1..Len(v) /\ j \in 1..Len(w) /\ j + 1 = i
        BY <2>2, <2>3, <3>2, <4>1
      <4>. QED
        BY <1>5, <2>1, <4>2
    <3>. QED
      BY <3>1, <3>2
  <2>6. l \in DOMAIN down[v] \cap DOMAIN down[w]
    BY <1>5, <2>4, RouteIs
  <2>. QED
    BY <2>1, <2>4, <2>5, <2>6 DEF Earlier
<1>8. PICK bt : bt = [i \in 1..n |-> down[at[i]]]
  OBVIOUS
<1>9. bt \in [1..n -> U] /\ \A i \in 1..n : at[i] \in V /\ bt[i] = down[at[i]]
  BY <1>2, <1>5, <1>8
<1>10. ASSUME NEW u \in U PROVE \E i \in 1..n : bt[i] = u
  <2>1. PICK w \in V : u = <<b>> \o w
    BY <1>4
  <2>2. u = down[w]
    BY <1>3, <2>1
  <2>. QED
    BY <1>2, <1>9, <2>2
<1>11. U \subseteq Routes
  <2>1. ASSUME NEW u \in U PROVE u \in Routes
    <3>1. PICK w \in V : u = <<b>> \o w
      BY <1>4
    <3>2. u = down[w]
      BY <1>3, <3>1
    <3>. QED
      BY <1>5, <3>2
  <2>. QED
    BY <2>1
<1>12. \A i, j \in 1..n : i < j => Earlier(bt[i], bt[j])
  BY <1>2, <1>7, <1>9
<1>13. \A i \in 1..n : es[i] = Placed(path, bt[i])
  BY <1>2, <1>6, <1>9
<1>14. Enumerates(bt, es, U, path)
  BY <1>1, <1>2, <1>9, <1>10, <1>11, <1>12, <1>13 DEF Enumerates
<1>. QED
  BY <1>4, <1>14

-----------------------------------------------------------------------------
(* Walking the children of a node.                                         *)

(* The ways from children down to an entry, said of each step.             *)
Chains(children) ==
    {w \in Seq(Branch) : /\ Len(w) # 0 /\ w[1] \in Branches(children)
                         /\ \A k \in 1..(Len(w) - 1) : w[k + 1] \in Branches(Children(w[k].node))
                         /\ w[Len(w)].node.kind = "entry"}

LEMMA ChainIsRoute ==
    ASSUME NEW children, NEW w \in Chains(children)
    PROVE  w \in Routes /\ w[1] \in Branches(children)
<1>1. /\ w \in Seq(Branch) /\ Len(w) # 0 /\ w[1] \in Branches(children)
      /\ \A k \in 1..(Len(w) - 1) : w[k + 1] \in Branches(Children(w[k].node))
  BY DEF Chains
<1>2. ASSUME NEW k \in 1..(Len(w) - 1) PROVE w[k].node.kind # "entry"
  <2>1. PICK c : c = Children(w[k].node)
    OBVIOUS
  <2>2. Branches(c) # {}
    BY <1>1, <2>1
  <2>3. DOMAIN c # {}
    BY <2>2 DEF Branches
  <2>4. c # << >>
    BY <2>3
  <2>. QED
    BY <2>1, <2>4 DEF Children
<1>. QED
  BY <1>1, <1>2 DEF Routes

(* The ways that begin with a step.                                        *)
Through(children, b) == {w \in Chains(children) : w[1] = b}

LEMMA BranchIs ==
    ASSUME NEW children \in Seq(Nodes), NEW b \in Branches(children)
    PROVE  /\ b \in Branch /\ b.child \in 1..Len(children) /\ b.node = children[b.child]
           /\ b.node \in Nodes
<1>1. PICK i \in DOMAIN children : b = [child |-> i, node |-> children[i]]
  BY DEF Branches
<1>2. i \in 1..Len(children) /\ i \in Nat /\ children[i] \in Nodes
  OBVIOUS
<1>3. b.child = i /\ b.node = children[i]
  BY <1>1
<1>4. b \in Branch
  BY <1>1, <1>2 DEF Branch
<1>. QED
  BY <1>2, <1>3, <1>4

LEMMA ThroughEntry ==
    ASSUME NEW children \in Seq(Nodes), NEW b \in Branches(children), b.node.kind = "entry"
    PROVE  Through(children, b) = {<<b>>}
<1>1. b \in Branch
  BY BranchIs
<1>2. <<b>> \in Seq(Branch) /\ Len(<<b>>) = 1 /\ <<b>>[1] = b
  BY <1>1, Singleton
<1>3. <<b>> \in Through(children, b)
  <2>1. PICK w : w = <<b>>
    OBVIOUS
  <2>2. 1..(Len(w) - 1) = {} /\ Len(w) = 1 /\ w[1] = b /\ w \in Seq(Branch)
    BY <1>2, <2>1
  <2>3. w[Len(w)].node.kind = "entry"
    BY <2>2
  <2>4. w \in Chains(children)
    <3>1. Len(w) # 0 /\ w[1] \in Branches(children) /\ w \in Seq(Branch)
      BY <2>2
    <3>2. \A k \in 1..(Len(w) - 1) : w[k + 1] \in Branches(Children(w[k].node))
      BY <2>2
    <3>. QED
      BY <2>3, <3>1, <3>2 DEF Chains
  <2>. QED
    BY <2>1, <2>2, <2>4 DEF Through
<1>4. ASSUME NEW w \in Through(children, b) PROVE w = <<b>>
  <2>1. w \in Chains(children) /\ w[1] = b
    BY DEF Through
  <2>2. w \in Routes
    BY <2>1, ChainIsRoute
  <2>3. w \in Seq(Branch) /\ Len(w) \in Nat \ {0}
    BY <2>2, RouteIs
  <2>4. Len(w) = 1
    <3>1. 1 \in 1..(Len(w) - 1) => w[1].node.kind # "entry"
      BY <2>2 DEF Routes
    <3>2. PICK l : l = Len(w) /\ l \in Nat \ {0} /\ 1 \notin 1..(l - 1)
      BY <2>1, <2>3, <3>1
    <3>. QED
      BY <3>2
  <2>5. \A i \in 1..Len(w) : w[i] = <<b>>[i]
    BY <1>2, <2>1, <2>4
  <2>. QED
    BY <1>2, <2>3, <2>4, <2>5, SeqEqual
<1>. QED
  BY <1>3, <1>4

LEMMA ThroughGroup ==
    ASSUME NEW children \in Seq(Nodes), NEW b \in Branches(children), b.node.kind # "entry"
    PROVE  Through(children, b) = {<<b>> \o w : w \in Chains(b.node.children)}
<1>1. b \in Branch /\ b.node \in Nodes
  BY BranchIs
<1>2. PICK c : c = b.node.children
  OBVIOUS
<1>3. Children(b.node) = c
  BY <1>2 DEF Children
<1>4. ASSUME NEW w \in Chains(c) PROVE <<b>> \o w \in Through(children, b)
  <2>1. w \in Routes
    BY ChainIsRoute
  <2>2. w \in Seq(Branch) /\ Len(w) \in Nat \ {0}
    BY <2>1, RouteIs
  <2>3. PICK u, n : u = <<b>> \o w /\ n = Len(w)
    OBVIOUS
  <2>4. u \in Routes /\ Len(u) = n + 1 /\ u[1] = b /\ \A k \in 1..n : u[k + 1] = w[k]
    <3>1. PICK S, path : S = STRING /\ path = << >>
      OBVIOUS
    <3>2. path \in Seq(S)
      BY <3>1, EmptySeq
    <3>3. path \in Seq(STRING)
      BY <3>1, <3>2
    <3>. QED
      BY <1>1, <2>1, <2>3, <3>3, PathDown
  <2>5. u \in Seq(Branch) /\ n \in Nat \ {0} /\ Len(u) # 0 /\ Len(u) - 1 = n
    <3>1. n \in Nat \ {0} /\ u \in Seq(Branch)
      BY <2>2, <2>3, <2>4, RouteIs
    <3>2. n + 1 # 0 /\ (n + 1) - 1 = n
      BY <3>1
    <3>. QED
      BY <2>4, <3>1, <3>2
  <2>6. ASSUME NEW k \in 1..n PROVE u[k + 1] \in Branches(Children(u[k].node))
    <3>1. CASE k = 1
      <4>1. u[k] = b /\ u[k + 1] = w[1]
        BY <2>4, <3>1
      <4>2. w[1] \in Branches(c)
        BY ChainIsRoute
      <4>. QED
        BY <1>3, <4>1, <4>2
    <3>2. CASE k # 1
      <4>1. PICK i : i = k - 1
        OBVIOUS
      <4>2. i \in 1..(n - 1) /\ i \in 1..n /\ i + 1 = k
        BY <2>5, <3>2, <4>1
      <4>3. u[k] = w[i] /\ u[k + 1] = w[i + 1]
        BY <2>4, <4>2
      <4>4. w[i + 1] \in Branches(Children(w[i].node))
        BY <2>3, <4>2 DEF Chains
      <4>. QED
        BY <4>3, <4>4
    <3>. QED
      BY <3>1, <3>2
  <2>7. u[Len(u)].node.kind = "entry"
    <3>1. n \in 1..n
      BY <2>5
    <3>2. u[Len(u)] = w[n]
      BY <2>4, <3>1
    <3>. QED
      BY <2>3, <3>2 DEF Chains
  <2>8. u \in Chains(children)
    BY <2>4, <2>5, <2>6, <2>7 DEF Chains
  <2>. QED
    BY <2>3, <2>4, <2>8 DEF Through
<1>5. ASSUME NEW u \in Through(children, b) PROVE \E w \in Chains(c) : u = <<b>> \o w
  <2>1. u \in Chains(children) /\ u[1] = b
    BY DEF Through
  <2>2. u \in Seq(Branch) /\ Len(u) \in Nat \ {0}
    <3>1. u \in Routes
      BY <2>1, ChainIsRoute
    <3>. QED
      BY <3>1, RouteIs
  <2>3. PICK n : n = Len(u) - 1
    OBVIOUS
  <2>4. n \in Nat /\ n # 0 /\ Len(u) = n + 1
    <3>1. Len(u) # 1
      BY <2>1 DEF Chains
    <3>. QED
      BY <2>2, <2>3, <3>1
  <2>5. PICK w : w = [k \in 1..n |-> u[k + 1]]
    OBVIOUS
  <2>6. w \in Seq(Branch) /\ Len(w) = n /\ \A k \in 1..n : w[k] = u[k + 1]
    <3>1. \A k \in 1..n : k + 1 \in 1..Len(u) /\ u[k + 1] \in Branch
      BY <2>2, <2>4
    <3>2. w \in [1..n -> Branch]
      BY <2>5, <3>1
    <3>. QED
      BY <2>4, <2>5, <3>2
  <2>7. w[1] \in Branches(c)
    <3>1. 1 \in 1..(Len(u) - 1) /\ 1 \in 1..n
      BY <2>4
    <3>2. u[1 + 1] \in Branches(Children(u[1].node))
      BY <2>1, <3>1 DEF Chains
    <3>3. w[1] = u[1 + 1]
      BY <2>6, <3>1
    <3>. QED
      BY <1>3, <2>1, <3>2, <3>3
  <2>8. ASSUME NEW k \in 1..(n - 1) PROVE w[k + 1] \in Branches(Children(w[k].node))
    <3>1. PICK l : l = k + 1
      OBVIOUS
    <3>2. l \in 1..(Len(u) - 1) /\ l \in 1..n /\ k \in 1..n
      BY <2>4, <3>1
    <3>3. w[k] = u[l] /\ w[l] = u[l + 1]
      BY <2>6, <3>1, <3>2
    <3>4. u[l + 1] \in Branches(Children(u[l].node))
      BY <2>1, <3>2 DEF Chains
    <3>. QED
      BY <3>1, <3>3, <3>4
  <2>9. w[Len(w)].node.kind = "entry"
    <3>1. n \in 1..n
      BY <2>4
    <3>2. w[n] = u[Len(u)]
      BY <2>4, <2>6, <3>1
    <3>. QED
      BY <2>1, <2>6, <3>2 DEF Chains
  <2>10. w \in Chains(c)
    BY <2>4, <2>6, <2>7, <2>8, <2>9 DEF Chains
  <2>11. u = <<b>> \o w
    <3>1. PICK v : v = <<b>> \o w
      OBVIOUS
    <3>2. <<b>> \in Seq(Branch) /\ Len(<<b>>) = 1 /\ <<b>>[1] = b
      BY <1>1, Singleton
    <3>3. /\ v \in Seq(Branch) /\ Len(v) = 1 + n
          /\ \A i \in 1..(1 + n) : v[i] = IF i <= 1 THEN <<b>>[i] ELSE w[i - 1]
      BY <2>6, <3>1, <3>2, ConcatProperties
    <3>4. ASSUME NEW i \in 1..Len(u) PROVE u[i] = v[i]
      <4>1. i \in 1..(1 + n)
        BY <2>4
      <4>2. CASE i = 1
        BY <2>1, <3>2, <3>3, <4>1, <4>2
      <4>3. CASE i # 1
        <5>1. PICK k : k = i - 1
          OBVIOUS
        <5>2. k \in 1..n /\ k + 1 = i /\ ~(i <= 1)
          BY <2>4, <4>1, <4>3, <5>1
        <5>. QED
          BY <2>6, <3>3, <4>1, <5>1, <5>2
      <4>. QED
        BY <4>2, <4>3
    <3>5. Len(u) = Len(v)
      BY <2>4, <3>3
    <3>6. u = v
      BY <2>2, <3>3, <3>4, <3>5, SeqEqual
    <3>. QED
      BY <3>1, <3>6
  <2>. QED
    BY <2>10, <2>11
<1>. QED
  BY <1>2, <1>4, <1>5

(* What a child is loaded to enumerates the ways through it, if what its   *)
(* children are loaded to enumerates theirs.                               *)
LEMMA LoadsChild ==
    ASSUME NEW children \in Seq(Nodes), NEW b \in Branches(children), NEW path \in Seq(STRING),
           b.node.kind # "entry" =>
               \E at : Enumerates(at, Loads(b.node.children, ChildPath(path, b.node.name)),
                                  Chains(b.node.children), ChildPath(path, b.node.name))
    PROVE  \E at : Enumerates(at, WalkNode(b.node, path), Through(children, b), path)
<1>1. b \in Branch /\ b.node \in Nodes
  BY BranchIs
<1>2. CASE b.node.kind = "entry"
  <2>1. WalkNode(b.node, path) = <<[uuid |-> b.node.uuid, group |-> path]>>
    BY <1>1, <1>2, WalkIs
  <2>2. Through(children, b) = {<<b>>}
    BY <1>2, ThroughEntry
  <2>. QED
    BY <1>1, <2>1, <2>2, EnumeratesOne
<1>3. CASE b.node.kind # "entry"
  <2>1. PICK c, low, es : c = b.node.children /\ low = ChildPath(path, b.node.name) /\ es = Loads(c, low)
    OBVIOUS
  <2>2. PICK at : Enumerates(at, es, Chains(c), low)
    BY <1>3, <2>1
  <2>3. WalkNode(b.node, path) = es
    BY <1>1, <1>3, <2>1, WalkIs
  <2>4. Through(children, b) = {<<b>> \o w : w \in Chains(c)}
    BY <1>3, <2>1, ThroughGroup
  <2>5. PICK V : V = Chains(c)
    OBVIOUS
  <2>6. \E bt : Enumerates(bt, es, {<<b>> \o w : w \in V}, path)
    BY <1>1, <1>3, <2>1, <2>2, <2>5, EnumeratesDeeper
  <2>. QED
    BY <2>3, <2>4, <2>5, <2>6
<1>. QED
  BY <1>2, <1>3

(* What the first k children are loaded to enumerates the ways through     *)
(* them; for the last k, those are all.                                    *)
LEMMA LoadsAll ==
    ASSUME NEW children \in Seq(Nodes), NEW path \in Seq(STRING),
           \A b \in Branches(children) :
               \E at : Enumerates(at, WalkNode(b.node, path), Through(children, b), path)
    PROVE  \E at : Enumerates(at, Loads(children, path), Chains(children), path)
<1>1. PICK n : n = Len(children) /\ n \in Nat /\ DOMAIN children = 1..n
  <2>1. Len(children) \in Nat /\ DOMAIN children = 1..Len(children)
    OBVIOUS
  <2>. QED
    BY <2>1
<1>2. PICK seqs : seqs = [i \in DOMAIN children |-> WalkNode(children[i], path)]
  OBVIOUS
<1>3. PICK branch : branch = [i \in 1..n |-> [child |-> i, node |-> children[i]]]
  OBVIOUS
<1>4. ASSUME NEW i \in 1..n
      PROVE  /\ branch[i] \in Branches(children) /\ branch[i].child = i
             /\ seqs[i] = WalkNode(branch[i].node, path) /\ seqs[i] \in Seq(Loaded)
  <2>1. branch[i] = [child |-> i, node |-> children[i]]
    BY <1>3
  <2>2. branch[i] \in Branches(children) /\ branch[i].child = i /\ branch[i].node = children[i]
    BY <1>1, <2>1 DEF Branches
  <2>3. seqs[i] = WalkNode(branch[i].node, path)
    BY <1>1, <1>2, <2>2
  <2>4. PICK at : Enumerates(at, WalkNode(branch[i].node, path), Through(children, branch[i]), path)
    BY <2>2
  <2>5. seqs[i] \in Seq(Loaded)
    BY <2>3, <2>4 DEF Enumerates
  <2>. QED
    BY <2>2, <2>3, <2>5
<1>5. PICK flat : /\ IsFlattening(flat, seqs, n) /\ FlattenSeq(seqs) = flat[n]
  <2>1. seqs \in [1..n -> Seq(Loaded)]
    BY <1>1, <1>2, <1>4
  <2>. QED
    BY <1>1, <2>1, Flattening
<1>6. PICK upto : upto = [k \in 0..n |-> {w \in Chains(children) : w[1].child \in 1..k}]
  OBVIOUS
<1>7. PICK T : T = {k \in 0..n : \E at : Enumerates(at, flat[k], upto[k], path)}
  OBVIOUS
<1>8. 0 \in T
  <2>1. upto[0] = {}
    BY <1>1, <1>6
  <2>2. flat[0] = << >> /\ 0 \in 0..n
    BY <1>1, <1>5 DEF IsFlattening
  <2>. QED
    BY <1>7, <2>1, <2>2, EnumeratesNone
<1>9. ASSUME NEW k \in 0..(n - 1), k \in T PROVE k + 1 \in T
  <2>1. PICK j : j = k + 1
    OBVIOUS
  <2>2. j \in 1..n /\ j \in 0..n /\ j - 1 = k /\ k \in 0..n
    BY <1>1, <2>1
  <2>3. PICK at : Enumerates(at, flat[k], upto[k], path)
    BY <1>7, <1>9
  <2>4. PICK b, V, W : b = branch[j] /\ V = upto[k] /\ W = Through(children, b)
    OBVIOUS
  <2>5. b \in Branches(children) /\ b.child = j /\ seqs[j] = WalkNode(b.node, path)
    BY <1>4, <2>2, <2>4
  <2>6. PICK bt : Enumerates(bt, seqs[j], W, path)
    BY <2>4, <2>5
  <2>7. ASSUME NEW v \in V, NEW w \in W PROVE Earlier(v, w)
    <3>1. v \in Chains(children) /\ v[1].child \in 1..k
      BY <1>6, <2>2, <2>4
    <3>2. w \in Chains(children) /\ w[1] = b
      BY <2>4 DEF Through
    <3>3. 1 \in DOMAIN v /\ 1 \in DOMAIN w
      <4>1. v \in Routes /\ w \in Routes
        BY <3>1, <3>2, ChainIsRoute
      <4>2. \A u \in Routes : 1 \in DOMAIN u
        <5>1. ASSUME NEW u \in Routes PROVE 1 \in DOMAIN u
          <6>1. PICK l \in Nat \ {0} : l = Len(u) /\ DOMAIN u = 1..l
            BY RouteIs
          <6>. QED
            BY <6>1
        <5>. QED
          BY <5>1
      <4>. QED
        BY <4>1, <4>2
    <3>4. v[1].child < w[1].child
      BY <2>2, <2>5, <3>1, <3>2
    <3>5. 1..(1 - 1) = {}
      OBVIOUS
    <3>6. \A i \in 1..(1 - 1) : v[i] = w[i]
      BY <3>5
    <3>. QED
      BY <3>3, <3>4, <3>6 DEF Earlier
  <2>8. PICK ct : Enumerates(ct, flat[k] \o seqs[j], V \cup W, path)
    <3>1. PICK d, e : d = flat[k] /\ e = seqs[j]
      OBVIOUS
    <3>2. Enumerates(at, d, V, path) /\ Enumerates(bt, e, W, path)
      BY <2>3, <2>4, <2>6, <3>1
    <3>3. \E ct : Enumerates(ct, d \o e, V \cup W, path)
      BY <2>7, <3>2, EnumeratesBoth
    <3>. QED
      BY <3>1, <3>3
  <2>9. V \cup W = upto[j]
    <3>1. ASSUME NEW w \in Chains(children)
          PROVE  w[1].child \in 1..j <=> w[1].child \in 1..k \/ w[1] = b
      <4>1. PICK x : x = w[1]
        OBVIOUS
      <4>2. x \in Branches(children)
        BY <4>1, ChainIsRoute
      <4>3. PICK i \in DOMAIN children : x = [child |-> i, node |-> children[i]]
        BY <4>2 DEF Branches
      <4>4. x.child = i /\ i \in 1..n /\ x = branch[i]
        BY <1>1, <1>3, <4>3
      <4>5. x = b <=> i = j
        BY <2>4, <2>5, <4>4
      <4>6. i \in 1..j <=> i \in 1..k \/ i = j
        BY <2>2, <4>4
      <4>. QED
        BY <4>1, <4>4, <4>5, <4>6
    <3>2. /\ V = {w \in Chains(children) : w[1].child \in 1..k}
          /\ W = {w \in Chains(children) : w[1] = b}
          /\ upto[j] = {w \in Chains(children) : w[1].child \in 1..j}
      BY <1>6, <2>2, <2>4 DEF Through
    <3>. QED
      BY <3>1, <3>2
  <2>10. flat[j] = flat[k] \o seqs[j]
    BY <1>5, <2>2 DEF IsFlattening
  <2>. QED
    BY <1>7, <2>1, <2>2, <2>8, <2>9, <2>10
<1>10. n \in T
  BY <1>1, <1>8, <1>9, InductiveUpTo
<1>11. upto[n] = Chains(children)
  <2>1. ASSUME NEW w \in Chains(children) PROVE w[1].child \in 1..n
    BY <1>1, BranchIs, ChainIsRoute
  <2>2. n \in 0..n
    BY <1>1
  <2>. QED
    BY <1>6, <2>1, <2>2
<1>12. Loads(children, path) = flat[n]
  BY <1>2, <1>5 DEF Loads
<1>. QED
  BY <1>7, <1>10, <1>11, <1>12

(* By induction over the height: so it is for the children of any node.    *)
LEMMA LoadsEnumerates ==
    ASSUME NEW root \in Seq(Nodes), NEW top \in Seq(STRING)
    PROVE  \E at : Enumerates(at, Loads(root, top), Chains(root), top)
<1>. DEFINE Low(children, m) == \A i \in DOMAIN children : Height[children[i]] < m
            Fine(children) ==
                \A path \in Seq(STRING) :
                    \E at : Enumerates(at, Loads(children, path), Chains(children), path)
<1>1. PICK n : n = MaxHeight + 1 /\ n \in Nat
  BY KdbxAssumption
<1>2. \A node \in Nodes : Height[node] \in Nat /\ Height[node] < n
  BY <1>1, KdbxAssumption
<1>3. PICK T : T = {m \in 0..n : \A children \in Seq(Nodes) : Low(children, m) => Fine(children)}
  OBVIOUS
<1>4. ASSUME NEW m \in 0..n, NEW children \in Seq(Nodes), Low(children, m),
             m = 0 \/ m - 1 \in T
      PROVE  Fine(children)
  <2>. SUFFICES ASSUME NEW path \in Seq(STRING)
               PROVE  \E at : Enumerates(at, Loads(children, path), Chains(children), path)
    OBVIOUS
  <2>1. ASSUME NEW b \in Branches(children)
        PROVE  \E at : Enumerates(at, WalkNode(b.node, path), Through(children, b), path)
    <3>1. b.node \in Nodes /\ Height[b.node] < m
      <4>1. PICK i \in DOMAIN children : b.node = children[i]
        <5>1. DOMAIN children = 1..Len(children)
          OBVIOUS
        <5>. QED
          BY <5>1, BranchIs
      <4>. QED
        BY <1>4, <4>1, BranchIs
    <3>2. Height[b.node] \in Nat /\ m \in Nat
      BY <1>2, <3>1
    <3>3. m - 1 \in T
      BY <1>4, <3>1, <3>2
    <3>4. ASSUME b.node.kind # "entry"
          PROVE  \E at : Enumerates(at, Loads(b.node.children, ChildPath(path, b.node.name)),
                                    Chains(b.node.children), ChildPath(path, b.node.name))
      <4>1. PICK c, low : c = b.node.children /\ low = ChildPath(path, b.node.name)
        OBVIOUS
      <4>2. c \in Seq(Nodes) /\ low \in Seq(STRING)
        BY <3>1, <3>4, <4>1, GroupIs, ChildPathType
      <4>3. Low(c, m - 1)
        <5>1. ASSUME NEW i \in DOMAIN c PROVE Height[c[i]] < m - 1
          <6>1. c[i] \in Nodes /\ Height[c[i]] < Height[b.node]
            BY <3>1, <3>4, <4>1, GroupIs
          <6>2. Height[c[i]] \in Nat
            BY <1>2, <6>1
          <6>. QED
            BY <3>1, <3>2, <6>1, <6>2
        <5>. QED
          BY <5>1
      <4>4. Fine(c)
        <5>. HIDE DEF Low, Fine
        <5>. QED
          BY <1>3, <3>3, <4>2, <4>3
      <4>. QED
        BY <4>1, <4>2, <4>4
    <3>. QED
      BY <3>4, LoadsChild
  <2>. QED
    BY <2>1, LoadsAll
<1>5. 0 \in T
  <2>1. 0 \in 0..n
    BY <1>1
  <2>. HIDE DEF Low, Fine
  <2>. QED
    BY <1>3, <1>4, <2>1
<1>6. ASSUME NEW m \in 0..(n - 1), m \in T PROVE m + 1 \in T
  <2>1. m + 1 \in 0..n /\ (m + 1) - 1 = m
    BY <1>1
  <2>. HIDE DEF Low, Fine
  <2>. QED
    BY <1>3, <1>4, <1>6, <2>1
<1>7. n \in T
  BY <1>1, <1>5, <1>6, InductiveUpTo
<1>8. Low(root, n)
  BY <1>2
<1>9. Fine(root)
  <2>. HIDE DEF Low, Fine
  <2>. QED
    BY <1>3, <1>7, <1>8
<1>. QED
  BY <1>9

-----------------------------------------------------------------------------
(* The reference, and the list against it.                                 *)

(* The ways of k steps from the root, wherever they end.                   *)
Level(root, k) ==
    {w \in Seq(Branch) : /\ Len(w) = k /\ w[1] \in Branches(root)
                         /\ \A i \in 1..(k - 1) : w[i + 1] \in Branches(Children(w[i].node))}

Longer(root, f, k) ==
    IF k = 1 THEN {<<b>> : b \in Branches(root)}
    ELSE UNION {{Append(w, b) : b \in Branches(Children(w[k - 1].node))} : w \in f[k - 1]}

LEMMA ChildrenType ==
    ASSUME NEW node \in Nodes
    PROVE  Children(node) \in Seq(Nodes)
<1>1. CASE node.kind = "entry"
  <2>1. Children(node) = << >>
    BY <1>1 DEF Children
  <2>. QED
    BY <2>1, EmptySeq
<1>2. CASE node.kind # "entry"
  BY <1>2, GroupIs DEF Children
<1>. QED
  BY <1>1, <1>2

LEMMA LevelOne ==
    ASSUME NEW root \in Seq(Nodes)
    PROVE  Level(root, 1) = {<<b>> : b \in Branches(root)}
<1>1. ASSUME NEW b \in Branches(root) PROVE <<b>> \in Level(root, 1)
  <2>1. PICK w : w = <<b>>
    OBVIOUS
  <2>2. b \in Branch
    BY BranchIs
  <2>3. w \in Seq(Branch) /\ Len(w) = 1 /\ w[1] = b
    BY <2>1, <2>2, Singleton
  <2>4. 1..(1 - 1) = {}
    OBVIOUS
  <2>. QED
    BY <2>1, <2>3, <2>4 DEF Level
<1>2. ASSUME NEW w \in Level(root, 1) PROVE \E b \in Branches(root) : w = <<b>>
  <2>1. w \in Seq(Branch) /\ Len(w) = 1 /\ w[1] \in Branches(root)
    BY DEF Level
  <2>2. PICK b : b = w[1]
    OBVIOUS
  <2>3. b \in Branch
    BY <2>1, <2>2, BranchIs
  <2>4. <<b>> \in Seq(Branch) /\ Len(<<b>>) = 1 /\ <<b>>[1] = b
    BY <2>3, Singleton
  <2>5. \A i \in 1..Len(w) : w[i] = <<b>>[i]
    BY <2>1, <2>2, <2>4
  <2>6. w = <<b>>
    BY <2>1, <2>4, <2>5, SeqEqual
  <2>. QED
    BY <2>1, <2>2, <2>6
<1>. QED
  BY <1>1, <1>2

LEMMA LevelUp ==
    ASSUME NEW root \in Seq(Nodes), NEW k \in Nat, k > 1
    PROVE  Level(root, k) =
              UNION {{Append(w, b) : b \in Branches(Children(w[k - 1].node))} : w \in Level(root, k - 1)}
<1>1. PICK m : m = k - 1 /\ m \in Nat /\ m >= 1 /\ m + 1 = k
  OBVIOUS
<1>2. PICK U : U = UNION {{Append(w, b) : b \in Branches(Children(w[m].node))} : w \in Level(root, m)}
  OBVIOUS
<1>3. ASSUME NEW w \in Level(root, m), NEW b \in Branches(Children(w[m].node))
      PROVE  Append(w, b) \in Level(root, k)
  <2>1. /\ w \in Seq(Branch) /\ Len(w) = m /\ w[1] \in Branches(root)
        /\ \A i \in 1..(m - 1) : w[i + 1] \in Branches(Children(w[i].node))
    BY DEF Level
  <2>2. b \in Branch
    <3>1. w[m] \in Branch
      BY <1>1, <2>1
    <3>2. w[m].node \in Nodes
      BY <3>1 DEF Branch
    <3>. QED
      BY <3>2, ChildrenType, BranchIs
  <2>3. PICK v : v = Append(w, b)
    OBVIOUS
  <2>4. /\ v \in Seq(Branch) /\ Len(v) = k /\ v[k] = b /\ \A i \in 1..m : v[i] = w[i]
    BY <1>1, <2>1, <2>2, <2>3, AppendProperties
  <2>5. v[1] = w[1]
    BY <1>1, <2>4
  <2>6. ASSUME NEW i \in 1..(k - 1) PROVE v[i + 1] \in Branches(Children(v[i].node))
    <3>1. CASE i = m
      BY <1>1, <2>4, <3>1
    <3>2. CASE i # m
      <4>1. PICK j : j = i + 1
        OBVIOUS
      <4>2. i \in 1..(m - 1) /\ i \in 1..m /\ j \in 1..m
        BY <1>1, <3>2, <4>1
      <4>3. w[j] \in Branches(Children(w[i].node))
        BY <2>1, <4>1, <4>2
      <4>. QED
        BY <2>4, <4>1, <4>2, <4>3
    <3>. QED
      BY <3>1, <3>2
  <2>. QED
    BY <2>1, <2>3, <2>4, <2>5, <2>6 DEF Level
<1>4. ASSUME NEW v \in Level(root, k)
      PROVE  \E w \in Level(root, m) : \E b \in Branches(Children(w[m].node)) : v = Append(w, b)
  <2>1. /\ v \in Seq(Branch) /\ Len(v) = k /\ v[1] \in Branches(root)
        /\ \A i \in 1..(k - 1) : v[i + 1] \in Branches(Children(v[i].node))
    BY DEF Level
  <2>2. PICK w : w = [i \in 1..m |-> v[i]]
    OBVIOUS
  <2>3. w \in Seq(Branch) /\ Len(w) = m /\ \A i \in 1..m : w[i] = v[i]
    <3>1. \A i \in 1..m : v[i] \in Branch
      <4>1. \A i \in 1..m : i \in 1..Len(v)
        BY <1>1, <2>1
      <4>. QED
        BY <2>1, <4>1
    <3>2. w \in [1..m -> Branch]
      BY <2>2, <3>1
    <3>. QED
      BY <1>1, <2>2, <3>2
  <2>4. w \in Level(root, m)
    <3>1. w[1] = v[1]
      BY <1>1, <2>3
    <3>2. ASSUME NEW i \in 1..(m - 1) PROVE w[i + 1] \in Branches(Children(w[i].node))
      <4>1. PICK j : j = i + 1
        OBVIOUS
      <4>2. i \in 1..(k - 1) /\ i \in 1..m /\ j \in 1..m
        BY <1>1, <4>1
      <4>3. v[j] \in Branches(Children(v[i].node))
        BY <2>1, <4>1, <4>2
      <4>. QED
        BY <2>3, <4>1, <4>2, <4>3
    <3>. QED
      BY <2>1, <2>3, <3>1, <3>2 DEF Level
  <2>5. PICK b : b = v[k]
    OBVIOUS
  <2>6. b \in Branches(Children(w[m].node)) /\ b \in Branch
    <3>1. m \in 1..(k - 1) /\ m \in 1..m /\ k \in 1..Len(v)
      BY <1>1, <2>1
    <3>2. v[m + 1] \in Branches(Children(v[m].node))
      BY <2>1, <3>1
    <3>. QED
      BY <1>1, <2>1, <2>3, <2>5, <3>1, <3>2
  <2>7. PICK u : u = Append(w, b)
    OBVIOUS
  <2>8. u \in Seq(Branch) /\ Len(u) = k /\ u[k] = b /\ \A i \in 1..m : u[i] = w[i]
    BY <1>1, <2>3, <2>6, <2>7, AppendProperties
  <2>9. ASSUME NEW i \in 1..Len(v) PROVE v[i] = u[i]
    <3>1. i \in 1..m \/ i = k
      BY <1>1, <2>1
    <3>. QED
      BY <2>3, <2>5, <2>8, <3>1
  <2>10. v = u
    BY <2>1, <2>8, <2>9, SeqEqual
  <2>. QED
    BY <2>4, <2>6, <2>7, <2>10
<1>5. Level(root, k) = U
  <2>1. ASSUME NEW v \in Level(root, k) PROVE v \in U
    BY <1>2, <1>4
  <2>2. ASSUME NEW v \in U PROVE v \in Level(root, k)
    <3>1. PICK w \in Level(root, m) : v \in {Append(w, b) : b \in Branches(Children(w[m].node))}
      BY <1>2
    <3>2. PICK b \in Branches(Children(w[m].node)) : v = Append(w, b)
      BY <3>1
    <3>. QED
      BY <1>3, <3>2
  <2>. QED
    BY <2>1, <2>2
<1>. QED
  BY <1>1, <1>2, <1>5

(* The breadth-first search of the reference finds level after level.      *)
LEMMA WaysByLevel ==
    ASSUME NEW root \in Seq(Nodes)
    PROVE  Ways(root) = {w \in UNION {Level(root, k) : k \in 1..(MaxHeight + 1)} :
                            w[Len(w)].node.kind = "entry"}
<1>. DEFINE N == MaxHeight + 1
            IsSearch(f) == f = [k \in 1..N |-> Longer(root, f, k)]
<1>1. MaxHeight \in Nat
  BY KdbxAssumption
<1>2. PICK h : h = [k \in 1..N |-> Level(root, k)]
  OBVIOUS
<1>3. IsSearch(h)
  <2>1. ASSUME NEW k \in 1..N PROVE Level(root, k) = Longer(root, h, k)
    <3>1. CASE k = 1
      BY <3>1, LevelOne DEF Longer
    <3>2. CASE k # 1
      <4>1. k \in Nat /\ k > 1 /\ k - 1 \in 1..N
        BY <1>1, <3>2
      <4>2. h[k - 1] = Level(root, k - 1)
        BY <1>2, <4>1
      <4>3. Level(root, k) = UNION {{Append(w, b) : b \in Branches(Children(w[k - 1].node))} :
                                       w \in Level(root, k - 1)}
        BY <4>1, LevelUp
      <4>. QED
        BY <3>2, <4>2, <4>3 DEF Longer
    <3>. QED
      BY <3>1, <3>2
  <2>2. [k \in 1..N |-> Level(root, k)] = [k \in 1..N |-> Longer(root, h, k)]
    BY <2>1
  <2>. QED
    BY <1>2, <2>2
<1>4. PICK ways : ways = CHOOSE f : IsSearch(f)
  OBVIOUS
<1>5. IsSearch(ways)
  <2>. HIDE DEF IsSearch
  <2>. QED
    BY <1>3, <1>4
<1>6. Ways(root) = {w \in UNION {ways[k] : k \in 1..N} : w[Len(w)].node.kind = "entry"}
  BY <1>4 DEF Ways, Longer
<1>7. \A k \in 1..N : ways[k] = Level(root, k)
  <2>1. PICK T : T = {k \in 0..N : k # 0 => ways[k] = Level(root, k)}
    OBVIOUS
  <2>2. \A m \in 0..N : (m = 0 \/ m - 1 \in T) => m \in T
    <3>1. ASSUME NEW m \in 0..N, m # 0, m - 1 \in T PROVE ways[m] = Level(root, m)
      <4>1. m \in 1..N
        BY <3>1
      <4>2. ways[m] = Longer(root, ways, m)
        BY <1>5, <4>1
      <4>3. CASE m = 1
        BY <4>2, <4>3, LevelOne DEF Longer
      <4>4. CASE m # 1
        <5>1. m \in Nat /\ m > 1 /\ m - 1 # 0
          BY <1>1, <4>1, <4>4
        <5>2. ways[m - 1] = Level(root, m - 1)
          BY <2>1, <3>1, <5>1
        <5>3. Level(root, m) = UNION {{Append(w, b) : b \in Branches(Children(w[m - 1].node))} :
                                         w \in Level(root, m - 1)}
          BY <5>1, LevelUp
        <5>. QED
          BY <4>2, <4>4, <5>2, <5>3 DEF Longer
      <4>. QED
        BY <4>3, <4>4
    <3>. QED
      BY <2>1, <3>1
  <2>3. PICK n : n = N /\ n \in Nat
    BY <1>1
  <2>4. \A m \in 0..n : m \in T
    <3>1. PICK A : A = {m \in 0..n : \A i \in 0..m : i \in T}
      OBVIOUS
    <3>2. 0 \in A
      BY <2>2, <2>3, <3>1
    <3>3. ASSUME NEW m \in 0..(n - 1), m \in A PROVE m + 1 \in A
      <4>1. m + 1 \in 0..n /\ (m + 1) - 1 = m
        BY <2>3
      <4>2. m + 1 \in T
        <5>1. m \in T
          BY <3>1, <3>3
        <5>. QED
          BY <2>2, <2>3, <4>1, <5>1
      <4>. QED
        BY <3>1, <3>3, <4>1, <4>2
    <3>4. n \in A
      BY <2>3, <3>2, <3>3, InductiveUpTo
    <3>. QED
      BY <3>1, <3>4
  <2>. QED
    BY <1>1, <2>1, <2>3, <2>4
<1>. QED
  BY <1>6, <1>7

(* No way is longer than the tree is high, so they are all found.          *)
LEMMA WaysAreChains ==
    ASSUME NEW root \in Seq(Nodes)
    PROVE  Ways(root) = Chains(root)
<1>1. MaxHeight \in Nat /\ \A node \in Nodes : Height[node] \in 0..MaxHeight
  BY KdbxAssumption
<1>2. ASSUME NEW w \in Chains(root)
      PROVE  Len(w) \in 1..(MaxHeight + 1) /\ w \in Level(root, Len(w))
  <2>1. w \in Routes
    BY ChainIsRoute
  <2>2. PICK n : n = Len(w) /\ n \in Nat /\ n # 0
    BY <2>1, RouteIs
  <2>3. \A k \in 1..n : w[k].node \in Nodes
    BY <2>1, <2>2, RouteIs
  <2>4. ASSUME NEW k \in 1..(n - 1) PROVE Height[w[k + 1].node] < Height[w[k].node]
    <3>1. w[k].node.kind # "entry" /\ k \in 1..n
      BY <2>1, <2>2 DEF Routes
    <3>2. PICK c, node, b : node = w[k].node /\ c = Children(node) /\ b = w[k + 1]
      OBVIOUS
    <3>3. node \in Nodes /\ node.kind # "entry"
      BY <2>3, <3>1, <3>2
    <3>4. b \in Branches(c)
      BY <2>2, <3>2 DEF Chains
    <3>5. c = node.children
      BY <3>2, <3>3 DEF Children
    <3>6. PICK i \in DOMAIN c : b = [child |-> i, node |-> c[i]]
      BY <3>4 DEF Branches
    <3>7. b.node = node.children[i] /\ i \in DOMAIN node.children
      BY <3>5, <3>6
    <3>. QED
      BY <3>2, <3>3, <3>7, GroupIs
  <2>5. PICK T : T = {k \in 0..(n - 1) : Height[w[k + 1].node] + k <= MaxHeight}
    OBVIOUS
  <2>6. 0 \in T
    <3>1. 0 + 1 = 1 /\ 1 \in 1..n /\ 0 \in 0..(n - 1)
      BY <2>2
    <3>2. PICK a : a = Height[w[1].node] /\ a \in 0..MaxHeight
      BY <1>1, <2>3, <3>1
    <3>3. a + 0 <= MaxHeight
      BY <1>1, <3>2
    <3>. QED
      BY <2>5, <3>1, <3>2, <3>3
  <2>7. ASSUME NEW k \in 0..((n - 1) - 1), k \in T PROVE k + 1 \in T
    <3>1. PICK l : l = k + 1
      OBVIOUS
    <3>2. l \in 1..(n - 1) /\ l \in 1..n /\ l + 1 \in 1..n /\ l \in 0..(n - 1)
      BY <2>2, <3>1
    <3>3. PICK a, c : a = Height[w[l].node] /\ c = Height[w[l + 1].node]
      OBVIOUS
    <3>4. a \in 0..MaxHeight /\ c \in 0..MaxHeight
      BY <1>1, <2>3, <3>2, <3>3
    <3>5. c < a
      BY <2>4, <3>2, <3>3
    <3>6. a + k <= MaxHeight
      BY <2>5, <2>7, <3>1, <3>3
    <3>7. c + l <= MaxHeight
      BY <1>1, <3>1, <3>4, <3>5, <3>6
    <3>. QED
      BY <2>5, <3>1, <3>2, <3>3, <3>7
  <2>8. n - 1 \in T
    <3>1. PICK m : m = n - 1 /\ m \in Nat
      BY <2>2
    <3>2. m \in T
      BY <2>6, <2>7, <3>1, InductiveUpTo
    <3>. QED
      BY <3>1, <3>2
  <2>9. n <= MaxHeight + 1
    <3>1. (n - 1) + 1 = n /\ n \in 1..n
      BY <2>2
    <3>2. PICK a : a = Height[w[n].node] /\ a \in 0..MaxHeight
      BY <1>1, <2>3, <3>1
    <3>3. a + (n - 1) <= MaxHeight
      BY <2>5, <2>8, <3>1, <3>2
    <3>. QED
      BY <1>1, <2>2, <3>2, <3>3
  <2>10. w \in Level(root, n)
    BY <2>2 DEF Chains, Level
  <2>. QED
    BY <1>1, <2>2, <2>9, <2>10
<1>3. ASSUME NEW k \in 1..(MaxHeight + 1), NEW w \in Level(root, k), w[Len(w)].node.kind = "entry"
      PROVE  w \in Chains(root)
  <2>1. Len(w) = k /\ k # 0
    BY <1>1 DEF Level
  <2>. QED
    BY <1>3, <2>1 DEF Chains, Level
<1>4. \A w \in Chains(root) : w[Len(w)].node.kind = "entry"
  BY DEF Chains
<1>5. PICK L : L = UNION {Level(root, k) : k \in 1..(MaxHeight + 1)}
  OBVIOUS
<1>6. Ways(root) = {w \in L : w[Len(w)].node.kind = "entry"}
  BY <1>5, WaysByLevel
<1>7. \A w \in Chains(root) : w \in L
  BY <1>2, <1>5
<1>8. \A w \in L : w[Len(w)].node.kind = "entry" => w \in Chains(root)
  BY <1>3, <1>5
<1>. QED
  BY <1>4, <1>6, <1>7, <1>8

(* A list that enumerates is as long as there are ways, and each entry     *)
(* stands where the number of earlier ones puts it.                        *)
LEMMA EnumeratedByRank ==
    ASSUME NEW at, NEW es, NEW V, NEW path, Enumerates(at, es, V, path)
    PROVE  /\ Len(es) = Cardinality(V)
           /\ \A w \in V : es[1 + Cardinality({v \in V : Earlier(v, w)})] = Placed(path, w)
<1>1. PICK n : n = Len(es) /\ n \in Nat
  <2>1. Len(es) \in Nat
    BY DEF Enumerates
  <2>. QED
    BY <2>1
<1>2. /\ V \subseteq Routes /\ at \in [1..n -> V]
      /\ \A w \in V : \E i \in 1..n : at[i] = w
      /\ \A i, j \in 1..n : i < j => Earlier(at[i], at[j])
      /\ \A i \in 1..n : es[i] = Placed(path, at[i])
  BY <1>1 DEF Enumerates
<1>3. \A i, j \in 1..n : Earlier(at[i], at[j]) => i < j
  <2>1. ASSUME NEW i \in 1..n, NEW j \in 1..n, Earlier(at[i], at[j]) PROVE i < j
    <3>1. at[i] \in Routes /\ at[j] \in Routes
      BY <1>2
    <3>2. ~Earlier(at[j], at[i]) /\ at[i] # at[j]
      BY <2>1, <3>1, EarlierStrict
    <3>3. ~(j < i) /\ i # j
      BY <1>2, <3>2
    <3>. QED
      BY <3>3
  <2>. QED
    BY <2>1
<1>4. \A i, j \in 1..n : at[i] = at[j] => i = j
  <2>1. ASSUME NEW i \in 1..n, NEW j \in 1..n, at[i] = at[j] PROVE i = j
    <3>1. i < j => j < i
      BY <1>2, <1>3, <2>1
    <3>2. j < i => i < j
      BY <1>2, <1>3, <2>1
    <3>. QED
      BY <3>1, <3>2
  <2>. QED
    BY <2>1
<1>5. ASSUME NEW m \in 0..n
      PROVE  Cardinality({at[j] : j \in 1..m}) = m
  <2>1. PICK U, f : U = {at[j] : j \in 1..m} /\ f = [j \in 1..m |-> at[j]]
    OBVIOUS
  <2>2. m \in Nat /\ \A j \in 1..m : j \in 1..n
    BY <1>1
  <2>3. IsFiniteSet(1..m) /\ Cardinality(1..m) = m
    BY <2>2, FS_Interval
  <2>4. f \in Bijection(1..m, U)
    <3>1. f \in [1..m -> U]
      BY <2>1
    <3>2. f \in Injection(1..m, U)
      BY <1>4, <2>1, <2>2, <3>1 DEF Injection, IsInjective
    <3>3. f \in Surjection(1..m, U)
      BY <2>1, <3>1 DEF Surjection
    <3>. QED
      BY <3>2, <3>3 DEF Bijection
  <2>5. Cardinality(1..m) = Cardinality(U)
    BY <2>3, <2>4, FS_Bijection DEF ExistsBijection
  <2>. QED
    BY <2>1, <2>3, <2>5
<1>6. Len(es) = Cardinality(V)
  <2>1. V = {at[j] : j \in 1..n}
    BY <1>2
  <2>2. n \in 0..n
    BY <1>1
  <2>. QED
    BY <1>1, <1>5, <2>1, <2>2
<1>7. ASSUME NEW w \in V
      PROVE  es[1 + Cardinality({v \in V : Earlier(v, w)})] = Placed(path, w)
  <2>1. PICK i \in 1..n : at[i] = w
    BY <1>2
  <2>2. PICK m : m = i - 1 /\ m \in 0..n /\ 1 + m = i
    BY <1>1
  <2>3. {v \in V : Earlier(v, w)} = {at[j] : j \in 1..m}
    <3>1. ASSUME NEW j \in 1..m PROVE at[j] \in V /\ Earlier(at[j], w)
      <4>1. j \in 1..n /\ j < i
        BY <1>1, <2>2
      <4>. QED
        BY <1>2, <2>1, <4>1
    <3>2. ASSUME NEW v \in V, Earlier(v, w) PROVE \E j \in 1..m : v = at[j]
      <4>1. PICK j \in 1..n : at[j] = v
        BY <1>2
      <4>2. j < i
        BY <1>3, <2>1, <3>2, <4>1
      <4>3. j \in 1..m
        BY <1>1, <2>2, <4>2
      <4>. QED
        BY <4>1, <4>3
    <3>. QED
      BY <3>1, <3>2
  <2>4. Cardinality({v \in V : Earlier(v, w)}) = m
    BY <1>5, <2>2, <2>3
  <2>. QED
    BY <1>2, <2>1, <2>2, <2>4
<1>. QED
  BY <1>6, <1>7

(* What open_kdbx loads, against the ways from the root to the entries.    *)
LEMMA LoadedInPlace ==
    ASSUME NEW root \in Seq(Nodes), NEW entries, entries = Loads(root, << >>)
    PROVE  /\ Len(entries) = Cardinality(Ways(root))
           /\ \A w \in Ways(root) :
                 entries[1 + Cardinality({v \in Ways(root) : Earlier(v, w)})] =
                     [uuid |-> w[Len(w)].node.uuid, group |-> GroupOf(w)]
<1>1. PICK S, top : S = STRING /\ top = << >>
  OBVIOUS
<1>2. top \in Seq(STRING)
  <2>1. top \in Seq(S)
    BY <1>1, EmptySeq
  <2>. QED
    BY <1>1, <2>1
<1>3. PICK V : V = Ways(root)
  OBVIOUS
<1>4. PICK at : Enumerates(at, entries, V, top)
  BY <1>1, <1>2, <1>3, LoadsEnumerates, WaysAreChains
<1>5. /\ Len(entries) = Cardinality(V)
      /\ \A w \in V : entries[1 + Cardinality({v \in V : Earlier(v, w)})] = Placed(top, w)
  BY <1>4, EnumeratedByRank
<1>6. \A w : Placed(top, w) = [uuid |-> w[Len(w)].node.uuid, group |-> GroupOf(w)]
  BY <1>1, GroupFromTop DEF Placed
<1>. QED
  BY <1>3, <1>5, <1>6
=============================================================================
