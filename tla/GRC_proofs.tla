----------------------------- MODULE GRC_proofs -----------------------------
(***************************************************************************)
(* What the theorems about several passes over a GRC graph rest on: the    *)
(* arcs of a node, what erasing leaves of a vector, and the places of      *)
(* nodes in a graph whose threads nest.                                    *)
(*                                                                         *)
(* The library's theorems on induction take an operator, so it is stated   *)
(* here for subsets of Nat.                                                *)
(***************************************************************************)
EXTENDS GRC, TLAPS, WellFoundedInduction, FiniteSetTheorems

(* What the assumptions say of the arcs of a node.                         *)
LEMMA Arcs ==
  /\ 0 \notin Node /\ Node \subseteq Nat /\ Root \in Node
  /\ \A n \in Node :
       /\ Len(Succ(n)) \in Nat /\ DOMAIN Succ(n) = 1..Len(Succ(n))
       /\ \A i \in 1..Len(Succ(n)) : Succ(n)[i] \in Node \cup {0}
       /\ SuccSet(n) \subseteq Node /\ DataSucc(n) \subseteq Node
       /\ \A i \in 1..Len(Succ(n)) : Succ(n)[i] # 0 => Succ(n)[i] \in SuccSet(n)
       /\ \A m \in SuccSet(n) : m # 0 /\ \E i \in 1..Len(Succ(n)) : m = Succ(n)[i]
<1>1. Len(Graph) \in Nat /\ Node = 1..Len(Graph) /\ Root \in Node
  BY GraphAssumption DEF Node
<1>2. 0 \notin Node /\ Node \subseteq Nat
  BY <1>1
<1>3. ASSUME NEW n \in Node
      PROVE  Succ(n) \in Seq(Nat)
  <2>1. Graph[n] \in NodeRecord
    BY <1>1, GraphAssumption
  <2> QED
    BY <2>1 DEF NodeRecord, Succ
<1>4. ASSUME NEW n \in Node
      PROVE  /\ Len(Succ(n)) \in Nat /\ DOMAIN Succ(n) = 1..Len(Succ(n))
             /\ \A i \in 1..Len(Succ(n)) : Succ(n)[i] \in Node \cup {0}
  BY <1>3, ArcAssumption
<1> QED
  BY <1>1, <1>2, <1>4 DEF SuccSet, DataSucc

(* A set of numbers has a least one.                                       *)
LEMMA LeastNat ==
  ASSUME NEW T \in SUBSET Nat, T # {}
  PROVE  \E x \in T : \A y \in T : x <= y
<1>1. PICK x \in T : \A y \in T : <<y, x>> \notin OpToRel(<, Nat)
  BY WFMin, NatLessThanWellFounded
<1>2. ASSUME NEW y \in T
      PROVE  x <= y
  <2>1. x \in Nat /\ y \in Nat /\ ~(y < x)
    BY <1>1 DEF OpToRel
  <2> QED
    BY <2>1
<1> QED
  BY <1>2

(* Induction on a set of numbers.                                          *)
LEMMA Induct ==
  ASSUME NEW S \in SUBSET Nat, NEW T,
         \A c \in S : (\A d \in S : d < c => d \in T) => c \in T
  PROVE  S \subseteq T
<1> SUFFICES ASSUME S \ T # {} PROVE FALSE
  OBVIOUS
<1>1. PICK c \in S \ T : \A y \in S \ T : c <= y
  BY LeastNat
<1>2. ASSUME NEW d \in S, d < c
      PROVE  d \in T
  <2>1. ~(c <= d)
    BY <1>2
  <2> QED
    BY <2>1, <1>1
<1> QED
  BY <1>1, <1>2

(* Induction from the last node of the graph to the first.                 *)
LEMMA InductDown ==
  ASSUME NEW T,
         \A n \in Node : (\A m \in Node : n < m => m \in T) => n \in T
  PROVE  Node \subseteq T
<1> DEFINE lost == {k \in Nat : \E n \in Node \ T : k = Len(Graph) - n}
<1>1. Len(Graph) \in Nat /\ Node = 1..Len(Graph)
  BY GraphAssumption DEF Node
<1> SUFFICES ASSUME NEW n \in Node \ T PROVE FALSE
  OBVIOUS
<1>2. Len(Graph) - n \in lost
  BY <1>1
<1>3. PICK k \in lost : \A l \in lost : k <= l
  <2>1. lost \in SUBSET Nat /\ lost # {}
    BY <1>2
  <2> HIDE DEF lost
  <2> QED
    BY <2>1, LeastNat
<1>4. PICK x \in Node \ T : k = Len(Graph) - x
  BY <1>3
<1>5. ASSUME NEW m \in Node, x < m, m \notin T
      PROVE  FALSE
  <2>1. Len(Graph) - m \in lost
    BY <1>1, <1>5
  <2>2. k <= Len(Graph) - m
    BY <2>1, <1>3
  <2> QED
    BY <2>2, <1>1, <1>4, <1>5
<1> QED
  BY <1>4, <1>5

(* The data of a recursion on numbers: B is where it ends, with values b;  *)
(* elsewhere g[c] computes the value of c from that of p[c].               *)
Recurses(S, B, p, b, g, V) ==
  /\ S \subseteq Nat
  /\ \A c \in S : c \in B => b[c] \in V
  /\ \A c \in S : c \notin B => p[c] \in S /\ p[c] < c
  /\ \A c \in S : c \notin B => \A v \in V : g[c][v] \in V

(* There is a function that is computed by such a recursion.               *)
LEMMA Recursion ==
  ASSUME NEW S, NEW B, NEW p, NEW b, NEW g, NEW V, Recurses(S, B, p, b, g, V)
  PROVE  \E f \in [S -> V] : f = [c \in S |-> IF c \in B THEN b[c] ELSE g[c][f[p[c]]]]
<1>0. S \subseteq Nat /\ \A c \in S \ B : p[c] \in S /\ p[c] < c
  BY DEF Recurses
<1> DEFINE Below(k) == {c \in S : c < k}
           Solves(f, k) == /\ f \in [Below(k) -> V]
                           /\ \A c \in Below(k) : f[c] = IF c \in B THEN b[c] ELSE g[c][f[p[c]]]
<1>1. ASSUME NEW k \in Nat, NEW l \in Nat, NEW f, NEW h, Solves(f, k), Solves(h, l),
             NEW d \in Below(k) \cap Below(l)
      PROVE  f[d] = h[d]
  <2> DEFINE T == {c \in S : c < k /\ c < l => f[c] = h[c]}
  <2>1. ASSUME NEW c \in S, \A e \in S : e < c => e \in T
        PROVE  c \in T
    <3> SUFFICES ASSUME c < k, c < l PROVE f[c] = h[c]
      OBVIOUS
    <3>1. c \in Below(k) /\ c \in Below(l)
      OBVIOUS
    <3>2. CASE c \in B
      BY <3>1, <3>2, <1>1
    <3>3. CASE c \notin B
      <4>1. p[c] \in S /\ p[c] < c /\ p[c] \in Nat /\ c \in Nat
        BY <3>3, <1>0
      <4>2. p[c] < k /\ p[c] < l
        BY <4>1
      <4>3. f[p[c]] = h[p[c]]
        BY <4>1, <4>2, <2>1
      <4> QED
        BY <3>1, <3>3, <4>3, <1>1
    <3> QED
      BY <3>2, <3>3
  <2>2. d \in S /\ d < k /\ d < l
    BY <1>1
  <2>3. S \subseteq T
    <3> HIDE DEF T
    <3> QED
      BY <2>1, <1>0, Induct
  <2> QED
    BY <2>2, <2>3
<1>2. ASSUME NEW k \in Nat
      PROVE  \E f : Solves(f, k)
  <2> DEFINE T == {i \in Nat : \E f : Solves(f, i)}
  <2>1. ASSUME NEW i \in Nat, \A j \in Nat : j < i => j \in T
        PROVE  \E f : Solves(f, i)
    <3>1. CASE i = 0
      <4>1. \A c \in S : c \in Nat /\ ~(c < i)
        BY <3>1, <1>0
      <4>2. Solves([c \in Below(i) |-> b[c]], i)
        BY <4>1
      <4> QED
        BY <4>2
    <3>2. CASE i # 0
      <4>1. i - 1 \in Nat /\ i - 1 < i
        BY <3>2
      <4>2. PICK h : Solves(h, i - 1)
        BY <4>1, <2>1
      <4> DEFINE f == [c \in Below(i) |-> IF c \in B THEN b[c] ELSE g[c][h[p[c]]]]
      <4>3. ASSUME NEW c \in Below(i), c \notin B
            PROVE  p[c] \in Below(i - 1) /\ p[c] \in Below(i) /\ h[p[c]] \in V /\ c \in S
        <5>1. c \in Nat /\ c \in S /\ p[c] \in Nat /\ p[c] \in S /\ p[c] < c /\ c < i
          BY <4>3, <1>0
        <5>2. p[c] \in Below(i - 1) /\ p[c] \in Below(i)
          BY <5>1
        <5> QED
          BY <5>1, <5>2, <4>2
      <4>4. f \in [Below(i) -> V]
        BY <4>3 DEF Recurses
      <4>5. ASSUME NEW c \in Below(i), c \notin B
            PROVE  f[p[c]] = h[p[c]]
        <5>1. /\ p[c] \in Below(i - 1) /\ p[c] \in Below(i)
              /\ h[p[c]] = IF p[c] \in B THEN b[p[c]] ELSE g[p[c]][h[p[p[c]]]]
          BY <4>3, <4>5, <4>2
        <5> QED
          BY <5>1
      <4>6. Solves(f, i)
        BY <4>4, <4>5
      <4> QED
        BY <4>6
    <3> QED
      BY <3>1, <3>2
  <2> HIDE DEF Solves
  <2>2. \A i \in Nat : (\A j \in Nat : j < i => j \in T) => i \in T
    BY <2>1
  <2> HIDE DEF T
  <2>3. Nat \subseteq T
    BY <2>2, Induct
  <2> QED
    BY <2>3 DEF T
<1> DEFINE F == [k \in Nat |-> CHOOSE f : Solves(f, k)]
           f == [c \in S |-> F[c + 1][c]]
<1>3. \A k \in Nat : Solves(F[k], k)
  BY <1>2
<1> HIDE DEF F
<1>4. ASSUME NEW c \in S
      PROVE  /\ f[c] \in V
             /\ f[c] = IF c \in B THEN b[c] ELSE g[c][f[p[c]]]
  <2>1. c \in Nat /\ c \in Below(c + 1) /\ Solves(F[c + 1], c + 1)
    <3>1. c \in Nat /\ c + 1 \in Nat /\ c < c + 1
      BY <1>0
    <3>2. Solves(F[c + 1], c + 1)
      <4> HIDE DEF Solves
      <4> QED
        BY <3>1, <1>3
    <3> QED
      BY <3>1, <3>2
  <2>2. /\ F[c + 1][c] \in V
        /\ F[c + 1][c] = IF c \in B THEN b[c] ELSE g[c][F[c + 1][p[c]]]
    BY <2>1
  <2>3. ASSUME c \notin B
        PROVE  F[c + 1][p[c]] = f[p[c]]
    <3>1. p[c] \in S /\ p[c] \in Nat /\ p[c] < c
      BY <2>3, <1>0
    <3>2. p[c] \in Below(p[c] + 1) /\ p[c] \in Below(c + 1)
      BY <3>1, <2>1
    <3>3. Solves(F[p[c] + 1], p[c] + 1)
      <4>1. p[c] + 1 \in Nat
        BY <3>1
      <4> HIDE DEF Solves
      <4> QED
        BY <4>1, <1>3
    <3>4. F[c + 1][p[c]] = F[p[c] + 1][p[c]]
      <4> HIDE DEF Solves, Below
      <4> QED
        BY <3>1, <3>2, <3>3, <2>1, <1>1
    <3> QED
      BY <3>4, <3>1
  <2> QED
    BY <2>2, <2>3
<1> QED
  BY <1>4

-----------------------------------------------------------------------------

(* What is found over arcs from the nodes of A, one arc more at each turn. *)
Spreads(A, f) ==
  f = [k \in Nat |-> IF k = 0 THEN A ELSE f[k - 1] \cup UNION {SuccSet(n) : n \in f[k - 1]}]

(* There is such a function.                                               *)
LEMMA Spread ==
  ASSUME NEW A \in SUBSET Node
  PROVE  \E f : Spreads(A, f)
<1> DEFINE V == SUBSET Node
           p == [k \in Nat |-> k - 1]
           b == [k \in Nat |-> A]
           g == [k \in Nat |-> [v \in V |-> v \cup UNION {SuccSet(n) : n \in v}]]
<1>1. Recurses(Nat, {0}, p, b, g, V)
  <2>1. \A k \in Nat : b[k] \in V
    OBVIOUS
  <2>2. \A k \in Nat : k \notin {0} => p[k] \in Nat /\ p[k] < k
    OBVIOUS
  <2>3. ASSUME NEW k \in Nat, NEW v \in V
        PROVE  g[k][v] \in V
    <3>1. \A n \in v : SuccSet(n) \subseteq Node
      BY Arcs
    <3> QED
      BY <3>1
  <2> HIDE DEF p, b, g, V
  <2> QED
    BY <2>1, <2>2, <2>3 DEF Recurses
<1>2. PICK f \in [Nat -> V] : f = [k \in Nat |-> IF k \in {0} THEN b[k] ELSE g[k][f[p[k]]]]
  <2> HIDE DEF p, b, g, V
  <2> QED
    BY <1>1, Recursion
<1>3. ASSUME NEW k \in Nat
      PROVE  f[k] = IF k = 0 THEN A ELSE f[k - 1] \cup UNION {SuccSet(n) : n \in f[k - 1]}
  <2>1. f[k] = IF k = 0 THEN A ELSE g[k][f[k - 1]]
    BY <1>2
  <2>2. ASSUME k # 0
        PROVE  g[k][f[k - 1]] = f[k - 1] \cup UNION {SuccSet(n) : n \in f[k - 1]}
    <3>1. k - 1 \in Nat /\ f[k - 1] \in V
      <4>1. k - 1 \in Nat
        BY <2>2
      <4> HIDE DEF V, b, g, p
      <4>2. f \in [Nat -> V]
        BY <1>2
      <4> QED
        BY <4>1, <4>2
    <3>2. g[k] = [v \in V |-> v \cup UNION {SuccSet(n) : n \in v}]
      OBVIOUS
    <3> HIDE DEF g, V
    <3> QED
      BY <3>1, <3>2
  <2> QED
    BY <2>1, <2>2
<1>4. f = [k \in Nat |-> IF k = 0 THEN A ELSE f[k - 1] \cup UNION {SuccSet(n) : n \in f[k - 1]}]
  BY <1>2, <1>3
<1> QED
  BY <1>4 DEF Spreads

(* It does not leave a set that holds A and is closed under arcs.          *)
LEMMA SpreadStays ==
  ASSUME NEW A, NEW f, Spreads(A, f), NEW T, A \subseteq T, \A n \in T : SuccSet(n) \subseteq T
  PROVE  \A k \in Nat : f[k] \subseteq T
<1> DEFINE U == {k \in Nat : f[k] \subseteq T}
<1>1. ASSUME NEW k \in Nat, \A i \in Nat : i < k => i \in U
      PROVE  k \in U
  <2>1. CASE k = 0
    BY <2>1 DEF Spreads
  <2>2. CASE k # 0
    <3>1. k - 1 \in Nat /\ k - 1 < k
      BY <2>2
    <3>2. f[k - 1] \subseteq T
      BY <3>1, <1>1
    <3>3. f[k] = f[k - 1] \cup UNION {SuccSet(n) : n \in f[k - 1]}
      BY <2>2 DEF Spreads
    <3> QED
      BY <3>2, <3>3
  <2> QED
    BY <2>1, <2>2
<1>2. Nat \subseteq U
  <2> HIDE DEF U
  <2> QED
    BY <1>1, Induct
<1> QED
  BY <1>2

(* What holds Root and what its nodes lead to holds every live node.       *)
LEMMA LiveStays ==
  ASSUME NEW T, Root \in T, \A n \in T : SuccSet(n) \subseteq T
  PROVE  Live \subseteq T
<1>1. \E f : Spreads({Root}, f)
  BY Spread, Arcs
<1>2. Spreads({Root}, Reached)
  <2>1. PICK f : f = [k \in Nat |-> IF k = 0 THEN {Root}
                                   ELSE f[k - 1] \cup UNION {SuccSet(n) : n \in f[k - 1]}]
    BY <1>1 DEF Spreads
  <2>2. Reached = [k \in Nat |-> IF k = 0 THEN {Root}
                                ELSE Reached[k - 1] \cup UNION {SuccSet(n) : n \in Reached[k - 1]}]
    BY <2>1 DEF Reached
  <2> QED
    BY <2>2 DEF Spreads
<1>3. Len(Graph) \in Nat
  BY GraphAssumption
<1>4. \A k \in Nat : Reached[k] \subseteq T
  <2>1. {Root} \subseteq T
    OBVIOUS
  <2> QED
    BY <1>2, <2>1, SpreadStays
<1> QED
  BY <1>3, <1>4 DEF Live

-----------------------------------------------------------------------------

(* The positions I of a vector of length m, in order: each has its number, *)
(* and each number its position.                                           *)
LEMMA NthFacts ==
  ASSUME NEW m \in Nat, NEW I \in SUBSET (1..m)
  PROVE  /\ Cardinality(I) \in Nat
         /\ \A j \in 1..Cardinality(I) : Nth(I, j) \in I
         /\ \A i \in I : \E j \in 1..Cardinality(I) : Nth(I, j) = i
<1> DEFINE Below(x) == {k \in I : k <= x}
<1>1. IsFiniteSet(1..m)
  BY FS_Interval
<1>2. I \subseteq 1..m /\ IsFiniteSet(I) /\ Cardinality(I) \in Nat
  BY <1>1, FS_Subset, FS_CardinalityType
<1>3. ASSUME NEW x \in Nat
      PROVE  IsFiniteSet(Below(x)) /\ Cardinality(Below(x)) \in Nat /\ Cardinality(Below(x)) <= Cardinality(I)
  <2>1. Below(x) \subseteq I
    OBVIOUS
  <2> HIDE DEF Below
  <2> QED
    BY <2>1, <1>2, FS_Subset, FS_CardinalityType
<1>4. Cardinality(Below(0)) = 0 /\ Cardinality(Below(m)) = Cardinality(I)
  <2>1. \A k \in I : k \in Nat /\ ~(k <= 0) /\ k <= m
    BY <1>2
  <2>2. Below(0) = {} /\ Below(m) = I
    BY <2>1
  <2> HIDE DEF Below
  <2> QED
    BY <2>2, FS_EmptySet
<1>5. ASSUME NEW x \in Nat, x # 0
      PROVE  /\ x - 1 \in Nat
             /\ x \in I => Cardinality(Below(x)) = Cardinality(Below(x - 1)) + 1
             /\ x \notin I => Cardinality(Below(x)) = Cardinality(Below(x - 1))
  <2>1. x - 1 \in Nat /\ \A k \in I : k <= x <=> k <= x - 1 \/ k = x
    BY <1>2, <1>5
  <2>2. x \in I => Below(x) = Below(x - 1) \cup {x} /\ x \notin Below(x - 1)
    <3>1. x <= x /\ ~(x <= x - 1)
      OBVIOUS
    <3> QED
      BY <2>1, <3>1
  <2>3. x \notin I => Below(x) = Below(x - 1)
    BY <2>1
  <2>4. IsFiniteSet(Below(x - 1))
    BY <2>1, <1>3
  <2> HIDE DEF Below
  <2> QED
    BY <2>1, <2>2, <2>3, <2>4, FS_AddElement
<1>6. ASSUME NEW j \in 1..Cardinality(I)
      PROVE  \E i \in I : Cardinality(Below(i)) = j
  <2> DEFINE T == {y \in Nat : j <= Cardinality(Below(y))}
  <2>1. j \in Nat /\ 1 <= j /\ j <= Cardinality(I)
    BY <1>2
  <2>2. m \in T
    BY <1>2, <1>4, <2>1
  <2>3. PICK x \in T : \A y \in T : x <= y
    <3>1. T \in SUBSET Nat /\ T # {}
      BY <2>2
    <3> HIDE DEF T
    <3> QED
      BY <3>1, LeastNat
  <2>4. x \in Nat /\ j <= Cardinality(Below(x))
    BY <2>3
  <2> HIDE DEF Below
  <2>5. x # 0
    BY <2>1, <2>4, <1>4
  <2>6. x - 1 \in Nat /\ ~(j <= Cardinality(Below(x - 1)))
    <3>1. x - 1 \in Nat /\ ~(x <= x - 1)
      BY <2>4, <2>5
    <3> QED
      BY <2>3, <3>1
  <2>7. Cardinality(Below(x - 1)) \in Nat
    BY <1>3, <2>6
  <2>8. x \in I
    BY <1>5, <2>4, <2>5, <2>6
  <2>9. Cardinality(Below(x)) = Cardinality(Below(x - 1)) + 1
    BY <1>5, <2>4, <2>5, <2>8
  <2>10. Cardinality(Below(x)) = j
    BY <2>1, <2>4, <2>6, <2>7, <2>9
  <2> QED
    BY <2>8, <2>10
<1>7. ASSUME NEW i \in I
      PROVE  Cardinality(Below(i)) \in 1..Cardinality(I)
  <2>1. i \in Nat /\ i # 0
    BY <1>2
  <2> HIDE DEF Below
  <2>2. i - 1 \in Nat /\ Cardinality(Below(i)) = Cardinality(Below(i - 1)) + 1
    BY <2>1, <1>5
  <2>3. Cardinality(Below(i - 1)) \in Nat /\ Cardinality(Below(i)) <= Cardinality(I)
    BY <2>1, <2>2, <1>3
  <2> QED
    BY <2>2, <2>3, <1>2
<1>8. ASSUME NEW i \in I, NEW k \in I, i < k
      PROVE  Cardinality(Below(i)) < Cardinality(Below(k))
  <2>1. i \in Nat /\ k \in Nat /\ k # 0 /\ k - 1 \in Nat /\ i <= k - 1
    BY <1>2, <1>8
  <2>2. \A x \in I : x <= i => x <= k - 1
    BY <2>1, <1>2
  <2>3. Below(i) \subseteq Below(k - 1)
    BY <2>2
  <2> HIDE DEF Below
  <2>4. Cardinality(Below(i)) <= Cardinality(Below(k - 1))
    BY <2>1, <2>3, <1>3, FS_Subset
  <2>5. Cardinality(Below(k)) = Cardinality(Below(k - 1)) + 1
    BY <2>1, <1>5
  <2>6. Cardinality(Below(i)) \in Nat /\ Cardinality(Below(k - 1)) \in Nat
    BY <2>1, <1>3
  <2> QED
    BY <2>4, <2>5, <2>6
<1> HIDE DEF Below
<1>9. ASSUME NEW i \in I, NEW k \in I, Cardinality(Below(i)) = Cardinality(Below(k))
      PROVE  i = k
  <2>1. i \in Nat /\ k \in Nat
    BY <1>2
  <2>2. Cardinality(Below(i)) \in Nat
    BY <2>1, <1>3
  <2>3. ~(i < k) /\ ~(k < i)
    BY <2>2, <1>8, <1>9
  <2> QED
    BY <2>1, <2>3
<1>10. \A j \in 1..Cardinality(I) : Nth(I, j) \in I
  BY <1>6 DEF Nth, Below
<1>11. ASSUME NEW i \in I
       PROVE  Nth(I, Cardinality(Below(i))) = i
  <2>1. \A k \in I : Cardinality(Below(k)) = Cardinality(Below(i)) => k = i
    BY <1>9
  <2> QED
    BY <2>1 DEF Nth, Below
<1> QED
  BY <1>2, <1>7, <1>10, <1>11

(* All the positions of a vector.                                          *)
LEMMA NthOfAll ==
  ASSUME NEW m \in Nat
  PROVE  Cardinality(1..m) = m /\ \A j \in 1..m : Nth(1..m, j) = j
<1> DEFINE UpTo(i) == {k \in 1..m : k <= i}
<1>1. \A i \in 1..m : UpTo(i) = 1..i
  OBVIOUS
<1>2. \A i \in 0..m : Cardinality(1..i) = i
  BY FS_Interval
<1> HIDE DEF UpTo
<1>3. \A i \in 1..m : Cardinality(UpTo(i)) = i
  BY <1>1, <1>2
<1>4. ASSUME NEW j \in 1..m
      PROVE  Nth(1..m, j) = j
  <2>1. \A i \in 1..m : Cardinality(UpTo(i)) = j => i = j
    BY <1>3
  <2>2. Cardinality(UpTo(j)) = j
    BY <1>3
  <2> QED
    BY <2>1, <2>2 DEF Nth, UpTo
<1> QED
  BY <1>2, <1>4

-----------------------------------------------------------------------------

(* What the assumption says of the place of a node and of its successors.  *)
LEMMA Places ==
  ASSUME Nested
  PROVE  /\ Inner \subseteq Node /\ Root \in Inner /\ Home(Root) = Main /\ Kind(Root) # "sync"
         /\ \A n \in Inner : Home(n) \in Place
         /\ \A n \in Inner : \A r \in Hands(n, Home(n), Inner) : r[1] \in Inner /\ Home(r[1]) = r[2]
<1>1. ASSUME NEW r \in Placed
      PROVE  r[1] \in Node /\ r = <<r[1], Home(r[1])>> /\ Hands(r[1], r[2], Inner) \subseteq Placed
             /\ r[2] = Home(r[1]) /\ Home(r[1]) \in Place
  BY DEF Nested
<1>2. ASSUME NEW n \in Inner
      PROVE  n \in Node /\ Hands(n, Home(n), Inner) \subseteq Placed /\ Home(n) \in Place
  BY <1>1 DEF Inner
<1>3. \A r \in Placed : r[1] \in Inner /\ Home(r[1]) = r[2]
  BY <1>1 DEF Inner
<1>4. Root \in Inner /\ Home(Root) = Main
  BY <1>3 DEF Nested
<1> QED
  BY <1>2, <1>3, <1>4 DEF Nested

(* A Fork stands where its Sync does, and its branches in the threads.     *)
LEMMA ForkPlaces ==
  ASSUME Nested, NEW f \in Inner, Kind(f) = "fork"
  PROVE  /\ Graph[f].sync \in Inner /\ Kind(Graph[f].sync) = "sync"
         /\ Home(Graph[f].sync) = Home(f) /\ f \in ForksOf(Graph[f].sync)
         /\ 1 \in DOMAIN Succ(f)
         /\ \A j \in DOMAIN Succ(f) :
              /\ Succ(f)[j] \in SuccSet(f) /\ Succ(f)[j] \in Inner
              /\ Home(Succ(f)[j]) = PlaceOf(f, j) /\ PlaceOf(f, j) # Main
              /\ PlaceOf(f, j).sync = Graph[f].sync /\ Kind(Succ(f)[j]) # "sync"
<1>1. f \in Node
  BY Places
<1>2. /\ <<Graph[f].sync, Home(f)>> \in Hands(f, Home(f), Inner)
      /\ \A j \in DOMAIN Succ(f) : <<Succ(f)[j], PlaceOf(f, j)>> \in Hands(f, Home(f), Inner)
  BY DEF Hands
<1>3. Graph[f].sync \in Inner /\ Home(Graph[f].sync) = Home(f)
  <2>1. \A r \in Hands(f, Home(f), Inner) : r[1] \in Inner /\ Home(r[1]) = r[2]
    BY Places
  <2> QED
    BY <2>1, <1>2
<1>4. ASSUME NEW j \in DOMAIN Succ(f)
      PROVE  Succ(f)[j] \in Inner /\ Home(Succ(f)[j]) = PlaceOf(f, j)
  <2>1. \A r \in Hands(f, Home(f), Inner) : r[1] \in Inner /\ Home(r[1]) = r[2]
    BY Places
  <2> QED
    BY <2>1, <1>2
<1>5. Kind(Graph[f].sync) = "sync" /\ Succ(f) # <<>>
  BY DEF Nested
<1>6. /\ \A i \in DOMAIN Succ(f) : Succ(f)[i] # 0
      /\ \A m \in SuccSet(f) : Kind(m) # "sync"
  BY DEF Nested
<1>7. 1 \in DOMAIN Succ(f)
  <2>1. Graph[f] \in NodeRecord
    BY <1>1, GraphAssumption DEF Node
  <2>2. Succ(f) \in Seq(Nat)
    BY <2>1 DEF NodeRecord, Succ
  <2> QED
    BY <2>2, <1>5
<1>8. ASSUME NEW j \in DOMAIN Succ(f)
      PROVE  Succ(f)[j] \in SuccSet(f)
  BY <1>6 DEF SuccSet
<1>9. ASSUME NEW j \in DOMAIN Succ(f)
      PROVE  PlaceOf(f, j).sync = Graph[f].sync /\ PlaceOf(f, j) # Main
  <2>1. Graph[f].sync # 0
    BY <1>3, Places, Arcs
  <2>2. PlaceOf(f, j).sync = Graph[f].sync /\ Main.sync = 0
    BY DEF PlaceOf, Main
  <2> QED
    BY <2>1, <2>2
<1>10. f \in ForksOf(Graph[f].sync)
  BY <1>1 DEF ForksOf, OfKind
<1>11. ASSUME NEW j \in DOMAIN Succ(f)
       PROVE  Kind(Succ(f)[j]) # "sync"
  BY <1>6, <1>8
<1> QED
  BY <1>3, <1>4, <1>5, <1>7, <1>8, <1>9, <1>10, <1>11

(* A node that neither forks nor ends a thread hands its place on, to      *)
(* nodes that are not a Sync; a Sync, to those of its exits that are       *)
(* reached.                                                                *)
LEMMA OtherPlaces ==
  ASSUME Nested, NEW n \in Inner, Kind(n) # "fork", Kind(n) # "term" \/ Home(n) = Main,
         NEW m \in SuccSet(n), Kind(n) # "sync" \/ m \in Inner
  PROVE  m \in Inner /\ Home(m) = Home(n) /\ Kind(m) # "sync"
<1>1. CASE Kind(n) = "sync"
  BY <1>1 DEF Nested
<1>2. CASE Kind(n) # "sync"
  <2>1. <<m, Home(n)>> \in Hands(n, Home(n), Inner)
    BY <1>2 DEF Hands, WaysOut
  <2>2. \A r \in Hands(n, Home(n), Inner) : r[1] \in Inner /\ Home(r[1]) = r[2]
    BY Places
  <2> QED
    BY <2>1, <2>2 DEF Nested
<1> QED
  BY <1>1, <1>2

(* A Sync leads to something, and the exit for the code of a Terminate     *)
(* that is reached is reached.                                             *)
LEMMA SyncPlaces ==
  ASSUME Nested, NEW n \in Inner, Kind(n) = "sync"
  PROVE  /\ \E m \in SuccSet(n) : m \in Inner
         /\ \A d \in Data(n) \cap Inner :
              Code(d) + 1 \in DOMAIN Succ(n) /\ Succ(n)[Code(d) + 1] # 0
                => Succ(n)[Code(d) + 1] \in Inner
<1>1. ASSUME NEW d \in Data(n) \cap Inner,
             Code(d) + 1 \in DOMAIN Succ(n), Succ(n)[Code(d) + 1] # 0
      PROVE  Succ(n)[Code(d) + 1] \in Inner
  <2>1. Succ(n)[Code(d) + 1] \in WaysOut(n, Inner)
    BY <1>1 DEF WaysOut
  <2>2. <<Succ(n)[Code(d) + 1], Home(n)>> \in Hands(n, Home(n), Inner)
    BY <2>1 DEF Hands
  <2>3. \A r \in Hands(n, Home(n), Inner) : r[1] \in Inner
    BY Places
  <2> QED
    BY <2>2, <2>3
<1>2. \E m \in SuccSet(n) : m \in Inner
  BY DEF Nested
<1> QED
  BY <1>1, <1>2

(* The Terminate of a thread leads to its Sync; what has no successor is   *)
(* in no thread.                                                           *)
LEMMA Ends ==
  ASSUME Nested, NEW n \in Inner
  PROVE  /\ Kind(n) = "term" /\ Home(n) # Main =>
              /\ SuccSet(n) = {Home(n).sync} /\ n \in Data(Home(n).sync)
              /\ Thread(n) = Home(n).thread
         /\ SuccSet(n) = {} => Kind(n) = "pass" /\ Succ(n) = <<>> /\ Home(n) = Main
<1>1. n \in Node /\ Len(Succ(n)) \in Nat /\ DOMAIN Succ(n) = 1..Len(Succ(n))
  BY Places, Arcs
<1>2. Succ(n) \in Seq(Nat)
  <2>1. Graph[n] \in NodeRecord
    BY <1>1, GraphAssumption DEF Node
  <2> QED
    BY <2>1 DEF NodeRecord, Succ
<1>3. CASE Kind(n) = "sync"
  BY <1>3 DEF Nested
<1>4. CASE Kind(n) # "sync"
  <2>1. /\ \A i \in DOMAIN Succ(n) : Succ(n)[i] # 0
        /\ Succ(n) = <<>> => Kind(n) = "pass" /\ Home(n) = Main
    BY <1>4 DEF Nested
  <2>2. ASSUME Kind(n) = "term", Home(n) # Main
        PROVE  /\ SuccSet(n) = {Home(n).sync} /\ n \in Data(Home(n).sync)
               /\ Thread(n) = Home(n).thread
    <3>1. /\ Succ(n) = <<Home(n).sync>> /\ n \in Data(Home(n).sync)
          /\ Thread(n) = Home(n).thread
      BY <2>2 DEF Nested
    <3>2. DOMAIN Succ(n) = {1} /\ Succ(n)[1] = Home(n).sync
      BY <3>1
    <3> QED
      BY <3>1, <3>2, <2>1 DEF SuccSet
  <2>3. ASSUME Succ(n) # <<>>
        PROVE  SuccSet(n) # {}
    <3>1. 1 \in DOMAIN Succ(n)
      BY <1>2, <2>3
    <3> QED
      BY <3>1, <2>1 DEF SuccSet
  <2> QED
    BY <2>1, <2>2, <2>3
<1> QED
  BY <1>3, <1>4

=============================================================================
