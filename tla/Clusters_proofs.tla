-------------------------- MODULE Clusters_proofs --------------------------
(***************************************************************************)
(* Clustering is complete, levels climb and a Fork goes on with one of its *)
(* threads at most: ClusterInv is an invariant of Clusters for every graph *)
(* that meets FixAssumption and NestAssumption, whatever the order in      *)
(* which the worklists are emptied.                                        *)
(***************************************************************************)
EXTENDS Clusters, GRC_proofs

(* The first cluster is that of Root, and nothing happens before it.       *)
Started ==
  /\ clusterOf[Root] \in {0, Root}
  /\ clusterOf[Root] = 0 =>
       /\ \A n \in Node : ~Clustered(n)
       /\ cluster = 0 /\ frontier \cup pending = {Root} /\ stage = "cluster"

(* What is considered or clustered depends on something, but for Root.     *)
Depends ==
  \A n \in Node :
    n \in frontier \cup pending \/ Clustered(n) => n = Root \/ Before[n] # {}

(* A node is clustered after all that it depends on; one that is not, and  *)
(* need not wait, is in a worklist.                                        *)
InOrder == \A n \in Node : Clustered(n) => \A m \in Before[n] : Clustered(m)
NoneLost ==
  stage = "cluster" =>
    \A n \in Node : ~IsExit(n) /\ Ready(n) => n \in frontier \cup pending
Complete == stage # "cluster" => \A n \in Node : IsExit(n) \/ Clustered(n)

(* What is in the first cluster depends on nothing outside of it.          *)
FirstCluster ==
  /\ \A n \in Node : clusterOf[n] = Root => \A m \in Before[n] : clusterOf[m] = Root
  /\ cluster = Root => \A n \in Node : Clustered(n) => clusterOf[n] = Root

(* A set that holds the Sync of every thread it has a node of; what such a *)
(* set holds because of n: n, its Sync, the Sync of that, and so on.       *)
Upward(S) == \A k \in S : Home(k) # Main => Home(k).sync \in S
Line(n) == {m \in Node : \A S \in SUBSET Node : n \in S /\ Upward(S) => m \in S}

(* The threads n is inside of, those apart that a Fork goes on with.       *)
Inside(n) == {p \in {Home(m) : m \in Line(n)} : p.thread # 0}

(* A cluster starts with its seed, is inside of the same threads as it,    *)
(* and a Sync is a seed.                                                   *)
Together ==
  \A n \in Node : Clustered(n) =>
    /\ clusterOf[n] <= n /\ clusterOf[clusterOf[n]] = clusterOf[n]
    /\ Inside(n) = Inside(clusterOf[n])
    /\ Kind(n) = "sync" => clusterOf[n] = n
Grows ==
  /\ cluster = 0 => \A m, n \in pending : m = n
  /\ cluster # 0 =>
       /\ clusterOf[cluster] = cluster
       /\ \A n \in pending : cluster < n /\ Inside(n) = Inside(cluster) /\ Kind(n) # "sync"

(* The levels of the clusters after c.                                     *)
Climbs(c) == \A d \in ClusterSucc(c) : level[c] < level[d]
Relaxed ==
  /\ stage = "cluster" => level = [n \in Node |-> 0] /\ unvisited = {}
  /\ stage = "ready" => unvisited = {}
  /\ level[Root] = 0
  /\ stage # "cluster" =>
       \A c \in Node \ unvisited : c = Root \/ level[c] > 0 => Climbs(c)

Bounded == \E l \in Nat : \A c \in Node : level[c] <= l

ClusterInv ==
  /\ ClusterTypeOK /\ Started /\ Depends /\ InOrder /\ NoneLost /\ Complete
  /\ FirstCluster /\ Together /\ Grows /\ Relaxed /\ Bounded

-----------------------------------------------------------------------------

(* What the assumptions say of the arcs.                                   *)
LEMMA FixedArcs ==
  /\ 0 \notin Node /\ Node \subseteq Nat /\ Root \in Node
  /\ \A n \in Node :
       /\ Before[n] \subseteq Node /\ After[n] \subseteq Node
       /\ CSuccSet(n) \subseteq After[n] /\ Candidates(n) \subseteq CSuccSet(n)
       /\ \A m \in Node : m \in After[n] <=> n \in Before[m]
       /\ \A m \in Before[n] : m < n /\ ~IsExit(m)
       /\ Before[n] = {} <=> n = Root \/ IsExit(n)
<1>1. 0 \notin Node /\ Node \subseteq Nat /\ Root \in Node
  BY GraphAssumption DEF Node
<1>2. ASSUME NEW n \in Node
      PROVE  CSuccSet(n) \subseteq Node /\ Candidates(n) \subseteq CSuccSet(n)
  <2>1. /\ CSucc[n] \in Seq(Node \cup {0})
        /\ Kind(n) = "fork" => CSucc[n] # <<>> /\ \A i \in DOMAIN CSucc[n] : CSucc[n][i] # 0
    BY FixAssumption
  <2>2. Kind(n) = "fork" => 1 \in DOMAIN CSucc[n] /\ CSucc[n][1] # 0
    BY <2>1
  <2> QED
    BY <2>1, <2>2 DEF CSuccSet, Candidates
<1>3. ASSUME NEW n \in Node
      PROVE  /\ Before[n] = Data(n) \cup {m \in Node : n \in CSuccSet(m)}
             /\ After[n] = DataSucc(n) \cup CSuccSet(n)
             /\ Data(n) \subseteq Node
  BY ArcAssumption DEF Before, After
<1>4. ASSUME NEW n \in Node
      PROVE  /\ Before[n] \subseteq Node /\ After[n] \subseteq Node
             /\ CSuccSet(n) \subseteq After[n]
             /\ \A m \in Node : m \in After[n] <=> n \in Before[m]
  BY <1>2, <1>3 DEF DataSucc
<1> QED
  BY <1>1, <1>2, <1>4, FixAssumption

-----------------------------------------------------------------------------
(* Threads and the arcs of the rewired graph.                              *)

(* Nothing but ExitGRC is erased from a vector of successors.              *)
LEMMA NoExitsFacts ==
  ASSUME NEW n \in Node
  PROVE  /\ \A i \in DOMAIN NoExits(n) : NoExits(n)[i] \in SuccSet(n) \cup {0}
         /\ \A m \in SuccSet(n) : ~IsExit(m) => \E i \in DOMAIN NoExits(n) : NoExits(n)[i] = m
         /\ NoExits(n) \in Seq(Node \cup {0})
         /\ (\A m \in SuccSet(n) : ~IsExit(m)) =>
              Len(NoExits(n)) = Len(Succ(n)) /\ \A i \in DOMAIN Succ(n) : NoExits(n)[i] = Succ(n)[i]
<1> DEFINE I == {i \in DOMAIN Succ(n) : Succ(n)[i] = 0 \/ ~IsExit(Succ(n)[i])}
           L == Len(Succ(n))
<1>1. /\ L \in Nat /\ DOMAIN Succ(n) = 1..L
      /\ \A i \in 1..L : Succ(n)[i] \in SuccSet(n) \cup {0} /\ Succ(n)[i] \in Node \cup {0}
      /\ \A m \in SuccSet(n) : m # 0 /\ \E i \in 1..L : m = Succ(n)[i]
  BY Arcs
<1>2. I \in SUBSET (1..L)
  BY <1>1
<1>3. NoExits(n) = [j \in 1..Cardinality(I) |-> Succ(n)[Nth(I, j)]]
  BY DEF NoExits, Thinned
<1>4. \A m \in SuccSet(n) : ~IsExit(m) => \E i \in I : Succ(n)[i] = m
  BY <1>1
<1>5. (\A m \in SuccSet(n) : ~IsExit(m)) => I = 1..L
  BY <1>1
<1> HIDE DEF I, L
<1>6. /\ Cardinality(I) \in Nat
      /\ \A j \in 1..Cardinality(I) : Nth(I, j) \in I
      /\ \A i \in I : \E j \in 1..Cardinality(I) : Nth(I, j) = i
  BY <1>1, <1>2, NthFacts
<1>7. I = 1..L => Cardinality(I) = L /\ \A j \in 1..L : Nth(I, j) = j
  BY <1>1, NthOfAll
<1>8. DOMAIN NoExits(n) = 1..Cardinality(I)
  BY <1>3
<1>9. \A i \in DOMAIN NoExits(n) :
        NoExits(n)[i] \in SuccSet(n) \cup {0} /\ NoExits(n)[i] \in Node \cup {0}
  BY <1>1, <1>2, <1>3, <1>6, <1>8
<1>10. \A m \in SuccSet(n) : ~IsExit(m) => \E i \in DOMAIN NoExits(n) : NoExits(n)[i] = m
  BY <1>3, <1>4, <1>6, <1>8
<1>11. NoExits(n) \in Seq(Node \cup {0}) /\ Len(NoExits(n)) = Cardinality(I)
  BY <1>3, <1>6, <1>9
<1>12. ASSUME \A m \in SuccSet(n) : ~IsExit(m)
       PROVE  Len(NoExits(n)) = L /\ \A i \in DOMAIN Succ(n) : NoExits(n)[i] = Succ(n)[i]
  BY <1>1, <1>3, <1>5, <1>7, <1>11, <1>12
<1> QED
  BY <1>9, <1>10, <1>11, <1>12 DEF L

(* A Fork leads to its branches and to its Sync, the Terminate of a thread *)
(* nowhere; every other node leads where it led, but for ExitGRC.          *)
LEMMA RewiredArcs ==
  ASSUME NEW n \in Node
  PROVE  /\ Kind(n) = "fork" =>
              /\ DOMAIN CSucc[n] = 1..(Len(Succ(n)) + 1)
              /\ \A i \in DOMAIN Succ(n) : CSucc[n][i] = Succ(n)[i]
              /\ CSucc[n][Len(Succ(n)) + 1] = Graph[n].sync
         /\ Kind(n) = "term" /\ Home(n) # Main => CSucc[n] = <<>>
         /\ Kind(n) # "fork" /\ (Kind(n) # "term" \/ Home(n) = Main) =>
              /\ CSuccSet(n) \subseteq SuccSet(n)
              /\ \A m \in SuccSet(n) : ~IsExit(m) => m \in CSuccSet(n)
<1>1. /\ Nested /\ n \in Inner /\ Len(Succ(n)) \in Nat /\ DOMAIN Succ(n) = 1..Len(Succ(n))
      /\ \A m \in SuccSet(n) : m # 0
  BY NestAssumption, Arcs
<1>2. ASSUME Kind(n) = "fork"
      PROVE  /\ DOMAIN CSucc[n] = 1..(Len(Succ(n)) + 1)
             /\ \A i \in DOMAIN Succ(n) : CSucc[n][i] = Succ(n)[i]
             /\ CSucc[n][Len(Succ(n)) + 1] = Graph[n].sync
  <2>1. ASSUME NEW m \in SuccSet(n)
        PROVE  ~IsExit(m)
    <3>1. PICK i \in DOMAIN Succ(n) : m = Succ(n)[i]
      BY DEF SuccSet
    <3>2. m \in Inner /\ Home(m) # Main
      BY <1>1, <1>2, <3>1, ForkPlaces
    <3>3. m \in Node
      BY <1>1, <3>2, Places
    <3>4. SuccSet(m) # {}
      BY <1>1, <3>2, Ends
    <3>5. Succ(m) # <<>>
      BY <3>4 DEF SuccSet
    <3> QED
      BY <3>5 DEF IsExit
  <2>2. /\ NoExits(n) \in Seq(Node \cup {0}) /\ Len(NoExits(n)) = Len(Succ(n))
        /\ \A i \in DOMAIN Succ(n) : NoExits(n)[i] = Succ(n)[i]
    BY <2>1, NoExitsFacts
  <2>3. Graph[n].sync \in Node /\ Graph[n].sync # 0
    BY <1>1, <1>2, ForkPlaces, Places, Arcs
  <2>4. CSucc[n] = NoExits(n) \o <<Graph[n].sync>>
    BY <1>2, <2>3 DEF CSucc, JoinsSync, ToSync
  <2>5. /\ DOMAIN CSucc[n] = 1..(Len(NoExits(n)) + 1)
        /\ \A i \in 1..Len(NoExits(n)) : CSucc[n][i] = NoExits(n)[i]
        /\ CSucc[n][Len(NoExits(n)) + 1] = Graph[n].sync
    <3> DEFINE v == NoExits(n)
               z == Graph[n].sync
    <3>1. v \in Seq(Node \cup {0}) /\ z \in Node \cup {0} /\ CSucc[n] = v \o <<z>>
      BY <2>2, <2>3, <2>4
    <3> HIDE DEF v, z
    <3> QED
      BY <3>1 DEF v, z
  <2> QED
    BY <1>1, <2>2, <2>5
<1>3. ASSUME Kind(n) = "term", Home(n) # Main
      PROVE  CSucc[n] = <<>>
  <2>1. SuccSet(n) = {Home(n).sync} /\ Kind(Home(n).sync) = "sync"
    BY <1>1, <1>3, Ends DEF Nested
  <2>2. Home(n).sync \in Node
    BY <2>1, Arcs
  <2>3. JoinsSync(n)
    BY <1>3, <2>1, <2>2 DEF JoinsSync, OfKind
  <2> QED
    BY <2>3 DEF CSucc
<1>4. ASSUME Kind(n) # "fork", Kind(n) # "term" \/ Home(n) = Main
      PROVE  /\ CSuccSet(n) \subseteq SuccSet(n)
             /\ \A m \in SuccSet(n) : ~IsExit(m) => m \in CSuccSet(n)
  <2>1. \A m \in SuccSet(n) : Kind(m) # "sync"
    BY <1>1, <1>4 DEF Nested
  <2>2. ~JoinsSync(n) /\ ToSync(n) = <<>>
    BY <1>4, <2>1 DEF JoinsSync, ToSync, OfKind
  <2>3. NoExits(n) \in Seq(Node \cup {0})
    BY NoExitsFacts
  <2>4. CSucc[n] = NoExits(n)
    BY <2>2, <2>3 DEF CSucc
  <2>5. /\ \A i \in DOMAIN NoExits(n) : NoExits(n)[i] \in SuccSet(n) \cup {0}
        /\ \A m \in SuccSet(n) : ~IsExit(m) => \E i \in DOMAIN NoExits(n) : NoExits(n)[i] = m
    BY NoExitsFacts
  <2> QED
    BY <1>1, <2>4, <2>5 DEF CSuccSet
<1> QED
  BY <1>2, <1>3, <1>4

(* A statement that goes on has one way to go.                             *)
LEMMA OneWay ==
  ASSUME NEW n \in Node, Kind(n) \in {"term", "enter", "emit", "exit", "define", "pass"}
  PROVE  Len(CSucc[n]) \in Nat /\ Len(CSucc[n]) <= 1 /\ DOMAIN CSucc[n] = 1..Len(CSucc[n])
<1> DEFINE I == {i \in DOMAIN Succ(n) : Succ(n)[i] = 0 \/ ~IsExit(Succ(n)[i])}
           L == Len(Succ(n))
<1>1. L \in Nat /\ DOMAIN Succ(n) = 1..L /\ L <= 1
  BY Arcs, ArcAssumption
<1>2. Cardinality(I) \in Nat /\ Cardinality(I) <= L
  <2>1. IsFiniteSet(1..L) /\ Cardinality(1..L) = L
    BY <1>1, NthOfAll, FS_Interval
  <2>2. I \subseteq 1..L
    BY <1>1
  <2> HIDE DEF I, L
  <2> QED
    BY <2>1, <2>2, FS_Subset, FS_CardinalityType
<1>3. NoExits(n) = [j \in 1..Cardinality(I) |-> Succ(n)[Nth(I, j)]]
  BY DEF NoExits, Thinned
<1>4. NoExits(n) \in Seq(Node \cup {0}) /\ Len(NoExits(n)) = Cardinality(I)
  <2>1. NoExits(n) \in Seq(Node \cup {0})
    BY NoExitsFacts
  <2> HIDE DEF I
  <2> QED
    BY <1>2, <1>3, <2>1
<1>5. CSucc[n] = <<>> \/ CSucc[n] = NoExits(n)
  <2>1. ToSync(n) = <<>>
    BY DEF ToSync
  <2> QED
    BY <1>4, <2>1 DEF CSucc
<1>6. CSucc[n] \in Seq(Node \cup {0})
  BY FixAssumption
<1> HIDE DEF I
<1> QED
  BY <1>1, <1>2, <1>4, <1>5, <1>6

(* A node of a thread that is no Terminate leads to a node of the thread,  *)
(* the Fork to its Sync.                                                   *)
LEMMA ThreadGoesOn ==
  ASSUME NEW n \in Node, Home(n) # Main
  PROVE  \/ /\ Kind(n) = "term" /\ n \in Before[Home(n).sync]
            /\ Home(n).sync \in Node /\ Kind(Home(n).sync) = "sync"
         \/ \E m \in Node : n \in Before[m] /\ Home(m) = Home(n)
<1>1. Nested /\ n \in Inner
  BY NestAssumption
<1>2. CASE Kind(n) = "term"
  <2>1. /\ SuccSet(n) = {Home(n).sync} /\ Kind(Home(n).sync) = "sync"
        /\ n \in Data(Home(n).sync)
    BY <1>1, <1>2, Ends DEF Nested
  <2>2. Home(n).sync \in Node
    BY <2>1, Arcs
  <2> QED
    BY <1>2, <2>1, <2>2 DEF Before
<1>3. CASE Kind(n) = "fork"
  <2>1. Graph[n].sync \in Node /\ Home(Graph[n].sync) = Home(n)
    BY <1>1, <1>3, ForkPlaces, Places
  <2>2. Graph[n].sync \in CSuccSet(n)
    <3>1. /\ Len(Succ(n)) + 1 \in DOMAIN CSucc[n]
          /\ CSucc[n][Len(Succ(n)) + 1] = Graph[n].sync
      BY <1>3, RewiredArcs, Arcs
    <3> QED
      BY <2>1, <3>1, Arcs DEF CSuccSet
  <2> QED
    BY <2>1, <2>2 DEF Before
<1>4. CASE Kind(n) # "term" /\ Kind(n) # "fork"
  <2>1. PICK m : m \in SuccSet(n)
    BY <1>1, Ends
  <2>2. m \in Node /\ m \in Inner /\ Home(m) = Home(n)
    <3>1. m \in Inner
      BY <2>1, NestAssumption, Arcs
    <3> QED
      BY <1>1, <1>4, <2>1, <3>1, OtherPlaces, Places
  <2>3. SuccSet(m) # {}
    BY <1>1, <2>2, Ends
  <2>4. ~IsExit(m)
    BY <2>3 DEF IsExit, SuccSet
  <2>5. m \in CSuccSet(n)
    BY <1>4, <2>1, <2>4, RewiredArcs
  <2> QED
    BY <2>2, <2>5 DEF Before
<1> QED
  BY <1>2, <1>3, <1>4

(* So the Sync of a thread comes after every node of the thread.           *)
LEMMA SyncIsLater ==
  ASSUME NEW n \in Node, Home(n) # Main
  PROVE  Home(n).sync \in Node /\ n < Home(n).sync /\ Kind(Home(n).sync) = "sync"
<1> DEFINE Later(k) == Home(k) # Main =>
             Home(k).sync \in Node /\ k < Home(k).sync /\ Kind(Home(k).sync) = "sync"
           T == {k \in Node : Later(k)}
<1>1. ASSUME NEW k \in Node, \A m \in Node : k < m => m \in T
      PROVE  k \in T
  <2> SUFFICES ASSUME Home(k) # Main PROVE Later(k)
    OBVIOUS
  <2>1. CASE Home(k).sync \in Node /\ k \in Before[Home(k).sync] /\ Kind(Home(k).sync) = "sync"
    BY <2>1, FixedArcs
  <2>2. CASE \E m \in Node : k \in Before[m] /\ Home(m) = Home(k)
    <3>1. PICK m \in Node : k \in Before[m] /\ Home(m) = Home(k)
      BY <2>2
    <3>2. k < m
      BY <3>1, FixedArcs
    <3>3. Home(k).sync \in Node /\ m < Home(k).sync /\ Kind(Home(k).sync) = "sync"
      BY <1>1, <3>1, <3>2
    <3>4. k \in Nat /\ m \in Nat /\ Home(k).sync \in Nat
      BY <3>3, FixedArcs
    <3>5. k < Home(k).sync
      BY <3>2, <3>3, <3>4
    <3> QED
      BY <3>3, <3>5
  <2> QED
    BY <2>1, <2>2, ThreadGoesOn
<1>2. Node \subseteq T
  <2> HIDE DEF T
  <2> QED
    BY <1>1, InductDown
<1> QED
  BY <1>2

(* What Line(n) holds: n and, in a thread, what Line of its Sync holds.    *)
LEMMA LineFacts ==
  ASSUME NEW n \in Node
  PROVE  /\ n \in Line(n) /\ Line(n) \subseteq Node /\ Upward(Line(n))
         /\ \A m \in Line(n) : m = n \/ n < m
         /\ \A m \in Line(n) : m = n \/ (Home(n) # Main /\ m \in Line(Home(n).sync))
         /\ Home(n) # Main => Line(Home(n).sync) \subseteq Line(n)
<1>1. ASSUME NEW k \in Node
      PROVE  k \in Line(k) /\ Line(k) \subseteq Node /\ Upward(Line(k))
  <2>1. k \in Line(k) /\ Line(k) \subseteq Node
    BY DEF Line
  <2>2. ASSUME NEW m \in Line(k), Home(m) # Main
        PROVE  Home(m).sync \in Line(k)
    <3>1. Home(m).sync \in Node
      BY <2>1, <2>2, SyncIsLater
    <3>2. ASSUME NEW S \in SUBSET Node, k \in S, Upward(S)
          PROVE  Home(m).sync \in S
      <4>1. m \in S
        BY <3>2 DEF Line
      <4> QED
        BY <2>2, <3>2, <4>1 DEF Upward
    <3> QED
      BY <3>1, <3>2 DEF Line
  <2> QED
    BY <2>1, <2>2 DEF Upward
<1>2. ASSUME NEW S \in SUBSET Node, n \in S, Upward(S)
      PROVE  Line(n) \subseteq S
  BY <1>2 DEF Line
<1>3. \A m \in Line(n) : m = n \/ n < m
  <2> DEFINE S == {m \in Node : m = n \/ n < m}
  <2>1. ASSUME NEW m \in S, Home(m) # Main
        PROVE  Home(m).sync \in S
    <3>1. Home(m).sync \in Node /\ m < Home(m).sync
      BY <2>1, SyncIsLater
    <3>2. n \in Nat /\ m \in Nat /\ Home(m).sync \in Nat /\ (m = n \/ n < m)
      BY <3>1, FixedArcs
    <3>3. n < Home(m).sync
      BY <3>1, <3>2
    <3> QED
      BY <3>1, <3>3
  <2>2. S \in SUBSET Node /\ n \in S /\ Upward(S)
    BY <2>1 DEF Upward
  <2> HIDE DEF S
  <2>3. Line(n) \subseteq S
    BY <2>2, <1>2
  <2> QED
    BY <2>3 DEF S
<1>4. ASSUME NEW m \in Line(n)
      PROVE  m = n \/ (Home(n) # Main /\ m \in Line(Home(n).sync))
  <2>1. CASE Home(n) = Main
    <3>1. {n} \in SUBSET Node /\ Upward({n})
      BY <2>1 DEF Upward
    <3>2. Line(n) \subseteq {n}
      BY <3>1, <1>2
    <3> QED
      BY <3>2
  <2>2. CASE Home(n) # Main
    <3> DEFINE S == {n} \cup Line(Home(n).sync)
    <3>1. Home(n).sync \in Node
      BY <2>2, SyncIsLater
    <3>2. Home(n).sync \in Line(Home(n).sync) /\ Upward(Line(Home(n).sync))
          /\ Line(Home(n).sync) \subseteq Node
      BY <3>1, <1>1
    <3>3. S \in SUBSET Node /\ n \in S /\ Upward(S)
      BY <3>2 DEF Upward
    <3> HIDE DEF S
    <3>4. Line(n) \subseteq S
      BY <3>3, <1>2
    <3> QED
      BY <3>4, <2>2 DEF S
  <2> QED
    BY <2>1, <2>2
<1>5. ASSUME Home(n) # Main
      PROVE  Line(Home(n).sync) \subseteq Line(n)
  <2>1. Line(n) \in SUBSET Node /\ Home(n).sync \in Line(n) /\ Upward(Line(n))
    BY <1>1, <1>5 DEF Upward
  <2>2. \A m \in Line(Home(n).sync) : m \in Line(n)
    BY <2>1 DEF Line
  <2> QED
    BY <2>2
<1> QED
  BY <1>1, <1>3, <1>4, <1>5

(* The threads around n depend on the place of n alone.                    *)
LEMMA InsideFacts ==
  ASSUME NEW n \in Node
  PROVE  /\ Home(n) = Main => Inside(n) = {}
         /\ Home(n) # Main /\ Home(n).thread = 0 => Inside(n) = Inside(Home(n).sync)
         /\ Home(n) # Main /\ Home(n).thread # 0 =>
              Inside(n) = {Home(n)} \cup Inside(Home(n).sync)
         /\ \A p \in Inside(n) : p.sync \in Node /\ n < p.sync
<1>1. ASSUME Home(n) = Main
      PROVE  Inside(n) = {}
  <2>1. Line(n) = {n} /\ Home(n).thread = 0
    BY <1>1, LineFacts DEF Main
  <2> QED
    BY <2>1 DEF Inside
<1>2. ASSUME Home(n) # Main
      PROVE  /\ Home(n).thread = 0 => Inside(n) = Inside(Home(n).sync)
             /\ Home(n).thread # 0 => Inside(n) = {Home(n)} \cup Inside(Home(n).sync)
  <2>1. Line(n) = {n} \cup Line(Home(n).sync)
    BY <1>2, LineFacts
  <2> QED
    BY <2>1 DEF Inside
<1>3. ASSUME NEW p \in Inside(n)
      PROVE  p.sync \in Node /\ n < p.sync
  <2>1. PICK m \in Line(n) : p = Home(m) /\ p.thread # 0
    BY DEF Inside
  <2>2. m \in Node /\ Home(m) # Main /\ (m = n \/ n < m)
    BY <2>1, LineFacts DEF Main
  <2>3. p.sync \in Node /\ m < p.sync
    BY <2>1, <2>2, SyncIsLater
  <2>4. n \in Nat /\ m \in Nat /\ p.sync \in Nat
    BY <2>2, <2>3, FixedArcs
  <2> QED
    BY <2>2, <2>3, <2>4
<1> QED
  BY <1>1, <1>2, <1>3

(* The branches of a Fork but the first are inside of one thread more.     *)
LEMMA BranchInside ==
  ASSUME NEW f \in Node, Kind(f) = "fork", NEW j \in DOMAIN Succ(f)
  PROVE  /\ Succ(f)[j] \in Node /\ Graph[f].sync \in Node
         /\ Inside(Graph[f].sync) = Inside(f)
         /\ j = 1 <=> Inside(Succ(f)[j]) = Inside(f)
<1> DEFINE b == Succ(f)[j]
           s == Graph[f].sync
<1>1. /\ b \in Node /\ s \in Node /\ Home(s) = Home(f)
      /\ Home(b) # Main /\ Home(b).sync = s /\ Home(b) = PlaceOf(f, j)
  BY NestAssumption, ForkPlaces, Places
<1>2. j \in Nat /\ Home(b).thread = j - 1
  BY <1>1, Arcs DEF PlaceOf
<1> HIDE DEF b, s
<1>3. Inside(s) = Inside(f)
  <2>1. Inside(s) = Inside(f) \/ Home(f) # Main
    BY <1>1, InsideFacts
  <2>2. Home(f) # Main => Inside(s) = Inside(f)
    BY <1>1, InsideFacts
  <2> QED
    BY <2>1, <2>2
<1>4. j = 1 => Inside(b) = Inside(f)
  BY <1>1, <1>2, <1>3, InsideFacts
<1>5. ASSUME j # 1
      PROVE  Inside(b) # Inside(f)
  <2>1. Home(b).thread # 0
    BY <1>2, <1>5
  <2>2. Home(b) \in Inside(b)
    BY <1>1, <2>1, InsideFacts
  <2>3. Home(b) \notin Inside(s)
    <3>1. s \in Nat /\ ~(s < s)
      BY <1>1, FixedArcs
    <3> QED
      BY <1>1, <3>1, InsideFacts
  <2> QED
    BY <2>2, <2>3, <1>3
<1> QED
  BY <1>1, <1>3, <1>4, <1>5 DEF b, s

(* What may join the cluster of n is inside of the same threads, comes     *)
(* after n, and is no Sync.                                                *)
LEMMA CandidateInside ==
  ASSUME NEW n \in Node, NEW m \in Candidates(n)
  PROVE  m \in Node /\ Inside(m) = Inside(n) /\ n < m /\ Kind(m) # "sync"
<1>1. m \in CSuccSet(n) /\ m \in Node /\ n < m
  BY FixedArcs
<1>2. CASE Kind(n) = "fork"
  <2>1. 1 \in DOMAIN Succ(n) /\ Kind(Succ(n)[1]) # "sync"
    BY <1>2, NestAssumption, ForkPlaces
  <2>2. m = Succ(n)[1]
    BY <1>2, <2>1, RewiredArcs DEF Candidates
  <2> QED
    BY <1>1, <1>2, <2>1, <2>2, BranchInside
<1>3. CASE Kind(n) # "fork"
  <2>1. Kind(n) # "term" \/ Home(n) = Main
    BY <1>1, RewiredArcs DEF CSuccSet
  <2>2. m \in SuccSet(n) /\ m \in Inner
    BY <1>1, <1>3, <2>1, NestAssumption, RewiredArcs
  <2>3. Home(m) = Home(n) /\ Kind(m) # "sync"
    BY <1>3, <2>1, <2>2, NestAssumption, OtherPlaces
  <2>4. Inside(m) = Inside(n)
    BY <1>1, <2>3, InsideFacts
  <2> QED
    BY <1>1, <2>3, <2>4
<1> QED
  BY <1>2, <1>3

(* In a set of nodes, one of each place, that holds their Syncs too, nodes *)
(* inside of the same threads are on one line.                             *)
LEMMA OnOneLine ==
  ASSUME NEW A \in SUBSET Node, Upward(A),
         \A x, y \in A : Home(x) = Home(y) => x = y,
         NEW u \in A, NEW v \in A, Inside(u) = Inside(v)
  PROVE  u \in Line(v) \/ v \in Line(u)
<1> DEFINE Anchored(x) == Home(x) = Main \/ Home(x).thread # 0
<1>1. ASSUME NEW x \in A, NEW y \in A, Inside(x) = Inside(y), Anchored(x), Anchored(y)
      PROVE  x = y
  <2>1. Home(x) = Main <=> Home(y) = Main
    BY <1>1, InsideFacts
  <2>2. ASSUME Home(x) # Main, Home(y) # Main
        PROVE  Home(x) = Home(y)
    <3>1. /\ Home(x).sync \in Node /\ Home(y).sync \in Node
          /\ Home(x).sync \in Nat /\ Home(y).sync \in Nat
      BY <2>2, SyncIsLater, FixedArcs
    <3>2. Home(x) \in Inside(y) /\ Home(y) \in Inside(x)
      BY <1>1, <2>2, InsideFacts
    <3>3. Home(x) = Home(y) \/ Home(y).sync < Home(x).sync
      BY <1>1, <2>2, <3>1, <3>2, InsideFacts
    <3>4. Home(x) = Home(y) \/ Home(x).sync < Home(y).sync
      BY <1>1, <2>2, <3>1, <3>2, InsideFacts
    <3> QED
      BY <3>1, <3>3, <3>4
  <2> QED
    BY <2>1, <2>2
<1>2. ASSUME NEW x \in A, ~Anchored(x)
      PROVE  /\ Home(x) # Main /\ Home(x).sync \in A /\ x < Home(x).sync
             /\ Inside(Home(x).sync) = Inside(x)
             /\ Line(Home(x).sync) \subseteq Line(x)
  <2>1. Home(x) # Main /\ Home(x).thread = 0
    BY <1>2
  <2> QED
    BY <2>1, SyncIsLater, InsideFacts, LineFacts DEF Upward
<1>3. ASSUME NEW x \in A, Anchored(x), NEW y \in A, Inside(x) = Inside(y)
      PROVE  x \in Line(y)
  <2> DEFINE T == {k \in Node : k \in A /\ Inside(x) = Inside(k) => x \in Line(k)}
  <2>1. ASSUME NEW k \in Node, \A m \in Node : k < m => m \in T
        PROVE  k \in T
    <3> SUFFICES ASSUME k \in A, Inside(x) = Inside(k) PROVE x \in Line(k)
      OBVIOUS
    <3>1. CASE Anchored(k)
      BY <1>1, <1>3, <3>1, LineFacts
    <3>2. CASE ~Anchored(k)
      <4>1. /\ Home(k).sync \in A /\ k < Home(k).sync
            /\ Inside(Home(k).sync) = Inside(k) /\ Line(Home(k).sync) \subseteq Line(k)
        BY <3>2, <1>2
      <4>2. Home(k).sync \in T
        BY <2>1, <4>1
      <4> QED
        BY <4>1, <4>2
    <3> QED
      BY <3>1, <3>2
  <2>2. Node \subseteq T
    <3> HIDE DEF T
    <3> QED
      BY <2>1, InductDown
  <2> QED
    BY <1>3, <2>2
<1>4. ASSUME NEW x \in A, ~Anchored(x), NEW y \in A, Inside(x) = Inside(y),
             Home(x).sync \in Line(y)
      PROVE  x \in Line(y) \/ y \in Line(x)
  <2> DEFINE s == Home(x).sync
  <2>1. /\ Home(x) # Main /\ Home(x).thread = 0 /\ s \in Node /\ s \in Nat
        /\ Inside(s) = Inside(x) /\ s \in Line(x)
    BY <1>2, <1>4, LineFacts, FixedArcs
  <2>2. /\ y \in Line(y) /\ Line(y) \subseteq Node /\ Upward(Line(y))
        /\ Line(y) \subseteq A
    BY LineFacts DEF Line
  <2> SUFFICES ASSUME y # s PROVE x \in Line(y)
    BY <2>1
  <2>3. PICK w \in Line(y) : Home(w) # Main /\ Home(w).sync = s
    <3> SUFFICES ASSUME \A w \in Line(y) : Home(w) # Main => Home(w).sync # s
                 PROVE  FALSE
      OBVIOUS
    <3> DEFINE S == Line(y) \ {s}
    <3>1. S \in SUBSET Node /\ y \in S /\ Upward(S)
      BY <2>2 DEF Upward
    <3> HIDE DEF S
    <3>2. Line(y) \subseteq S
      BY <3>1 DEF Line
    <3> QED
      BY <1>4, <3>2 DEF S
  <2>4. Home(w).thread = 0
    <3>1. Home(w).thread # 0 => Home(w) \in Inside(s)
      BY <1>4, <2>1 DEF Inside
    <3>2. ~(s < s)
      BY <2>1
    <3> QED
      BY <2>1, <2>3, <3>1, <3>2, InsideFacts
  <2>5. Home(w) = Home(x)
    <3>1. Home(w) \in Place /\ Home(x) \in Place
      BY <2>2, NestAssumption, Places
    <3> QED
      BY <2>1, <2>3, <2>4, <3>1 DEF Place
  <2> QED
    BY <2>2, <2>5
<1>5. ASSUME NEW x \in A, Inside(x) = Inside(v)
      PROVE  x \in Line(v) \/ v \in Line(x)
  <2> DEFINE T == {k \in Node : k \in A /\ Inside(k) = Inside(v) => k \in Line(v) \/ v \in Line(k)}
  <2>1. ASSUME NEW k \in Node, \A m \in Node : k < m => m \in T
        PROVE  k \in T
    <3> SUFFICES ASSUME k \in A, Inside(k) = Inside(v) PROVE k \in Line(v) \/ v \in Line(k)
      OBVIOUS
    <3>1. CASE Anchored(k)
      BY <1>3, <3>1
    <3>2. CASE ~Anchored(k)
      <4>1. /\ Home(k).sync \in A /\ k < Home(k).sync
            /\ Inside(Home(k).sync) = Inside(k) /\ Line(Home(k).sync) \subseteq Line(k)
        BY <3>2, <1>2
      <4>2. Home(k).sync \in T
        BY <2>1, <4>1
      <4>3. Home(k).sync \in Line(v) \/ v \in Line(Home(k).sync)
        BY <4>1, <4>2
      <4> QED
        BY <1>4, <3>2, <4>1, <4>3
    <3> QED
      BY <3>1, <3>2
  <2>2. Node \subseteq T
    <3> HIDE DEF T
    <3> QED
      BY <2>1, InductDown
  <2> QED
    BY <1>5, <2>2
<1> QED
  BY <1>5

(* The clusters after c hold nodes that depend on a node of c.             *)
LEMMA SuccessorClusters ==
  ASSUME ClusterTypeOK, NEW c \in Node
  PROVE  /\ ClusterSucc(c) \subseteq Node
         /\ \A d \in Node :
              d \in ClusterSucc(c) <=>
                /\ d # c
                /\ \E m \in Node : clusterOf[m] = d /\ \E n \in Before[m] : clusterOf[n] = c
<1> DEFINE mine == {n \in Node : clusterOf[n] = c}
           reach == UNION {After[n] : n \in mine}
<1>1. ClusterSucc(c) = {clusterOf[m] : m \in reach} \ {c, 0}
  BY DEF ClusterSucc
<1>2. \A m : m \in reach <=> m \in Node /\ \E n \in Before[m] : clusterOf[n] = c
  <2>1. \A m : m \in reach <=> \E n \in mine : m \in After[n]
    OBVIOUS
  <2> HIDE DEF reach
  <2> QED
    BY <2>1, FixedArcs
<1> HIDE DEF reach
<1>3. \A m \in Node : clusterOf[m] \in Node \cup {0}
  BY DEF ClusterTypeOK
<1>4. ASSUME NEW d \in Node
      PROVE  d \in ClusterSucc(c) <=> d # c /\ \E m \in reach : clusterOf[m] = d
  BY <1>1, <1>4, FixedArcs
<1>5. ClusterSucc(c) \subseteq Node
  BY <1>1, <1>2, <1>3
<1> QED
  BY <1>2, <1>4, <1>5

(* The worklists and maps of greedyCluster and levelize keep their types.  *)
LEMMA TypesHold ==
  /\ ClusterInit => ClusterTypeOK
  /\ ClusterTypeOK /\ Started /\ [ClusterNext]_clusterVars => ClusterTypeOK'
<1>1. ClusterInit => ClusterTypeOK
  BY FixedArcs DEF ClusterInit, ClusterTypeOK
<1> SUFFICES ASSUME ClusterTypeOK, Started, [ClusterNext]_clusterVars
             PROVE  ClusterTypeOK'
  BY <1>1
<1> USE DEF ClusterTypeOK
<1>2. ASSUME NEW n \in Node, TakeSeed(n)
      PROVE  ClusterTypeOK'
  BY <1>2 DEF TakeSeed
<1>3. ASSUME NEW n \in Node, AddToCluster(n)
      PROVE  ClusterTypeOK'
  <2>1. CSuccSet(n) \subseteq Node /\ Candidates(n) \subseteq Node /\ After[n] \subseteq Node
    BY FixedArcs
  <2>2. cluster' \in Node \cup {0} /\ UNCHANGED <<level, unvisited, stage>>
    BY <1>3 DEF AddToCluster
  <2>3. frontier' \subseteq Node /\ pending' \subseteq Node
    BY <1>3, <2>1 DEF AddToCluster
  <2>4. clusterOf' \in [Node -> Node \cup {0}]
    BY <1>3, <2>2 DEF AddToCluster
  <2> QED
    BY <2>2, <2>3, <2>4
<1>4. ASSUME NEW n \in Node, Drop(n)
      PROVE  ClusterTypeOK'
  BY <1>4 DEF Drop
<1>5. ASSUME NEW c \in Node, Relax(c)
      PROVE  ClusterTypeOK'
  <2>1. ClusterSucc(c) \subseteq Node
    BY SuccessorClusters
  <2> QED
    BY <1>5, <2>1 DEF Relax
<1>6. StartLevels => ClusterTypeOK'
  BY FixedArcs DEF StartLevels, Started
<1>7. EndLevels => ClusterTypeOK'
  BY DEF EndLevels
<1>8. UNCHANGED clusterVars => ClusterTypeOK'
  BY DEF clusterVars
<1> QED
  BY <1>2, <1>3, <1>4, <1>5, <1>6, <1>7, <1>8 DEF ClusterNext

(* A node joins the cluster that grows.                                    *)
LEMMA AddKeeps ==
  ASSUME ClusterInv, NEW n \in Node, AddToCluster(n)
  PROVE  Started' /\ Depends' /\ InOrder' /\ NoneLost' /\ FirstCluster'
<1> USE FixedArcs DEF ClusterTypeOK, Clustered
<1>1. /\ stage = "cluster" /\ stage' = "cluster" /\ n \in pending /\ n # 0
      /\ clusterOf[n] = 0 /\ \A m \in Before[n] : clusterOf[m] # 0
      /\ cluster' = IF cluster = 0 THEN n ELSE cluster
      /\ cluster' \in Node
      /\ pending' = (pending \ {n}) \cup Candidates(n)
      /\ frontier' = (frontier \cup After[n]) \ {n}
  BY DEF AddToCluster, Ready, ClusterInv
<1>2. /\ clusterOf'[n] = cluster'
      /\ \A m \in Node \ {n} : clusterOf'[m] = clusterOf[m]
      /\ clusterOf' \in [Node -> Node \cup {0}]
  BY <1>1 DEF AddToCluster, ClusterInv
<1>3. \A m \in Node : Clustered(m)' <=> m = n \/ Clustered(m)
  BY <1>1, <1>2
<1>4. /\ \A m \in frontier' \cup pending' : m \in frontier \cup pending \/ n \in Before[m]
      /\ frontier' \cup pending' \subseteq Node
  BY <1>1 DEF ClusterInv
<1>5. Started'
  <2>1. CASE clusterOf[Root] = 0
    <3>1. n = Root /\ cluster = 0
      BY <1>1, <2>1 DEF ClusterInv, Started
    <3> QED
      BY <1>1, <1>2, <3>1 DEF Started
  <2>2. CASE clusterOf[Root] = Root
    <3>1. n # Root
      BY <1>1, <2>2
    <3> QED
      BY <1>2, <2>2, <3>1 DEF Started
  <2> QED
    BY <2>1, <2>2 DEF ClusterInv, Started
<1>6. Depends'
  BY <1>1, <1>3, <1>4 DEF ClusterInv, Depends
<1>7. InOrder'
  BY <1>1, <1>3 DEF ClusterInv, InOrder
<1>8. NoneLost'
  <2> SUFFICES ASSUME NEW m \in Node, ~IsExit(m), Ready(m)'
               PROVE  m \in frontier' \cup pending'
    BY DEF NoneLost
  <2>1. m # n /\ ~Clustered(m) /\ \A k \in Before[m] : k = n \/ Clustered(k)
    BY <1>3 DEF Ready
  <2>2. CASE n \in Before[m]
    BY <1>1, <2>1, <2>2
  <2>3. CASE n \notin Before[m]
    <3>1. m \in frontier \cup pending
      BY <1>1, <2>1, <2>3 DEF ClusterInv, NoneLost, Ready
    <3> QED
      BY <1>1, <2>1, <3>1
  <2> QED
    BY <2>2, <2>3
<1>9. FirstCluster'
  <2>1. CASE clusterOf[Root] = 0
    <3>1. n = Root /\ cluster' = Root /\ \A m \in Node : clusterOf[m] = 0
      BY <1>1, <2>1 DEF ClusterInv, Started
    <3>2. \A m \in Node : clusterOf'[m] = Root => m = Root
      BY <1>2, <3>1
    <3>3. \A m \in Node : clusterOf'[m] # 0 => clusterOf'[m] = Root
      BY <1>2, <3>1
    <3> QED
      BY <3>2, <3>3 DEF FirstCluster
  <2>2. CASE clusterOf[Root] = Root
    <3>1. n # Root
      BY <1>1, <2>2
    <3>2. cluster' = Root => cluster = Root
      BY <1>1, <3>1
    <3>3. ASSUME cluster' = Root
          PROVE  \A m \in Node : clusterOf'[m] # 0 => clusterOf'[m] = Root
      BY <1>2, <3>2, <3>3 DEF ClusterInv, FirstCluster
    <3>4. ASSUME NEW m \in Node, clusterOf'[m] = Root, NEW k \in Before[m]
          PROVE  clusterOf'[k] = Root
      <4>1. k \in Node
        OBVIOUS
      <4>2. CASE m = n
        BY <1>1, <1>2, <3>3, <3>4, <4>1, <4>2
      <4>3. CASE m # n
        <5>1. clusterOf[m] = Root /\ clusterOf[k] = Root
          BY <1>2, <3>4, <4>1, <4>3 DEF ClusterInv, FirstCluster
        <5>2. k # n
          BY <1>1, <5>1
        <5> QED
          BY <1>2, <4>1, <5>1, <5>2
      <4> QED
        BY <4>2, <4>3
    <3> QED
      BY <3>3, <3>4 DEF FirstCluster
  <2> QED
    BY <2>1, <2>2 DEF ClusterInv, Started
<1> QED
  BY <1>5, <1>6, <1>7, <1>8, <1>9

(* What joins a cluster is a candidate of a node of it.                    *)
LEMMA AddKeepsTogether ==
  ASSUME ClusterInv, NEW n \in Node, AddToCluster(n)
  PROVE  Together' /\ Grows'
<1>1. /\ n \in pending /\ clusterOf[n] = 0 /\ n # 0 /\ n \in Nat
      /\ cluster' = IF cluster = 0 THEN n ELSE cluster
      /\ clusterOf' = [clusterOf EXCEPT ![n] = cluster']
      /\ pending' = (pending \ {n}) \cup Candidates(n)
      /\ clusterOf \in [Node -> Node \cup {0}] /\ cluster \in Node \cup {0}
  BY FixedArcs DEF AddToCluster, Ready, Clustered, ClusterInv, ClusterTypeOK
<1>2. /\ clusterOf'[n] = cluster' /\ cluster' \in Node
      /\ \A m \in Node \ {n} : clusterOf'[m] = clusterOf[m]
  BY <1>1
<1>3. /\ clusterOf'[cluster'] = cluster' /\ cluster' <= n /\ Inside(cluster') = Inside(n)
      /\ Kind(n) = "sync" => cluster' = n
      /\ \A m \in pending \ {n} :
           cluster' < m /\ Inside(m) = Inside(cluster') /\ Kind(m) # "sync"
  <2>1. CASE cluster = 0
    <3>1. cluster' = n /\ \A m \in pending : m = n
      BY <1>1, <2>1 DEF ClusterInv, Grows
    <3> QED
      BY <1>1, <1>2, <3>1
  <2>2. CASE cluster # 0
    <3>1. /\ cluster' = cluster /\ clusterOf[cluster] = cluster /\ cluster \in Nat /\ cluster < n
          /\ \A m \in pending : cluster < m /\ Inside(m) = Inside(cluster) /\ Kind(m) # "sync"
      BY <1>1, <2>2, FixedArcs DEF ClusterInv, Grows
    <3>2. cluster # n /\ cluster <= n
      BY <1>1, <3>1
    <3> QED
      BY <1>1, <1>2, <3>1, <3>2
  <2> QED
    BY <2>1, <2>2
<1>4. ASSUME NEW m \in Candidates(n)
      PROVE  cluster' < m /\ Inside(m) = Inside(cluster') /\ Kind(m) # "sync"
  <2>1. m \in Node /\ Inside(m) = Inside(n) /\ n < m /\ Kind(m) # "sync"
    BY CandidateInside
  <2>2. m \in Nat /\ cluster' \in Nat
    BY <1>2, <2>1, FixedArcs
  <2>3. cluster' < m
    BY <1>1, <1>3, <2>1, <2>2
  <2> QED
    BY <1>3, <2>1, <2>3
<1>5. Grows'
  <2>1. cluster' # 0
    BY <1>2, FixedArcs
  <2> QED
    BY <1>1, <1>3, <1>4, <2>1 DEF Grows
<1>6. ASSUME NEW m \in Node, m # n, clusterOf[m] # 0
      PROVE  /\ clusterOf'[m] = clusterOf[m] /\ clusterOf'[clusterOf[m]] = clusterOf[m]
             /\ clusterOf[m] <= m /\ Inside(m) = Inside(clusterOf[m])
             /\ Kind(m) = "sync" => clusterOf[m] = m
  <2>1. /\ clusterOf[m] \in Node /\ clusterOf[clusterOf[m]] = clusterOf[m]
        /\ clusterOf[m] <= m /\ Inside(m) = Inside(clusterOf[m])
        /\ Kind(m) = "sync" => clusterOf[m] = m
    BY <1>1, <1>6 DEF ClusterInv, Together, Clustered
  <2>2. clusterOf[m] # n
    BY <1>1, <1>6, <2>1
  <2> QED
    BY <1>2, <1>6, <2>1, <2>2
<1>7. Together'
  <2> SUFFICES ASSUME NEW m \in Node, clusterOf'[m] # 0
               PROVE  /\ clusterOf'[m] <= m /\ clusterOf'[clusterOf'[m]] = clusterOf'[m]
                      /\ Inside(m) = Inside(clusterOf'[m])
                      /\ Kind(m) = "sync" => clusterOf'[m] = m
    BY DEF Together, Clustered
  <2>1. CASE m = n
    BY <1>2, <1>3, <2>1
  <2>2. CASE m # n
    <3>1. clusterOf[m] # 0 /\ clusterOf'[m] = clusterOf[m]
      BY <1>2, <2>2
    <3> QED
      BY <1>6, <2>2, <3>1
  <2> QED
    BY <2>1, <2>2
<1> QED
  BY <1>5, <1>7

(* The other steps of the loops put no node in a cluster.                  *)
LEMMA TogetherStays ==
  ASSUME ClusterInv, [ClusterNext]_clusterVars
  PROVE  Together' /\ Grows'
<1>1. ASSUME clusterOf' = clusterOf
      PROVE  Together'
  BY <1>1 DEF ClusterInv, Together, Clustered
<1>2. ASSUME NEW n \in Node, TakeSeed(n)
      PROVE  Together' /\ Grows'
  BY <1>1, <1>2 DEF TakeSeed, Grows
<1>3. ASSUME NEW n \in Node, AddToCluster(n)
      PROVE  Together' /\ Grows'
  BY <1>3, AddKeepsTogether
<1>4. ASSUME NEW n \in Node, Drop(n)
      PROVE  Together' /\ Grows'
  BY <1>1, <1>4 DEF Drop, Grows, ClusterInv
<1>5. ASSUME UNCHANGED <<pending, cluster, clusterOf>>
      PROVE  Together' /\ Grows'
  BY <1>1, <1>5 DEF Grows, ClusterInv
<1>6. ASSUME (\E n \in Node : Relax(n)) \/ StartLevels \/ EndLevels \/ UNCHANGED clusterVars
      PROVE  UNCHANGED <<pending, cluster, clusterOf>>
  BY <1>6 DEF Relax, StartLevels, EndLevels, clusterVars
<1> QED
  BY <1>2, <1>3, <1>4, <1>5, <1>6 DEF ClusterNext

(* A seed, or a candidate that is dropped, moves no other node.            *)
LEMMA SeedKeeps ==
  ASSUME ClusterInv, NEW n \in Node, TakeSeed(n)
  PROVE  Started' /\ Depends' /\ InOrder' /\ NoneLost' /\ FirstCluster'
<1>1. /\ stage = "cluster" /\ stage' = "cluster" /\ pending = {} /\ n \in frontier
      /\ frontier' \cup pending' = frontier \cup pending
      /\ cluster' = 0 /\ clusterOf' = clusterOf
  BY DEF TakeSeed
<1>2. Root # 0
  BY FixedArcs
<1> QED
  BY <1>1, <1>2
  DEF ClusterInv, Started, Depends, InOrder, NoneLost, FirstCluster, Clustered, Ready

(* Drop: the node was clustered by a turn of the outer loop before this    *)
(* one; nothing is lost by leaving it out of the worklist.                 *)
LEMMA DropKeeps ==
  ASSUME ClusterInv, NEW n \in Node, Drop(n)
  PROVE  Started' /\ Depends' /\ InOrder' /\ NoneLost' /\ FirstCluster'
<1>1. /\ stage = "cluster" /\ stage' = "cluster" /\ n \in pending /\ ~Ready(n)
      /\ pending' = pending \ {n} /\ frontier' = frontier
      /\ cluster' = cluster /\ clusterOf' = clusterOf
  BY DEF Drop
<1>2. Started'
  <2>1. ASSUME clusterOf[Root] = 0
        PROVE  FALSE
    <3>1. n = Root /\ Ready(Root)
      BY <1>1, <2>1, FixedArcs DEF ClusterInv, Started, Ready, Clustered
    <3> QED
      BY <1>1, <3>1
  <2> QED
    BY <1>1, <2>1 DEF ClusterInv, Started
<1>3. NoneLost'
  BY <1>1 DEF ClusterInv, NoneLost, Clustered, Ready
<1>4. Depends' /\ InOrder' /\ FirstCluster'
  BY <1>1 DEF ClusterInv, Depends, InOrder, FirstCluster, Clustered
<1> QED
  BY <1>2, <1>3, <1>4

(* The phase of the levels leaves the clusters alone.                      *)
LEMMA LevelsKeep ==
  ASSUME ClusterInv, clusterOf[Root] = Root, stage' # "cluster",
         UNCHANGED <<frontier, pending, cluster, clusterOf>>
  PROVE  Started' /\ Depends' /\ InOrder' /\ NoneLost' /\ FirstCluster'
<1>1. Root # 0
  BY FixedArcs
<1> QED
  BY <1>1
  DEF ClusterInv, Started, Depends, InOrder, NoneLost, FirstCluster, Clustered, Ready

(* When both worklists are empty, the first node that is in no cluster     *)
(* would not have had to wait.                                             *)
LEMMA NothingWaits ==
  ASSUME ClusterInv, stage = "cluster", frontier = {}, pending = {}
  PROVE  \A n \in Node : IsExit(n) \/ Clustered(n)
<1> DEFINE lost == {n \in Node : ~IsExit(n) /\ ~Clustered(n)}
<1>1. SUFFICES ASSUME lost # {}
               PROVE  FALSE
  BY <1>1
<1>2. PICK n \in lost : \A m \in lost : n <= m
  <2>1. lost \in SUBSET Nat
    BY FixedArcs
  <2> HIDE DEF lost
  <2> QED
    BY <1>1, <2>1, LeastNat
<1>3. ASSUME NEW m \in Before[n]
      PROVE  Clustered(m)
  <2>1. m \in Node /\ m \in Nat /\ n \in Nat /\ m < n /\ ~IsExit(m)
    BY FixedArcs
  <2>2. ~(n <= m)
    BY <2>1
  <2> QED
    BY <1>2, <2>1, <2>2
<1>4. Ready(n)
  BY <1>2, <1>3 DEF Ready
<1> QED
  BY <1>2, <1>4 DEF ClusterInv, NoneLost

(* Nothing comes before the cluster of Root.                               *)
LEMMA RootIsFirst ==
  ASSUME ClusterInv, NEW c \in Node
  PROVE  Root \notin ClusterSucc(c)
<1>1. Root \in ClusterSucc(c) => c # Root /\ \E m \in Node : clusterOf[m] = Root
                                   /\ \E n \in Before[m] : clusterOf[n] = c
  BY SuccessorClusters, FixedArcs DEF ClusterInv
<1> QED
  BY <1>1 DEF ClusterInv, FirstCluster

(* Relax: a turn of levelize raises only the levels of clusters that it    *)
(* puts back on its worklist.                                              *)
LEMMA RelaxKeeps ==
  ASSUME ClusterInv, NEW c \in Node, Relax(c)
  PROVE  Relaxed' /\ Bounded'
<1> DEFINE later == {d \in ClusterSucc(c) : level[d] < level[c] + 1}
<1>1. /\ stage = "level" /\ stage' = "level" /\ clusterOf' = clusterOf
      /\ level' = [d \in Node |-> IF d \in later THEN level[c] + 1 ELSE level[d]]
      /\ unvisited' = (unvisited \ {c}) \cup later
  BY DEF Relax
<1>2. level \in [Node -> Nat] /\ level[c] \in Nat
  BY DEF ClusterInv, ClusterTypeOK
<1>3. \A d \in Node : ClusterSucc(d)' = ClusterSucc(d) /\ ClusterSucc(d) \subseteq Node
  BY <1>1, SuccessorClusters DEF ClusterSucc, ClusterInv
<1>4. Root \notin later /\ c \notin later /\ Root \in Node
  BY <1>3, RootIsFirst, SuccessorClusters, FixedArcs DEF ClusterInv
<1>5. \A d \in Node : /\ level'[d] \in Nat /\ level[d] \in Nat
                      /\ level'[d] >= level[d]
                      /\ d \in later => level'[d] = level[c] + 1
                      /\ d \notin later => level'[d] = level[d]
  BY <1>1, <1>2
<1>6. ASSUME NEW d \in Node \ unvisited', d = Root \/ level'[d] > 0
      PROVE  Climbs(d)'
  <2>1. d \notin later /\ level'[d] = level[d]
    BY <1>1, <1>5, <1>6
  <2>2. CASE d = c
    <3>1. \A e \in ClusterSucc(c) : e \in later \/ level[e] >= level[c] + 1
      BY <1>3, <1>5
    <3>2. \A e \in ClusterSucc(c) : level[c] < level'[e]
      BY <1>2, <1>3, <1>5, <3>1
    <3> QED
      BY <1>3, <2>1, <2>2, <3>2 DEF Climbs
  <2>3. CASE d # c
    <3>1. d \notin unvisited
      BY <1>1, <1>6, <2>3
    <3>2. Climbs(d)
      BY <1>1, <1>6, <2>1, <3>1 DEF ClusterInv, Relaxed
    <3>3. \A e \in ClusterSucc(d) : level[d] < level'[e]
      BY <1>3, <1>5, <3>2 DEF Climbs
    <3> QED
      BY <1>3, <2>1, <3>3 DEF Climbs
  <2> QED
    BY <2>2, <2>3
<1>7. level'[Root] = 0
  BY <1>4, <1>5 DEF ClusterInv, Relaxed
<1>8. Bounded'
  <2>1. PICK l \in Nat : \A d \in Node : level[d] <= l
    BY DEF ClusterInv, Bounded
  <2>2. ASSUME NEW d \in Node
        PROVE  level'[d] <= l + 1
    <3>1. level[d] <= l /\ level[c] <= l /\ level[d] \in Nat /\ level[c] \in Nat
      BY <1>2, <1>5, <2>1
    <3>2. level'[d] = level[c] + 1 \/ level'[d] = level[d]
      BY <1>5
    <3> QED
      BY <3>1, <3>2
  <2> DEFINE k == l + 1
  <2>3. k \in Nat /\ \A d \in Node : level'[d] <= k
    BY <2>1, <2>2
  <2> HIDE DEF k
  <2> QED
    BY <2>3 DEF Bounded
<1> QED
  BY <1>1, <1>6, <1>7, <1>8 DEF Relaxed

(* When the levels are done, the first node whose cluster has none would   *)
(* come after a cluster that has one.                                      *)
LEMMA SeedsHaveLevels ==
  ASSUME ClusterInv, stage = "ready"
  PROVE  \A n \in Node : Clustered(n) /\ clusterOf[n] # Root => level[clusterOf[n]] > 0
<1> DEFINE low == {n \in Node : /\ Clustered(n) /\ clusterOf[n] # Root
                                /\ ~(level[clusterOf[n]] > 0)}
<1>1. SUFFICES ASSUME low # {}
               PROVE  FALSE
  BY <1>1
<1>2. PICK n \in low : \A m \in low : n <= m
  <2>1. low \in SUBSET Nat
    BY FixedArcs
  <2> HIDE DEF low
  <2> QED
    BY <1>1, <2>1, LeastNat
<1>3. /\ n \in Node /\ Clustered(n) /\ clusterOf[n] # Root
      /\ ~(level[clusterOf[n]] > 0) /\ clusterOf[n] \in Node
  BY <1>2 DEF ClusterInv, ClusterTypeOK, Clustered
<1>4. n # Root
  BY <1>3 DEF ClusterInv, Started, Clustered
<1>5. PICK m \in Before[n] : TRUE
  BY <1>3, <1>4 DEF ClusterInv, Depends
<1>6. m \in Node /\ ~(n <= m) /\ Clustered(m) /\ clusterOf[m] \in Node
  <2>1. m \in Node /\ m \in Nat /\ n \in Nat /\ m < n
    BY <1>3, <1>5, FixedArcs
  <2> QED
    BY <1>3, <1>5, <2>1 DEF ClusterInv, InOrder, ClusterTypeOK, Clustered
<1>7. clusterOf[m] # clusterOf[n]
  BY <1>2, <1>3, <1>6
<1>8. clusterOf[m] = Root \/ level[clusterOf[m]] > 0
  BY <1>2, <1>6
<1>9. clusterOf[n] \in ClusterSucc(clusterOf[m])
  BY <1>3, <1>5, <1>6, <1>7, SuccessorClusters DEF ClusterInv
<1>10. level[clusterOf[m]] < level[clusterOf[n]]
  BY <1>6, <1>8, <1>9 DEF ClusterInv, Relaxed, Climbs
<1> QED
  BY <1>3, <1>6, <1>10 DEF ClusterInv, ClusterTypeOK

(* An arc between clusters climbs.                                         *)
LEMMA ArcsClimb ==
  ASSUME ClusterInv, stage = "ready", NEW n \in Node, NEW m \in Before[n]
  PROVE  /\ clusterOf[m] \in Node /\ clusterOf[n] \in Node
         /\ clusterOf[m] # clusterOf[n] => level[clusterOf[m]] < level[clusterOf[n]]
<1>1. m \in Node /\ ~IsExit(m) /\ ~IsExit(n)
  BY FixedArcs
<1>2. Clustered(m) /\ Clustered(n)
  BY <1>1 DEF ClusterInv, Complete
<1>3. clusterOf[m] \in Node /\ clusterOf[n] \in Node
  BY <1>1, <1>2 DEF ClusterInv, ClusterTypeOK, Clustered
<1>4. ASSUME clusterOf[m] # clusterOf[n]
      PROVE  level[clusterOf[m]] < level[clusterOf[n]]
  <2>1. clusterOf[n] \in ClusterSucc(clusterOf[m])
    BY <1>1, <1>3, <1>4, SuccessorClusters DEF ClusterInv
  <2>2. clusterOf[m] = Root \/ level[clusterOf[m]] > 0
    BY <1>1, <1>2, SeedsHaveLevels
  <2> QED
    BY <1>3, <2>1, <2>2 DEF ClusterInv, Relaxed, Climbs
<1> QED
  BY <1>3, <1>4

(* The Sync of a thread starts a cluster on a higher level than those of   *)
(* the nodes of the thread.                                                *)
LEMMA ThreadsAreLower ==
  ASSUME ClusterInv, stage = "ready", NEW n \in Node, Home(n) # Main
  PROVE  level[clusterOf[n]] < level[clusterOf[Home(n).sync]]
<1> DEFINE Low(k) == Home(k) # Main => level[clusterOf[k]] < level[clusterOf[Home(k).sync]]
           T == {k \in Node : Low(k)}
<1>1. \A c \in Node : level[c] \in Nat
  BY DEF ClusterInv, ClusterTypeOK
<1>2. ASSUME NEW k \in Node, \A m \in Node : k < m => m \in T
      PROVE  k \in T
  <2> SUFFICES ASSUME Home(k) # Main PROVE Low(k)
    OBVIOUS
  <2> DEFINE s == Home(k).sync
  <2>1. CASE k \in Before[s] /\ s \in Node /\ Kind(s) = "sync"
    <3>1. /\ clusterOf[k] \in Node /\ clusterOf[s] \in Node
          /\ clusterOf[k] # clusterOf[s] => level[clusterOf[k]] < level[clusterOf[s]]
      BY <2>1, ArcsClimb
    <3>2. clusterOf[s] = s /\ clusterOf[k] <= k
      BY <2>1, <3>1, FixedArcs DEF ClusterInv, Together, Clustered
    <3>3. k < s /\ k \in Nat /\ s \in Nat /\ clusterOf[k] \in Nat
      BY <2>1, <3>1, FixedArcs
    <3> QED
      BY <3>1, <3>2, <3>3
  <2>2. CASE \E m \in Node : k \in Before[m] /\ Home(m) = Home(k)
    <3>1. PICK m \in Node : k \in Before[m] /\ Home(m) = Home(k)
      BY <2>2
    <3>2. k < m /\ s \in Node /\ ~IsExit(s)
      <4>1. k < m /\ s \in Node /\ Kind(s) = "sync"
        BY <3>1, SyncIsLater, FixedArcs
      <4> QED
        BY <4>1 DEF IsExit
    <3>3. level[clusterOf[m]] < level[clusterOf[s]]
      BY <1>2, <3>1, <3>2
    <3>4. /\ clusterOf[k] \in Node /\ clusterOf[m] \in Node
          /\ clusterOf[k] # clusterOf[m] => level[clusterOf[k]] < level[clusterOf[m]]
      BY <3>1, ArcsClimb
    <3>5. clusterOf[s] \in Node
      BY <3>2 DEF ClusterInv, Complete, ClusterTypeOK, Clustered
    <3>6. level[clusterOf[k]] \in Nat /\ level[clusterOf[m]] \in Nat /\ level[clusterOf[s]] \in Nat
      BY <1>1, <3>4, <3>5
    <3>7. level[clusterOf[k]] < level[clusterOf[s]]
      BY <3>3, <3>4, <3>6
    <3> QED
      BY <3>7
  <2> QED
    BY <2>1, <2>2, ThreadGoesOn
<1>3. Node \subseteq T
  <2> HIDE DEF T
  <2> QED
    BY <1>2, InductDown
<1> QED
  BY <1>3

(* So what is on the line of a node has a higher level, if it is not the   *)
(* node itself.                                                            *)
LEMMA LinesClimb ==
  ASSUME ClusterInv, stage = "ready", NEW n \in Node, Clustered(n), NEW m \in Line(n)
  PROVE  m = n \/ level[clusterOf[n]] < level[clusterOf[m]]
<1> DEFINE S == {k \in Node : Clustered(k) /\ (k = n \/ level[clusterOf[n]] < level[clusterOf[k]])}
<1>1. \A k \in Node : Clustered(k) => level[clusterOf[k]] \in Nat
  BY DEF ClusterInv, ClusterTypeOK, Clustered
<1>2. ASSUME NEW k \in S, Home(k) # Main
      PROVE  Home(k).sync \in S
  <2>1. Home(k).sync \in Node /\ Clustered(Home(k).sync)
    <3>1. Home(k).sync \in Node /\ Kind(Home(k).sync) = "sync"
      BY <1>2, SyncIsLater
    <3> QED
      BY <3>1 DEF IsExit, ClusterInv, Complete
  <2>2. level[clusterOf[k]] < level[clusterOf[Home(k).sync]]
    BY <1>2, ThreadsAreLower
  <2>3. level[clusterOf[n]] < level[clusterOf[Home(k).sync]]
    BY <1>1, <2>1, <2>2
  <2> QED
    BY <2>1, <2>3
<1>3. S \in SUBSET Node /\ n \in S /\ Upward(S)
  BY <1>2 DEF Upward
<1> HIDE DEF S
<1>4. m \in S
  BY <1>3 DEF Line
<1> QED
  BY <1>4 DEF S

(* A set of nodes, one of each place, that holds their Syncs too, has no   *)
(* two nodes of a cluster.                                                 *)
LEMMA OneOfCluster ==
  ASSUME ClusterInv, stage = "ready", NEW A \in SUBSET Node, Upward(A),
         \A x, y \in A : Home(x) = Home(y) => x = y,
         NEW u \in A, NEW v \in A, Clustered(u), clusterOf[u] = clusterOf[v]
  PROVE  u = v
<1>1. Clustered(v) /\ Inside(u) = Inside(v)
  BY DEF ClusterInv, Together, Clustered
<1>2. u \in Line(v) \/ v \in Line(u)
  BY <1>1, OnOneLine
<1>3. level[clusterOf[u]] \in Nat /\ ~(level[clusterOf[u]] < level[clusterOf[v]])
      /\ ~(level[clusterOf[v]] < level[clusterOf[u]])
  BY DEF ClusterInv, ClusterTypeOK, Clustered
<1> QED
  BY <1>1, <1>2, <1>3, LinesClimb

(* A Fork shares its cluster with its first branch at most.                *)
LEMMA ForksGoOn == ClusterInv => OneThreadStays
<1> SUFFICES ASSUME ClusterInv, NEW f \in Node, Kind(f) = "fork", Clustered(f)
             PROVE  Cardinality({i \in DOMAIN CSucc[f] : clusterOf[CSucc[f][i]] = clusterOf[f]}) <= 1
  BY DEF OneThreadStays, OfKind
<1> DEFINE stay == {i \in DOMAIN CSucc[f] : clusterOf[CSucc[f][i]] = clusterOf[f]}
<1>1. /\ DOMAIN CSucc[f] = 1..(Len(Succ(f)) + 1) /\ Len(Succ(f)) \in Nat
      /\ DOMAIN Succ(f) = 1..Len(Succ(f))
      /\ \A i \in DOMAIN Succ(f) : CSucc[f][i] = Succ(f)[i]
      /\ CSucc[f][Len(Succ(f)) + 1] = Graph[f].sync
  BY RewiredArcs, Arcs
<1>2. ASSUME NEW n \in Node, clusterOf[n] = clusterOf[f]
      PROVE  Inside(n) = Inside(f) /\ clusterOf[n] <= f /\ (Kind(n) = "sync" => clusterOf[n] = n)
  BY <1>2 DEF ClusterInv, Together, Clustered
<1>3. clusterOf[Graph[f].sync] # clusterOf[f]
  <2>1. /\ Graph[f].sync \in Node /\ Kind(Graph[f].sync) = "sync"
    BY NestAssumption, ForkPlaces, Places
  <2>2. Graph[f].sync \in CSuccSet(f)
    <3>1. Len(Succ(f)) + 1 \in DOMAIN CSucc[f]
      BY <1>1
    <3> QED
      BY <1>1, <2>1, <3>1, FixedArcs DEF CSuccSet
  <2>3. f < Graph[f].sync
    BY <2>1, <2>2, FixedArcs
  <2>4. f \in Nat /\ Graph[f].sync \in Nat
    BY <2>1, FixedArcs
  <2> QED
    BY <1>2, <2>1, <2>3, <2>4
<1>4. ASSUME NEW i \in stay
      PROVE  i = 1
  <2>1. i \in DOMAIN Succ(f) \/ i = Len(Succ(f)) + 1
    BY <1>1
  <2>2. i \in DOMAIN Succ(f)
    BY <1>1, <1>3, <2>1
  <2>3. CSucc[f][i] = Succ(f)[i] /\ Succ(f)[i] \in Node
    BY <1>1, <2>2, BranchInside
  <2> QED
    BY <1>2, <2>2, <2>3, BranchInside
<1>5. stay = {} \/ stay = {1}
  BY <1>4
<1> HIDE DEF stay
<1>6. Cardinality(stay) = 0 \/ Cardinality(stay) = 1
  BY <1>5, FS_EmptySet, FS_Singleton
<1>7. Cardinality(stay) <= 1
  BY <1>6
<1> QED
  BY <1>7 DEF stay

(* What ClusterInv says of the finished clusters.                          *)
LEMMA InvImplies == ClusterInv => AllClustered /\ LevelsClimb
<1> SUFFICES ASSUME ClusterInv
             PROVE  AllClustered /\ LevelsClimb
  OBVIOUS
<1>1. Live \subseteq Node /\ Root \in Live
  BY DataAssumption
<1>2. AllClustered
  BY <1>1 DEF AllClustered, ClusterInv, Complete
<1>3. ASSUME stage = "ready", NEW n \in Live, NEW m \in Before[n]
      PROVE  clusterOf[m] = clusterOf[n] \/ level[clusterOf[m]] < level[clusterOf[n]]
  BY <1>1, <1>3, ArcsClimb
<1>4. ASSUME stage = "ready", NEW c \in Seeds
      PROVE  level[c] = 0 <=> c = clusterOf[Root]
  <2>1. clusterOf[Root] = Root /\ level[Root] = 0
    BY <1>4 DEF ClusterInv, Started, Relaxed
  <2>2. PICK n \in Node : c = clusterOf[n] /\ c # 0
    BY DEF Seeds
  <2>3. c # Root => level[c] > 0
    BY <1>4, <2>2, SeedsHaveLevels DEF Clustered
  <2> QED
    BY <2>1, <2>3
<1> QED
  BY <1>2, <1>3, <1>4 DEF LevelsClimb

-----------------------------------------------------------------------------

(* Before greedyCluster has taken a node only Root is ready.               *)
LEMMA InvStarts == ClusterInit => ClusterInv
<1> SUFFICES ASSUME ClusterInit
             PROVE  ClusterInv
  OBVIOUS
<1>1. ClusterTypeOK
  BY TypesHold
<1>2. Root # 0 /\ Root \in Node
  BY FixedArcs
<1>3. \A n \in Node : clusterOf[n] = 0
  BY DEF ClusterInit
<1>4. Started /\ Depends /\ InOrder /\ Complete /\ FirstCluster
  BY <1>2, <1>3 DEF ClusterInit, Started, Depends, InOrder, Complete, FirstCluster, Clustered
<1>5. NoneLost
  <2> SUFFICES ASSUME NEW n \in Node, ~IsExit(n), Ready(n)
               PROVE  n = Root
    BY DEF NoneLost, ClusterInit
  <2>1. Before[n] = {}
    BY <1>3, FixedArcs DEF Ready, Clustered
  <2> QED
    BY <2>1, FixedArcs
<1>6. Relaxed /\ Bounded
  BY <1>2 DEF ClusterInit, Relaxed, Bounded
<1>7. Together /\ Grows
  BY <1>3 DEF ClusterInit, Together, Grows, Clustered
<1> QED
  BY <1>1, <1>4, <1>5, <1>6, <1>7 DEF ClusterInv

(* Each turn of the loops of greedyCluster and levelize keeps the          *)
(* invariant.                                                              *)
LEMMA InvStays == ClusterInv /\ [ClusterNext]_clusterVars => ClusterInv'
<1> SUFFICES ASSUME ClusterInv, [ClusterNext]_clusterVars
             PROVE  ClusterInv'
  OBVIOUS
<1>1. ClusterTypeOK' /\ Together' /\ Grows'
  BY TypesHold, TogetherStays DEF ClusterInv
<1>2. ASSUME NEW n \in Node, TakeSeed(n) \/ AddToCluster(n) \/ Drop(n)
      PROVE  ClusterInv'
  <2>1. Started' /\ Depends' /\ InOrder' /\ NoneLost' /\ FirstCluster'
    BY <1>2, SeedKeeps, AddKeeps, DropKeeps
  <2>2. stage = "cluster" /\ UNCHANGED <<level, unvisited, stage>>
    BY <1>2 DEF TakeSeed, AddToCluster, Drop
  <2>3. Complete' /\ Relaxed' /\ Bounded'
    BY <2>2 DEF ClusterInv, Complete, Relaxed, Bounded
  <2> QED
    BY <1>1, <2>1, <2>3 DEF ClusterInv
<1>3. ASSUME NEW c \in Node, Relax(c)
      PROVE  ClusterInv'
  <2>1. stage = "level" /\ stage' = "level"
        /\ UNCHANGED <<frontier, pending, cluster, clusterOf>>
    BY <1>3 DEF Relax
  <2>2. clusterOf[Root] = Root
    BY <2>1 DEF ClusterInv, Started
  <2>3. Complete'
    BY <2>1 DEF ClusterInv, Complete, Clustered
  <2> QED
    BY <1>1, <1>3, <2>1, <2>2, <2>3, LevelsKeep, RelaxKeeps DEF ClusterInv
<1>4. ASSUME StartLevels
      PROVE  ClusterInv'
  <2>1. /\ stage = "cluster" /\ frontier = {} /\ pending = {}
        /\ stage' = "level" /\ unvisited' = {clusterOf[Root]}
        /\ UNCHANGED <<frontier, pending, cluster, clusterOf, level>>
    BY <1>4 DEF StartLevels
  <2>2. clusterOf[Root] = Root
    BY <2>1 DEF ClusterInv, Started
  <2>3. Complete'
    BY <2>1, NothingWaits DEF Complete, Clustered
  <2>4. Relaxed' /\ Bounded'
    BY <2>1, <2>2 DEF ClusterInv, Relaxed, Bounded
  <2> QED
    BY <1>1, <2>1, <2>2, <2>3, <2>4, LevelsKeep DEF ClusterInv
<1>5. ASSUME EndLevels
      PROVE  ClusterInv'
  <2>1. /\ stage = "level" /\ unvisited = {} /\ stage' = "ready"
        /\ UNCHANGED <<frontier, pending, cluster, clusterOf, level, unvisited>>
    BY <1>5 DEF EndLevels
  <2>2. clusterOf[Root] = Root
    BY <2>1 DEF ClusterInv, Started
  <2>3. Complete' /\ Relaxed' /\ Bounded'
    BY <2>1
    DEF ClusterInv, Complete, Relaxed, Bounded, Clustered, Climbs, ClusterSucc
  <2> QED
    BY <1>1, <2>1, <2>2, <2>3, LevelsKeep DEF ClusterInv
<1>6. UNCHANGED clusterVars => ClusterInv'
  BY <1>1
  DEF clusterVars, ClusterInv, Started, Depends, InOrder, NoneLost, Complete,
      FirstCluster, Relaxed, Bounded, Clustered, Ready, Climbs, ClusterSucc
<1> QED
  BY <1>2, <1>3, <1>4, <1>5, <1>6 DEF ClusterNext

(* The inductive invariant of greedyCluster and levelize.                  *)
THEOREM ClusteringIsSound == ClusterSpec => []ClusterInv
<1> QED
  BY InvStarts, InvStays, PTL DEF ClusterSpec
=============================================================================
