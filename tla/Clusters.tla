------------------------------ MODULE Clusters ------------------------------
(***************************************************************************)
(* The scheduling half of cec-grcc2 (GRCC2.cpp): fixGRCNode rewires the    *)
(* graph, greedyCluster cuts it into clusters that run without a switch of *)
(* context, and levelize gives each cluster a level, after all the levels  *)
(* it depends on.                                                          *)
(*                                                                         *)
(* frontier, pending and unvisited are sets of pointers, so the order in   *)
(* which they are taken is the allocator's: any order may happen.  A       *)
(* cluster is named by its first node, its seed.                           *)
(***************************************************************************)
EXTENDS GRC

VARIABLES
  frontier,   \* nodes after some cluster that are in none
  pending,    \* nodes to be considered for the cluster that grows
  cluster,    \* the cluster that grows, 0 when it has no node yet
  clusterOf,  \* the cluster of a node, or 0
  level,      \* the level of a cluster
  unvisited,  \* the worklist of levelize
  stage       \* "cluster", "level" or "ready"

clusterVars == <<frontier, pending, cluster, clusterOf, level, unvisited, stage>>

-----------------------------------------------------------------------------
(* The graph after fixGRCNode: a Terminate no longer leads to its Sync,    *)
(* a Fork does, and nothing leads to ExitGRC.                              *)

IsExit(n) == Kind(n) = "pass" /\ Succ(n) = <<>>
JoinsSync(n) == Kind(n) = "term" /\ SuccSet(n) \cap OfKind("sync") # {}
ToSync(n) == IF Kind(n) = "fork" /\ Graph[n].sync # 0 THEN <<Graph[n].sync>> ELSE <<>>
NoExits(n) ==
  Thinned(Succ(n), {i \in DOMAIN Succ(n) : Succ(n)[i] = 0 \/ ~IsExit(Succ(n)[i])})
(* A mutant: a Terminate keeps its successor.                              *)
CSucc_Joins == [n \in Node |-> NoExits(n) \o ToSync(n)]

CSucc == [n \in Node |-> IF JoinsSync(n) THEN <<>> ELSE NoExits(n) \o ToSync(n)]
CSuccSet(n) == {CSucc[n][i] : i \in DOMAIN CSucc[n]} \ {0}
Before == [n \in Node |-> Data(n) \cup {m \in Node : n \in CSuccSet(m)}]
After == [n \in Node |-> DataSucc(n) \cup CSuccSet(n)]

(* What the graph of a compiled program satisfies then.  checkAcyclic has  *)
(* passed, and the numbers of the nodes follow the arcs; cec-optgrc has    *)
(* removed what Root does not lead to; a Fork has no NULL successor, which *)
(* greedyCluster and split assert.                                         *)
ASSUME NestAssumption == Nested /\ Inner = Node
ASSUME FixAssumption ==
  \A n \in Node :
    /\ CSucc[n] \in Seq(Node \cup {0})
    /\ \A m \in Before[n] : m < n /\ ~IsExit(m)
    /\ Before[n] = {} <=> n = Root \/ IsExit(n)
    /\ Kind(n) = "fork" => CSucc[n] # <<>> /\ \A i \in DOMAIN CSucc[n] : CSucc[n][i] # 0

-----------------------------------------------------------------------------

Clustered(n) == clusterOf[n] # 0
Seeds == {clusterOf[n] : n \in Node} \ {0}

ClusterInit ==
  /\ frontier = {Root} /\ pending = {}
  /\ cluster = 0
  /\ clusterOf = [n \in Node |-> 0]
  /\ level = [n \in Node |-> 0] /\ unvisited = {}
  /\ stage = "cluster"

(* A seed from the frontier starts a new cluster.                          *)
TakeSeed(n) ==
  /\ stage = "cluster" /\ pending = {} /\ n \in frontier
  /\ frontier' = frontier \ {n}
  /\ pending' = {n} /\ cluster' = 0
  /\ UNCHANGED <<clusterOf, level, unvisited, stage>>

Ready(n) == ~Clustered(n) /\ \A m \in Before[n] : Clustered(m)

(* Mutants: all successors of a Fork; NULL successors.                     *)
Candidates_All(n) == CSuccSet(n)
Candidates_Null(n) ==
  IF Kind(n) = "fork" THEN {CSucc[n][1]} ELSE {CSucc[n][i] : i \in DOMAIN CSucc[n]}

(* After a Fork, only its first successor may be in the same cluster.      *)
Candidates(n) == IF Kind(n) = "fork" THEN {CSucc[n][1]} ELSE CSuccSet(n)

(* A mutant: only what control leads to joins the frontier.                *)
AddToCluster_Control(n) ==
  /\ stage = "cluster" /\ n \in pending /\ Ready(n)
  /\ cluster' = IF cluster = 0 THEN n ELSE cluster
  /\ clusterOf' = [clusterOf EXCEPT ![n] = cluster']
  /\ pending' = (pending \ {n}) \cup Candidates(n)
  /\ frontier' = (frontier \cup CSuccSet(n)) \ {n}
  /\ UNCHANGED <<level, unvisited, stage>>

AddToCluster(n) ==
  /\ stage = "cluster" /\ n \in pending /\ Ready(n)
  /\ cluster' = IF cluster = 0 THEN n ELSE cluster
  /\ clusterOf' = [clusterOf EXCEPT ![n] = cluster']
  /\ pending' = (pending \ {n}) \cup Candidates(n)
  /\ frontier' = (frontier \cup After[n]) \ {n}
  /\ UNCHANGED <<level, unvisited, stage>>

(* A mutant: a candidate is erased only when it joins the cluster.         *)
Drop_Keeps(n) ==
  /\ stage = "cluster" /\ n \in pending /\ ~Ready(n)
  /\ UNCHANGED clusterVars

(* A candidate that has to wait, or is in a cluster already.               *)
Drop(n) ==
  /\ stage = "cluster" /\ n \in pending /\ ~Ready(n)
  /\ pending' = pending \ {n}
  /\ UNCHANGED <<frontier, cluster, clusterOf, level, unvisited, stage>>

(* levelize: the arcs between clusters, and levels by relaxation.          *)
ClusterSucc(c) ==
  LET mine == {n \in Node : clusterOf[n] = c} IN
  {clusterOf[m] : m \in UNION {After[n] : n \in mine}} \ {c, 0}

StartLevels ==
  /\ stage = "cluster" /\ frontier = {} /\ pending = {}
  /\ stage' = "level"
  /\ unvisited' = {clusterOf[Root]}
  /\ UNCHANGED <<frontier, pending, cluster, clusterOf, level>>

(* A mutant: a cluster keeps the first level it is given.                  *)
Relax_First(c) ==
  /\ stage = "level" /\ c \in unvisited
  /\ LET later == {d \in ClusterSucc(c) : level[d] = 0} IN
       /\ level' = [d \in Node |-> IF d \in later THEN level[c] + 1 ELSE level[d]]
       /\ unvisited' = (unvisited \ {c}) \cup later
  /\ UNCHANGED <<frontier, pending, cluster, clusterOf, stage>>

Relax(c) ==
  /\ stage = "level" /\ c \in unvisited
  /\ LET later == {d \in ClusterSucc(c) : level[d] < level[c] + 1} IN
       /\ level' = [d \in Node |-> IF d \in later THEN level[c] + 1 ELSE level[d]]
       /\ unvisited' = (unvisited \ {c}) \cup later
  /\ UNCHANGED <<frontier, pending, cluster, clusterOf, stage>>

EndLevels ==
  /\ stage = "level" /\ unvisited = {}
  /\ stage' = "ready"
  /\ UNCHANGED <<frontier, pending, cluster, clusterOf, level, unvisited>>

ClusterNext ==
  \/ \E n \in Node : TakeSeed(n) \/ AddToCluster(n) \/ Drop(n) \/ Relax(n)
  \/ StartLevels \/ EndLevels
ClusterSpec == ClusterInit /\ [][ClusterNext]_clusterVars /\ WF_clusterVars(ClusterNext)

-----------------------------------------------------------------------------

ClusterTypeOK ==
  /\ frontier \subseteq Node /\ pending \subseteq Node /\ unvisited \subseteq Node
  /\ cluster \in Node \cup {0}
  /\ clusterOf \in [Node -> Node \cup {0}]
  /\ level \in [Node -> Nat]
  /\ stage \in {"cluster", "level", "ready"}

(* "The successor should have been put in some cluster".                   *)
AllClustered ==
  stage = "ready" => \A n \in Live : IsExit(n) \/ Clustered(n)

(* "Should not have already found a successor in the same cluster": a     *)
(* Fork goes on with one thread at most.                                   *)
OneThreadStays ==
  \A f \in OfKind("fork") :
    Clustered(f) =>
      Cardinality({i \in DOMAIN CSucc[f] : clusterOf[CSucc[f][i]] = clusterOf[f]}) <= 1

(* What a cluster needs is in a lower level or in the cluster itself, and  *)
(* only the cluster of Root is at level 0.                                 *)
LevelsClimb ==
  stage = "ready" =>
    /\ \A n \in Live : \A m \in Before[n] :
         clusterOf[m] = clusterOf[n] \/ level[clusterOf[m]] < level[clusterOf[n]]
    /\ \A c \in Seeds : level[c] = 0 <=> c = clusterOf[Root]

(* Both worklists run empty.                                               *)
ClusteringEnds == <>(stage = "ready")
=============================================================================
