----------------------------- MODULE Simulator ------------------------------
(***************************************************************************)
(* GRCOpt::Simulator: the first pass of the optimizer.  A worklist finds   *)
(* the nodes and the selection-tree nodes that some tick may reach; Prune  *)
(* removes the others from the graph and from the tree.                    *)
(*                                                                         *)
(* pending is a set of pointers, so which node is taken first depends on   *)
(* where the nodes were allocated: any one may be.                         *)
(***************************************************************************)
EXTENDS GRC

VARIABLES
  cfg,         \* control-flow nodes visited
  st,          \* selection-tree nodes reached
  switchFor,   \* switch_for_excl: the Switch of an exclusive node, or 0
  levels,      \* sync_levels: exit levels of a Sync, {} when it has no entry
  pending,     \* the worklist
  newSucc,     \* successors of the kept nodes once pruned, else <<>>
  newChildren, \* children of the kept exclusive nodes once pruned
  phase        \* "analyse" or "pruned"

optVars == <<cfg, st, switchFor, levels, pending, newSucc, newChildren, phase>>

-----------------------------------------------------------------------------

(* The climb of visit(Enter): a node and its parents up to the nearest     *)
(* exclusive node, which is not one of them.                               *)
Climb[c \in STNode] ==
  IF Parent(c) = 0 \/ Parent(c) \in STExcl THEN {c} ELSE {c} \cup Climb[Parent(c)]
Above[c \in STNode] ==
  IF Parent(c) = 0 \/ Parent(c) \in STExcl THEN Parent(c) ELSE Above[Parent(c)]

(* The Terminates before a Sync, those in dead code included.              *)
JoinArcs == UNION {{<<t, n>> : n \in SuccSet(t)} : t \in OfKind("term")}
Terms(n) == {a[1] : a \in {b \in JoinArcs : b[2] = n}}

(* visit(Sync): the levels its threads may exit at together, given what    *)
(* has been visited: those that every thread, from 0 to the largest index, *)
(* reaches or stays below with some Terminate.  There are none while a     *)
(* thread has no visited Terminate.                                        *)
Threads(n) == UNION {0..Thread(t) : t \in Terms(n)}
(* A mutant: a thread must stay strictly below the level.                  *)
Exits_Strict(C, n) ==
  {Code(l) : l \in {u \in Terms(n) \cap C :
     \A i \in Threads(n) \ {Thread(u)} :
        \E t \in Terms(n) \cap C : Thread(t) = i /\ Code(t) < Code(u)}}

Exits(C, n) ==
  LET visited == Terms(n) \cap C
      threads == Threads(n)
  IN {l \in {Code(t) : t \in visited} :
        \A i \in threads : \E t \in visited : Thread(t) = i /\ Code(t) <= l}

(* The successors of a Sync, and of a Switch, that may run.  visit(Sync)   *)
(* asserts that none of its own is NULL.                                   *)
Leaves(n, L) == {Succ(n)[l + 1] : l \in {k \in L : k < Len(Succ(n))}} \ {0}
SyncOpens(C, n) == Leaves(n, Exits(C, n))
SwitchOpens(S, n) ==
  {Succ(n)[i] : i \in {j \in DOMAIN Children(Graph[n].st) : Children(Graph[n].st)[j] \in S}}

-----------------------------------------------------------------------------
(* What the analysis relies on, of every graph the compiler builds.        *)

(* What following an arc marks: that of a Switch is followed when its      *)
(* child was reached, and an Enter marks its climb.                        *)
ArcMarks(n, i) ==
  CASE Kind(n) = "switch" -> {Graph[n].st, Children(Graph[n].st)[i]}
    [] Kind(n) = "enter" -> Climb[Graph[n].st]
    [] OTHER -> {}

(* The nodes reached by arcs that do not mark e.                           *)
ArcsAround(e, n) ==
  {Succ(n)[i] : i \in {j \in DOMAIN Succ(n) : e \notin ArcMarks(n, j)}} \ {0}
AroundIn[e \in STNode, k \in Nat] ==
  IF k = 0 THEN {Root}
  ELSE LET R == AroundIn[e, k - 1] IN R \cup UNION {ArcsAround(e, n) : n \in R}
Around(e) == AroundIn[e, Len(Graph)]

(* The asserts of the constructor and of visit(Switch) and visit(Enter),   *)
(* and what the links between parents and children are; nodes of the tree  *)
(* are numbered from the root.                                             *)
ASSUME VisitAssumption ==
  /\ Len(Children(1)) = 3
  /\ \A e \in STNode :
       /\ Parent(e) \in 0..(e - 1)
       /\ \A i \in DOMAIN Children(e) : Children(e)[i] \in STNode /\ Parent(Children(e)[i]) = e
       /\ e # 1 => \E i \in DOMAIN Children(Parent(e)) : Children(Parent(e))[i] = e
  /\ \A n \in Node :
       /\ Kind(n) = "switch" => Len(Succ(n)) = Len(Children(Graph[n].st))
       /\ Kind(n) = "enter" => Above[Graph[n].st] \in STExcl
       /\ Kind(n) # "sync" => \A i \in DOMAIN Succ(n) : Succ(n)[i] # 0

(* One Switch stands for an exclusive node, and when that is a child of    *)
(* another, control reaches the Switch only by an arc that marks it: a     *)
(* branch of the outer Switch, or an Enter.                                *)
ASSUME SwitchAssumption ==
  \A n \in OfKind("switch") :
    LET e == Graph[n].st
        around == Around(e)
    IN /\ \A m \in OfKind("switch") : Graph[m].st = e => m = n
       /\ Parent(e) \in STExcl =>
            /\ n \notin around /\ Root \in around /\ around \subseteq Node
            /\ \A m \in around : ArcsAround(e, m) \subseteq around

-----------------------------------------------------------------------------

OptInit ==
  /\ cfg = {} /\ pending = {Root}
  /\ st = {1, Children(1)[3]}
  /\ switchFor = [e \in STExcl |-> 0]
  /\ levels = [n \in OfKind("sync") |-> {}]
  /\ newSucc = <<>> /\ newChildren = <<>>
  /\ phase = "analyse"

Take(n) ==
  /\ n \in pending
  /\ cfg' = cfg \cup {n}
  /\ UNCHANGED <<newSucc, newChildren, phase>>

(* A mutant: branches that were visited are scheduled again.               *)
TakeSwitch_Again(n) ==
  /\ Kind(n) = "switch" /\ Take(n)
  /\ switchFor' = [switchFor EXCEPT ![Graph[n].st] = n]
  /\ st' = st \cup {Graph[n].st}
  /\ pending' = (pending \ {n}) \cup SwitchOpens(st', n)
  /\ UNCHANGED levels

(* A Switch remembers itself for later Enters, and schedules the branches  *)
(* of the children reached so far, if they were not visited.               *)
TakeSwitch(n) ==
  /\ Kind(n) = "switch" /\ Take(n)
  /\ switchFor' = [switchFor EXCEPT ![Graph[n].st] = n]
  /\ st' = st \cup {Graph[n].st}
  /\ pending' = (pending \ {n}) \cup (SwitchOpens(st', n) \ cfg')
  /\ UNCHANGED levels

(* Mutants: the Switch is not scheduled again; or scheduled when unknown.  *)
TakeEnter_Forgets(n) ==
  /\ Kind(n) = "enter" /\ Take(n)
  /\ st' = st \cup Climb[Graph[n].st]
  /\ pending' = (pending \ {n}) \cup SuccSet(n)
  /\ UNCHANGED <<switchFor, levels>>
TakeEnter_Null(n) ==
  /\ Kind(n) = "enter" /\ Take(n)
  /\ st' = st \cup Climb[Graph[n].st]
  /\ pending' = (pending \ {n}) \cup SuccSet(n) \cup {switchFor[Above[Graph[n].st]]}
  /\ UNCHANGED <<switchFor, levels>>

TakeEnter(n) ==
  /\ Kind(n) = "enter" /\ Take(n)
  /\ st' = st \cup Climb[Graph[n].st]
  /\ pending' = (pending \ {n}) \cup SuccSet(n)
                   \cup ({switchFor[Above[Graph[n].st]]} \ {0})
  /\ UNCHANGED <<switchFor, levels>>

TakeSync(n) ==
  /\ Kind(n) = "sync" /\ Take(n)
  /\ LET level == Exits(cfg, n) IN
       /\ \A l \in level : l < Len(Succ(n)) => Succ(n)[l + 1] # 0
       /\ levels' = [levels EXCEPT ![n] = IF level = {} THEN @ ELSE level]
       /\ pending' = (pending \ {n}) \cup (Leaves(n, level) \ cfg')
  /\ UNCHANGED <<st, switchFor>>

(* A mutant: a Terminate does not schedule a Sync that was visited.        *)
TakeOther_Once(n) ==
  /\ Kind(n) \notin {"switch", "enter", "sync"} /\ Take(n)
  /\ pending' = (pending \ {n}) \cup (SuccSet(n) \ cfg')
  /\ UNCHANGED <<st, switchFor, levels>>

TakeOther(n) ==
  /\ Kind(n) \notin {"switch", "enter", "sync"} /\ Take(n)
  /\ pending' = (pending \ {n}) \cup SuccSet(n)
  /\ UNCHANGED <<st, switchFor, levels>>

(* Mutants: the branches of a Switch stay when children are removed; the   *)
(* children stay; the successors of a Sync are counted from one.           *)
Branches_All(n) == Succ(n)
Alive_All(e) == Children(e)
Joins_One(n) == [i \in DOMAIN Succ(n) |-> IF i \in levels[n] THEN Succ(n)[i] ELSE 0]

(* What stays of a Switch, an exclusive node and a Sync.  A child that was *)
(* not reached is erased together with its branch, so those that are kept  *)
(* move down; a Sync loses the successors it may not exit at.              *)
Kept(e) == {i \in DOMAIN Children(e) : Children(e)[i] \in st}
Branches(n) == Thinned(Succ(n), Kept(Graph[n].st))
Alive(e) == Thinned(Children(e), Kept(e))
Joins(n) == [i \in DOMAIN Succ(n) |-> IF i - 1 \in levels[n] THEN Succ(n)[i] ELSE 0]

(* Every node that was not visited is deleted, which leaves NULL where it  *)
(* was a successor.                                                        *)
Deleted(succ) == [i \in DOMAIN succ |-> IF succ[i] \in cfg THEN succ[i] ELSE 0]

Prune ==
  /\ phase = "analyse" /\ pending = {}
  /\ phase' = "pruned"
  /\ newChildren' = [e \in STExcl |-> IF e \in st THEN Alive(e) ELSE <<>>]
  /\ newSucc' = [n \in Node |->
       CASE n \notin cfg -> <<>>
         [] n \in cfg /\ Kind(n) = "switch" /\ switchFor[Graph[n].st] = n -> Deleted(Branches(n))
         [] n \in cfg /\ Kind(n) = "sync" /\ levels[n] # {} -> Deleted(Joins(n))
         [] OTHER -> Deleted(Succ(n))]
  /\ UNCHANGED <<cfg, st, switchFor, levels, pending>>

Analyse == \E n \in pending : TakeSwitch(n) \/ TakeEnter(n) \/ TakeSync(n) \/ TakeOther(n)
OptNext == Analyse \/ Prune

-----------------------------------------------------------------------------
(* Properties.                                                             *)

(* The sets the analysis builds name what exists: the worklist never holds *)
(* the NULL of a Switch that is not known yet.                             *)
OptTypeOK ==
  /\ cfg \subseteq Node /\ pending \subseteq Node /\ st \subseteq STNode
  /\ switchFor \in [STExcl -> {0} \cup OfKind("switch")]
  /\ levels \in [OfKind("sync") -> SUBSET Nat]
  /\ phase \in {"analyse", "pruned"}

(* What a visited node leads to, given what else has been reached.         *)
Opens(C, S, n) ==
  CASE Kind(n) = "switch" -> SwitchOpens(S, n)
    [] Kind(n) = "sync" -> SyncOpens(C, n)
    [] OTHER -> SuccSet(n)
Marks(n) ==
  CASE Kind(n) = "switch" -> {Graph[n].st}
    [] Kind(n) = "enter" -> Climb[Graph[n].st]
    [] OTHER -> {}

(* The worklist forgets nothing: when it is empty, everything that a       *)
(* visited node leads to has been visited, although a Sync, and a Switch,  *)
(* depend on nodes that may be visited after them.                         *)
Closed ==
  pending = {} => /\ \A n \in cfg : Opens(cfg, st, n) \subseteq cfg /\ Marks(n) \subseteq st
                  /\ Root \in cfg

(* Every order of the worklist finds the same nodes: the least sets that   *)
(* are closed.                                                             *)
Closure[k \in Nat] ==
  IF k = 0 THEN [cfg |-> {Root}, st |-> {1, Children(1)[3]}]
  ELSE LET R == Closure[k - 1]
       IN [cfg |-> R.cfg \cup UNION {Opens(R.cfg, R.st, n) : n \in R.cfg},
           st |-> R.st \cup UNION {Marks(n) : n \in R.cfg}]
Least == Closure[Len(Graph) + Len(Tree)]
FindsLeast == pending = {} => cfg = Least.cfg /\ st = Least.st

(* What Prune leaves is a graph: the only NULL successors are those of a   *)
(* Sync, every Switch has a branch for each child of its exclusive node,   *)
(* and no node is kept whose parent is deleted.                            *)
ArcsStay ==
  phase = "pruned" =>
    /\ \A n \in cfg : \A i \in DOMAIN newSucc[n] :
         newSucc[n][i] = 0 => Kind(n) = "sync"
    /\ \A n \in cfg \cap OfKind("switch") :
         Len(newSucc[n]) = Len(newChildren[Graph[n].st])
ParentsStay == phase = "pruned" => \A c \in st \ {1} : Parent(c) \in st
LeavesGraph == ArcsStay /\ ParentsStay

(* The analysis ends.                                                      *)
AnalysisEnds == <>(phase = "pruned")

=============================================================================
