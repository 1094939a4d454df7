------------------------------ MODULE Optimize ------------------------------
(***************************************************************************)
(* cec-optgrc: the passes of GRCOpt.cpp as functions on graphs.            *)
(*                                                                         *)
(* Simulated states the fixed point that module Simulator shows every      *)
(* order of the worklist to find.  A pass visits the nodes in post-order   *)
(* or in its reverse, after deleting what the root does not reach.         *)
(***************************************************************************)
EXTENDS Flow

LOCAL INSTANCE SequencesExt
LOCAL INSTANCE FiniteSets

(* delete_node on a set: NULL is left where one was a successor.           *)
Delete(g, dead) ==
  [g EXCEPT !.cfg = [n \in DOMAIN g.cfg |->
     IF n \in dead THEN Gone
     ELSE [g.cfg[n] EXCEPT !.succ = [i \in DOMAIN @ |-> IF @[i] \in dead THEN 0 ELSE @[i]],
                           !.data = @ \ dead]]]

(* bypass on a set: every arc into it goes to the first node beyond it.    *)
Bypass(g, S) ==
  LET past[n \in DOMAIN g.cfg] == IF n \in S THEN past[g.cfg[n].succ[1]] ELSE n
  IN [g EXCEPT !.cfg = [m \in DOMAIN g.cfg |->
        IF m \in S THEN Gone
        ELSE [g.cfg[m] EXCEPT !.succ = [i \in DOMAIN @ |-> IF @[i] = 0 THEN 0 ELSE past[@[i]]],
                              !.data = @ \ S]]]
(* bypass in the tree: the only child takes the place of n.                *)
BypassST(g, n) ==
  LET child == g.tree[n].children[1]
      parent == g.tree[n].parent
  IN [g EXCEPT !.tree[parent].children = [i \in DOMAIN @ |-> IF @[i] = n THEN child ELSE @[i]],
               !.tree[child].parent = parent]

-----------------------------------------------------------------------------
(* Simulator.                                                              *)

RECURSIVE ClimbTo(_, _), Fixpoint(_, _)
ClimbTo(g, c) ==
  LET p == g.tree[c].parent
  IN {c} \cup (IF p = 0 \/ g.tree[p].kind = "excl" THEN {} ELSE ClimbTo(g, p))

Terms(g, n) == {t \in Of(g, "term") : n \in Succs(g, t)}
JoinLevels(g, C, n) ==
  LET seen == Terms(g, n) \cap C
      threads == UNION {0..g.cfg[t].thread : t \in Terms(g, n)}
  IN {l \in {g.cfg[t].code : t \in seen} :
        \A i \in threads : \E t \in seen : g.cfg[t].thread = i /\ g.cfg[t].code <= l}

Opens(g, R, n) ==
  LET node == g.cfg[n] IN
  CASE node.kind = "switch" ->
         {node.succ[i] : i \in {j \in DOMAIN node.succ : Child(g, node.st, j) \in R.st}}
    [] node.kind = "sync" -> {node.succ[l + 1] : l \in JoinLevels(g, R.cfg, n)}
    [] OTHER -> Succs(g, n)
Marks(g, n) ==
  CASE g.cfg[n].kind = "switch" -> {g.cfg[n].st}
    [] g.cfg[n].kind = "enter"  -> ClimbTo(g, g.cfg[n].st)
    [] OTHER -> {}
Fixpoint(g, R) ==
  LET next == [cfg |-> R.cfg \cup UNION {Opens(g, R, n) : n \in R.cfg},
               st |-> R.st \cup UNION {Marks(g, n) : n \in R.cfg}]
  IN IF next = R THEN R ELSE Fixpoint(g, next)
Visited(g) == Fixpoint(g, [cfg |-> {g.root}, st |-> {g.top, Child(g, g.top, 3)}])

Simulated(g) ==
  LET R == Visited(g)
      kept(e) == SelectSeq(Indices(g.tree[e].children), LAMBDA i : Child(g, e, i) \in R.st)
      trim(node, n) ==
        CASE node.kind = "switch" ->
               [node EXCEPT !.succ = [j \in DOMAIN kept(node.st) |-> @[kept(node.st)[j]]]]
          [] node.kind = "sync" /\ JoinLevels(g, R.cfg, n) # {} ->
               [node EXCEPT !.succ = [i \in DOMAIN @ |->
                  IF i - 1 \in JoinLevels(g, R.cfg, n) THEN @[i] ELSE 0]]
          [] OTHER -> node
      trimmed == [g EXCEPT !.cfg = [n \in DOMAIN g.cfg |->
                    IF n \in R.cfg THEN trim(g.cfg[n], n) ELSE g.cfg[n]]]
  IN [Delete(trimmed, Nodes(g) \ R.cfg)
      EXCEPT !.tree = [c \in DOMAIN g.tree |->
        IF c \in R.st THEN [g.tree[c] EXCEPT !.children = SelectSeq(@, LAMBDA k : k \in R.st)]
        ELSE [STleaf EXCEPT !.kind = "gone"]]]

-----------------------------------------------------------------------------
(* Pass::transform.                                                        *)

(* Deletes what the root does not reach; ExitGRC stays.                    *)
Cleaned(g) == Delete(g, Nodes(g) \ (Reached(g) \cup {g.quit}))
(* A pass that bypasses nodes, and one that visits every Switch before     *)
(* those below it.                                                         *)
Without(g, Unwanted(_, _)) ==
  LET h == Cleaned(g) IN Bypass(h, {n \in Nodes(h) : Unwanted(h, n)})
EachSwitch(g, Visit(_, _)) ==
  LET h == Cleaned(g)
  IN FoldLeft(Visit, h, SelectSeq(Downward(h), LAMBDA n : h.cfg[n].kind = "switch"))

(* STSimplify: an STref that is neither an abort's nor a suspend's gives   *)
(* way to its child, and a node with no leaf below it goes (0).            *)
SimpleRef(node) == node.kind = "ref" /\ node.mark = "none"
RECURSIVE CheckST(_, _, _)
CheckST(g, n, realpar) ==
  LET node == g.tree[n]
      placed == [g EXCEPT !.tree[n].parent = realpar]
      below == IF SimpleRef(node) THEN realpar ELSE n
      all == FoldLeft(LAMBDA a, i :
               IF Child(a.g, n, i) = 0 THEN a
               ELSE LET r == CheckST(a.g, Child(a.g, n, i), below)
                    IN [g |-> [r.g EXCEPT !.tree[n].children[i] = r.n], last |-> r.n,
                        keep |-> a.keep \/ r.n # 0],
               [g |-> placed, last |-> 0, keep |-> FALSE], Indices(node.children))
  IN IF node.kind = "leaf" THEN Got([placed EXCEPT !.kept = @ \cup {n}], n)
     ELSE IF ~ all.keep THEN Got(all.g, 0)
     ELSE IF SimpleRef(node) THEN Got(all.g, all.last)
     ELSE Got([all.g EXCEPT !.kept = @ \cup {n}], n)
Simplified(g) == CheckST([g EXCEPT !.kept = {}], g.top, 0).g

RemoveNops(g) == Without(g, LAMBDA h, n : h.cfg[n].kind = "nop")

(* A Switch loses the branches of the children that went; with one branch  *)
(* left it goes itself, and its node of the tree with it: the code reads   *)
(* the tree through the Switch it has deleted, here as if it still could.  *)
(* A mutant: the branches of the removed children stay.                    *)
PruneSwitch_Keeps(g, n) ==
  LET e == g.cfg[n].st
      kept == SelectSeq(Indices(g.tree[e].children), LAMBDA i : Child(g, e, i) \in g.kept)
      cut == [g EXCEPT !.tree[e].children = [j \in DOMAIN kept |-> @[kept[j]]]]
  IN IF Len(kept) # 1 THEN cut
     ELSE [BypassST(Bypass(cut, {n}), e) EXCEPT !.kept = @ \ {e}]
PruneSwitch(g, n) ==
  LET e == g.cfg[n].st
      kept == SelectSeq(Indices(g.tree[e].children), LAMBDA i : Child(g, e, i) \in g.kept)
      cut == [g EXCEPT !.tree[e].children = [j \in DOMAIN kept |-> @[kept[j]]],
                       !.cfg[n].succ = [j \in DOMAIN kept |-> @[kept[j]]]]
  IN IF Len(kept) # 1 THEN cut
     ELSE [BypassST(Bypass(cut, {n}), e) EXCEPT !.kept = @ \ {e}]
PruneSW(g) == EachSwitch(g, PruneSwitch)

(* A Switch whose only predecessor is a Switch is merged into it.          *)
Splice(s, i, t) == SubSeq(s, 1, i - 1) \o t \o SubSeq(s, i + 1, Len(s))
MergeSwitch(g, n) ==
  LET arc == CHOOSE a \in Arcs(g, n) : TRUE
      p == arc[1]
      e == g.cfg[n].st
      up == g.cfg[p].st
      moved == [g.tree EXCEPT ![up].children = Splice(@, arc[2], g.tree[e].children)]
  IN IF \/ Cardinality(Arcs(g, n)) # 1
        \/ \E a \in Arcs(g, n) : g.cfg[a[1]].kind # "switch"
     THEN g
     ELSE [g EXCEPT !.cfg = [g.cfg EXCEPT ![p].succ = Splice(@, arc[2], g.cfg[n].succ), ![n] = Gone],
                    !.tree = [c \in DOMAIN g.tree |->
                       IF c \in {g.tree[e].children[i] : i \in DOMAIN g.tree[e].children}
                       THEN [moved[c] EXCEPT !.parent = up] ELSE moved[c]],
                    !.kept = @ \ {e}]
MergeSW(g) == EachSwitch(g, MergeSwitch)

DanglingST(g) ==
  Without(g, LAMBDA h, n : h.cfg[n].kind \in {"enter", "stsuspend"} /\ h.cfg[n].st \notin h.kept)

(* An Enter matters only right below an exclusive node.                    *)
UnderExcl(g, c) == g.tree[c].parent # 0 /\ g.tree[g.tree[c].parent].kind = "excl"
RedundantEnters(g) ==
  Without(g, LAMBDA h, n : h.cfg[n].kind = "enter" /\ ~ UnderExcl(h, h.cfg[n].st))

(* A signal that nothing reads and that is no output needs no writers.     *)
Observed(g, outputs) ==
  UNION {Reads(g.cfg[n].expr) : n \in Reached(g)} \cup {<<s, 0>> : s \in outputs}
UnobservedEmits(g, outputs) ==
  Without(g, LAMBDA h, n : h.cfg[n].kind \in Writes /\ h.cfg[n].sym \notin Observed(g, outputs))

=============================================================================
