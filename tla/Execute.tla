------------------------------ MODULE Execute -------------------------------
(***************************************************************************)
(* A tick of a graph of module Flow, as module Reaction states it for a    *)
(* constant graph, with counters and variables: the nodes run one after    *)
(* the other in an order that follows control and data.                    *)
(***************************************************************************)
EXTENDS Flow

LOCAL INSTANCE SequencesExt
LOCAL INSTANCE FiniteSetsExt

(* An order for a tick: what control or data orders first is in front.     *)
Next(g) == [n \in DOMAIN g.cfg |-> Succs(g, n) \cup {m \in Nodes(g) : n \in g.cfg[m].data}]
Order(g) == Topological(Next(g), g.root)

-----------------------------------------------------------------------------

(* The exclusive node whose state an Enter changes, and the child it names:*)
(* the climb of CPrinter and of the simulator.  0 for none.                *)
RECURSIVE Settles(_, _)
Settles(g, c) ==
  LET p == g.tree[c].parent
  IN IF p = 0 \/ g.tree[p].kind = "excl" THEN c ELSE Settles(g, p)
ChildAt(g, c) ==
  LET siblings == g.tree[g.tree[c].parent].children
  IN CHOOSE i \in DOMAIN siblings : siblings[i] = c
Enters(g, c, config) ==
  LET s == Settles(g, c)
  IN IF g.tree[s].parent = 0 THEN config ELSE [config EXCEPT ![g.tree[s].parent] = ChildAt(g, s)]

(* Every exclusive node has a state, at first that of its first child; the *)
(* root's is that of its last, boot.                                       *)
Booted(g, variables) ==
  [config |-> [e \in {c \in DOMAIN g.tree : g.tree[c].kind = "excl"} |->
                IF e = g.top THEN Len(g.tree[e].children) ELSE 1], counters |-> << >>,
   m |-> [v \in variables |-> FALSE]]
(* The leaf finished is the first child of the root.                       *)
Finished(g, s) == g.tree[Child(g, g.top, s.config[g.top])].final

-----------------------------------------------------------------------------

RECURSIVE Value(_, _)
Value(e, r) ==
  CASE e.op = "true"     -> TRUE
    [] e.op = "false"    -> FALSE
    [] e.op = "signal"   -> e.id \in r.present
    [] e.op = "variable" -> r.m[e.id]
    [] e.op = "not"      -> ~ Value(e.args[1], r)
    [] e.op = "and"      -> Value(e.args[1], r) /\ Value(e.args[2], r)
    [] e.op = "or"       -> Value(e.args[1], r) \/ Value(e.args[2], r)
    [] e.op = "count"    -> r.counters[e.id] = 0
(* CheckCounter: an occurrence decrements; then the counter is compared.   *)
Counting(e, r) ==
  IF e.op = "count" /\ Value(e.args[1], r) THEN [r EXCEPT !.counters[e.id] = @ - 1] ELSE r

Completed(g, n, r) == Max({g.cfg[t].code : t \in g.cfg[n].data \cap r.run})

(* What the node does, and then where it hands control.                    *)
Does(g, n, r) ==
  LET node == g.cfg[n] IN
  CASE node.kind \in {"emit", "exit"} -> [r EXCEPT !.present = @ \cup {node.sym}]
    [] node.kind = "define" -> [r EXCEPT !.present = @ \ {node.sym}]
    [] node.kind = "enter"  -> [r EXCEPT !.config = Enters(g, node.st, @)]
    [] node.kind = "assign" -> [r EXCEPT !.m[node.sym] = Value(node.expr, r)]
    [] node.kind = "start"  -> [r EXCEPT !.counters = (node.sym[1] :> node.code) @@ @]
    [] node.kind = "test"   -> Counting(node.expr, r)
    [] OTHER -> r
Leads(g, n, r) ==
  LET node == g.cfg[n] IN
  CASE node.kind = "switch" -> {node.succ[r.config[node.st]]}
    [] node.kind = "test"   -> {node.succ[IF Value(node.expr, r) THEN 2 ELSE 1]}
    [] node.kind = "sync"   -> {node.succ[Completed(g, n, r) + 1]}
    [] OTHER                -> Succs(g, n)
Step(g, r, n) ==
  IF n \notin r.run THEN r
  ELSE LET s == Does(g, n, r) IN [s EXCEPT !.run = @ \cup Leads(g, n, s)]

(* The steps from the i-th to the j-th node of the order, half by half.    *)
RECURSIVE Steps(_, _, _, _, _)
Steps(g, order, i, j, r) ==
  LET k == (i + j) \div 2
      half == Steps(g, order, i, k, r)
  IN IF i = j THEN Step(g, r, order[i])
     ELSE IF half.run = {} THEN half ELSE Steps(g, order, k + 1, j, half)

(* A tick from state s: what ran, what is present, and the next state.     *)
Tick(g, order, s, inputs) ==
  LET r == Steps(g, order, 1, Len(order),
                 [run |-> {g.root}, present |-> inputs, config |-> s.config,
                  counters |-> s.counters, m |-> s.m])
  IN [run |-> r.run, present |-> r.present,
      state |-> [config |-> r.config, counters |-> r.counters, m |-> r.m]]

=============================================================================
