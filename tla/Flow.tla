-------------------------------- MODULE Flow --------------------------------
(***************************************************************************)
(* GRC graphs as values: what the synthesizers build, the optimizer        *)
(* rewrites and a tick runs.  A graph is a record:                         *)
(*   cfg   the control-flow nodes, a sequence; "gone" once deleted         *)
(*   tree  the selection tree, a sequence                                  *)
(*   root  the last successor of EnterGRC;  quit  ExitGRC;  top the tree's *)
(* While it is built, sigs and vars are the symbols of the module, hoisted *)
(* the variables newvar maps, and code the level of every trap.  kept is   *)
(* the optimizer's set of selection-tree nodes that stay.                  *)
(*                                                                         *)
(* Symbols of the graph are pairs: a name, and the number that cloning     *)
(* appended to it (0 for none).                                            *)
(***************************************************************************)
EXTENDS Esterel

LOCAL INSTANCE SequencesExt
LOCAL INSTANCE FiniteSetsExt

Gone == [kind |-> "gone", succ |-> <<>>, data |-> {}, sym |-> <<"", 0>>, expr |-> Term,
         code |-> 0, thread |-> 0, st |-> 0, surface |-> FALSE]
Node(kind, succ) == [Gone EXCEPT !.kind = kind, !.succ = succ]
AtST(kind, st, succ) == [Node(kind, succ) EXCEPT !.st = st]

(* The control-flow nodes, each class of AST.hpp one.  A NULL is 0.         *)
Switch(st, succ) == AtST("switch", st, succ)
Test(st, e, else, then) == [AtST("test", st, <<else, then>>) EXCEPT !.expr = e]
Fork(succ) == Node("fork", succ)
Sync(st, succ) == AtST("sync", st, succ)
Terminate(code, thread, n) == [Node("term", <<n>>) EXCEPT !.code = code, !.thread = thread]
Enter(st, n) == AtST("enter", st, <<n>>)
STSuspend(st, n) == AtST("stsuspend", st, <<n>>)
Nop(n) == Node("nop", <<n>>)
EmitAt(s, n) == [Node("emit", <<n>>) EXCEPT !.sym = s]
ExitAt(s, n) == [Node("exit", <<n>>) EXCEPT !.sym = s]
AssignAt(v, e, n) == [Node("assign", <<n>>) EXCEPT !.sym = v, !.expr = e]
StartCounter(c, count, n) == [Node("start", <<n>>) EXCEPT !.sym = <<c, 0>>, !.code = count]
DefineSignal(s, surface, n) == [Node("define", <<n>>) EXCEPT !.sym = s, !.surface = surface]

(* The selection-tree nodes.                                               *)
STNode(kind) == [kind |-> kind, parent |-> 0, children |-> <<>>, final |-> FALSE, mark |-> "none"]
STexcl == STNode("excl")
STpar == STNode("par")
STref == STNode("ref")
STleaf == STNode("leaf")
Final(n) == [n EXCEPT !.final = TRUE]
Marked(n, how) == [n EXCEPT !.mark = how]

-----------------------------------------------------------------------------
(* Building: every operation gives the graph and the node it was about.    *)

Got(g, n) == [g |-> g, n |-> n]
New(g, node) == Got([g EXCEPT !.cfg = Append(@, node)], Len(g.cfg) + 1)

(* push_onto and run_before: node, with r's node as its successor.         *)
On(r, node) == New(r.g, [node EXCEPT !.succ = <<r.n>>])

(* A Test whose branches are what r and h are about, and a Switch or Fork  *)
(* with several.                                                           *)
Branch(st, e, r, h) == New(h.g, Test(st, e, r.n, h.n))
Also(ns, r) == [g |-> r.g, succ |-> Append(ns, r.n)]
Before(r, ns) == [g |-> r.g, succ |-> <<r.n>> \o ns]
Over(a, node) == New(a.g, [node EXCEPT !.succ = a.succ])

(* operator>> of GRCNode: one more successor of n.                         *)
Link(g, n, m) == [g EXCEPT !.cfg[n].succ = Append(@, m)]

Plant(g, node) == Got([g EXCEPT !.tree = Append(@, node)], Len(g.tree) + 1)
(* operator>> of STNode: c becomes the last child of n.                    *)
Hang(g, n, c) == [g EXCEPT !.tree[n].children = Append(@, c), !.tree[c].parent = n]
Child(g, n, i) == g.tree[n].children[i]

(* cloneLocalSignal, hoistLocalVariable: the name with the least suffix    *)
(* that the symbol table does not contain.                                 *)
(* A mutant: the clone keeps the name.                                     *)
Fresh_Same(s, table) == <<s, 0>>
Fresh(s, table) == <<s, CHOOSE k \in 0..Cardinality(table) :
                          <<s, k>> \notin table /\ \A j \in 0..(k - 1) : <<s, j>> \in table>>

(* A context maps a level to its continuation; map is the cloner's newsig. *)
CloneSignals(g, names, map) ==
  FoldLeft(LAMBDA a, s : LET f == Fresh(s, a.g.sigs) IN
                         [g |-> [a.g EXCEPT !.sigs = @ \cup {f}], map |-> (s :> f) @@ a.map],
           [g |-> g, map |-> map], names)
HoistVariables(g, names) ==
  FoldLeft(LAMBDA a, v : IF v \in DOMAIN a.hoisted THEN a
                         ELSE LET f == Fresh(v, a.vars) IN
                              [a EXCEPT !.vars = @ \cup {f}, !.hoisted = (v :> f) @@ @],
           g, names)

(* The cloner on expressions.                                              *)
RECURSIVE Clone(_, _, _)
Clone(e, g, map) ==
  CASE e.op = "signal"   -> [e EXCEPT !.id = map[e.id]]
    [] e.op = "variable" -> [e EXCEPT !.id = g.hoisted[e.id]]
    [] OTHER -> [e EXCEPT !.args = [i \in DOMAIN e.args |-> Clone(e.args[i], g, map)]]

(* The predicate a Test checks in a later tick: a counted one decrements.  *)
DepthPred(d, g, map) ==
  IF Counted(d) THEN CheckCounter(d.counter, Clone(d.pred, g, map)) ELSE Clone(d.pred, g, map)

-----------------------------------------------------------------------------
(* CompletionCodes: a level for every trap, above those of its body and of *)
(* its handlers.                                                           *)

RECURSIVE MaxCode(_), CodeOf(_)
Parts(p) == {p.subs[i] : i \in DOMAIN p.subs} \cup {p.cases[i].do : i \in DOMAIN p.cases}
Leaves == {"null", "emit", "assign", "exit", "pause"}
MaxCode(p) ==
  IF p.op \in Leaves THEN 0
  ELSE LET m == Max({1} \cup {MaxCode(s) : s \in Parts(p)})
       IN IF p.op = "trap" THEN m + 1 ELSE m
CodeOf(p) ==
  LET inner == UNION {CodeOf(s) : s \in Parts(p)}
  IN IF p.op = "trap" THEN {<<p.names[i], MaxCode(p)>> : i \in DOMAIN p.names} \cup inner ELSE inner
Codes(p) == [t \in {c[1] : c \in CodeOf(p)} |-> CHOOSE k \in 1..MaxCode(p) : <<t, k>> \in CodeOf(p)]

Blank(p, signals) ==
  [cfg |-> <<>>, tree |-> <<>>, root |-> 0, quit |-> 0, top |-> 1, code |-> Codes(p),
   size |-> Max({1, MaxCode(p)}) + 1, sigs |-> {<<s, 0>> : s \in signals}, vars |-> {},
   hoisted |-> << >>, kept |-> {}]

-----------------------------------------------------------------------------
(* What the passes ask of a graph.                                         *)

Indices(s) == [i \in DOMAIN s |-> i]
Nodes(g) == {n \in DOMAIN g.cfg : g.cfg[n].kind # "gone"}
Succs(g, n) == {g.cfg[n].succ[i] : i \in DOMAIN g.cfg[n].succ} \ {0}
Of(g, kind) == {n \in Nodes(g) : g.cfg[n].kind = kind}
(* Arcs into n, one for each entry of its predecessors.                    *)
Arcs(g, n) == {<<m, i>> \in UNION {{<<k, j>> : j \in DOMAIN g.cfg[k].succ} : k \in Nodes(g)} :
                 g.cfg[m].succ[i] = n}

(* What the nodes of S lead to, and the nodes of S in an order in which    *)
(* next goes forward: those of a cycle, and beyond, are missing.           *)
RECURSIVE Reach(_, _), Sorted(_, _, _)
Reach(next, S) ==
  LET T == S \cup UNION {next[n] : n \in S} IN IF T = S THEN S ELSE Reach(next, T)
Sorted(prev, left, placed) ==
  LET ready == {n \in left : prev[n] \cap left = {}}
  IN IF ready = {} THEN placed
     ELSE Sorted(prev, left \ ready,
                 placed \o SelectSeq(Indices(prev), LAMBDA n : n \in ready))
Topological(next, root) ==
  LET S == Reach(next, {root})
  IN Sorted([n \in DOMAIN next |-> {m \in S : n \in next[m]}], S, <<>>)

Control(g) == [n \in DOMAIN g.cfg |-> Succs(g, n)]
Reached(g) == Reach(Control(g), {g.root})
(* The order of a pass that takes a node before what it leads to.          *)
Downward(g) == Topological(Control(g), g.root)

(* Dependencies::compute: what writes a signal is a data predecessor of    *)
(* what reads it, and every Terminate before a Sync one of the Sync.       *)
RECURSIVE Reads(_)
Reads(e) == IF e.op = "signal" THEN {e.id} ELSE UNION {Reads(e.args[i]) : i \in DOMAIN e.args}
Writes == {"emit", "exit", "define"}
Compute(g) ==
  LET live == Reached(g)
      writers(ss) == {n \in live : g.cfg[n].kind \in Writes /\ g.cfg[n].sym \in ss}
      data(n) == CASE g.cfg[n].kind \in {"test", "assign"} -> writers(Reads(g.cfg[n].expr))
                   [] g.cfg[n].kind = "sync" -> {a[1] : a \in Arcs(g, n)}
                   [] OTHER -> {}
  IN [g EXCEPT !.cfg = [n \in DOMAIN g.cfg |->
        IF n \in live THEN [g.cfg[n] EXCEPT !.data = data(n)] ELSE g.cfg[n]]]

=============================================================================
