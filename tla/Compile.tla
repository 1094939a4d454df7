------------------------------ MODULE Compile -------------------------------
(***************************************************************************)
(* The compiler as the pipe of filters it is: cec-dismantle, cec-astgrc and*)
(* the passes of cec-optgrc, one action each.  After any of them the       *)
(* program may be loaded and run, side by side with what module Semantics  *)
(* promises for its source.                                                *)
(***************************************************************************)
EXTENDS Dismantle, Expand, Optimize, Execute

LOCAL INSTANCE FiniteSets

S == INSTANCE Semantics

CONSTANT Programs  \* the modules to compile

VARIABLES
  program,  \* the source
  stage,    \* the last filter that ran
  body,     \* the statement it left
  graph,    \* the graph it left
  order,    \* the order a tick takes, <<>> before the program is loaded
  spec,     \* where the source rests: [q, m]
  impl,     \* the state of what was compiled
  ran,      \* the nodes that ran in the last tick
  expected, \* outputs of the source in the last reaction, and whether it is over
  got       \* those of the compiled program

compiled == <<stage, body, graph>>
running == <<order, spec, impl, ran, expected, got>>
vars == <<program, compiled, running>>

-----------------------------------------------------------------------------

Idle == [q |-> S!Idle, m |-> [v \in {} |-> FALSE]]
Silent == [out |-> {}, over |-> FALSE]

CompileInit ==
  /\ program \in Programs
  /\ stage = "source" /\ body = program.body /\ graph = Blank(Nothing, {})
  /\ order = <<>> /\ spec = Idle /\ impl = Idle /\ ran = {} /\ expected = Silent /\ got = Silent

(* A filter reads what the one before it wrote.                            *)
Filter(from, to) == order = <<>> /\ stage = from /\ stage' = to /\ UNCHANGED <<program, running>>
Graphs(from, to, g) == Filter(from, to) /\ graph' = g /\ UNCHANGED body

Dismantled == Filter("source", "dismantled") /\ body' = Transform(body) /\ UNCHANGED graph
Synthesized ==
  Graphs("dismantled", "grc",
         Compute(GrcSynth(body, program.inputs \cup program.outputs, program.outputs)))
Analysed == Graphs("grc", "simulated", Simulated(graph))
Pruned == Graphs("simulated", "pruned", PruneSW(RemoveNops(Simplified(graph))))
Merged == Graphs("pruned", "merged", MergeSW(graph))
Undangled == Graphs("merged", "dangling", DanglingST(graph))
Swept == Graphs("dangling", "swept", Cleaned(graph))
Thinned == Graphs("swept", "thinned", RedundantEnters(graph))
Observes == Graphs("thinned", "optimized", UnobservedEmits(graph, program.outputs))

Compiles == \/ Dismantled \/ Synthesized \/ Analysed \/ Pruned \/ Merged \/ Undangled
            \/ Swept \/ Thinned \/ Observes

-----------------------------------------------------------------------------

(* Names of the variables a statement declares.                            *)
RECURSIVE Declared(_)
Declared(p) ==
  (IF p.op = "var" THEN {p.names[i] : i \in DOMAIN p.names} ELSE {})
    \cup UNION {Declared(q) : q \in Parts(p)}
Memory(p) == [v \in Declared(p) |-> FALSE]

(* What can run: the files the filters write, and the graph inside         *)
(* cec-optgrc whenever no Enter names a node that has gone.                *)
Runnable == {"dismantled", "grc", "simulated", "dangling", "thinned", "optimized"}
Load ==
  /\ order = <<>> /\ stage \in Runnable
  /\ spec' = [q |-> S!Idle, m |-> Memory(program.body)]
  /\ IF stage = "dismantled"
     THEN order' = <<0>> /\ impl' = spec'
     ELSE order' = Order(graph) /\ impl' = Booted(graph, graph.vars)
  /\ UNCHANGED <<program, compiled, ran, expected, got>>

(* One reaction of a statement that rests at s.                            *)
Answer(p, s, inputs) ==
  LET r == S!Answer(p, program.outputs, s.q, inputs, s.m)
  IN IF s.q = S!Done THEN [state |-> s, out |-> {}]
     ELSE [state |-> [q |-> IF r.k = 1 THEN r.q ELSE S!Done, m |-> r.m], out |-> r.out]
Shown(a) == [out |-> a.out \cap program.outputs, over |-> a.state.q = S!Done]

Reacts(inputs) ==
  /\ order # <<>>
  /\ LET a == Answer(program.body, spec, inputs)
     IN spec' = a.state /\ expected' = Shown(a)
  /\ IF stage = "dismantled"
     THEN LET b == Answer(body, impl, inputs) IN impl' = b.state /\ got' = Shown(b) /\ ran' = {}
     ELSE LET t == Tick(graph, order, impl, {<<s, 0>> : s \in inputs})
          IN /\ impl' = t.state /\ ran' = t.run
             /\ got' = [out |-> {o \in program.outputs : <<o, 0>> \in t.present},
                        over |-> Finished(graph, t.state)]
  /\ UNCHANGED <<program, compiled, order>>

CompileNext == Compiles \/ Load \/ \E inputs \in SUBSET program.inputs : Reacts(inputs)
CompileSpec == CompileInit /\ [][CompileNext]_vars

-----------------------------------------------------------------------------
(* Properties.                                                             *)

(* Whatever the filters made of it, a program answers every reaction as    *)
(* its source does: the same outputs, and termination at the same time.    *)
SameReaction == got = expected

(* A body that an immediate suspend held back starts, when it may, from its*)
(* surface and nothing else: the comment at ASTGRC.cpp:522-525.            *)
StartsLate == got = expected

(* The assumptions the passes and the back ends assert of a graph.  Every  *)
(* Switch has a branch for each child of its exclusive node and is the     *)
(* only one of it (GRCOpt.cpp:538); only Terminates precede a Sync; no     *)
(* successor but a Sync's is NULL.                                         *)
HasGraph == stage \notin {"source", "dismantled"}
Live == Nodes(graph) \cap Reached(graph)
WellBuilt ==
  HasGraph =>
    /\ \A n \in Live : graph.cfg[n].kind # "sync" => 0 \notin {graph.cfg[n].succ[i] : i \in DOMAIN graph.cfg[n].succ}
    /\ \A n \in Live \cap Of(graph, "switch") :
         /\ Len(graph.cfg[n].succ) = Len(graph.tree[graph.cfg[n].st].children)
         /\ \A m \in Live \cap Of(graph, "switch") : graph.cfg[m].st = graph.cfg[n].st => m = n
    /\ \A n \in Live \cap Of(graph, "sync") : \A a \in Arcs(graph, n) : graph.cfg[a[1]].kind = "term"

(* Control alone never returns to a node within a tick, and with the data  *)
(* dependencies of these programs nor do both together: an order exists.   *)
Ordered ==
  order # <<>> /\ HasGraph => {order[i] : i \in DOMAIN order} = Reach(Next(graph), {graph.root})

(* In every tick a Sync hears from each of its threads exactly once.       *)
OnceEach ==
  \A n \in ran \cap Of(graph, "sync") : \A t \in graph.cfg[n].data :
    Cardinality({u \in graph.cfg[n].data \cap ran : graph.cfg[u].thread = graph.cfg[t].thread}) = 1

=============================================================================
