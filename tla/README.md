# TLA+ models of the Columbia Esterel Compiler

CEC compiles Esterel, a synchronous language: a program runs in ticks, every
signal has one status per tick, and parallel threads talk through signals. The
compiler is a pipeline of small programs that pass XML trees to each other:

    cec-strlxml -> cec-expandmodule -> cec-dismantle -> cec-astgrc
        -> cec-optgrc -> cec-grcsim | cec-grcc2 | cec-grcbal | cec-grcpdg ...

Everything after `cec-astgrc` works on **GRC**: an acyclic control-flow graph
that is executed once per tick, and a *selection tree* that says which
statements stay active from one tick to the next. These models are about the
way there and about that form: how a file becomes a tree of statements and what
is printed for it, what every filter makes of a program, what it means to run a
graph, and how a C program runs it.

## Inventory

| part | state it keeps | operations | talks to | hard about it |
|---|---|---|---|---|
| front end (`esterel.g`, `staticsemantics.g`) | tokens, the parser's stack and guesses, tables of symbols | lex, parse, walk the tree and check it | writes the AST | syntactic predicates parse ahead and go back; scopes nest and hide |
| `cec-xmlstrl` (EsterelPrinter) | level of precedence | a visitor per class | reads the AST, prints Esterel | brackets are printed only where its table says so, which is not everywhere the grammar needs them |
| module expansion (ExpandModules) | maps from formal to actual symbols, tables copied | roots; a copy of each class; `visit(Run)` | AST to AST | renamings compose through nested runs; names of three modules |
| dismantlers (Dismantle) | the tree | rewriting to kernel statements | AST to AST | order of rewrites, counters, priorities of cases |
| `cec-astgrc` (ASTGRC) | control-flow graph, selection tree, completion codes | surface, depth and selection walkers; `Dependencies::compute` | builds what all others read | a result and a continuation share context(0); codes shared by traps of equal depth; every reader of a signal must get arcs from every writer |
| `cec-optgrc` (GRCOpt) | visited sets, worklist, the graph itself | `Simulator`, `STSimplify`, `RemoveNops`, `PruneSW`, `MergeSW`, `DanglingST`, `Pass`, `RedundantEnters`, `UnobservedEmits` | rewrites graph and tree in place, each pass relying on the one before | sets of pointers: the order is the allocator's; a fixpoint over two structures that depend on each other; parallel vectors edited together |
| `cec-grcsim` (GRCsim) | `topo`, `sched`, `signals`, `state`, `nextstate`, `ternary` | `dfs`, `init`, `clear_inputs`, `dotick`, a visitor per node class | reads the graph and a file of input vectors | order of nodes; may/must values; what survives a tick |
| `cec-grcc2` (GRCC2, CPrinter) | clusters, worklists, levels; at run time state, term and presence variables, one list per level | `fixGRCNode`, `greedyCluster`, `levelize`, `split`, the statements, `_schedule_`, reset | reads the graph, prints a C program that a main program calls | orders of pointers again; a scheduler without tests, that relies on each cluster being linked once and ahead; what lives on between ticks |
| `cec-grcbal`, `balvm`, `cec-vm` | threads, joins, states, byte code; the machine's registers | allocation, code generation; interpreter | byte code | limits of 64 joins and 8-bit fields |
| `cec-grcpdg`, `cec-pdgccfg`, `cec-scfgc` | dependence graph, fringe, guard variables | build, schedule by priority, print | dot/C | restructuring that must keep order |
| circuit back ends (BLIF, cverilog, `cec-grc3val`, netlist tools) | netlists | one gate per arc; simplification | BLIF, Verilog | correct only if control is one-hot |
| other printers, Beeblebrox, XML persistence, driver | none that matters | output, input | | |

All programs are sequential: there are no threads, locks or messages. What is
hard is *order* (sets of pointers that make the order of work arbitrary), state
kept from one tick to the next, parallel threads of the *simulated* program
that have to be scheduled and joined, three-valued arithmetic, a parser that
goes back, names that mean another thing in another scope, and structures that
are rewritten while others describe them.

What makes each part correct:

- **front end and printer**: a guess leaves no trace; each name refers to the
  innermost declaration; what is printed reads as the program it was printed
  for; every file is refused or read, in the end.
- **expansion**: what replaces a run means the body of the module with what it
  is given.
- **dismantler, synthesis, optimizer**: after every filter the program answers
  as its source does; what is removed can never run; the tree and the switches
  keep matching; the result does not depend on the order of the worklist.
- **search and schedule**: every node runs after everything it depends on;
  cyclic graphs are refused and only those.
- **simulator**: a status is never changed after it was read; a Sync joins
  every thread; control is not lost; every switch that runs has a state;
  unknown inputs give a result that stands for all known ones.
- **back ends**: they execute the nodes the simulator would, in an order it
  could choose, and limits of the target are respected.

## Modules

The way from a file to a graph. These modules use recursion on trees and are
checked, not proved about, but for the parser's machine.

| module | models | how |
|---|---|---|
| `EsterelLexer` | `EsterelLexer.cpp` | `nextToken`, an action that takes the next token off the characters of the file: comments, the three kinds of numbers, strings with doubled quotes, keywords |
| `Grammars`, `EsterelParser` | `EsterelParser.cpp` | each rule of the generated parser as a sequence of elements (match, root, drop, call, alternative, loop, predicate), with the sets its tests look at computed as ANTLR computes them |
| `LLkParser` | ANTLR's `LLkParser` and what it generates from any grammar | a pushdown machine with two tokens of lookahead; a syntactic predicate is a mark on the stack and a position to go back to |
| `Symbols`, `Esterel` | the classes of `AST.hpp` for symbols, tables, expressions and statements | records |
| `EsterelTreeParser` | `EsterelTreeParser.cpp` | one operator per rule of the tree walker: types, scopes, kinds of symbols, and each check that refuses a program |
| `EsterelPrinter` | `EsterelPrinter.cpp`, Esterel v5 | one operator per class, with the table of precedences |
| `ExpandModules` | `ExpandModules.cpp`, `.hpp` | a Copier is a record: the module it copies, `actual` (`formalToActual`), `values` (`newConstantExpression`), tables; `copy` is its visitor and `visitRun` the copy of a run |
| `Front` | `cec-strlxml`, `cec-expandmodule`, `cec-xmlstrl`, and `cec-strlxml` again | actions `Lexes`, `Parses` (the machine), `Builds`, `Expands`, `Prints` |
| `Scoping`, `Inlining` | nothing: references | what it means to be bound to the innermost declaration, and what a run means, on names alone |
| `Dismantle` | `Dismantle.hpp`, `.cpp` | one operator per rewriting of `Dismantler1` |
| `Flow`, `Expand` | `ASTGRC.cpp`, `ASTGRC.hpp` | graphs as they grow, one node at a time; `SelTree`, `Surface`, `Depth` and `Compute` (`Dependencies::compute`) |
| `Optimize` | `GRCOpt.cpp` | each pass as a function on graphs, in the order of its visits |
| `Compile` | the pipe of filters | an action per filter and per pass of `cec-optgrc`; after any of them the program may be loaded and run beside its source |
| `Semantics`, `Execute` | nothing: references | what an Esterel statement answers in one reaction, and a tick of a graph |

Running a graph.

| module | models | how |
|---|---|---|
| `GRCNodes` | the node classes of `AST.hpp` | one record constructor per class; 0 is NULL. Nop, STSuspend and ExitGRC, which only hand on control in these programs, share the kind `pass` |
| `GRC` | graph, tree, accessors, and where a node leads when all it reads is known (`Leads`) | constants `Graph`, `Tree`, `Root`, `Input`, `Signal` with named assumptions: the arcs the visitors assert, the tree `setState` climbs, and what `Dependencies::compute` provides |
| `Dfs` | `GRCsim::dfs` (437-478) | the recursion as a stack of frames; skip, call, cycle and return are its four ways through the loop body |
| `GRCsim` | `cec-grcsim` | extends `Dfs` with the simulator's variables; `TickStart` is the input line, `clear_inputs` and the head of `dotick`; one `Visit...` action per node class; `TickEnd` is the tail of `dotick` |
| `GRCsimCover` | two runs of `GRCsim` in step | the second is an `INSTANCE` with its own control values, signals and next state; the first implements `Reaction` and `Equations`, for which `ReactsSpec` records what a tick left |
| `Reaction` | what a tick is | `Ask` calls a tick with its inputs, kept in `asked`; `Answer` gives the outputs and the active state that follow from these and the state before: `React` runs the nodes in the order of their numbers, which follow the arcs. `Restart` (of `ResetSpec`, for the C program) comes between ticks only. The simulator's `asked` is the input line it has read, the C program's the inputs its tick function was called with |
| `Equations` | what a tick has to satisfy, without an order | the nodes that run are those with a reason to, a signal is present if a node that runs emits it (`Solution`), the tree is where the last Enters say (`Moves`); `Ask`, `Answer`, `Leave` |
| `Clusters` | `fixGRCNode`, `greedyCluster`, `levelize` (`GRCC2.cpp` 275-592) | `CSucc` is the rewired graph; `TakeSeed`, `AddToCluster` and `Drop` are the turns of the two loops of `greedyCluster`, `Relax` that of `levelize`; each takes any member of its set |
| `GRCC2` | the program that `generateC`, `split` and `CPrinter` print | extends `Clusters`: `Compile` first, then ticks; one `Run...` action per kind of statement, `EndCluster` and `NextLevel` are the computed gotos, `Schedule` the macro; implements `Reaction`; `TracedSpec` adds `took`, a record of the nodes a tick has executed and of what each handed control to |
| `Simulator` | `GRCOpt::Simulator` | `TakeSwitch`, `TakeEnter`, `TakeSync`, `TakeOther` take any node of the worklist; `Prune` is the rest of the constructor |
| `DeadCode` | `Simulator` and then `GRCsim` on the same graph | extends both: the analysis first, then every execution of the graph it was made of |
| `..._proofs` | | theorems |
| `MCFront`, `MCCompile`, `Programs` | files, modules and compiled programs to run them on | the graphs of `Programs` are printed from the compiler's own XML; three are tests of the repository |
| `MC...` | | a module and its programs, for TLC |

State corresponds by name. In `LLkParser`, `stack` is the C++ call stack with the
tree each rule has built (`returnAST`), `marks` what `_m123` and
`inputState->guessing` hold, `pos` the input's position. In `GRCsim`, `notwhite`,
`black`, `topo`, `sched`, `signals`, `state`, `nextstate`, `ternary` and `isFinal`
are its fields; `cfg`, `st`, `pending`, `switchFor`, `levels` those of
`GRCOpt::Simulator` (`switch_for_excl`, `sync_levels`). `frontier`, `pending`,
`cluster`, `clusterOf` (`clusterMap`), `level` and `unvisited` are the locals of
`greedyCluster` and `levelize`; `signals`, `state`, `term`, `head` and `rest` are
the variables `_s`, `_state_`, `_term_`, `_level_` and `_next_` of the C program,
`pc`, `running` and `now` where its control is. Values are numbered
from 1 where vectors are indexed from 0: a Test that reads 0 takes successor 1,
`state[e] = 2` is child number 1 of the source.

An address of a symbol is its name, primed once for each symbol of that name it
hides. A table of symbols is a sequence, so that a name is found as the code
finds it. A flawed program is a flaw in its tree, where the code throws an
exception or ends at an assertion: what comes of it is that no module is
written, and which of two flaws is met first is left out.

Left out of these parts: the texts of errors and their lines; in `cec-grcsim`,
the optimizer and the C program, counters, variables and signal values (`Flow`,
`Expand` and `Optimize` have counters and boolean variables, no values of
signals), what is printed, and the names of things. A predicate of the modules
that run a graph is one signal, its negation, or a conjunction or disjunction of
signals. `printStructuredCode`, which turns a cluster into nested ifs and gotos,
is modelled by what that code does, and the mask of a completion code by the
highest code in it.

## Runs

| run | program | shows |
|---|---|---|
| `front` | `AllTexts`: ten legal files, with every statement, declaration and level of operators; 32 with one flaw each; six whose runs have one | `RoundTrip` for programs with `Legible` expressions, `Bound`, `KeepsWords`, `NoTrace`, that each file is refused or read (`FrontEnds`), and for files with runs `Inlines` |
| `compile` | 13 modules of `MCCompile` | after the dismantler, the synthesis and the passes that leave a graph to run, every reaction on every input, in every state, is that of the source (`SameReaction`); a Sync hears once from each thread (`OnceEach`); the graph is as the passes and back ends assert (`WellBuilt`), and an order exists (`Ordered`) |
| `search_ring` | `Ring`: NULL and shared successors, a node with three data successors, and a cycle | `Ordered`, `CycleIsReal`, and that the search ends, in every order of data successors |
| `sim_mix` | `Mix`: suspension, a loop, two traps of which one has a handler, signals read across the threads | all safety and action properties of the simulator, for every input 0, 1, x in every tick, to a fixpoint of the state space |
| `cover_mix` | `Mix` | every pair of a known and a partly unknown input, in every tick and every state: the certain part of the three-valued tick is right (`Covers`); the known run answers each input line as `Reaction` does (`Reacts`) and solves the equations of each tick (`Solves`) |
| `dead_trap` | `tests/test-trap13.strl` before optimization | every order of the worklist, then every execution |
| `c_link` | `Link`: three threads, two of which talk both ways, a trap with a handler, a loop, a suspension, an abort | every clustering; then every tick and reset: each node runs once and after all it depends on (`RunsInOrder`), a tick that is over has executed what the equations of the graph ask for (`Solved`), no cluster is linked twice, a tick returns, and the program answers the inputs of each tick as `Reaction` does |
| `c_traps` | `Mix` | a finding |
| `leak_suspend` | `tests/test-suspend1.strl` | a finding |
| `scan_tri` | `tests/test-3vsim3.strl` | a finding |
| `late` | `Late` of `MCCompile` | a finding |
| `brackets` | `Illegibles` of `MCFront` | a finding |

No run cuts off a behaviour: the counters of `compile` count down from the
constants of its programs, and every state a program can reach with any number
of ticks is visited. What is bounded is the program. `Mix` was written so that
each node class, a Sync with three levels and threads of several Terminates, and
a state that must survive a suspended tick all occur; `Ring` so that a cycle is
met on some orders late. `Link` has what clusters are about: Forks with three
threads and their Syncs, data arcs across threads both ways, levels with lists of
two entries, and clusterings that end at level 3 and at level 4. `trap13` has dead code: a
Sync level and children of an exclusive node that no tick reaches. The samples
of `compile` are one per statement and per difficulty: strong and weak aborts
with several cases, counted and immediate delays, suspension, traps left at
several levels at once, local signals and traps that are born twice in a
reaction, threads that talk both ways. The files of `front` have
every statement and declaration in each of its forms, the older ones too.
`Legibles` puts operators of each level in one another, wherever the printer
writes the brackets that are needed (`Legible`, which goes by the levels of the
grammar, not of the printer); all legal files satisfy it, and what does not is
in `brackets`. `Running` has modules that run modules that run modules, with each kind of
renaming, a constant that is given a constant that was given a number, a name
left to be found in the running module, a local one in its way, and a module
run eight times. Its expansion is that of the compiled tools, word
for word, and the compiled tools refuse each flawed file too.

Fairness: `WF` of the whole next-state relation for `Dfs` and `Simulator`, of
`Compile` and of the steps inside a tick for `GRCC2`; `Runs` of `Front` is `WF`
of its next-state relation, written as "done again and again, or a step again
and again", since a step is possible until the program is done. All are plain
loops of a program that runs alone, so a step that is possible is taken; which
step is taken is left open. `GRCsim` has none, as nothing forces the file of
vectors to go on, and nobody has to call the tick function of the C program.

`CHECK_DEADLOCK FALSE` is set where the modelled work ends (`search_ring`; in
`compile` and `late`, where a filter may be the last). In `GRCsim` a
deadlock is an assertion of the code that fails: the guards of `VisitSync` and
`VisitSwitch` are the asserts of `visit(Sync)`, `visit(Switch)` and `doswitch`,
and `sim_mix`, `cover_mix` and `dead_trap` check that none fails; in `Simulator` the
guard of `TakeSync` is the assert of `visit(Sync)`. In `GRCC2` it
is an assert of `split` (a second successor of a Fork in its cluster), a switch
without the case it needs, or a jump through a `_next_` that was not set;
`c_link` has none. In `Front` it would be a state of the parser in which it has
no step; a file that is done stays so.

## Findings

1. `leak_suspend`: `nextstate` is written under may-run control and survives a
   ternary tick (`GRCsim.cpp:149`, `:650`); a later tick commits it. The note
   at line 154 says that Enter does not set state then. Confirmed with the
   compiled simulator.
2. `scan_tri`: with all active levels of a Sync unknown the scan of `orall`
   ends at -1 (`GRCsim.cpp:65-75`) and the loop at 82 reads `orall[-1]`.
   Confirmed with an address sanitizer.
3. `c_traps`: the depth of a trap statement has a clone of the trap of its own
   (`ASTGRC.cpp:677-683`), set by an exit in a tick after the one the statement
   starts in. The DefineSignals of the surface (`ASTGRC.cpp:332-339`) clear the
   clone of the surface, none clears that of the depth, and the C program keeps
   it over ticks. In `Mix` a handler runs again, once the statement has started
   anew, in a tick that did not exit its trap. Confirmed with the
   compiled tools: for (S,A) = 00, 00, 01, 00, 01 the fifth tick of `cec-grcsim`
   prints O, that of the C program O and Q.
4. `late`: `Depth::visit(Suspend)` with an immediate predicate synthesizes the
   surface of the body with the body's own depth as what follows
   (`ASTGRC.cpp:504`, `:535`), so a body that is held back in its first reaction
   runs its first step twice. Confirmed with the C program of `cec-grcc2`.
5. `brackets`: `cec-xmlstrl` prints `not (not b)` as `not not b`, which does not
   parse, and `(not b) = c` as `not b = c`, which reads as another expression,
   against the comment of `EsterelPrinter.cpp:946`. And it leaves out the
   brackets of a right operand of the level of its operator (`:954`, `:64-68`):
   `x - (x - 1)`, `x / (x * 2)` and `x mod (x mod 2)` read back as
   `(x - x) - 1` and so on. The same goes for `or` and `and`, where the tree that
   is read is another one of the same meaning. Confirmed: the compiled tools
   print and read both files so.

`VisitSync` models the levels the code schedules when the word before `orall`
is zero; the read itself is what `ScanStaysInside` excludes.

Seen beside these, where nothing in the repository says what is meant:

- A handler may exit the trap it handles: its body is read in the scope of the
  trap (`EsterelTreeParser.cpp:1591`). That exit has no continuation
  (`ASTGRC.cpp:315-321`), and `cec-optgrc` stops at an assertion
  (`GRCOpt.cpp:391`), for example on `trap T in pause; exit T handle T do
  present A then exit T end; pause end; emit O`. Confirmed.
- A module with a task of its own that is run twice ends `cec-expandmodule` at
  `SymbolTable::enter` (`AST.cpp:237`): tasks, unlike types, constants, functions
  and procedures, are entered without looking (`ExpandModules.cpp:603`).
- When a root runs a module that runs itself, copying never ends
  (`ExpandModules.cpp:811` only sees that no module is a root).
- Expanded, a local name around a run hides what the actual of a renaming
  refers to once the program is printed as text; the comment at
  `ExpandModules.cpp:388` has it for constants. `RoundTrip` is not claimed of
  such a program, and as no file of `front` has one, `Bound` is not either. And
  two runs of a module that rename one of its types share its constants, of
  which only the first type is declared: the printed text does not read again.
  `Running` gives the second run a constant of its own.

## Proofs

Theorems about runs of a graph are for all graphs that satisfy the assumptions
of `GRC` (`GraphAssumption`, `ArcAssumption`, `TreeAssumption`,
`DataAssumption`), which TLC evaluates on each program. `DataAssumption` says
that the nodes reachable from `Root` are closed under arcs, that writers of a
signal are data predecessors of its readers, and the Terminates of a Sync those
of the Sync: that is what `Dependencies::compute` does. Those about the parser
are for every grammar `Rules`, every test `Starts` and every file, without
assumption. Five more assumptions are on the graphs of some modules:

- `NestAssumption` (`Nested` of `GRC`, assumed in `GRCsim` for joins and in
  `Clusters` for threads): threads nest. Each node that control can reach lies
  in one place, the main one or a thread of a Sync; a thread is left by its
  Terminates alone, and a Sync has an exit for every level that its threads can
  reach together, at its own place. That is how `visit(ParallelStatementList)`
  builds Forks and Syncs (`ASTGRC.cpp` 243, 617, 1438). What control can reach
  leaves out the exits of a Sync for codes that only unreachable Terminates have
  (`WaysOut`): the synthesis makes an arc for every level of the traps around,
  and some of these lead to a place that is not that of the Sync. In `Clusters`
  every node is among the reachable ones (`Inner = Node`): `cec-optgrc` has
  removed the others.
- `VisitAssumption` and `SwitchAssumption` (`Simulator`): the asserts of the
  pass, that parents and children of the tree fit, that an exclusive node has
  one Switch, and that inside a branch of another Switch it is reached only
  along arcs that mark its node.
- `FixAssumption` (`Clusters`): arcs follow the numbers of the nodes (what
  `checkAcyclic` refuses to be without, up to renaming), only Root and ExitGRC
  have nothing before them (the optimizer deletes such nodes), and a Fork has no
  NULL successors (an assert of `greedyCluster`).
- `KeptAssumption` (`GRCC2`): every node is reachable from `Root` (`cec-optgrc`
  deletes the others), and a Terminate has arcs of data to Syncs alone (the only
  ones `Dependencies` draws from it, `ASTGRC.cpp` 989).

They were also evaluated, outside TLC, on the graphs of the test programs of the
repository that compile into these node classes, over 210. That the climb of `setState` from
each Enter meets an exclusive or a parallel node (`Settles`, part of
`TreeAssumption`) holds of all graphs of both filters. `NestAssumption`,
`VisitAssumption` and `SwitchAssumption` hold of all that `cec-astgrc` makes;
`NestAssumption` with `Inner = Node` holds of all that `cec-optgrc` makes of
those, `KeptAssumption` too, and `FixAssumption`, but for the order of arcs of
six programs with cycles, which `checkAcyclic` refuses.

- `LLkParser_proofs`. That a guess leaves no trace (`NoTrace`: while one is made
  no rule called before it changes its tree, and the parser never goes back
  beyond where it began) needs to know what a mark points at. `ParserInv` says
  that marks nest: each is about a frame below the rule being parsed and above
  that of the guess around it, at a token not after the present one and not
  before that of the guess around it. `GuessesNest` proves it by the
  steps of the machine, with lemmas on sequences that are extended, cut and
  changed at their end (`Pushed`, `Cut`, `Replaced`, `Retold`);
  `GuessLeavesNoTrace` follows, one action at a time.
- `GRC_proofs` holds what the rest share: arcs, the places of nodes in a graph whose
  threads nest (`Places`, `ForkPlaces`, `OtherPlaces`, `SyncPlaces`), induction
  on sets of numbers from the well-foundedness of `<` (`Induct`), and what
  remains of a vector when entries are erased (`NthFacts`).
- `Dfs_proofs`. `Ordered` is not inductive: that a returning call may append
  its node depends on what it has looked at. `SearchInv` adds the colours
  (`notwhite` is what is black or on the stack), that the stack is a path
  without repetition, and for each call that everything before its position is
  black, except the node of the next call on the stack. `SearchIsSound` proves
  it, `SearchOrders` and `CyclesAreReal` follow.
- `GRCsim_proofs`. `SimInv` is `SearchInv`, the types, and the link between
  `mode` and the search: a tick runs only after the search has finished, so
  `topo` is complete and its last element is `Root`. `SimSchedules`: a visit
  gives control only to what the node leads to, which by `Ordered` has not been
  passed. `SimIsCausal` uses the data arcs in the same way. `SimIsTwoValued`:
  while `ternary` is FALSE no value is unknown, a fact the others rest on.
- `GRCsimCover_proofs`. `CoverIsSound`: if no signal is set before the node
  that defines it, every control value and status of the run with unknown
  inputs stands for that of the known run. `CoverInv` adds `SimInv`, the types of
  the second run, that the known run is never ternary, and that the nodes still
  to be visited agree on what has been decided; the case of a Sync is the
  lemma `LevelsStand`. The hypothesis `DefinedFirst` is checked by TLC, and
  `Supported` is the restriction the code warns about at lines 351 and 376.
- `GRCsimCover_proofs`, on what a tick means. `Equations` says it with no order:
  the set of nodes that run is `Root` and what its members lead to, given the
  signals its members emit. Such equations need not have a solution, or only
  one, which is what causality is about. `OneSolution`: in a graph that the
  search finds an order for there is at most one, by induction down `topo`, since
  what a node does depends only on what stands behind it there. Dead code, which
  may lead to itself, is outside (`Live`, from which `Spread` and `LiveStays` of
  `GRC_proofs` say control does not get away). `TickSolves`: what the simulator
  has run when a tick is over is a solution, so it is the one, whatever order
  was found. `LogicInv` holds at every node of the tick. What is On is what the visited
  nodes lead to (`Reasons`), what is present is what they emit, and `nextstate`
  holds the child of the last Enter among them that settles one (`Marks`). A
  visit adds one node to all three; what it must not do is change what a visited
  node has read, and that is `SimIsCausal`, `SimSchedules` and the order of data
  arcs (`LeadsKept`). When no node is left all of `Ran` is visited
  (`TickAnswers`), and the step maps to `Answer`. The hypothesis is
  `DefinedFirst` again: a signal that is cleared after it was set would not be
  what the nodes say.
- `GRCsim_proofs`, on joins. `JoinsEveryThread` and `ControlReachesExit` say that
  something *is* there: a Terminate of each thread, an exit. `NestInv` carries
  that through a tick. Main, and each thread of a Fork that has run, has a node
  with control, be it one still to be visited, a Fork whose Sync is to come, or
  the end of the thread (`AllCarried`), and only one while nothing is unknown
  (`OneCarries`). A thread or a Sync runs only when its Fork has (`InPlace`,
  `ThreadsOpened`, `ThreadsEnd`). When a Sync is visited all before it in `topo`
  have been, so each thread has ended (`SyncReady`); when a tick is over Main
  has, which is `TickReachesExit`.
- `DeadCode_proofs`. The worklist's invariant (`WorkInv`): what a visited node
  opens is visited or waits. Its difficulty is what opens late. A Switch may be
  visited before the Enters that mark further children of its node, and it is
  `switchFor` that finds it again; an Enter may be visited before that Switch.
  `Routed` therefore speaks of the way a Switch is reached: by `SwitchAssumption`
  what leads there marks its node. `AnalysisCloses` follows, and with it that
  the sets lie between the least closed ones and themselves: every order finds
  the same (`AnalysisIsLeast`). `RunsKept` is the composition: a node with
  control was visited, and the states of a tick, those committed and those for
  the next, are marked. Its case of a Sync needs every thread to have ended
  there, on a level the analysis found too (`ExitIsKnown`), so `DeadInv` has
  `NestInv` as a part. `LevelsKept` and `PruneInv` say what `Prune` computes;
  that the children and branches that stay keep their order and match is a
  lemma on ranks (`KeptInOrder`). A Switch no child of whose node stays is left
  without a branch, in many of the repository's tests; a later pass
  (`PruneSW`) removes it, so `LeavesGraph` does not ask for one.
- `Clusters_proofs`. `ClusterInv` has five ideas. A ready node is always in a
  worklist (`NoneLost`), so when both are empty the first node in no cluster
  would have been ready, which is impossible. Before the first cluster nothing
  is clustered (`Started`), and what is in it depends on nothing outside
  (`FirstCluster`), so its level stays 0. A cluster that is not to be visited is
  below all that follow it, if it has a level at all (`Relaxed`); that all have
  one follows, when the worklist is empty, from the first node whose cluster has
  none (`SeedsHaveLevels`). Levels are bounded.
  That one thread at most stays with a Fork (`OneThreadStays`) needs a sixth. A
  node is inside its thread, and inside what the Sync of that thread is inside of
  (`Line`, `Inside`; thread 0 is not counted, it goes on with the Fork).
  `Together` says that a cluster is inside the same threads throughout and that a
  Sync starts one; `Grows` says it of what is about to be added. Two branches of
  a Fork are inside different threads (`BranchInside`), so `ForksGoOn` follows.
- `GRCC2_proofs`. `ProgramInv`: every list holds entries of its own level, what
  runs is on the current level, and what the Nops of a Fork have still to
  schedule is above it. `SchedulesAhead` follows with `LevelsAreSound`, because
  control follows arcs and arcs between clusters climb. `ProgramTypes` has to
  come with it: that `head` is read inside its range is `TopLevel`.
  `ForksGoOnOnce` is `ForksGoOn` under the program. `LinksOnce` says that no
  entry is linked while its cluster is, whose `goto` would be overwritten and
  its list with it. `LinkInv` says of the entries in lists, those that Nops have
  still to schedule and the node that runs that no two are of one place, and
  that they hold the Sync of each thread they have a node of (`Threaded`); and
  that each entry in a list is reached one way (`Lined`). Along the Syncs around
  a node levels climb (`ThreadsAreLower`, `LinesClimb`), and two such nodes of
  one cluster would be on one line (`OneOfCluster`), so there are none.
- `GRCC2_proofs`, on what a tick executes. `NodesRunInOrder` and `TicksAreSolved`
  are for every graph, every clustering and every execution. They need a record
  of the tick, `took`. `TraceInv` says of it that what was executed is on levels
  that were passed, or earlier in the cluster that runs, and in no cluster that
  waits (`Fresh`); that what it handed control to was executed or will be, and
  nothing else was or will be (`Due`); the same of the Sync of a thread that was
  entered (`Homes`); that `_term_` of such a Sync holds the highest code of the
  executed Terminates (`Heard`); and that each node would choose again as it did
  (`Steady`). The last is where order matters: what a node writes was read by
  none that was executed before it (`WaysStay`). `Due` needs to know that nothing
  waits in a list that was left. A list could be a ring that is never run, so
  `Ranked` numbers what waits, falling along each list, and by `NothingLeft` the
  entry with the highest number on the level would have to follow another one.
  `RunsInOrder` rests on `Fresh` and on levels that climb (`LevelsAreSound`).

Only model-checked: that a Switch has a state when it runs (`ActiveHasState`) and
that a signal is defined before it is set (`DefinedFirst`), which follow from
how surfaces and depths of a statement are put together, over several ticks and
not visible in one graph; that the tree keeps the parents of what it keeps
(`ParentsStay`, the second half of `LeavesGraph`, which depends on the order of
Enters and Switches on the ways into a branch); the refinements of `Reaction`
(what is proved of the C program, `Solved`, leaves open which state a Switch
goes by, since an Enter acts at once there); liveness (`DfsEnds`, `AnalysisEnds`,
`ClusteringEnds`, `TickReturns`, `FrontEnds`), which is out of the prover's
reach. `Reaction` folds over the nodes of a tick, so its `React` can be computed
and not be proved about by induction; that is what `Equations` is for. The
modules from a file to a graph compute recursively on trees (`RECURSIVE` operators, which the
prover does not accept), so `RoundTrip`, `Bound`, `Inlines`, `SameReaction`,
`WellBuilt` and `OnceEach` stay with TLC too.

## Not modelled

- BAL (`cec-grcbal`, `balvm`), the PDG back end, circuits (BLIF, Verilog,
  `cec-grc3val`) and Beeblebrox: other ways to run a graph, each a component of
  its own.
- IR persistence: converts object graphs to XML and back, without control of
  its own. That what is read is what was written is taken for granted between
  the filters.
- The Esterel v7 form of the printer, the printers of dot files and of the C
  main program, and the shell driver: text that no part reads again.
- `RecursiveSynth` (`cec-astgrc -s`), valued signals, procedure calls and exec
  from the synthesis on; integer variables.
- `-main` of `cec-expandmodule`, and variables of a module, which the front end
  never makes.
- Of libantlr, buffers of characters and tokens, and error recovery.

## Plan

1. Done: graph, search, simulator, its three-valued soundness, clustering and
   levels, the C program, `Reaction` and what implements it.
2. Done: the front end, the printer, expansion, the dismantlers, the synthesis
   and all passes of the optimizer, against `Semantics`.
3. BAL: threads, joins and states of the generator, and the machine of `balvm.c`
   with its limits; `cec-vm.c`'s loop over ticks.
4. `cec-grc3val`, `cec-pdgccfg` (its priority order) with `Execute` as reference.
5. Values of signals and integer variables in `Expand`, `Execute` and `Semantics`.
6. Proofs: done for the search, the simulator, its three-valued soundness, its
   joins, its refinement of `Equations` and that these have one solution, the
   dead-code pass, clustering and its threads, the C program's lists, the order of
   its nodes and that its ticks solve the equations of its graph, and the
   parser's guesses. Left: the map from the C program to `Equations` itself, which
   needs that no Switch reads a state after an Enter has changed it
   (`CPrinter.cpp:79`).
