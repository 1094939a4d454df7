----------------------------- MODULE MCCompile ------------------------------
(***************************************************************************)
(* Esterel modules to compile: between them every statement, and the cases *)
(* in which expansion and optimization are hard.                           *)
(***************************************************************************)
EXTENDS Compile, Esterel

Program(name, p, inputs, outputs) ==
  [name |-> name, body |-> p, inputs |-> inputs, outputs |-> outputs]
Sig(s) == LoadSignal(s)
Upon(s) == When(Sig(s))
AtOnce(s) == Immediate(Sig(s))
Twice(s, c) == Delay(2, Sig(s), c)
Run(ps) == StatementList(ps)
Both(p, q) == ParallelStatementList(<<p, q>>)
Until(d) == Await(<<Case(d, Null)>>)
IfPresent(s, p, q) == Present(<<Case(Upon(s), p)>>, q)

(* Both inputs, then the output, again at every reset.                     *)
ABRO ==
  Program("abro",
    LoopEach(Run(<<Both(Until(Upon("A")), Until(Upon("B"))), Emit("O")>>), Upon("R")),
    {"A", "B", "R"}, {"O"})

(* A weak abort with a plain case that does something and a counted one.   *)
Weak ==
  Program("weak",
    Run(<<WeakAbort(<<"W0", "W1", "W2">>, Run(<<Emit("O"), Pause, Emit("P"), Pause, Emit("O"), Pause>>),
                    <<Case(Upon("A"), Run(<<Emit("P"), Pause>>)), Case(Twice("B", "c1"), Null)>>),
          Emit("Q")>>),
    {"A", "B"}, {"O", "P", "Q"})

(* Two traps of one statement, each with its handler, and an outer one.    *)
Handlers ==
  Program("handlers",
    Trap(<<"U">>,
         Run(<<Trap(<<"T1", "T2">>,
                    Both(Run(<<Until(Upon("A")), Emit("O"), Exit("T1")>>),
                         Run(<<Until(Upon("B")), IfPresent("A", Exit("T2"), Exit("U"))>>)),
                    <<Case(Upon("T1"), Run(<<Emit("P"), Pause, Emit("P")>>)),
                      Case(Upon("T2"), Emit("Q"))>>),
               Emit("R")>>), <<>>),
    {"A", "B"}, {"O", "P", "Q", "R"})

(* every, immediate and counted.                                           *)
Restarts ==
  Program("restarts",
    Both(Every(Run(<<Emit("O"), Pause, Emit("P")>>), AtOnce("A")),
         Every(Run(<<Emit("Q"), Pause, IfPresent("A", Emit("R"), Null)>>), Twice("B", "c1"))),
    {"A", "B"}, {"O", "P", "Q", "R"})

Suspends ==
  Program("suspends",
    Both(Suspend(Loop(Run(<<Emit("O"), Pause, Emit("P"), Pause>>)), Upon("A")),
         Suspend(Run(<<Emit("Q"), Pause, Emit("R")>>), AtOnce("B"))),
    {"A", "B"}, {"O", "P", "Q", "R"})

Repeats ==
  Program("repeats",
    Run(<<Repeat(3, Run(<<Until(Upon("A")), Emit("O")>>), "c1"), Emit("P")>>),
    {"A"}, {"O", "P"})

(* A local signal of a loop is a new one in every iteration, although two  *)
(* iterations meet in one reaction; so is a trap.                          *)
Reborn ==
  Program("reborn",
    Both(Loop(Signal(<<"L", "M">>, Run(<<IfPresent("L", Emit("O"), Emit("P")), Emit("M"), Pause,
                                        IfPresent("M", Emit("O"), Null), Emit("L")>>))),
         Loop(Trap(<<"T">>, Both(Run(<<Pause, Exit("T")>>),
                                 Loop(Run(<<IfPresent("A", Emit("Q"), Null), Pause, Emit("R")>>))), <<>>))),
    {"A"}, {"O", "P", "Q", "R"})

Toggles ==
  Program("toggles",
    Var(<<"x">>, <<Assign("x", Literal(FALSE))>>,
        Loop(Run(<<If(<<Case(When(LoadVariable("x")), Emit("O"))>>, Emit("P")),
                   IfPresent("A", Assign("x", UnaryOp(LoadVariable("x"))), Nothing), Pause>>))),
    {"A"}, {"O", "P"})

Watches ==
  Program("watches",
    Run(<<DoWatching(Sustain("O"), Upon("A"), Run(<<Emit("P"), Pause>>)),
          DoUpto(Run(<<Emit("Q"), Pause, Emit("P")>>), Twice("B", "c1")), Sustain("R")>>),
    {"A", "B"}, {"O", "P", "Q", "R"})

(* A trap around a trap, left by three threads at different levels.        *)
Levels ==
  Program("levels",
    Loop(Run(<<Trap(<<"T">>,
               Run(<<Trap(<<"U">>, ParallelStatementList(<<
                       Run(<<Until(Upon("A")), Exit("T")>>),
                       Run(<<Until(Upon("B")), Exit("U")>>),
                       Run(<<Pause, Emit("O"), Pause, Pause>>)>>),
                     <<Case(Upon("U"), Emit("Q"))>>), Emit("P")>>), <<>>), Pause>>)),
    {"A", "B"}, {"O", "P", "Q"})

(* Strong aborts: immediate, counted, several cases, nested.               *)
Aborts ==
  Program("aborts",
    Run(<<Abort(Run(<<Emit("O"), Abort(Run(<<Pause, Emit("P"), Halt>>), <<Case(Upon("B"), Emit("Q"))>>), Halt>>),
                <<Case(AtOnce("C"), Run(<<Emit("R"), Pause>>)), Case(Twice("A", "c1"), Null)>>),
          Emit("P")>>),
    {"A", "B", "C"}, {"O", "P", "Q", "R"})

(* Threads that speak to each other within a reaction, in both directions. *)
Talks ==
  Program("talks",
    Signal(<<"L", "M">>,
      Both(Loop(Run(<<IfPresent("A", Emit("L"), Null), IfPresent("M", Emit("O"), Null), Pause>>)),
           Loop(Run(<<Present(<<Case(Upon("L"), Emit("M")), Case(Upon("B"), Emit("P"))>>, Emit("Q")), Pause>>)))),
    {"A", "B"}, {"O", "P", "Q"})

(* Nothing at all, and what is left of statements that do nothing.         *)
Empties ==
  Program("empties",
    Run(<<Nothing, Both(Nothing, IfPresent("A", Pause, Nothing)), Run(<<>>), Emit("O"),
          Signal(<<"L">>, Run(<<Emit("L"), Until(AtOnce("A"))>>)), Emit("P")>>),
    {"A"}, {"O", "P"})

(* A body that a suspend holds back in its first reaction: x is negated    *)
(* once when it starts, if A is absent, and tested after.                  *)
Late ==
  Program("late",
    Var(<<"x">>, <<Assign("x", Literal(FALSE))>>,
        Loop(Run(<<Suspend(Run(<<IfPresent("A", Pause, Null),
                                 Assign("x", UnaryOp(LoadVariable("x")))>>), AtOnce("B")),
                   If(<<Case(When(LoadVariable("x")), Emit("O"))>>, Null), Pause>>))),
    {"A", "B"}, {"O"})
OnlyLate == {Late}

AllSamples == {ABRO, Weak, Handlers, Restarts, Suspends, Repeats, Reborn, Toggles,
               Watches, Levels, Aborts, Talks, Empties}

=============================================================================
