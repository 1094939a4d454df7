------------------------------- MODULE Expand -------------------------------
(***************************************************************************)
(* GrcSynth: the selection tree of a dismantled statement, then its        *)
(* surface (what runs in the reaction it starts in) and its depth (what    *)
(* runs in the later ones).  Every use of a surface is synthesized anew,   *)
(* with local signals of its own.                                          *)
(*                                                                         *)
(* c is the context: the continuation at every completion level.  A visitor*)
(* leaves its result in context(0), here the n of what it gives.           *)
(***************************************************************************)
EXTENDS Flow

LOCAL INSTANCE SequencesExt

RECURSIVE SelTree(_, _), Surface(_, _, _, _), Depth(_, _, _, _)

Absent(p) == p.op = "null"

-----------------------------------------------------------------------------
(* The selection tree; SelTree also gives the statement with its ast2st.   *)

Grown(g, n, p) == [g |-> g, n |-> n, p |-> p]
HangAll(g, n, ps, order) ==
  FoldLeft(LAMBDA a, i : LET r == SelTree(a.g, a.ps[i])
                         IN [g |-> Hang(r.g, n, r.n), ps |-> [a.ps EXCEPT ![i] = r.p]],
           [g |-> g, ps |-> ps], order)
HangHandlers(g, n, p) ==
  LET h == HangAll(g, n, [i \in DOMAIN p.cases |-> p.cases[i].do],
                   SelectSeq(Indices(p.cases), LAMBDA i : ~ Absent(p.cases[i].do)))
  IN [g |-> h.g, cases |-> [i \in DOMAIN p.cases |-> Case(p.cases[i].when, h.ps[i])]]

SelPause(g, p) == LET r == Plant(g, STleaf) IN Grown(r.g, r.n, [p EXCEPT !.st = r.n])
SelRef(g, p) == LET r == Plant(g, STref) IN Grown(r.g, r.n, p)
SelIfThenElse(g, p) ==
  LET r == Plant(g, STexcl)
      h == HangAll(r.g, r.n, p.subs, <<2, 1>>)
  IN Grown(h.g, r.n, [p EXCEPT !.st = r.n, !.subs = h.ps])
SelStatementList(g, p) ==
  LET r == Plant(g, STexcl)
      h == HangAll(r.g, r.n, p.subs, Reverse(Indices(p.subs)))
  IN Grown(h.g, r.n, [p EXCEPT !.st = r.n, !.subs = h.ps])
SelLoop(g, p) ==
  LET r == Plant(g, STref)
      h == HangAll(r.g, r.n, p.subs, <<1>>)
  IN Grown(h.g, r.n, [p EXCEPT !.st = r.n, !.subs = h.ps])
SelEvery(g, p) ==
  LET ab == Plant(g, Marked(STref, "abort"))
      excl == Plant(ab.g, STexcl)
      halt == Plant(excl.g, STleaf)
      h == HangHandlers(Hang(halt.g, excl.n, halt.n), excl.n, p)
  IN Grown(Hang(h.g, ab.n, excl.n), ab.n, [p EXCEPT !.st = ab.n, !.cases = h.cases])
SelSuspend(g, p) ==
  LET ex == Plant(g, STexcl)
      sp == Plant(ex.g, Marked(STref, "suspend"))
      h == HangHandlers(Hang(sp.g, ex.n, sp.n), sp.n, p)
      leaf == Plant(h.g, STleaf)
  IN Grown(IF Pred(p).immediate THEN Hang(leaf.g, ex.n, leaf.n) ELSE h.g, ex.n,
           [p EXCEPT !.st = ex.n, !.cases = h.cases])
(* An abort and a trap: the body under an STref, then the handlers.        *)
SelHandled(g, p, ref) ==
  LET ex == Plant(g, STexcl)
      bodytree == Plant(ex.g, ref)
      b == HangAll(bodytree.g, bodytree.n, p.subs, <<1>>)
      h == HangHandlers(Hang(b.g, ex.n, bodytree.n), ex.n, p)
  IN Grown(h.g, ex.n, [p EXCEPT !.st = ex.n, !.subs = b.ps, !.cases = h.cases])
SelAbort(g, p) == SelHandled(g, p, Marked(STref, "abort"))
SelTrap(g, p) == SelHandled(g, p, STref)
SelParallel(g, p) ==
  LET par == Plant(g, STpar)
      Thread(a, i) ==
        LET ex == Plant(a.g, STexcl)
            term == Plant(ex.g, Final(STleaf))
            h == HangAll(Hang(term.g, ex.n, term.n), ex.n, a.ps, <<i>>)
        IN [g |-> Hang(h.g, par.n, ex.n), ps |-> h.ps]
      all == FoldLeft(Thread, [g |-> par.g, ps |-> p.subs], Indices(p.subs))
  IN Grown(all.g, par.n, [p EXCEPT !.st = par.n, !.subs = all.ps])
(* A Signal and a Var get no ast2st.                                       *)
SelScope(g, p) ==
  LET r == Plant(g, STref)
      h == HangAll(r.g, r.n, p.subs, <<1>>)
  IN Grown(h.g, r.n, [p EXCEPT !.subs = h.ps])

SelTree(g, p) ==
  CASE p.op = "pause"              -> SelPause(g, p)
    [] p.op \in {"emit", "exit", "assign", "null"} -> SelRef(g, p)
    [] p.op = "ite"                -> SelIfThenElse(g, p)
    [] p.op = "list"               -> SelStatementList(g, p)
    [] p.op \in {"loop", "repeat"} -> SelLoop(g, p)
    [] p.op = "every"              -> SelEvery(g, p)
    [] p.op = "suspend"            -> SelSuspend(g, p)
    [] p.op = "abort"              -> SelAbort(g, p)
    [] p.op = "trap"               -> SelTrap(g, p)
    [] p.op = "par"                -> SelParallel(g, p)
    [] p.op \in {"signal", "var"}  -> SelScope(g, p)

-----------------------------------------------------------------------------
(* The surface.                                                            *)

(* The surface or the depth of p, with what r is about at level l.         *)
SurfaceTo(r, l, p, map, c) == Surface(r.g, p, map, [c EXCEPT ![l] = r.n])
DepthTo(r, l, p, map, c) == Depth(r.g, p, map, [c EXCEPT ![l] = r.n])

(* Nothing of a statement that is absent: a branch, a handler.             *)
SurfaceIfAny(g, p, map, c) == IF Absent(p) THEN Got(g, c[0]) ELSE Surface(g, p, map, c)
DepthIfAny(g, p, map, c) == IF Absent(p) THEN Got(g, c[0]) ELSE Depth(g, p, map, c)
Handler(p) == IF p.cases = <<>> THEN Null ELSE p.cases[1].do

BodyTree(g, p) == Child(g, p.st, 1)
EnterAt(r, st) == On(r, Enter(st, 0))
Start(r, d) == On(r, StartCounter(d.counter, d.count, 0))
Define(r, map, names, surface) ==
  FoldLeft(LAMBDA a, s : On(a, DefineSignal(map[s], surface, 0)), r, names)

SurfacePause(g, p, c) == New(g, Enter(p.st, c[1]))
SurfaceEmit(g, p, map, c) == New(g, EmitAt(map[p.id], c[0]))
SurfaceExit(g, p, map, c) == New(g, ExitAt(map[p.id], c[g.code[p.id]]))
SurfaceAssign(g, p, map, c) == New(g, AssignAt(g.hoisted[p.id], Clone(p.test, g, map), c[0]))
SurfaceIfThenElse(g, p, map, c) ==
  LET else == SurfaceIfAny(g, p.subs[2], map, c)
      then == SurfaceIfAny(else.g, p.subs[1], map, c)
  IN EnterAt(Branch(p.st, Clone(p.test, g, map), else, then), p.st)
SurfaceStatementList(g, p, map, c) ==
  EnterAt(FoldRight(LAMBDA s, r : SurfaceTo(r, 0, s, map, c), p.subs, Got(g, c[0])), p.st)
SurfaceLoop(g, p, map, c) == EnterAt(Surface(g, p.subs[1], map, c), p.st)
SurfaceEvery(g, p, map, c) ==
  LET d == Pred(p)
      enhalt == New(g, Enter(Child(g, Child(g, p.st, 1), 1), c[1]))
      start == IF d.immediate
               THEN Branch(p.st, Clone(d.pred, g, map), enhalt, SurfaceTo(enhalt, 0, Body(p), map, c))
               ELSE IF Counted(d) THEN Start(enhalt, d) ELSE enhalt
  IN EnterAt(start, p.st)
SurfaceRepeat(g, p, map, c) ==
  EnterAt(On(Surface(g, p.subs[1], map, c), StartCounter(p.id, p.count, 0)), p.st)
SurfaceSuspend(g, p, map, c) ==
  LET d == Pred(p)
      bodytree == BodyTree(g, p)
      body == EnterAt(Surface(g, Body(p), map, c), bodytree)
      enimleaf == New(body.g, Enter(Child(g, p.st, 2), c[1]))
      start == IF d.immediate
               THEN Branch(bodytree, Clone(d.pred, g, map), body, enimleaf)
               ELSE IF Counted(d) THEN Start(body, d) ELSE body
  IN EnterAt(start, p.st)
SurfaceAbort(g, p, map, c) ==
  LET bodytree == BodyTree(g, p)
      body == EnterAt(Surface(g, p.subs[1], map, c), bodytree)
      Check(k, r) ==
        LET h == SurfaceIfAny(r.g, k.do, map, c)
        IN IF k.when.immediate
           THEN Branch(bodytree, Clone(k.when.pred, g, map), r, h)
           ELSE IF Counted(k.when) THEN Start(r, k.when) ELSE r
  IN EnterAt(FoldRight(Check, p.cases, body), p.st)

(* The context of a thread: a Terminate for every level; every one but     *)
(* that of a pause also puts the thread in its final leaf.                 *)
(* A mutant: the number of the thread does not advance.                    *)
Terminates_First(g, c, sync, thread, leaf) ==
  FoldLeft(LAMBDA a, l : LET t == New(a.g, Terminate(l, 0, sync))
                             r == IF l = 1 THEN t ELSE EnterAt(t, leaf)
                         IN [g |-> r.g, c |-> [a.c EXCEPT ![l] = r.n]],
           [g |-> g, c |-> c], [i \in 1..g.size |-> i - 1])
Terminates(g, c, sync, thread, leaf) ==
  FoldLeft(LAMBDA a, l : LET t == New(a.g, Terminate(l, thread, sync))
                             r == IF l = 1 THEN t ELSE EnterAt(t, leaf)
                         IN [g |-> r.g, c |-> [a.c EXCEPT ![l] = r.n]],
           [g |-> g, c |-> c], [i \in 1..g.size |-> i - 1])
(* The Sync leads to the outer continuation of every level.                *)
Outer(c, size) == [i \in 1..size |-> c[i - 1]]
SurfaceParallel(g, p, map, c) ==
  LET sync == New(g, Sync(p.st, Outer(c, g.size)))
      Thread(f, i) ==
        LET t == Terminates(f.g, c, sync.n, i - 1, Child(f.g, Child(f.g, p.st, i), 1))
        IN Also(f.succ, Surface(t.g, p.subs[i], map, t.c))
  IN EnterAt(Over(FoldLeft(Thread, [g |-> sync.g, succ |-> <<>>], Indices(p.subs)), Fork(<<>>)), p.st)

(* An exit of the body leads to the surface of the handler.                *)
SurfaceTrap(g, p, map, c) ==
  LET own == CloneSignals(g, p.names, map)
      handler == SurfaceIfAny(own.g, Handler(p), own.map, c)
      body == SurfaceTo(handler, g.code[p.names[1]], p.subs[1], own.map, c)
  IN EnterAt(Define(EnterAt(body, BodyTree(g, p)), own.map, p.names, TRUE), p.st)
SurfaceSignal(g, p, map, c) ==
  LET own == CloneSignals(g, p.names, map)
  IN Define(Surface(own.g, p.subs[1], own.map, c), own.map, p.names, TRUE)
SurfaceVar(g, p, map, c) == Surface(HoistVariables(g, p.names), p.subs[1], map, c)

(* synthesize asserts that there is a continuation.                        *)
Surface(g, p, map, c) ==
  CASE c[0] = 0 -> Got(g, 0)
    [] p.op = "pause"   -> SurfacePause(g, p, c)
    [] p.op = "emit"    -> SurfaceEmit(g, p, map, c)
    [] p.op = "exit"    -> SurfaceExit(g, p, map, c)
    [] p.op = "assign"  -> SurfaceAssign(g, p, map, c)
    [] p.op = "ite"     -> SurfaceIfThenElse(g, p, map, c)
    [] p.op = "list"    -> SurfaceStatementList(g, p, map, c)
    [] p.op = "loop"    -> SurfaceLoop(g, p, map, c)
    [] p.op = "every"   -> SurfaceEvery(g, p, map, c)
    [] p.op = "repeat"  -> SurfaceRepeat(g, p, map, c)
    [] p.op = "suspend" -> SurfaceSuspend(g, p, map, c)
    [] p.op = "abort"   -> SurfaceAbort(g, p, map, c)
    [] p.op = "par"     -> SurfaceParallel(g, p, map, c)
    [] p.op = "trap"    -> SurfaceTrap(g, p, map, c)
    [] p.op = "signal"  -> SurfaceSignal(g, p, map, c)
    [] p.op = "var"     -> SurfaceVar(g, p, map, c)

-----------------------------------------------------------------------------
(* The depth.                                                              *)

DepthIfThenElse(g, p, map, c) ==
  LET else == DepthIfAny(g, p.subs[2], map, c)
      then == DepthIfAny(else.g, p.subs[1], map, c)
  IN Over(Also(<<else.n>>, then), Switch(p.st, <<>>))
(* The statements from the last on: the depth of each leads to the surface *)
(* of the next, n.                                                         *)
DepthStatementList(g, p, map, c) ==
  LET Statement(r, i) ==
        LET d == DepthTo(r, 0, p.subs[i], map, c)
            s == IF i = 1 THEN d ELSE SurfaceTo(Got(d.g, r.n), 0, p.subs[i], map, c)
        IN [succ |-> Append(r.succ, d.n)] @@ s
      all == FoldLeft(Statement, [g |-> g, n |-> c[0], succ |-> <<>>], Reverse(Indices(p.subs)))
  IN IF p.subs = <<>> THEN Got(g, c[0]) ELSE Over(all, Switch(p.st, <<>>))
DepthLoop(g, p, map, c) ==
  DepthTo(Surface(g, p.subs[1], map, c), 0, p.subs[1], map, c)
DepthEvery(g, p, map, c) ==
  LET d == Pred(p)
      excl == Child(g, p.st, 1)
      enhalt == New(g, Enter(Child(g, excl, 1), c[1]))
      sw == Over(Also(<<enhalt.n>>, DepthTo(enhalt, 0, Body(p), map, c)), Switch(excl, <<>>))
      again == SurfaceTo(Got(sw.g, enhalt.n), 0, Body(p), map, c)
      restart == IF Counted(d) THEN Start(again, d) ELSE again
  IN EnterAt(Branch(p.st, DepthPred(d, g, map), sw, restart), p.st)
DepthRepeat(g, p, map, c) ==
  LET restart == Surface(g, p.subs[1], map, c)
      tst == Branch(p.st, CheckCounter(p.id, Literal(TRUE)), restart, Got(restart.g, c[0]))
  IN DepthTo(tst, 0, p.subs[1], map, c)
(* synthesize leaves the depth of the body in context(0), so the surface   *)
(* an immediate suspend still has to start is synthesized before it.       *)
DepthSuspend(g, p, map, c) ==
  LET d == Pred(p)
      bodytree == BodyTree(g, p)
      body == Depth(g, Body(p), map, c)
      sts == New(body.g, STSuspend(bodytree, c[1]))
      hold == EnterAt(Branch(bodytree, DepthPred(d, g, map), body, sts), bodytree)
      enimleaf == New(hold.g, Enter(Child(g, p.st, 2), c[1]))
      start == EnterAt(SurfaceTo(Got(enimleaf.g, body.n), 0, Body(p), map, c), bodytree)
      late == Branch(0, Clone(d.pred, g, map), start, Got(start.g, enimleaf.n))
  IN Over(IF d.immediate THEN Also(<<hold.n>>, late) ELSE Also(<<>>, hold),
          Switch(p.st, <<>>))
DepthAbort(g, p, map, c) ==
  LET bodytree == BodyTree(g, p)
      resume == EnterAt(Depth(g, p.subs[1], map, c), bodytree)
      Check(k, r) ==
        LET h == SurfaceIfAny(r.g, k.do, map, c)
        IN Branch(bodytree, DepthPred(k.when, g, map), r, h)
      tests == FoldRight(Check, p.cases, resume)
      Handle(a, k) == IF Absent(k.do) THEN a ELSE Also(a.succ, Depth(a.g, k.do, map, c))
  IN Over(FoldLeft(Handle, Also(<<>>, tests), p.cases), Switch(p.st, <<>>))
(* Of a thread's Terminates only that of level 0 enters the final leaf; it *)
(* is also where a thread that has terminated goes.                        *)
DepthParallel(g, p, map, c) ==
  LET sync == New(g, Sync(p.st, Outer(c, g.size)))
      Thread(f, i) ==
        LET excl == Child(f.g, p.st, i)
            t == FoldLeft(LAMBDA a, l :
                   LET r == New(a.g, Terminate(l, i - 1, sync.n))
                       s == IF l = 0 THEN EnterAt(r, Child(r.g, excl, 1)) ELSE r
                   IN [g |-> s.g, c |-> [a.c EXCEPT ![l] = s.n]],
                   [g |-> f.g, c |-> c], [l \in 1..g.size |-> l - 1])
            branches == Also(<<t.c[0]>>, Depth(t.g, p.subs[i], map, t.c))
        IN Also(f.succ, Over(branches, Switch(excl, <<>>)))
  IN EnterAt(Over(FoldLeft(Thread, [g |-> sync.g, succ |-> <<>>], Indices(p.subs)), Fork(<<>>)), p.st)
DepthTrap(g, p, map, c) ==
  LET own == CloneSignals(g, p.names, map)
      handler == SurfaceIfAny(own.g, Handler(p), own.map, c)
      later == DepthIfAny(handler.g, Handler(p), own.map, c)
      body == DepthTo(Got(later.g, handler.n), g.code[p.names[1]], p.subs[1], own.map, c)
  IN Over(Before(body, IF p.cases = <<>> THEN <<>> ELSE <<later.n>>), Switch(p.st, <<>>))
DepthSignal(g, p, map, c) ==
  LET own == CloneSignals(g, p.names, map)
  IN Define(Depth(own.g, p.subs[1], own.map, c), own.map, p.names, FALSE)
DepthVar(g, p, map, c) == Depth(HoistVariables(g, p.names), p.subs[1], map, c)

Depth(g, p, map, c) ==
  CASE c[0] = 0 -> Got(g, 0)
    [] p.op \in {"pause", "emit", "exit", "assign"} -> Got(g, c[0])
    [] p.op = "ite"     -> DepthIfThenElse(g, p, map, c)
    [] p.op = "list"    -> DepthStatementList(g, p, map, c)
    [] p.op = "loop"    -> DepthLoop(g, p, map, c)
    [] p.op = "every"   -> DepthEvery(g, p, map, c)
    [] p.op = "repeat"  -> DepthRepeat(g, p, map, c)
    [] p.op = "suspend" -> DepthSuspend(g, p, map, c)
    [] p.op = "abort"   -> DepthAbort(g, p, map, c)
    [] p.op = "par"     -> DepthParallel(g, p, map, c)
    [] p.op = "trap"    -> DepthTrap(g, p, map, c)
    [] p.op = "signal"  -> DepthSignal(g, p, map, c)
    [] p.op = "var"     -> DepthVar(g, p, map, c)

-----------------------------------------------------------------------------
(* The graph of a module: its body between a finished state and a boot one.*)
(* signals are the interface's, outputs those of them defined every tick.  *)

Frame(p, signals) ==
  LET quit == New(Blank(p, signals), Node("quit", <<>>))
      fin == Plant(quit.g, Final(STleaf))
      enfinished == New(fin.g, Enter(fin.n, quit.n))
      term0 == New(enfinished.g, Terminate(0, 0, enfinished.n))
      term1 == New(term0.g, Terminate(1, 0, quit.n))
  IN [g |-> [term1.g EXCEPT !.quit = quit.n], finished |-> fin.n, en |-> enfinished.n,
      c |-> [l \in 0..(term1.g.size - 1) |-> CASE l = 0 -> term0.n [] l = 1 -> term1.n [] OTHER -> 0]]

(* What defines the outputs before the surface s, the tree's root over the *)
(* body's tree t, and the Switch that starts a tick.                       *)
Same(signals) == [s \in signals |-> <<s, 0>>]
Rooted(f, t, s, d, signals, outputs) ==
  LET start == Define(Got(d.g, s.n), Same(signals), SetToSeq(outputs), TRUE)
      top == Plant(start.g, STexcl)
      boot == Plant(top.g, STleaf)
      tree == Hang(Hang(Hang(boot.g, top.n, f.finished), top.n, t.n), top.n, boot.n)
      sw == New(tree, Switch(top.n, <<f.en, d.n, start.n>>))
  IN [sw.g EXCEPT !.root = sw.n, !.top = top.n]

Deepened(f, t, s, signals, outputs) ==
  Rooted(f, t, s, Depth(s.g, t.p, Same(signals), f.c), signals, outputs)
GrcSynth(p, signals, outputs) ==
  LET f == Frame(p, signals)
      t == SelTree(f.g, p)
  IN Deepened(f, t, Surface(t.g, t.p, Same(signals), f.c), signals, outputs)

=============================================================================
