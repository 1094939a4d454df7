----------------------------- MODULE Dismantle ------------------------------
(***************************************************************************)
(* cec-dismantle: Dismantler1 replaces every derived statement by kernel   *)
(* statements, in one walk of the tree.                                    *)
(*                                                                         *)
(* newTrap numbers its traps with a static counter; here a weak abort      *)
(* carries the names of the traps it turns into.                           *)
(***************************************************************************)
EXTENDS Esterel

LOCAL INSTANCE SequencesExt

RECURSIVE Transform(_)

(* Rewriter: a statement with its parts transformed.                       *)
Rewrite(p) ==
  [p EXCEPT !.subs = [i \in DOMAIN p.subs |-> Transform(p.subs[i])],
            !.cases = [i \in DOMAIN p.cases |->
                         Case(p.cases[i].when, Transform(p.cases[i].do))]]

(* A chain of ifs, the first case outermost.  The bodies are transformed   *)
(* before the chain is built and again as parts of it.                     *)
(* A mutant: the default is lost.                                          *)
DismantleCase_NoDefault(p) ==
  Rewrite(FoldRight(LAMBDA c, else : IfThenElse(c.when.pred, Transform(c.do), else), p.cases, Null))
DismantleCase(p) ==
  Rewrite(FoldRight(LAMBDA c, else : IfThenElse(c.when.pred, Transform(c.do), else),
                    p.cases, p.subs[1]))

DismantleHalt == Loop(Pause)
DismantleAwait(p) == Rewrite(Abort(Loop(Pause), p.cases))

(* Several traps or handlers become one handler: a parallel of ifs.        *)
DismantleTrap(p) ==
  IF Len(p.cases) > 1 \/ (Len(p.cases) = 1 /\ Len(p.names) > 1)
  THEN LET ifs == [i \in DOMAIN p.cases |-> IfThenElse(p.cases[i].when.pred, p.cases[i].do, Null)]
           any == FoldLeft(LAMBDA e, t : BinaryOp("or", e, LoadSignal(t)),
                           LoadSignal(p.names[1]), Tail(p.names))
       IN Rewrite([p EXCEPT !.cases = <<Case(When(any), ParallelStatementList(ifs))>>])
  ELSE Rewrite(p)

WeakTrap(p, i) == p.names[i + 1]
Run0(p) == IF p.op = "null" THEN Nothing ELSE p

(* trap T1 in .. trap Tn in trap T0 in [p; exit T0 || await case ..]       *)
(*   end handle Tn do .. end .. handle T1 do .. end                        *)
DismantleWeak(p) ==
  LET body == StatementList(<<p.subs[1], Exit(WeakTrap(p, 0))>>)
      await == Await([i \in DOMAIN p.cases |-> Case(p.cases[i].when, Exit(WeakTrap(p, i)))])
      inner == Trap(<<WeakTrap(p, 0)>>, ParallelStatementList(<<body, await>>), <<>>)
      wrap(i, q) == Trap(<<WeakTrap(p, i)>>, q,
                         <<Case(When(LoadSignal(WeakTrap(p, i))), Run0(p.cases[i].do))>>)
  IN Transform(FoldRight(wrap, [i \in DOMAIN p.cases |-> i], inner))
DismantleAbort(p) == IF p.weak THEN DismantleWeak(p) ELSE Rewrite(p)

(* Initializers become assignments in front of the body.                   *)
DismantleVar(p) ==
  LET inits == Tail(p.subs)
  IN IF inits = <<>> THEN Rewrite(p)
     ELSE Rewrite([p EXCEPT !.subs = <<StatementList(inits \o <<p.subs[1]>>)>>])

DismantleWatching(p) == Rewrite(Abort(Body(p), <<Case(Pred(p), p.subs[1])>>))
UntilPred(p) == Abort(StatementList(<<Body(p), Halt>>), <<Case(Pred(p), Null)>>)
DismantleUpto(p) == Rewrite(UntilPred(p))
DismantleLoopEach(p) == Rewrite(Loop(UntilPred(p)))
DismantleSustain(p) == Loop(StatementList(<<Emit(p.id), Pause>>))
DismantleNothing == StatementList(<<>>)

Transform(p) ==
  CASE p.op \in {"present", "if"} -> DismantleCase(p)
    [] p.op = "await"    -> DismantleAwait(p)
    [] p.op = "trap"     -> DismantleTrap(p)
    [] p.op = "abort"    -> DismantleAbort(p)
    [] p.op = "var"      -> DismantleVar(p)
    [] p.op = "watching" -> DismantleWatching(p)
    [] p.op = "upto"     -> DismantleUpto(p)
    [] p.op = "loopeach" -> DismantleLoopEach(p)
    [] p.op = "halt"     -> DismantleHalt
    [] p.op = "sustain"  -> DismantleSustain(p)
    [] p.op = "nothing"  -> DismantleNothing
    [] OTHER             -> Rewrite(p)

=============================================================================
