----------------------------- MODULE Semantics ------------------------------
(***************************************************************************)
(* What an Esterel program promises: one reaction of a statement as a      *)
(* function of where its control rests, of the signals present and of the  *)
(* variables.  It is stated on the source statements and on the kernel     *)
(* ones, with no graph in sight; the compiler has to implement it.         *)
(*                                                                         *)
(* q says where control rests in the statement: Idle when it starts now.   *)
(* A reaction gives its completion (0 terminated, 1 paused, 2 left through *)
(* the traps in out), what it emitted, where it rests, and the variables.  *)
(***************************************************************************)
EXTENDS Esterel

LOCAL INSTANCE SequencesExt
LOCAL INSTANCE FiniteSetsExt

Idle == <<>>
Done == <<"done">>
Reacted(k, out, left, q, m) == [k |-> k, out |-> out, left |-> left, q |-> q, m |-> m]
Over(m) == Reacted(0, {}, {}, Idle, m)
Rest(q, m) == Reacted(1, {}, {}, q, m)

(* r went first in the same reaction.                                      *)
After(r, s) == [s EXCEPT !.out = @ \cup r.out]
(* Control rests inside the statement r is part of.                        *)
Inside(r, Where(_)) == IF r.k = 1 THEN [r EXCEPT !.q = Where(r.q)] ELSE [r EXCEPT !.q = Idle]

RECURSIVE Holds(_, _, _)
Holds(e, E, m) ==
  CASE e.op = "true"     -> TRUE
    [] e.op = "false"    -> FALSE
    [] e.op = "signal"   -> e.id \in E
    [] e.op = "variable" -> m[e.id]
    [] e.op = "not"      -> ~ Holds(e.args[1], E, m)
    [] e.op = "and"      -> Holds(e.args[1], E, m) /\ Holds(e.args[2], E, m)
    [] e.op = "or"       -> Holds(e.args[1], E, m) \/ Holds(e.args[2], E, m)

(* Counters of the cases of a statement: n occurrences are still awaited.  *)
Started(cs) == [i \in DOMAIN cs |-> IF Counted(cs[i].when) THEN cs[i].when.count ELSE 1]
Awaited(cs, n, E, m) ==
  [i \in DOMAIN cs |-> IF Counted(cs[i].when) /\ Holds(cs[i].when.pred, E, m) THEN n[i] - 1 ELSE n[i]]

(* The first case that fires, 0 if none: at the start an immediate one, in *)
(* later reactions the first whose predicate holds (for the last time).    *)
FirstOf(S) == IF S = {} THEN 0 ELSE Min(S)
Now(cs, E, m) ==
  FirstOf({i \in DOMAIN cs : cs[i].when.immediate /\ Holds(cs[i].when.pred, E, m)})
Later(cs, n, E, m) ==
  FirstOf({i \in DOMAIN cs : Holds(cs[i].when.pred, E, m) /\ (Counted(cs[i].when) => n[i] = 1)})

RECURSIVE React(_, _, _, _)

(* From statement i of a list on; q is where control rests in it.          *)
RECURSIVE ReactList(_, _, _, _, _)
ReactList(ps, i, q, E, m) ==
  IF i > Len(ps) THEN Over(m)
  ELSE LET r == React(ps[i], q, E, m) IN
       IF r.k = 0 THEN After(r, ReactList(ps, i + 1, Idle, E, r.m))
       ELSE Inside(r, LAMBDA x : <<i, x>>)

(* The threads run in any order: none reads a variable another writes.     *)
ReactThreads(ps, qs, E, m) ==
  LET f[i \in 0..Len(ps)] ==
        IF i = 0 THEN <<>>
        ELSE LET before == f[i - 1]
                 mm == IF i = 1 THEN m ELSE before[i - 1].m
             IN Append(before, IF qs[i] = Done THEN Over(mm)
                               ELSE React(ps[i], qs[i], E, mm))
      rs == f[Len(ps)]
      k == Max({rs[i].k : i \in DOMAIN rs})
  IN [k |-> k, out |-> UNION {rs[i].out : i \in DOMAIN rs},
      left |-> UNION {rs[i].left : i \in DOMAIN rs},
      q |-> IF k = 1 THEN [i \in DOMAIN rs |-> IF rs[i].k = 0 THEN Done ELSE rs[i].q] ELSE Idle,
      m |-> rs[Len(ps)].m]

(* Where control rests in a statement with cases: in its body, with what   *)
(* the counters await, or in the statement of a case that fired.           *)
ToCase(p, i, E, m) == Inside(React(p.cases[i].do, Idle, E, m), LAMBDA x : <<"case", i, x>>)
BodyOf(p, n, q, E, m) == Inside(React(Body(p), q, E, m), LAMBDA x : <<"body", n, x>>)

(* A strong abort tests before its body runs, a weak one after; a body     *)
(* that leaves through an outer trap wins over the cases of a weak abort.  *)
ReactAbort(p, q, E, m) ==
  IF q # Idle /\ q[1] = "case"
  THEN Inside(React(p.cases[q[2]].do, q[3], E, m), LAMBDA x : <<"case", q[2], x>>)
  ELSE LET i == IF q = Idle THEN Now(p.cases, E, m) ELSE Later(p.cases, q[2], E, m)
           n == IF q = Idle THEN Started(p.cases) ELSE Awaited(p.cases, q[2], E, m)
           r == BodyOf(p, n, IF q = Idle THEN Idle ELSE q[3], E, m)
       IN IF i # 0 /\ ~ p.weak THEN ToCase(p, i, E, m)
          ELSE IF i = 0 \/ r.k = 2 THEN r
          ELSE After(r, ToCase(p, i, E, r.m))

(* loop .. each and do .. upto: an abort whose body does not terminate.    *)
Stay(r) == IF r.k = 0 THEN [r EXCEPT !.k = 1, !.q = Done] ELSE r
Guarded(p, n, q, E, m) ==
  Inside(Stay(IF q = Done THEN Over(m) ELSE React(Body(p), q, E, m)), LAMBDA x : <<"body", n, x>>)
ReactEach(p, q, E, m) ==
  LET fires == IF q = Idle THEN Now(p.cases, E, m) ELSE Later(p.cases, q[2], E, m)
  IN IF fires # 0 /\ p.op = "upto" THEN Over(m)
     ELSE IF fires # 0 \/ q = Idle THEN Guarded(p, Started(p.cases), Idle, E, m)
     ELSE Guarded(p, Awaited(p.cases, q[2], E, m), q[3], E, m)

(* every: an occurrence of the delay starts the body anew.                 *)
ReactEvery(p, q, E, m) ==
  LET fires == IF q = Idle THEN Now(p.cases, E, m) ELSE Later(p.cases, q[2], E, m)
      n == IF q = Idle \/ fires # 0 THEN Started(p.cases) ELSE Awaited(p.cases, q[2], E, m)
  IN IF fires # 0 THEN Guarded(p, n, Idle, E, m)
     ELSE Guarded(p, n, IF q = Idle THEN Done ELSE q[3], E, m)

(* suspend: control rests where it is while the predicate holds, outside   *)
(* the body if an immediate predicate holds at the start.                  *)
ReactSuspend(p, q, E, m) ==
  LET holds == IF q = Idle THEN Now(p.cases, E, m) # 0
               ELSE Later(p.cases, q[2], E, m) # 0
      n == IF q = Idle THEN Started(p.cases) ELSE Awaited(p.cases, q[2], E, m)
  IN IF holds THEN Rest(<<"body", n, IF q = Idle THEN Idle ELSE q[3]>>, m)
     ELSE BodyOf(p, n, IF q = Idle THEN Idle ELSE q[3], E, m)

(* A trap ends its body at the end of the reaction one of its names is     *)
(* raised in, unless an outer one is raised too; then every handler whose  *)
(* predicate holds of what was raised runs.                                *)
Handlers(p, is, qs, E, m) ==
  Inside(ReactThreads([j \in DOMAIN is |-> p.cases[is[j]].do], qs, E, m),
         LAMBDA x : <<"handler", is, x>>)
ReactTrap(p, q, E, m) ==
  IF q # Idle /\ q[1] = "handler" THEN Handlers(p, q[2], q[3], E, m)
  ELSE LET names == Range(p.names)
           r == Inside(React(p.subs[1], IF q = Idle THEN Idle ELSE q[2], E, m), LAMBDA x : <<"body", x>>)
           answers(i) == Len(p.names) = 1 \/ Holds(p.cases[i].when.pred, E \cup r.left, r.m)
           is == SelectSeq([i \in DOMAIN p.cases |-> i], answers)
       IN IF r.k # 2 THEN r
          ELSE IF ~ r.left \subseteq names THEN [r EXCEPT !.left = @ \ names]
          ELSE IF is = <<>> THEN After(r, Over(r.m))
          ELSE After(r, Handlers(p, is, [j \in DOMAIN is |-> Idle], E \cup r.left, r.m))

(* A local signal is present in a reaction just when it is emitted in it.  *)
Answer(p, names, q, E, m) ==
  LET with(B) == React(p, q, (E \ names) \cup B, m)
  IN with(CHOOSE B \in SUBSET names : with(B).out \cap names = B)
ReactLocal(p, names, q, E, m) ==
  LET r == Answer(p, names, q, E, m) IN [r EXCEPT !.out = @ \ names]

(* Tests and loops.                                                        *)
Branch(ps, i, q, E, m) == Inside(React(ps[i], q, E, m), LAMBDA x : <<i, x>>)
ReactCase(p, q, E, m) ==
  LET all == [i \in DOMAIN p.cases |-> p.cases[i].do] \o <<p.subs[1]>>
      true == {i \in DOMAIN p.cases : Holds(p.cases[i].when.pred, E, m)}
  IN IF q # Idle THEN Branch(all, q[1], q[2], E, m)
     ELSE Branch(all, IF true = {} THEN Len(all) ELSE Min(true), Idle, E, m)
ReactIfThenElse(p, q, E, m) ==
  IF q # Idle THEN Branch(p.subs, q[1], q[2], E, m)
  ELSE Branch(p.subs, IF Holds(p.test, E, m) THEN 1 ELSE 2, Idle, E, m)

(* The body again as soon as it terminates, a number of times at most.     *)
RECURSIVE ReactTimes(_, _, _, _, _)
ReactTimes(p, n, q, E, m) ==
  LET r == React(p, q, E, m) IN
  IF r.k = 0 /\ n > 1 THEN After(r, ReactTimes(p, n - 1, Idle, E, r.m))
  ELSE Inside(r, LAMBDA x : <<n, x>>)
ReactLoop(p, q, E, m) ==
  LET r == React(p, q, E, m) IN
  IF r.k = 0 THEN After(r, React(p, Idle, E, r.m)) ELSE r

ReactVar(p, q, E, m) ==
  LET inits == Tail(p.subs)
      r == IF q = Idle THEN ReactList(inits, 1, Idle, E, m) ELSE Over(m)
  IN React(p.subs[1], q, E, r.m)

(* The reaction of any statement.                                          *)
React(p, q, E, m) ==
  CASE p.op \in {"nothing", "null"} -> Over(m)
    [] p.op = "pause"   -> IF q = Idle THEN Rest(<<"pause">>, m) ELSE Over(m)
    [] p.op = "halt"    -> Rest(<<"pause">>, m)
    [] p.op = "emit"    -> [Over(m) EXCEPT !.out = {p.id}]
    [] p.op = "sustain" -> [Rest(<<"pause">>, m) EXCEPT !.out = {p.id}]
    [] p.op = "exit"    -> Reacted(2, {}, {p.id}, Idle, m)
    [] p.op = "assign"  -> Over([m EXCEPT ![p.id] = Holds(p.test, E, m)])
    [] p.op = "list"    -> IF q = Idle THEN ReactList(p.subs, 1, Idle, E, m)
                           ELSE ReactList(p.subs, q[1], q[2], E, m)
    [] p.op = "par"     -> ReactThreads(p.subs, IF q = Idle THEN [i \in DOMAIN p.subs |-> Idle] ELSE q, E, m)
    [] p.op = "loop"    -> ReactLoop(p.subs[1], q, E, m)
    [] p.op = "repeat"  -> IF q = Idle THEN ReactTimes(p.subs[1], p.count, Idle, E, m)
                           ELSE ReactTimes(p.subs[1], q[1], q[2], E, m)
    [] p.op = "ite"     -> ReactIfThenElse(p, q, E, m)
    [] p.op \in {"present", "if"} -> ReactCase(p, q, E, m)
    [] p.op = "await"   -> ReactAbort([p EXCEPT !.subs = <<Halt>>], q, E, m)
    [] p.op = "abort"   -> ReactAbort(p, q, E, m)
    [] p.op = "watching" -> ReactAbort([p EXCEPT !.subs = <<Body(p)>>,
                                        !.cases = <<Case(Pred(p), p.subs[1])>>, !.op = "abort"], q, E, m)
    [] p.op \in {"loopeach", "upto"} -> ReactEach(p, q, E, m)
    [] p.op = "every"   -> ReactEvery(p, q, E, m)
    [] p.op = "suspend" -> ReactSuspend(p, q, E, m)
    [] p.op = "trap"    -> ReactTrap(p, q, E, m)
    [] p.op = "signal"  -> ReactLocal(p.subs[1], Range(p.names), q, E, m)
    [] p.op = "var"     -> ReactVar(p, q, E, m)

=============================================================================
