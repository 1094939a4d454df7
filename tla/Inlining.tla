------------------------------ MODULE Inlining ------------------------------
(***************************************************************************)
(* What it means to run a module: a reference definition, on names alone.  *)
(* The statement is the body of the module, with what is given for each of *)
(* its names, and otherwise what that name stands for around the run.      *)
(***************************************************************************)
EXTENDS Symbols

LOCAL INSTANCE SequencesExt

Printer == INSTANCE EsterelPrinter

(* A statement with each symbol replaced by what s, by kind, gives for its *)
(* name (itself if nothing), without the names of counters, and without    *)
(* lists in lists.                                                         *)
NameOf(id) == IF id = "" THEN id ELSE Printer!NameOf(id)
Meant(s, kind, id) == LET name == NameOf(id) IN IF name \in DOMAIN s[kind] THEN s[kind][name] ELSE name
Without(s, kind, symbols) ==
  [s EXCEPT ![kind] = [n \in DOMAIN @ \ {symbols[i].name : i \in DOMAIN symbols} |-> @[n]]]

KindOf(op) ==
  CASE op \in {"signal", "?", "emit", "sustain"} -> "signals"
    [] op \in {"??", "exit"} -> "traps"
    [] op \in {"variable", "assign"} -> "variables"
    [] op = "task" -> "tasks"
    [] OTHER -> ""
Renamed(s, kind, id) == IF kind = "" THEN id ELSE Meant(s, kind, id)

RECURSIVE InTerm(_, _)
InTerm(e, s) ==
  IF e.op = "variable" /\ NameOf(e.id) \in DOMAIN s.constants THEN s.constants[NameOf(e.id)]
  ELSE [e EXCEPT !.id = Renamed(s, IF e.op = "call" THEN "functions" ELSE KindOf(e.op), @),
                 !.args = [i \in DOMAIN @ |-> InTerm(@[i], s)]]
InDelay(d, s) ==
  [d EXCEPT !.pred = InTerm(@, s), !.count = InTerm(@, s), !.counter = IF @ = "" THEN "" ELSE "counter"]
InSymbol(x, s) ==
  [x EXCEPT !.id = x.name, !.type = Meant(s, "types", @), !.init = InTerm(@, s),
            !.combine = Meant(s, "functions", @)]

(* What s becomes inside the module m that r runs.                         *)
Given(r, kind) == {i \in DOMAIN r.cases : r.cases[i].kind = kind}
GivenFor(r, kind, name) == {r.cases[i].new : i \in {j \in Given(r, kind) : r.cases[j].old = name}}
Inside(r, s, m) ==
  LET Ids(table, word, kind) ==
        [n \in {table[i].name : i \in DOMAIN table} |->
           IF GivenFor(r, word, n) = {} THEN Meant(s, kind, n)
           ELSE Meant(s, kind, (CHOOSE e \in GivenFor(r, word, n) : TRUE).id)]
      constants == {m.constants[i].name : i \in DOMAIN m.constants}
      valued == {n \in constants : GivenFor(r, "CRENAME", n) # {} \/ n \in DOMAIN s.constants}
  IN [signals |-> Ids(m.signals, "SRENAME", "signals"), traps |-> <<>>, variables |-> <<>>,
      types |-> Ids(m.types, "TRENAME", "types"), functions |-> Ids(m.functions, "FRENAME", "functions"),
      procedures |-> Ids(m.procedures, "PRENAME", "procedures"), tasks |-> Ids(m.tasks, "TARENAME", "tasks"),
      constants |-> [n \in valued |->
        IF GivenFor(r, "CRENAME", n) = {} THEN s.constants[n]
        ELSE InTerm(CHOOSE e \in GivenFor(r, "CRENAME", n) : TRUE, s)]]

RECURSIVE In(_, _, _), InAll(_, _, _), InCases(_, _, _, _)
Spliced(op, ps) == FlattenSeq([i \in DOMAIN ps |-> IF ps[i].op = op THEN ps[i].subs ELSE <<ps[i]>>])
InCase(k, s, t, ms) == Case(InDelay(k.when, s), In(k.do, t, ms))
InCases(ks, s, t, ms) ==
  IF ks = <<>> THEN <<>> ELSE <<InCase(ks[1], s, t, ms)>> \o InCases(Tail(ks), s, t, ms)
InAll(ps, s, ms) == IF ps = <<>> THEN <<>> ELSE <<In(ps[1], s, ms)>> \o InAll(Tail(ps), s, ms)
Scoped(p, s, ms) ==
  LET t == CASE p.op = "signal" -> Without(s, "signals", p.names)
             [] p.op = "trap" -> Without(s, "traps", p.names)
             [] p.op = "var" -> Without(s, "constants", p.names)
      InScope == IF p.op = "var" THEN s ELSE t
  IN [p EXCEPT !.names = [i \in DOMAIN @ |-> InSymbol(@[i], InScope)], !.subs = InAll(@, t, ms),
               !.cases = InCases(@, [t EXCEPT !.signals = t.traps], t, ms)]
Ran(p, s, m, ms) == In(m.body, Inside(p, s, m), ms)
In(p, s, ms) ==
  CASE p.op = "run" /\ ms # <<>> ->
         Ran(p, s, The(ms, p.names[1]), ms)
    [] p.op \in {"signal", "trap", "var"} -> Scoped(p, s, ms)
    [] p.op \in {"list", "par"} -> [p EXCEPT !.subs = Spliced(p.op, InAll(@, s, ms))]
    [] OTHER ->
         [p EXCEPT !.id = IF p.op = "repeat" THEN "counter"
                          ELSE IF p.op = "call" THEN Meant(s, "procedures", @) ELSE Renamed(s, KindOf(p.op), @),
                   !.names = IF p.op \in {"call", "task"} THEN [i \in DOMAIN @ |-> NameOf(@[i])] ELSE @,
                   !.test = InTerm(@, s), !.subs = InAll(@, s, ms),
                   !.cases = CASE p.op = "exec" -> InAll(@, s, ms)
                               [] p.op = "task" -> [i \in DOMAIN @ |-> Meant(s, "signals", @[i])]
                               [] p.op = "run" -> @
                               [] OTHER -> InCases(@, s, s, ms)]

AsItIs == [signals |-> <<>>, traps |-> <<>>, variables |-> <<>>, types |-> <<>>, functions |-> <<>>,
           procedures |-> <<>>, tasks |-> <<>>, constants |-> <<>>]
(* The body of a module with every run replaced, and the same of one that  *)
(* has none: what is left to compare when two bodies mean the same.        *)
Meaning(m, ms) == In(m.body, AsItIs, ms)
Plain(m) == [m EXCEPT !.body = Meaning(m, <<>>)]

RECURSIVE Counters(_)
Counters(p) ==
  LET Own == IF p.op = "repeat" THEN <<p.id>> ELSE <<>>
      OfCase(k) == (IF k.when.counter = "" THEN <<>> ELSE <<k.when.counter>>) \o Counters(k.do)
  IN Own \o FlattenSeq([i \in DOMAIN p.subs |-> Counters(p.subs[i])])
         \o (IF p.op \in {"exec", "task"} THEN <<>>
             ELSE FlattenSeq([i \in DOMAIN p.cases |-> OfCase(p.cases[i])]))
OwnCounters(p) == IsInjective(Counters(p))
=============================================================================
