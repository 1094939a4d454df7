--------------------------- MODULE ExpandModules ----------------------------
(***************************************************************************)
(* cec-expandmodules: the modules that no other runs are copied, with the  *)
(* body of the module it names in place of each run statement.             *)
(*                                                                         *)
(* A Copier c copies the module from.  actual is its map formalToActual, by*)
(* kind; values the constants a renaming has given an expression; scope the*)
(* signals around a statement, as they were; fresh the new tables around   *)
(* it, which name new symbols apart; place where it is.  A run that fails  *)
(* is a flaw in the result, and the program ends with nothing.             *)
(***************************************************************************)
EXTENDS Symbols

LOCAL INSTANCE FiniteSets
LOCAL INSTANCE SequencesExt

Flat == {"types", "functions", "procedures", "tasks"}
NameSet(table) == {table[i].name : i \in DOMAIN table}
Itself(table) == [n \in NameSet(table) |-> n]
Counters(place, counter) == IF counter = "" THEN "" ELSE place \o counter

actualSymbol(c, kind, id) == IF id = "" THEN id ELSE c.actual[kind][id]
actualSymbols(c, kind, ids) == [i \in DOMAIN ids |-> actualSymbol(c, kind, ids[i])]

RECURSIVE copyTerm(_, _)
copyTerm(e, c) ==
  LET Renamed == e.op = "variable" /\ e.id \in DOMAIN c.values
      Kind == CASE e.op = "variable" -> "variables"
                [] e.op \in {"signal", "?"} -> "signals"
                [] e.op = "??" -> "traps"
                [] e.op = "call" -> "functions"
                [] OTHER -> ""
  IN IF Renamed THEN c.values[e.id]
     ELSE [e EXCEPT !.id = IF Kind = "" THEN @ ELSE actualSymbol(c, Kind, @),
                    !.op = IF @ \in DOMAIN c.actual.types THEN c.actual.types[@] ELSE @,
                    !.args = [i \in DOMAIN @ |-> copyTerm(@[i], c)]]
copyDelay(d, c) ==
  [d EXCEPT !.pred = copyTerm(@, c), !.count = copyTerm(@, c), !.counter = Counters(c.place, @)]

copySymbol(s, c) ==
  [s EXCEPT !.type = actualSymbol(c, "types", @), !.combine = actualSymbol(c, "functions", @),
            !.refs = actualSymbols(c, "types", @), !.vals = actualSymbols(c, "types", @),
            !.init = copyTerm(@, c), !.id = s.name]

(* The tables of a scope: its symbols are entered in a new one.            *)
Enters(c, kind, s) ==
  LET chain == enter(c.fresh[kind], copySymbol(s, c))
  IN [c EXCEPT !.fresh[kind] = chain, !.actual[kind] = (s.id :> Last(Last(chain)).id) @@ @]
copySymbolTable(c, kind, table) ==
  FoldLeft(LAMBDA d, s : Enters(d, kind, s),
           [c EXCEPT !.fresh[kind] = Opened(@),
                     !.scope = IF kind = "signals" THEN Append(@, table) ELSE @], table)

-----------------------------------------------------------------------------
(* Run.                                                                    *)

RenamesOf == [types |-> "TRENAME", constants |-> "CRENAME", functions |-> "FRENAME",
              procedures |-> "PRENAME", tasks |-> "TARENAME", signals |-> "SRENAME"]
Renamings(r, kind) == SelectSeq(r.cases, LAMBDA k : k.kind = RenamesOf[kind])
IsRenamed(r, kind, name) == \E i \in DOMAIN Renamings(r, kind) : Renamings(r, kind)[i].old = name
NewFor(r, kind, name) ==
  LET rs == Renamings(r, kind)
  IN rs[CHOOSE i \in DOMAIN rs : rs[i].old = name /\ \A j \in 1..(i - 1) : rs[j].old # name].new

(* What a formal stands for: its renaming; else what the symbol of that    *)
(* name in the running module stands for; else itself, declared anew.      *)
FlatActual(r, c, kind, name) ==
  IF IsRenamed(r, kind, name) THEN c.actual[kind][NewFor(r, kind, name).id]
  ELSE IF Holds(c.from[kind], name) THEN c.actual[kind][name]
  ELSE name
(* A mutant: what an earlier run has renamed is forgotten.                 *)
SignalActual_Stale(r, c, name) ==
  IF IsRenamed(r, "signals", name) THEN c.actual.signals[NewFor(r, "signals", name).id]
  ELSE get(c.scope, name).id
SignalActual(r, c, name) ==
  c.actual.signals[IF IsRenamed(r, "signals", name) THEN NewFor(r, "signals", name).id
                   ELSE get(c.scope, name).id]

ValuedConstants(r, c, sub) ==
  {n \in NameSet(sub.constants) :
     IsRenamed(r, "constants", n) \/ (Holds(c.from.constants, n) /\ n \in DOMAIN c.values)}
ConstantValue(r, c, name) ==
  IF IsRenamed(r, "constants", name) THEN copyTerm(NewFor(r, "constants", name), c) ELSE c.values[name]
ConstantActual(c, name) == IF Holds(c.from.constants, name) THEN c.actual.variables[name] ELSE name

NewCopier(r, c, sub) ==
  LET valued == ValuedConstants(r, c, sub)
      flat == [kind \in Flat |-> [n \in NameSet(sub[kind]) |-> FlatActual(r, c, kind, n)]]
  IN [c EXCEPT
       !.from = sub, !.scope = <<sub.signals>>, !.place = @ \o "/",
       !.fresh.variables[1] = @ \o SelectSeq(sub.constants, LAMBDA s : ~Holds(c.fresh.variables[1], s.name)),
       !.values = [n \in valued |-> ConstantValue(r, c, n)],
       !.actual = flat @@
         [signals |-> [n \in NameSet(sub.signals) |-> SignalActual(r, c, n)], traps |-> <<>>,
          variables |-> [n \in NameSet(sub.constants) \ valued |-> ConstantActual(c, n)]]]

(* What a formal must be: there to be renamed, and a signal around the run.*)
CanRun(r, c) ==
  /\ Holds(c.modules, r.names[1])
  /\ LET sub == The(c.modules, r.names[1])
     IN /\ \A kind \in DOMAIN RenamesOf : \A i \in DOMAIN Renamings(r, kind) :
             Holds(sub[kind], Renamings(r, kind)[i].old)
        /\ \A n \in NameSet(sub.signals) : IsRenamed(r, "signals", n) \/ contains(c.scope, n)

(* The declarations the run adds to the module around it.                  *)
Added(r, c, d) ==
  LET New(kind) == SelectSeq(d.from[kind],
                             LAMBDA s : ~IsRenamed(r, kind, s.name) /\ ~Holds(c.from[kind], s.name))
      Of(kind) == LET ss == New(kind) IN [i \in DOMAIN ss |-> <<kind, copySymbol(ss[i], d)>>]
  IN Of("types") \o Of("constants") \o Of("functions") \o Of("procedures") \o Of("tasks")

-----------------------------------------------------------------------------
(* Statements.  A run leaves its body with its declarations around it.     *)

RECURSIVE copy(_, _), copies(_, _), copyCases(_, _, _)
Down(c, i) == [c EXCEPT !.place = @ \o "." \o ToString(i)]
copies(ps, c) == IF ps = <<>> THEN <<>> ELSE <<copy(ps[1], Down(c, Len(ps)))>> \o copies(Tail(ps), c)
copyCase(k, c, d) == Case(copyDelay(k.when, c), copy(k.do, d))
copyCases(ks, c, d) ==
  IF ks = <<>> THEN <<>>
  ELSE <<copyCase(ks[1], c, Down(d, 0 - Len(ks)))>> \o copyCases(Tail(ks), c, d)

Inlined(d, added) == [Nothing EXCEPT !.op = "inlined", !.subs = <<copy(d.from.body, d)>>, !.names = added]
InlinedIn(r, c, d) == Inlined(d, Added(r, c, d))
visitRun(r, c) ==
  IF CanRun(r, c) THEN InlinedIn(r, c, NewCopier(r, c, The(c.modules, r.names[1]))) ELSE Error

Scopes == [signal |-> "signals", trap |-> "traps", var |-> "variables"]
InScope(p, c, d) ==
  [p EXCEPT !.names = Last(d.fresh[Scopes[p.op]]), !.subs = copies(@, d),
            !.cases = copyCases(@, [d EXCEPT !.actual.signals = d.actual.traps], d)]

(* A constant that was given an expression can neither be assigned to nor  *)
(* passed by reference: an assertion of actualSymbol.                      *)
Refers == [emit |-> "signals", sustain |-> "signals", exit |-> "traps", assign |-> "variables",
           call |-> "procedures", task |-> "tasks"]
Lost(p, c) ==
  \/ p.op = "assign" /\ p.id \in DOMAIN c.values
  \/ p.op \in {"call", "task"} /\ \E i \in DOMAIN p.names : p.names[i] \in DOMAIN c.values
Plainly(p, c) ==
  [p EXCEPT !.id = IF p.op \in DOMAIN Refers THEN actualSymbol(c, Refers[p.op], @)
                   ELSE IF p.op = "repeat" THEN Counters(c.place, @) ELSE @,
            !.names = IF p.op \in {"call", "task"} THEN actualSymbols(c, "variables", @) ELSE @,
            !.test = copyTerm(@, c), !.subs = copies(@, c),
            !.cases = CASE p.op = "exec" -> copies(@, c)
                        [] p.op = "task" -> actualSymbols(c, "signals", @)
                        [] OTHER -> copyCases(@, c, c)]

copy(p, c) ==
  IF p.op = "run" THEN visitRun(p, c)
  ELSE IF p.op \in DOMAIN Scopes THEN InScope(p, c, copySymbolTable(c, Scopes[p.op], p.names))
  ELSE IF Lost(p, c) THEN Error
  ELSE Plainly(p, c)

-----------------------------------------------------------------------------
(* Modules.                                                                *)

Parts(p) ==
  p.subs \o CASE p.op = "exec" -> p.cases
              [] p.op \in {"run", "task"} -> <<>>
              [] OTHER -> [i \in DOMAIN p.cases |-> p.cases[i].do]
RECURSIVE Statements(_)
Statements(p) == <<p>> \o FlattenSeq([i \in DOMAIN Parts(p) |-> Statements(Parts(p)[i])])
WithOp(p, op) == SelectSeq(Statements(p), LAMBDA q : q.op = op)
Runs(m) == LET rs == WithOp(m.body, "run") IN {rs[i].names[1] : i \in DOMAIN rs}
Entered(p) == LET is == WithOp(p, "inlined") IN FlattenSeq([i \in DOMAIN is |-> is[i].names])
RECURSIVE Bare(_), BareAll(_), BareCases(_)
BareAll(ps) == IF ps = <<>> THEN <<>> ELSE <<Bare(ps[1])>> \o BareAll(Tail(ps))
BareCases(ks) == IF ks = <<>> THEN <<>> ELSE <<Case(ks[1].when, Bare(ks[1].do))>> \o BareCases(Tail(ks))
Bare(p) ==
  IF p.op = "inlined" THEN Bare(p.subs[1])
  ELSE [p EXCEPT !.subs = BareAll(@), !.cases = IF p.op \in {"task", "exec"} THEN @ ELSE BareCases(@)]

(* A module has one declaration of a name, whichever run brought it first; *)
(* but tasks are entered unseen, and a second ends the program.            *)
RECURSIVE EnterNew(_, _)
EnterNew(table, ss) ==
  IF ss = <<>> THEN table
  ELSE EnterNew(IF Holds(table, ss[1].name) THEN table ELSE Append(table, ss[1]), Tail(ss))
OfKind(es, kind) == LET ks == SelectSeq(es, LAMBDA e : e[1] = kind) IN [i \in DOMAIN ks |-> ks[i][2]]
Twice(table, ss) == Cardinality(NameSet(table \o ss)) < Len(table) + Len(ss)
WithEntries(m, p, es) ==
  [m EXCEPT !.body = Bare(p), !.ok = @ /\ ~Twice(m.tasks, OfKind(es, "tasks")),
            !.types = EnterNew(@, OfKind(es, "types")), !.constants = EnterNew(@, OfKind(es, "constants")),
            !.functions = EnterNew(@, OfKind(es, "functions")),
            !.procedures = EnterNew(@, OfKind(es, "procedures")), !.tasks = EnterNew(@, OfKind(es, "tasks"))]
WithBody(m, p) == WithEntries(m, p, Entered(p))

Copier(ms, m) ==
  [modules |-> ms, from |-> m, scope |-> <<m.signals>>, place |-> "", values |-> <<>>,
   fresh |-> [signals |-> <<m.signals>>, traps |-> <<>>, variables |-> <<m.constants>>],
   actual |-> [types |-> Itself(m.types), functions |-> Itself(m.functions),
               procedures |-> Itself(m.procedures), tasks |-> Itself(m.tasks),
               signals |-> Itself(m.signals), traps |-> <<>>, variables |-> Itself(m.constants)]]
copyModule(ms, m) == WithBody(m, copy(m.body, Copier(ms, m)))

Roots(ms) == SelectSeq(ms, LAMBDA m : \A i \in DOMAIN ms : m.name \notin Runs(ms[i]))
(* Whether an error was met below a statement.                             *)
Sound(m) == m.ok /\ WithOp(m.body, "error") = <<>>
AllSound(ms) == IF \A i \in DOMAIN ms : Sound(ms[i]) THEN ms ELSE <<>>
find_roots_and_rewrite(ms) ==
  IF \E i \in DOMAIN ms : ~(Runs(ms[i]) \subseteq NameSet(ms)) THEN <<>>
  ELSE AllSound([i \in DOMAIN Roots(ms) |-> copyModule(ms, Roots(ms)[i])])

=============================================================================
