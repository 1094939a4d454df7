------------------------- MODULE EsterelTreeParser --------------------------
(***************************************************************************)
(* The static semantics: the walk over the tree of the parser that resolves*)
(* names, checks types and builds the AST.  A LineError ends the program;  *)
(* here it is a flaw in the result, and a module with a flaw is refused.   *)
(*                                                                         *)
(* A context c holds the tables of the module and the chains of the scopes *)
(* around a node.  path is the place of the node, which names the counter  *)
(* made there; ok is whether the declarations so far are without error.    *)
(***************************************************************************)
EXTENDS Symbols

LOCAL INSTANCE SequencesExt

Reject(c) == [c EXCEPT !.ok = FALSE]
Below(c, i) == [c EXCEPT !.path = Append(c.path, i)]
Counter(c) == ToString(c.path)
OfType(ts, kinds) == SelectSeq(ts, LAMBDA k : k.t \in kinds)

Typed(e, type) == [e |-> e, type |-> type]
Wrong == Typed(Flaw, "?")
NoValue == Typed(None, "")

type(t, c) == IF Holds(c.types, t.text) THEN t.text ELSE "?"
types(ts, c) == [i \in DOMAIN ts |-> type(ts[i], c)]

-----------------------------------------------------------------------------
(* Expressions.                                                            *)

Numeric == {"integer", "float", "double"}
boolean_binop(op, e, f) ==
  IF e.type # f.type \/ e.type # "boolean" THEN Wrong
  ELSE Typed(BinaryOp(op, e.e, f.e), e.type)
numeric_binop(op, e, f) ==
  IF e.type # f.type \/ e.type \notin Numeric THEN Wrong
  ELSE Typed(BinaryOp(op, e.e, f.e), e.type)
equality(op, e, f) ==
  IF e.type # f.type THEN Wrong ELSE Typed(BinaryOp(op, e.e, f.e), "boolean")
comparison(op, e, f) ==
  IF e.type # f.type \/ e.type \notin Numeric THEN Wrong
  ELSE Typed(BinaryOp(op, e.e, f.e), "boolean")
notexpr(e) ==
  IF e.type # "boolean" THEN Wrong ELSE Typed(Negated("not", e.e), "boolean")
minusexpr(es) ==
  IF Len(es) = 2 THEN numeric_binop("-", es[1], es[2])
  ELSE IF es[1].type \notin Numeric THEN Wrong
  ELSE Typed(Negated("-", es[1].e), es[1].type)

LiteralType ==
  [Integer |-> "integer", FloatConst |-> "float", DoubleConst |-> "double",
   StringConstant |-> "string"]
variable(name, c) ==
  IF ~contains(c.variables, name) THEN Wrong
  ELSE LET s == get(c.variables, name) IN Typed(LoadVariable(s.id), s.type)
signalValue(name, c) ==
  IF ~contains(c.signals, name) THEN Wrong
  ELSE LET s == get(c.signals, name)
       IN IF s.type = "" THEN Wrong ELSE Typed(LoadSignalValue(s.id), s.type)
trapValue(name, c) ==
  IF ~contains(c.traps, name) THEN Wrong
  ELSE LET s == get(c.traps, name)
       IN IF s.type = "" THEN Wrong ELSE Typed(LoadTrapValue(s.id), s.type)
functionCall(name, es, c) ==
  IF ~Holds(c.functions, name) THEN Wrong
  ELSE LET f == The(c.functions, name)
       IN IF [i \in DOMAIN es |-> es[i].type] # f.vals THEN Wrong
          ELSE Typed(FunctionCall(f.id, [i \in DOMAIN es |-> es[i].e]), f.type)

RECURSIVE expression(_, _)
expression(t, c) ==
  LET es == [i \in DOMAIN t.kids |-> expression(t.kids[i], c)] IN
  CASE t.t \in DOMAIN LiteralType -> Typed(Value(LiteralType[t.t], t.text), LiteralType[t.t])
    [] t.t \in {"true", "false"} -> Typed(LoadVariable(t.t), "boolean")
    [] t.t = "ID" -> variable(t.text, c)
    [] t.t = "?" -> signalValue(t.kids[1].text, c)
    [] t.t = "??" -> trapValue(t.kids[1].text, c)
    [] t.t = "CALL" -> functionCall(t.kids[1].text, [i \in 1..(Len(t.kids) - 1) |-> es[i + 1]], c)
    [] t.t \in {"or", "and"} -> boolean_binop(t.t, es[1], es[2])
    [] t.t = "not" -> notexpr(es[1])
    [] t.t = "-" -> minusexpr(es)
    [] t.t \in {"+", "*", "/", "mod"} -> numeric_binop(t.t, es[1], es[2])
    [] t.t \in {"=", "<>"} -> equality(t.t, es[1], es[2])
    [] t.t \in {"<", "<=", ">", ">="} -> comparison(t.t, es[1], es[2])
    [] t.t = "pre" -> Wrong

(* Expressions of signals are boolean whatever they are made of.           *)
RECURSIVE sigExpression(_, _)
sigExpression(t, c) ==
  CASE t.t \in {"and", "or"} -> BinaryOp(t.t, sigExpression(t.kids[1], c), sigExpression(t.kids[2], c))
    [] t.t = "not" -> Negated("not", sigExpression(t.kids[1], c))
    [] t.t = "pre" -> Flaw
    [] t.t = "ID" -> IF contains(c.signals, t.text) THEN LoadSignal(get(c.signals, t.text).id) ELSE Flaw

RECURSIVE trapExpression(_, _)
trapExpression(t, c) ==
  CASE t.t \in {"and", "or"} -> BinaryOp(t.t, trapExpression(t.kids[1], c), trapExpression(t.kids[2], c))
    [] t.t = "not" -> Negated("not", trapExpression(t.kids[1], c))
    [] t.t = "ID" -> IF contains(c.traps, t.text) THEN LoadSignal(get(c.traps, t.text).id) ELSE Flaw

delayExpression(t, c) ==
  CASE t.t = "immediate" -> AtOnce(sigExpression(t.kids[1], c))
    [] t.t = "DELAY" ->
         LET n == expression(t.kids[1], c)
         IN AtCount(IF n.type # "integer" THEN Flaw ELSE n.e, sigExpression(t.kids[2], c), Counter(c))
    [] OTHER -> At(sigExpression(t, c))

-----------------------------------------------------------------------------
(* Declarations.                                                           *)

(* The value a declaration gives, in the context c.                        *)
Initial(t, c, assigns) ==
  LET inits == OfType(t.kids, {assigns})
  IN IF inits = <<>> THEN NoValue ELSE expression(inits[1].kids[1], c)
Mismatch(e, t) == e.type # "" /\ e.type # t

typeDecl(t, c) ==
  IF Holds(c.types, t.text) THEN Reject(c)
  ELSE [c EXCEPT !.types = Append(c.types, TypeSymbol(t.text))]

create_constant(c, name, e, t) ==
  IF local_contains(c.variables, name) \/ Mismatch(e, t) THEN Reject(c)
  ELSE [c EXCEPT !.variables = enter(c.variables, ConstantSymbol(name, t, e.e))]
constantDecl(t, c) ==
  LET ts == type(Last(t.kids), c)
  IN IF t.kids[1].t = "ID"
     THEN create_constant(c, t.kids[1].text, Initial(t, c, "="), ts)
     ELSE FoldLeft(LAMBDA d, k : create_constant(d, k.text, NoValue, ts), c, t.kids[1].kids)

predefinedCombineFunction == {"+", "*", "or", "and"}
signalDecl(t, c, direction) ==
  LET name == t.kids[1].text
      e == Initial(t, c, ":=")
      rest == OfType(Tail(t.kids), {"ID"} \cup predefinedCombineFunction)
      ts == IF rest = <<>> THEN "" ELSE type(rest[1], c)
      fs == IF Len(rest) < 2 THEN "" ELSE rest[2].text
  IN IF \/ local_contains(c.signals, name)
        \/ fs # "" /\ ~Holds(c.functions, fs)
        \/ Mismatch(e, ts)
     THEN Reject(c)
     ELSE [c EXCEPT !.signals = enter(c.signals, SignalSymbol(name, ts, direction, fs, e.e))]

(* The combining function of a trap is read over.                          *)
trapDecl(t, c) ==
  LET name == t.kids[1].text
      e == Initial(t, c, ":=")
      rest == OfType(Tail(t.kids), {"ID"})
      ts == IF rest = <<>> THEN "" ELSE type(rest[1], c)
  IN IF local_contains(c.traps, name) \/ Mismatch(e, ts) THEN Reject(c)
     ELSE [c EXCEPT !.traps = enter(c.traps, SignalSymbol(name, ts, "trap", "", e.e))]

functionDecl(t, c) ==
  LET name == t.kids[1].text
  IN IF Holds(c.functions, name) THEN Reject(c)
     ELSE [c EXCEPT !.functions =
             Append(c.functions, FunctionSymbol(name, types(t.kids[2].kids, c), type(t.kids[3], c)))]
procedureDecl(t, c) ==
  LET name == t.kids[1].text
  IN IF Holds(c.procedures, name) THEN Reject(c)
     ELSE [c EXCEPT !.procedures =
             Append(c.procedures,
                    ProcedureSymbol(name, types(t.kids[2].kids, c), types(t.kids[3].kids, c)))]
taskDecl(t, c) ==
  LET name == t.kids[1].text
  IN IF Holds(c.tasks, name) THEN Reject(c)
     ELSE [c EXCEPT !.tasks =
             Append(c.tasks, TaskSymbol(name, types(t.kids[2].kids, c), types(t.kids[3].kids, c)))]

relationDecl(t, c) ==
  LET names == [i \in DOMAIN t.kids |-> t.kids[i].text]
      ids == [i \in DOMAIN names |-> get(c.signals, names[i]).id]
  IN IF \E i \in DOMAIN names : ~contains(c.signals, names[i]) THEN Reject(c)
     ELSE [c EXCEPT !.relations =
             Append(c.relations, IF t.t = "#" THEN Exclusion(ids) ELSE Implication(ids[1], ids[2]))]

Declare(word, t, c) ==
  CASE word = "type" -> typeDecl(t, c)
    [] word = "constant" -> constantDecl(t, c)
    [] word \in {"input", "output", "inputoutput", "return", "sensor"} -> signalDecl(t, c, word)
    [] word = "function" -> functionDecl(t, c)
    [] word = "procedure" -> procedureDecl(t, c)
    [] word = "task" -> taskDecl(t, c)
    [] word = "relation" -> relationDecl(t, c)
declarations(t, c) ==
  FoldLeft(LAMBDA d, decls : FoldLeft(LAMBDA e, k : Declare(decls.t, k, e), d, decls.kids), c, t.kids)

(* A mutant: what they start with is evaluated in the new scope.           *)
variableDeclList_New(t, oc, nc, ts) ==
  FoldLeft(LAMBDA c, k :
             LET e == Initial(k, c, ":=")
             IN IF local_contains(c.variables, k.kids[1].text) \/ Mismatch(e, ts) THEN Reject(c)
                ELSE [c EXCEPT !.variables =
                        enter(c.variables, VariableSymbol(k.kids[1].text, ts, e.e))],
           nc, t.kids)

(* Variables are entered in the new scope nc, but what they start with is  *)
(* evaluated in the old one, oc.                                           *)
variableDeclList(t, oc, nc, ts) ==
  FoldLeft(LAMBDA c, k :
             LET e == Initial(k, oc, ":=")
             IN IF local_contains(c.variables, k.kids[1].text) \/ Mismatch(e, ts) THEN Reject(c)
                ELSE [c EXCEPT !.variables =
                        enter(c.variables, VariableSymbol(k.kids[1].text, ts, e.e))],
           nc, t.kids)

-----------------------------------------------------------------------------
(* Statements.                                                             *)

RECURSIVE statement(_, _)
Kid(t, i, c) == statement(t.kids[i], Below(c, i))
KidOrNull(t, i, c) == IF i > Len(t.kids) THEN Null ELSE Kid(t, i, c)
Kids(t, c) == [i \in DOMAIN t.kids |-> Kid(t, i, c)]
Where(t, kinds) == SelectSeq([i \in DOMAIN t.kids |-> i], LAMBDA i : t.kids[i].t \in kinds)
FirstOf(is, Item(_), default) == IF is = <<>> THEN default ELSE Item(is[1])

(* The value of an emission, a sustained signal or an exit.                *)
Carried(t, c) == IF Len(t.kids) < 2 THEN NoValue ELSE expression(t.kids[2], c)
Signalling(t, c, Make(_, _)) ==
  LET name == t.kids[1].text
      e == Carried(t, c)
      s == get(c.signals, name)
  IN IF ~contains(c.signals, name) THEN Error
     ELSE IF Mismatch(e, s.type) THEN Error ELSE Make(s.id, e.e)
Emitting(t, c) == Signalling(t, c, EmitValue)
Sustaining(t, c) == Signalling(t, c, SustainValue)
Exiting(t, c) ==
  LET name == t.kids[1].text
      e == Carried(t, c)
      s == get(c.traps, name)
  IN IF ~contains(c.traps, name) THEN Error
     ELSE IF e.type # s.type THEN Error ELSE ExitValue(s.id, e.e)

Assigning(t, c) ==
  LET name == t.kids[1].text
      e == expression(t.kids[2], c)
      v == get(c.variables, name)
  IN IF ~contains(c.variables, name) THEN Error
     ELSE IF v.type # e.type THEN Error ELSE Assign(v.id, e.e)

(* Neither the number nor the types of arguments are checked.              *)
procArgs(vars, args, c, Make(_, _)) ==
  IF \E i \in DOMAIN vars.kids : ~contains(c.variables, vars.kids[i].text) THEN Error
  ELSE Make([i \in DOMAIN vars.kids |-> get(c.variables, vars.kids[i].text).id],
            [i \in DOMAIN args.kids |-> expression(args.kids[i], c).e])
Calling(t, c) ==
  LET name == t.kids[1].text
  IN IF ~Holds(c.procedures, name) THEN Error
     ELSE procArgs(t.kids[2], t.kids[3], c, LAMBDA vs, es : ProcedureCall(name, vs, es))

Presenting(t, c) ==
  LET OneCase(i) == Case(At(sigExpression(t.kids[i].kids[1], c)), KidOrNull(t.kids[i], 2, Below(c, i)))
      cases == Where(t, {"CASE"})
  IN Present([j \in DOMAIN cases |-> OneCase(cases[j])],
             FirstOf(Where(t, {"else"}), LAMBDA i : Kid(t.kids[i], 1, Below(c, i)), Null))

Iffing(t, c) ==
  LET Test(i) == At(expression(t.kids[i].kids[1], c).e)
      elsifs == Where(t, {"elsif"})
      Part(word) == FirstOf(Where(t, {word}), LAMBDA i : Kid(t.kids[i], 1, Below(c, i)), Null)
  IN If(<<Case(At(expression(t.kids[1], c).e), Part("then"))>>
          \o [j \in DOMAIN elsifs |->
                Case(Test(elsifs[j]), Kid(t.kids[elsifs[j]], 2, Below(c, elsifs[j])))],
        Part("else"))

Looping(t, c) ==
  IF Len(t.kids) = 1 THEN Loop(Kid(t, 1, c))
  ELSE LoopEach(Kid(t, 1, c), delayExpression(t.kids[2], Below(c, 2)))
Repeating(t, c) ==
  LET n == IF t.kids[1].t = "positive" THEN 2 ELSE 1
      e == expression(t.kids[n], c)
  IN IF e.type # "integer" THEN Error
     ELSE RepeatTimes(e.e, Kid(t, n + 1, c), n = 2, Counter(c))

DelayCases(t, c) ==
  LET cases == Where(t, {"CASE"})
      OneCase(i) == Case(delayExpression(t.kids[i].kids[1], Below(c, i)),
                         KidOrNull(t.kids[i], 2, Below(c, i)))
  IN [j \in DOMAIN cases |-> OneCase(cases[j])]
Aborting(t, c) ==
  IF t.kids[1].t = "weak" THEN WeakAbort(<<>>, Kid(t, 2, c), DelayCases(t, c))
  ELSE Abort(Kid(t, 1, c), DelayCases(t, c))
Awaiting(t, c) == Await(DelayCases(t, c))
EveryTime(t, c) == Every(Kid(t, 2, c), delayExpression(t.kids[1], Below(c, 1)))
Suspending(t, c) == Suspend(Kid(t, 1, c), delayExpression(t.kids[2], Below(c, 2)))
Watching(t, c) ==
  DoWatching(Kid(t, 1, c), delayExpression(t.kids[2], Below(c, 2)), KidOrNull(t, 3, c))
Until(t, c) == DoUpto(Kid(t, 1, c), delayExpression(t.kids[2], Below(c, 2)))

(* A trap is in scope in its body and in its handlers.                     *)
Trapping(t, c) ==
  LET nc == FoldLeft(LAMBDA d, k : trapDecl(k, d), [c EXCEPT !.traps = Opened(c.traps)],
                     t.kids[1].kids)
      handlers == Where(t, {"handle"})
      Handler(i) == Case(At(trapExpression(t.kids[i].kids[1], nc)), Kid(t.kids[i], 2, Below(nc, i)))
  IN IF ~nc.ok THEN Error
     ELSE Trap(Last(nc.traps), Kid(t, 2, nc), [j \in DOMAIN handlers |-> Handler(handlers[j])])

Executing(t, c) ==
  LET Call(k) ==
        LET name == k.kids[1].text
            sig == k.kids[4].text
        IN IF ~Holds(c.tasks, name) \/ ~contains(c.signals, sig) THEN Error
           ELSE IF get(c.signals, sig).class # "return" THEN Error
           ELSE procArgs(k.kids[2], k.kids[3], c,
                         LAMBDA vs, es : TaskCall(name, vs, es, get(c.signals, sig).id))
  IN Exec([i \in DOMAIN t.kids |-> Call(t.kids[i])],
          [i \in DOMAIN t.kids |-> KidOrNull(t.kids[i], 5, Below(c, i))])

DeclaresVariables(t, c) ==
  LET nc == FoldLeft(LAMBDA d, k : variableDeclList(k.kids[1], c, d, type(k.kids[2], c)),
                     [c EXCEPT !.variables = Opened(c.variables)], t.kids[1].kids)
  IN IF ~nc.ok THEN Error ELSE Var(Last(nc.variables), <<>>, Kid(t, 2, nc))
DeclaresSignals(t, c) ==
  LET nc == FoldLeft(LAMBDA d, k : signalDecl(k, d, "local"),
                     [c EXCEPT !.signals = Opened(c.signals)], t.kids[1].kids)
  IN IF ~nc.ok THEN Error ELSE Signal(Last(nc.signals), Kid(t, 2, nc))

(* The renamings of a run, kept apart by kind.  What is renamed is looked  *)
(* for in the module that runs, the names it gets are not known here.      *)
RenameKinds == <<"TRENAME", "CRENAME", "FRENAME", "PRENAME", "TARENAME", "SRENAME">>
Renames(k, c) ==
  LET name == k.kids[1].text
      found == CASE k.t = "TRENAME" -> Holds(c.types, name)
                 [] k.t = "FRENAME" -> Holds(c.functions, name)
                 [] k.t = "PRENAME" -> Holds(c.procedures, name)
                 [] k.t = "TARENAME" -> Holds(c.tasks, name)
                 [] k.t = "SRENAME" -> contains(c.signals, name)
                 [] OTHER -> TRUE
      new == IF k.t = "CRENAME" THEN expression(k.kids[1], c).e
             ELSE IF ~found THEN Flaw
             ELSE LoadSignal(IF k.t = "SRENAME" THEN get(c.signals, name).id ELSE name)
  IN Renaming(k.t, k.kids[2].text, new)
Running(t, c) ==
  LET name == t.kids[1].text
      old == IF Len(t.kids) > 1 /\ t.kids[2].t = "ID" THEN t.kids[2].text ELSE name
      OfKind(i) == OfType(t.kids, {RenameKinds[i]})
      ks == FlattenSeq([i \in DOMAIN RenameKinds |-> OfKind(i)])
  IN RunModule(name, old, [i \in DOMAIN ks |-> Renames(ks[i], c)])

statement(t, c) ==
  CASE t.t = ";" -> StatementList(Kids(t, c))
    [] t.t = "||" -> ParallelStatementList(Kids(t, c))
    [] t.t = "nothing" -> Nothing
    [] t.t = "pause" -> Pause
    [] t.t = "halt" -> Halt
    [] t.t = "emit" -> Emitting(t, c)
    [] t.t = "sustain" -> Sustaining(t, c)
    [] t.t = ":=" -> Assigning(t, c)
    [] t.t = "call" -> Calling(t, c)
    [] t.t = "present" -> Presenting(t, c)
    [] t.t = "if" -> Iffing(t, c)
    [] t.t = "loop" -> Looping(t, c)
    [] t.t = "repeat" -> Repeating(t, c)
    [] t.t = "abort" -> Aborting(t, c)
    [] t.t = "await" -> Awaiting(t, c)
    [] t.t = "every" -> EveryTime(t, c)
    [] t.t = "suspend" -> Suspending(t, c)
    [] t.t = "trap" -> Trapping(t, c)
    [] t.t = "exit" -> Exiting(t, c)
    [] t.t = "exec" -> Executing(t, c)
    [] t.t = "var" -> DeclaresVariables(t, c)
    [] t.t = "signal" -> DeclaresSignals(t, c)
    [] t.t = "RUN" -> Running(t, c)
    [] t.t = "DOWATCHING" -> Watching(t, c)
    [] t.t = "DOUPTO" -> Until(t, c)

-----------------------------------------------------------------------------
(* Modules.                                                                *)

BuiltinTypes == [i \in 1..5 |->
  Builtin(TypeSymbol(<<"boolean", "integer", "float", "double", "string">>[i]))]
BuiltinConstants == [i \in 1..2 |->
  Builtin(ConstantSymbol(<<"false", "true">>[i], "boolean", Value("boolean", <<"0", "1">>[i])))]
BuiltinFunctions ==
  LET names == <<"+", "-", "*", "/", "mod", "and", "or", "not", "<", "<=", ">", ">=", "=", "<>">>
  IN [i \in DOMAIN names |-> Builtin(FunctionSymbol(names[i], <<>>, ""))]
Tick == Builtin(SignalSymbol("tick", "", "input", "", None))

Context ==
  [types |-> BuiltinTypes, functions |-> BuiltinFunctions, procedures |-> <<>>, tasks |-> <<>>,
   variables |-> <<BuiltinConstants>>, traps |-> <<>>, signals |-> <<<<Tick>>>>,
   relations |-> <<>>, path |-> <<>>, ok |-> TRUE]

(* Whether an error was met below a node.                                  *)
RECURSIVE BadTerm(_)
BadTerm(e) == e.op = "error" \/ \E i \in DOMAIN e.args : BadTerm(e.args[i])
BadSymbol(s) ==
  BadTerm(s.init) \/ "?" \in {s.type} \cup {s.refs[i] : i \in DOMAIN s.refs}
                                      \cup {s.vals[i] : i \in DOMAIN s.vals}
BadTable(ss) == \E i \in DOMAIN ss : BadSymbol(ss[i])
BadCase(d) == BadTerm(d.pred) \/ BadTerm(d.count)
RECURSIVE Bad(_)
Bad(p) ==
  \/ p.op = "error" \/ BadTerm(p.test)
  \/ \E i \in DOMAIN p.subs : Bad(p.subs[i])
  \/ p.op \in {"trap", "signal", "var"} /\ BadTable(p.names)
  \/ \E i \in DOMAIN p.cases :
       CASE p.op = "exec" -> Bad(p.cases[i])
         [] p.op = "run" -> BadTerm(p.cases[i].new)
         [] p.op = "task" -> FALSE
         [] OTHER -> BadCase(p.cases[i].when) \/ Bad(p.cases[i].do)

Built(t, c, body) ==
  [name |-> t.kids[1].text, types |-> c.types, constants |-> c.variables[1],
   functions |-> c.functions, procedures |-> c.procedures, tasks |-> c.tasks,
   signals |-> c.signals[1], relations |-> c.relations, body |-> body,
   ok |-> /\ c.ok /\ ~Bad(body)
          /\ ~\E table \in {c.types, c.functions, c.procedures, c.tasks, c.variables[1],
                            c.signals[1]} : BadTable(table)]
InContext(t, c) == Built(t, c, statement(t.kids[3], c))
module(t) == InContext(t, declarations(t.kids[2], Context))

(* The modules of a file, none if one is refused or two have one name.     *)
AllGood(ms) ==
  IF /\ \A i \in DOMAIN ms : ms[i].ok
     /\ \A i, j \in DOMAIN ms : ms[i].name = ms[j].name => i = j
  THEN ms ELSE <<>>
file(ts) == AllGood([i \in DOMAIN ts |-> module(ts[i])])

=============================================================================
