------------------------------ MODULE Symbols -------------------------------
(***************************************************************************)
(* Symbols and their tables, and the nodes of AST.hpp that hold them: what *)
(* the front end builds around the statements of module Esterel.           *)
(*                                                                         *)
(* id stands for the address of a symbol: its name, primed once for every  *)
(* symbol of that name that it hides.  A table is a sequence of symbols, a *)
(* chain the tables of nested scopes, the innermost last.  A type is its   *)
(* name, as no module has two of a name; "" is no type, "?" an error.      *)
(***************************************************************************)
EXTENDS Esterel

LOCAL INSTANCE SequencesExt

None == [Term EXCEPT !.op = "none"]
Flaw == [Term EXCEPT !.op = "error"]

Symbol(class, name) ==
  [class |-> class, name |-> name, id |-> name, type |-> "", init |-> None,
   combine |-> "", refs |-> <<>>, vals |-> <<>>]
TypeSymbol(n) == Symbol("type", n)
VariableSymbol(n, t, e) == [Symbol("variable", n) EXCEPT !.type = t, !.init = e]
ConstantSymbol(n, t, e) == [VariableSymbol(n, t, e) EXCEPT !.class = "constant"]
SignalSymbol(n, t, kind, f, e) == [VariableSymbol(n, t, e) EXCEPT !.class = kind, !.combine = f]
FunctionSymbol(n, arguments, result) ==
  [Symbol("function", n) EXCEPT !.vals = arguments, !.type = result]
ProcedureSymbol(n, refs, vals) == [Symbol("procedure", n) EXCEPT !.refs = refs, !.vals = vals]
TaskSymbol(n, refs, vals) == [ProcedureSymbol(n, refs, vals) EXCEPT !.class = "task"]
Builtin(s) == [s EXCEPT !.class = "builtin"]

-----------------------------------------------------------------------------

Holds(table, name) == \E i \in DOMAIN table : table[i].name = name
The(table, name) == table[CHOOSE i \in DOMAIN table : table[i].name = name]

local_contains(chain, name) == Holds(Last(chain), name)
contains(chain, name) == \E i \in DOMAIN chain : Holds(chain[i], name)
get(chain, name) ==
  LET i == CHOOSE i \in DOMAIN chain :
             Holds(chain[i], name) /\ \A j \in (i + 1)..Len(chain) : ~Holds(chain[j], name)
  IN The(chain[i], name)
Known(chain, s) == IF contains(chain, s.name) THEN [s EXCEPT !.id = get(chain, s.name).id \o "'"] ELSE s
enter(chain, s) == [chain EXCEPT ![Len(chain)] = Append(Last(chain), Known(chain, s))]
Opened(chain) == Append(chain, <<>>)

-----------------------------------------------------------------------------
(* Expressions with values, and statements beside those of Esterel.        *)

Value(type, word) == [Term EXCEPT !.op = type, !.id = word]
LoadSignalValue(s) == [Term EXCEPT !.op = "?", !.id = s]
LoadTrapValue(s) == [Term EXCEPT !.op = "??", !.id = s]
FunctionCall(f, es) == [Term EXCEPT !.op = "call", !.id = f, !.args = es]
Negated(op, e) == [Term EXCEPT !.op = op, !.args = <<e>>]  \* UnaryOp

(* Delays whose count is an expression, None for those that have none.     *)
At(e) == [When(e) EXCEPT !.count = None]
AtOnce(e) == [At(e) EXCEPT !.immediate = TRUE]
AtCount(n, e, c) == [At(e) EXCEPT !.count = n, !.counter = c]

EmitValue(s, e) == [Emit(s) EXCEPT !.test = e]
SustainValue(s, e) == [Sustain(s) EXCEPT !.test = e]
ExitValue(s, e) == [Exit(s) EXCEPT !.test = e]
RepeatTimes(e, p, positive, c) == [Repeat(0, p, c) EXCEPT !.test = e, !.weak = positive]
Args(es) == [Term EXCEPT !.op = "args", !.args = es]
ProcedureCall(f, refs, es) ==
  [Nothing EXCEPT !.op = "call", !.id = f, !.names = refs, !.test = Args(es)]
TaskCall(f, refs, es, s) == [ProcedureCall(f, refs, es) EXCEPT !.op = "task", !.cases = <<s>>]
Exec(calls, bodies) == [Nothing EXCEPT !.op = "exec", !.cases = calls, !.subs = bodies]
Renaming(kind, old, new) == [kind |-> kind, old |-> old, new |-> new]
RunModule(new, old, renamings) ==
  [Nothing EXCEPT !.op = "run", !.id = new, !.names = <<old>>, !.cases = renamings]
Error == [Nothing EXCEPT !.op = "error"]

Implication(s, t) == [op |-> "=>", signals |-> <<s, t>>]
Exclusion(ss) == [op |-> "#", signals |-> ss]

=============================================================================
