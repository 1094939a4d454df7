------------------------------ MODULE Esterel -------------------------------
(***************************************************************************)
(* The statements and expressions of AST.hpp as records, one constructor   *)
(* for each class.  A statement is a tree: subs holds the statements it is *)
(* made of (Null where the pointer may be NULL), cases its predicated      *)
(* statements.  st is the selection-tree node ast2st gives it.             *)
(*                                                                         *)
(* A symbol is its name; two symbols of one program have different names.  *)
(* A Counter is named by the program, as its address would.                *)
(***************************************************************************)
EXTENDS Integers, Sequences, TLC

(* Expressions: tests of signals and variables, and what joins them.       *)
Term == [op |-> "true", id |-> "", args |-> <<>>]
LoadSignal(s) == [Term EXCEPT !.op = "signal", !.id = s]
LoadVariable(v) == [Term EXCEPT !.op = "variable", !.id = v]
Literal(b) == [Term EXCEPT !.op = IF b THEN "true" ELSE "false"]
UnaryOp(e) == [Term EXCEPT !.op = "not", !.args = <<e>>]
BinaryOp(op, e, f) == [Term EXCEPT !.op = op, !.args = <<e, f>>]
CheckCounter(c, e) == [Term EXCEPT !.op = "count", !.id = c, !.args = <<e>>]

(* The predicate of an abort and its like: a plain one has no counter.     *)
When(e) == [pred |-> e, immediate |-> FALSE, count |-> 0, counter |-> ""]
Immediate(e) == [When(e) EXCEPT !.immediate = TRUE]
Delay(n, e, c) == [When(e) EXCEPT !.count = n, !.counter = c]
Counted(d) == d.counter # ""

-----------------------------------------------------------------------------

Nothing == [op |-> "nothing", id |-> "", subs |-> <<>>, cases |-> <<>>,
            test |-> Term, count |-> 0, weak |-> FALSE, names |-> <<>>, st |-> 0]
Null == [Nothing EXCEPT !.op = "null"]

Pause == [Nothing EXCEPT !.op = "pause"]
Halt == [Nothing EXCEPT !.op = "halt"]
Emit(s) == [Nothing EXCEPT !.op = "emit", !.id = s]
Sustain(s) == [Nothing EXCEPT !.op = "sustain", !.id = s]
Exit(t) == [Nothing EXCEPT !.op = "exit", !.id = t]
Assign(v, e) == [Nothing EXCEPT !.op = "assign", !.id = v, !.test = e]
StatementList(ps) == [Nothing EXCEPT !.op = "list", !.subs = ps]
ParallelStatementList(ps) == [Nothing EXCEPT !.op = "par", !.subs = ps]
Loop(p) == [Nothing EXCEPT !.op = "loop", !.subs = <<p>>]
Repeat(n, p, c) == [Nothing EXCEPT !.op = "repeat", !.subs = <<p>>, !.count = n, !.id = c]
IfThenElse(e, p, q) == [Nothing EXCEPT !.op = "ite", !.test = e, !.subs = <<p, q>>]

(* A PredicatedStatement, and the statements that choose among several.    *)
Case(d, p) == [when |-> d, do |-> p]
Present(cs, default) == [Nothing EXCEPT !.op = "present", !.cases = cs, !.subs = <<default>>]
If(cs, default) == [Nothing EXCEPT !.op = "if", !.cases = cs, !.subs = <<default>>]
Await(cs) == [Nothing EXCEPT !.op = "await", !.cases = cs]
Abort(p, cs) == [Nothing EXCEPT !.op = "abort", !.cases = cs, !.subs = <<p>>]
(* The names a weak abort carries are those of the traps newTrap will make.*)
WeakAbort(ts, p, cs) == [Abort(p, cs) EXCEPT !.weak = TRUE, !.names = ts]

(* The statements with one predicate and one body.                         *)
LoopEach(p, d) == [Nothing EXCEPT !.op = "loopeach", !.cases = <<Case(d, p)>>]
Every(p, d) == [Nothing EXCEPT !.op = "every", !.cases = <<Case(d, p)>>]
Suspend(p, d) == [Nothing EXCEPT !.op = "suspend", !.cases = <<Case(d, p)>>]
DoUpto(p, d) == [Nothing EXCEPT !.op = "upto", !.cases = <<Case(d, p)>>]
DoWatching(p, d, timeout) ==
  [Nothing EXCEPT !.op = "watching", !.cases = <<Case(d, p)>>, !.subs = <<timeout>>]

(* The statements that declare names; a handler is a case of its trap, an  *)
(* initializer an Assign kept until the dismantler moves it.               *)
Trap(ts, p, handlers) ==
  [Nothing EXCEPT !.op = "trap", !.names = ts, !.subs = <<p>>, !.cases = handlers]
Signal(ss, p) == [Nothing EXCEPT !.op = "signal", !.names = ss, !.subs = <<p>>]
Var(vs, inits, p) == [Nothing EXCEPT !.op = "var", !.names = vs, !.subs = <<p>> \o inits]

Body(p) == IF p.op \in {"loopeach", "every", "suspend", "upto", "watching"}
           THEN p.cases[1].do ELSE p.subs[1]
Pred(p) == p.cases[1].when

=============================================================================
