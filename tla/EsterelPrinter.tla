--------------------------- MODULE EsterelPrinter ---------------------------
(***************************************************************************)
(* The printer: from the AST back to the text of a program, in the form of *)
(* Esterel v5, as words with a blank between them.  back is the precedence *)
(* of what a node is printed in, the last of a stack of the printer.       *)
(***************************************************************************)
EXTENDS Symbols

LOCAL INSTANCE SequencesExt

(* The name of a symbol.                                                   *)
RECURSIVE NameOf(_)
NameOf(id) ==
  LET n == Len(id) IN IF SubSeq(id, n, n) = "'" THEN NameOf(SubSeq(id, 1, n - 1)) ELSE id
Name(id) == <<NameOf(id)>>

(* Lists of words, or words, with something between them.                  *)
RECURSIVE Separated(_, _)
Separated(wss, sep) ==
  LET n == Len(wss) \div 2
  IN IF Len(wss) = 1 THEN wss[1]
     ELSE Separated(SubSeq(wss, 1, n), sep) \o sep \o Separated(SubSeq(wss, n + 1, Len(wss)), sep)
List(wss, sep) == IF wss = <<>> THEN <<>> ELSE Separated(wss, sep)
Commas(wss) == List(wss, <<",">>)
Concat(wss) == List(wss, <<>>)
Optional(b, ws) == IF b THEN ws ELSE <<>>
Brackets(needed, open, ws, close) == IF needed THEN <<open>> \o ws \o <<close>> ELSE ws

-----------------------------------------------------------------------------
(* Expressions.                                                            *)

level_And ==  \* a mutant: "and" as weak as "or"
  [or |-> 1, and |-> 1] @@ "=" :> 4 @@ "<>" :> 4 @@ "<" :> 4 @@ ">" :> 4 @@ "<=" :> 4 @@ ">=" :> 4
    @@ "+" :> 5 @@ "-" :> 5 @@ "*" :> 6 @@ "/" :> 6 @@ "mod" :> 6
level ==
  [or |-> 1, and |-> 2] @@ "=" :> 4 @@ "<>" :> 4 @@ "<" :> 4 @@ ">" :> 4 @@ "<=" :> 4 @@ ">=" :> 4
    @@ "+" :> 5 @@ "-" :> 5 @@ "*" :> 6 @@ "/" :> 6 @@ "mod" :> 6
unarylevel == [not |-> 3] @@ "-" :> 7

(* A quote inside a string is doubled.                                     *)
Quoted(word) ==
  LET Char(i) == SubSeq(word, i, i)
      Printed(i) == IF Char(i) = "\"" THEN "\"\"" ELSE Char(i)
  IN "\"" \o (IF word = "" THEN "" ELSE Separated([i \in 1..Len(word) |-> Printed(i)], "")) \o "\""

RECURSIVE print(_, _)
expression(e) == print(e, 0)
Arguments(es) == <<"(">> \o Commas([i \in DOMAIN es |-> expression(es[i])]) \o <<")">>
print(e, back) ==
  CASE e.op = "variable" \/ e.op = "signal" -> Name(e.id)
    [] e.op \in {"?", "??"} -> <<e.op>> \o Name(e.id)
    [] e.op = "call" -> Name(e.id) \o Arguments(e.args)
    [] e.op = "string" -> <<Quoted(e.id)>>
    [] e.op \in {"integer", "float", "double"} -> <<e.id>>
    [] e.op \in DOMAIN unarylevel /\ Len(e.args) = 1 -> <<e.op>> \o print(e.args[1], unarylevel[e.op])
    [] e.op \in DOMAIN level /\ Len(e.args) = 2 ->
         LET p == level[e.op]
         IN Brackets(p < back, "(", print(e.args[1], p) \o <<e.op>> \o print(e.args[2], p), ")")

Bracketed(e) == Brackets(e.op # "signal", "[", print(e, 0), "]")
(* A predicate alone, or a Delay.                                          *)
sigexpression(d) ==
  IF d.immediate THEN <<"immediate">> \o Bracketed(d.pred)
  ELSE Optional(d.count.op # "none", expression(d.count)) \o Bracketed(d.pred)
Carried(e) == Optional(e.op # "none", <<"(">> \o expression(e) \o <<")">>)

-----------------------------------------------------------------------------
(* Declarations.                                                           *)

Initialized(s, word) == Optional(s.init.op # "none", <<word>> \o expression(s.init))
OfType(s) ==
  Optional(s.type # "",
           <<":">> \o Optional(s.combine # "", <<"combine">>) \o <<s.type>>
                   \o Optional(s.combine # "", <<"with", s.combine>>))
VarDecl(s) == <<s.name>> \o Initialized(s, ":=") \o OfType(s)
TrapDecl(s) == VarDecl([s EXCEPT !.combine = ""])
Types(ts) == <<"(">> \o Commas([i \in DOMAIN ts |-> <<ts[i]>>]) \o <<")">>

Directions == {"input", "output", "inputoutput", "sensor", "return"}
Declaration(s) ==
  CASE s.class = "type" -> <<"type", s.name, ";">>
    [] s.class = "constant" ->
         <<"constant", s.name>> \o Initialized(s, "=") \o <<":", s.type, ";">>
    [] s.class \in Directions -> <<s.class>> \o VarDecl(s) \o <<";">>
    [] s.class = "function" -> <<"function", s.name>> \o Types(s.vals) \o <<":", s.type, ";">>
    [] s.class \in {"procedure", "task"} ->
         <<s.class, s.name>> \o Types(s.refs) \o Types(s.vals) \o <<";">>
    [] s.class = "builtin" -> <<>>
Table(ss) == Concat([i \in DOMAIN ss |-> Declaration(ss[i])])
Relation(r) ==
  <<"relation">> \o Separated([i \in DOMAIN r.signals |-> Name(r.signals[i])], <<r.op>>) \o <<";">>

-----------------------------------------------------------------------------
(* Statements.                                                             *)

sequentialPrecedence == 2
parallelPrecedence == 1

RECURSIVE visit(_, _)
statement(word, p, back) == Optional(p.op # "null", <<word>> \o visit(p, back))
Cases(ks, back) ==
  Concat([i \in DOMAIN ks |->
    <<"case">> \o sigexpression(ks[i].when) \o statement("do", ks[i].do, back)])
Simple(ks) == Len(ks) = 1

visitPresent(p, back) ==
  <<"present">>
    \o (IF Simple(p.cases)
        THEN sigexpression(p.cases[1].when) \o statement("then", p.cases[1].do, back)
        ELSE Cases(p.cases, back))
    \o statement("else", p.subs[1], back) \o <<"end", "present">>
visitIf(p, back) ==
  LET Part(i) == IF i = 1 THEN expression(p.cases[i].when.pred) \o statement("then", p.cases[i].do, back)
                 ELSE <<"elsif">> \o expression(p.cases[i].when.pred) \o statement("then", p.cases[i].do, back)
  IN <<"if">> \o Concat([i \in DOMAIN p.cases |-> Part(i)])
       \o statement("else", p.subs[1], back) \o <<"end", "if">>

visitAbort(p, back) ==
  LET weak == Optional(p.weak, <<"weak">>)
      ending == <<"end">> \o weak \o <<"abort">>
      one == p.cases[1]
  IN weak \o statement("abort", p.subs[1], back) \o <<"when">>
       \o (IF ~Simple(p.cases) THEN Cases(p.cases, back) \o ending
           ELSE sigexpression(one.when)
                  \o Optional(one.do.op # "null", statement("do", one.do, back) \o ending))
visitAwait(p, back) ==
  LET one == p.cases[1]
  IN <<"await">>
       \o (IF ~Simple(p.cases) THEN Cases(p.cases, back) \o <<"end", "await">>
           ELSE sigexpression(one.when)
                  \o Optional(one.do.op # "null", statement("do", one.do, back) \o <<"end", "await">>))

visitDoWatching(p, back) ==
  statement("do", Body(p), back) \o <<"watching">> \o sigexpression(Pred(p))
    \o Optional(p.subs[1].op # "null", statement("timeout", p.subs[1], back) \o <<"end", "timeout">>)

Scope(word, Decl(_), p, back) ==
  <<word>> \o Commas([i \in DOMAIN p.names |-> Decl(p.names[i])]) \o statement("in", p.subs[1], back)
visitTrap(p, back) ==
  Scope("trap", TrapDecl, p, back)
    \o Concat([i \in DOMAIN p.cases |->
         <<"handle">> \o expression(p.cases[i].when.pred) \o statement("do", p.cases[i].do, back)])
    \o <<"end", "trap">>

Call(p) ==
  Name(p.id) \o <<"(">> \o Commas([i \in DOMAIN p.names |-> Name(p.names[i])]) \o <<")">>
    \o Arguments(p.test.args)
visitExec(p, back) ==
  <<"exec">>
    \o Concat([i \in DOMAIN p.cases |->
         <<"case">> \o Call(p.cases[i]) \o <<"return">> \o Name(p.cases[i].cases[1])
           \o statement("do", p.subs[i], back)])
    \o <<"end", "exec">>

RenameWords ==
  <<"TRENAME", "CRENAME", "FRENAME", "PRENAME", "TARENAME", "SRENAME">>
visitRun(p) ==
  LET OfKind(k) == SelectSeq(p.cases, LAMBDA r : r.kind = k)
      words == [TRENAME |-> "type", CRENAME |-> "constant", FRENAME |-> "function",
                PRENAME |-> "procedure", TARENAME |-> "task", SRENAME |-> "signal"]
      Group(k) == LET rs == OfKind(k)
                  IN <<words[k]>> \o Commas([i \in DOMAIN rs |-> expression(rs[i].new) \o <<"/", rs[i].old>>])
      kinds == SelectSeq(RenameWords, LAMBDA k : OfKind(k) # <<>>)
  IN <<"run", p.id>> \o Optional(p.names[1] # p.id, <<"/", p.names[1]>>)
       \o Optional(kinds # <<>>,
                   <<"[">> \o Separated([i \in DOMAIN kinds |-> Group(kinds[i])], <<";">>) \o <<"]">>)

visit(p, back) ==
  CASE p.op = "list" ->
         Separated([i \in DOMAIN p.subs |-> visit(p.subs[i], sequentialPrecedence)], <<";">>)
    [] p.op = "par" ->
         Brackets(parallelPrecedence < back, "[",
                  Separated([i \in DOMAIN p.subs |-> visit(p.subs[i], parallelPrecedence)], <<"||">>), "]")
    [] p.op \in {"nothing", "pause", "halt"} -> <<p.op>>
    [] p.op \in {"emit", "sustain", "exit"} -> <<p.op>> \o Name(p.id) \o Carried(p.test)
    [] p.op = "assign" -> Name(p.id) \o <<":=">> \o expression(p.test)
    [] p.op = "call" -> <<"call">> \o Call(p)
    [] p.op = "exec" -> visitExec(p, back)
    [] p.op = "present" -> visitPresent(p, back)
    [] p.op = "if" -> visitIf(p, back)
    [] p.op = "loop" -> statement("loop", p.subs[1], back) \o <<"end", "loop">>
    [] p.op = "repeat" ->
         Optional(p.weak, <<"positive">>) \o <<"repeat">> \o expression(p.test)
           \o statement("times", p.subs[1], back) \o <<"end", "repeat">>
    [] p.op = "abort" -> visitAbort(p, back)
    [] p.op = "await" -> visitAwait(p, back)
    [] p.op = "loopeach" -> statement("loop", Body(p), back) \o <<"each">> \o sigexpression(Pred(p))
    [] p.op = "every" ->
         <<"every">> \o sigexpression(Pred(p)) \o statement("do", Body(p), back) \o <<"end", "every">>
    [] p.op = "suspend" -> statement("suspend", Body(p), back) \o <<"when">> \o sigexpression(Pred(p))
    [] p.op = "watching" -> visitDoWatching(p, back)
    [] p.op = "upto" -> statement("do", Body(p), back) \o <<"upto">> \o sigexpression(Pred(p))
    [] p.op = "trap" -> visitTrap(p, back)
    [] p.op = "var" -> Scope("var", VarDecl, p, back) \o <<"end", "var">>
    [] p.op = "signal" -> Scope("signal", VarDecl, p, back) \o <<"end", "signal">>
    [] p.op = "run" -> visitRun(p)

module(m) ==
  <<"module", m.name, ":">>
    \o Table(m.types) \o Table(m.constants) \o Table(m.functions) \o Table(m.procedures)
    \o Table(m.tasks) \o Table(m.signals)
    \o Concat([i \in DOMAIN m.relations |-> Relation(m.relations[i])])
    \o visit(m.body, 0) \o <<"end", "module">>
modules(ms) == Concat([i \in DOMAIN ms |-> module(ms[i])])

(* The text, with blanks between the words.                                *)
Text(ms) == Separated(modules(ms), " ")

=============================================================================
