------------------------------- MODULE Front --------------------------------
(***************************************************************************)
(* The front end: cec-strlxml reads a file, parses it and builds its       *)
(* modules; cec-expandmodules may replace their run statements;            *)
(* cec-xmlstrl prints them; and the text it prints is read again.          *)
(***************************************************************************)
EXTENDS LLkParser

LOCAL INSTANCE FiniteSets
LOCAL INSTANCE SequencesExt

Static == INSTANCE EsterelTreeParser
Printer == INSTANCE EsterelPrinter
Expander == INSTANCE ExpandModules
Scope == INSTANCE Scoping
Inline == INSTANCE Inlining

CONSTANT Sources  \* the files to read

VARIABLES
  source, \* the characters of the file
  next,   \* the next of them
  phase,  \* "lexing", "parsing", "printing" or "done"
  read    \* the modules of the file, expanded, and of the text printed for them

frontVars == <<source, next, text, pos, stack, marks, verdict, phase, read>>

Lexer == INSTANCE EsterelLexer

-----------------------------------------------------------------------------

FrontInit ==
  /\ source \in Sources /\ next = 1 /\ text = <<>>
  /\ LLkInit
  /\ phase = "lexing" /\ read = <<>>

Lexes == phase = "lexing" /\ Lexer!nextToken /\ UNCHANGED <<pos, stack, marks, verdict, phase, read>>

(* At the end of the file, or at a character no token starts with.         *)
LexerStops ==
  /\ phase = "lexing" /\ ~ENABLED Lexer!nextToken
  /\ IF Lexer!At(next) = "EOF" THEN phase' = "parsing" /\ UNCHANGED verdict
     ELSE phase' = "done" /\ verdict' = "error"
  /\ UNCHANGED <<source, next, text, pos, stack, marks, read>>

Parses == phase = "parsing" /\ LLkNext /\ UNCHANGED <<source, next, phase, read>>
Printed == read # <<>>
Builds ==
  /\ phase = "parsing" /\ verdict # "parsing"
  /\ LET ms == IF verdict = "parsed" THEN Static!file(getAST) ELSE <<>>
     IN /\ read' = Append(read, ms)
        /\ phase' = IF ms = <<>> \/ Printed THEN "done" ELSE "printing"
  /\ UNCHANGED <<source, next, text, pos, stack, marks, verdict>>

(* The program ends without a result if a run has an error.                *)
Expanding(ms) ==
  IF ms = <<>> THEN read' = <<>> /\ phase' = "done" ELSE read' = Append(read, ms) /\ UNCHANGED phase
Expands ==
  /\ phase = "printing" /\ Len(read) = 1
  /\ Expanding(Expander!find_roots_and_rewrite(read[1]))
  /\ UNCHANGED <<source, next, text, pos, stack, marks, verdict>>

Prints ==
  /\ phase = "printing"
  /\ source' = Printer!Text(Last(read)) /\ next' = 1 /\ text' = <<>>
  /\ pos' = 1 /\ marks' = <<>> /\ verdict' = "parsing"
  /\ stack' = <<Frame(Rules[Start], Empty)>>
  /\ phase' = "lexing" /\ UNCHANGED read

Ended == phase = "done" /\ UNCHANGED frontVars

FrontNext == Lexes \/ LexerStops \/ Parses \/ Builds \/ Expands \/ Prints \/ Ended
(* The program runs until it is done: WF_frontVars(FrontNext), as only then*)
(* no step but Ended is possible, written without the ENABLED of a step    *)
(* that walks a whole tree.                                                *)
Runs == []<>(phase = "done") \/ []<><<FrontNext>>_frontVars
FrontSpec == FrontInit /\ [][FrontNext]_frontVars /\ Runs

-----------------------------------------------------------------------------
(* Properties.                                                             *)

Accepted == read # <<>> /\ read[1] # <<>>

(* The expressions of a statement, of a list of symbols and of a module.   *)
Inits(symbols) == {symbols[i].init : i \in DOMAIN symbols}
RECURSIVE Expressions(_)
Expressions(p) ==
  LET OfCase(k) == {k.when.pred, k.when.count} \cup Expressions(k.do)
      cases ==
        CASE p.op = "task" -> {}
          [] p.op = "exec" -> UNION {Expressions(p.cases[i]) : i \in DOMAIN p.cases}
          [] p.op = "run" -> {p.cases[i].new : i \in DOMAIN p.cases}
          [] OTHER -> UNION {OfCase(p.cases[i]) : i \in DOMAIN p.cases}
  IN {p.test} \cup cases \cup UNION {Expressions(p.subs[i]) : i \in DOMAIN p.subs}
       \cup (IF p.op \in {"signal", "trap", "var"} THEN Inits(p.names) ELSE {})
ModuleExpressions(m) == Inits(m.constants) \cup Inits(m.signals) \cup Expressions(m.body)

(* The expressions of which the printer writes all brackets that the       *)
(* grammar needs.  It compares levels with <, and for operators with two   *)
(* operands only: it leaves out those of a right operand of the level of   *)
(* its operator, x - (y - z), and those of a negation that is an operand   *)
(* of another operator than "and" and "or", (not a) = b and not (not a).   *)
Levels ==
  {{"or"}, {"and"}, {"=", "<>", "<", ">", "<=", ">="}, {"+", "-"}, {"*", "/", "mod"}}
Alike(e, f) == \E l \in Levels : {e.op, f.op} \subseteq l /\ Len(e.args) = 2 /\ Len(f.args) = 2
RECURSIVE Legible(_)
Legible(e) ==
  /\ \A i \in DOMAIN e.args : Legible(e.args[i])
  /\ \A i \in DOMAIN e.args \ {1} : ~Alike(e, e.args[i])
  /\ e.op \in ((UNION Levels) \ {"or", "and"}) \cup {"not"} =>
       \A i \in DOMAIN e.args : e.args[i].op # "not"

(* The text printed for a program is a program, and the same one, but for  *)
(* the brackets of a sequence in a sequence and the names of counters.     *)
(* This is of programs whose expressions are legible; and in which, after  *)
(* an expansion, no local name hides what the actual of a renaming means.  *)
Plain(ms) == [i \in DOMAIN ms |-> Inline!Plain(ms[i])]
Same == Plain(Last(read)) = Plain(read[Len(read) - 1])
Printable(m) == Scope!ModuleBound(m) /\ \A e \in ModuleExpressions(m) : Legible(e)
RoundTrip ==
  phase = "done" /\ Accepted =>
    LET printed == read[Len(read) - 1]
    IN (\A i \in DOMAIN printed : Printable(printed[i])) => Same

(* "Highest: parenthesis never needed" (EsterelPrinter.cpp:946): a program *)
(* with unary operators reads as the same program when it is printed.      *)
NeverNeeded == phase = "done" /\ Accepted => Same

(* Every use of a signal, trap or variable refers to the symbol of that    *)
(* name that the innermost scope around it declares.  That of a variable's *)
(* initializer is the scope around the declaration; in that of a local     *)
(* signal or trap those before it in its list are declared already.        *)
Bound == phase = "printing" => \A i \in DOMAIN Last(read) : Scope!ModuleBound(Last(read)[i])

(* What cec-expandmodules makes of a module means what the module does: the*)
(* body of what is run, with what it is given for its names, stands in the *)
(* place of each run; and no two of its statements share a counter.        *)
Expanded == phase = "printing" /\ Len(read) = 2
Inlines ==
  Expanded =>
    \A i \in DOMAIN read[2] : \E j \in DOMAIN read[1] :
      /\ read[1][j].name = read[2][i].name
      /\ Inline!Plain(read[2][i]).body = Inline!Meaning(read[1][j], read[1])
      /\ Inline!OwnCounters(read[2][i].body)

(* The tree holds the names and numbers of the file, once each and in its  *)
(* order: whatever was parsed twice, as a guess, has been built once.      *)
Named == {"ID", "Integer", "FloatConst", "DoubleConst", "StringConstant"}
RECURSIVE Leaves(_)
Leaves(ts) ==
  IF ts = <<>> THEN <<>>
  ELSE LET t == ts[1]
       IN (IF t.t \in Named THEN <<Token(t.t, t.text)>> ELSE Leaves(t.kids)) \o Leaves(Tail(ts))
KeepsWords ==
  phase = "parsing" /\ verdict = "parsed" =>
    Leaves(getAST) = SelectSeq(text, LAMBDA token : token.t \in Named)

(* Every file is refused or read, printed and read again.                  *)
FrontEnds == <>(phase = "done")

=============================================================================
