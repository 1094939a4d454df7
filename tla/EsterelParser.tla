--------------------------- MODULE EsterelParser ---------------------------
(***************************************************************************)
(* The grammar of Esterel, one definition for each rule function of the    *)
(* generated parser.  A keyword or punctuation mark is the type of its     *)
(* token; ID, Integer, FloatConst, DoubleConst and StringConstant have a   *)
(* text besides.                                                           *)
(***************************************************************************)
EXTENDS Grammars

List(es) == es \o <<Star(<<Drop(",")>> \o es)>>
Just(r) == <<Rule(r)>>
Infix(operand, ops) == <<Rule(operand), Star(<<Alt([i \in DOMAIN ops |-> <<Root(ops[i])>>]), Rule(operand)>>)>>
Words(ws) == <<Alt([i \in DOMAIN ws |-> <<Tok(ws[i])>>])>>
Closing(word) == <<Drop("end"), Opt(<<Drop(word)>>)>>

-----------------------------------------------------------------------------
(* Modules and their interfaces.                                           *)

file == Plus(Just("module")) \o <<Drop("EOF")>>
module ==
  <<Root("module"), Rule("moduleIdentifier"), Drop(":"), Rule("declarations"), Rule("statement"),
    Alt(<<<<Drop("end"), Drop("module")>>, <<Drop(".")>>>>)>>

declarations == <<Star(Just("interfaceDecls")), Wrap("DECLS")>>
interfaceDecls ==
  <<Alt(<<Just("typeDecls"), Just("constantDecls"), Just("functionDecls"),
          Just("procedureDecls"), Just("taskDecls"), Just("interfacesignalDecls"),
          Just("sensorDecls"), Just("relationDecls")>>)>>

Declares(word, r) == <<Root(word)>> \o List(Just(r)) \o <<Drop(";")>>
typeDecls == Declares("type", "typeIdentifier")
constantDecls == Declares("constant", "constantDecl")
functionDecls == Declares("function", "functionDecl")
procedureDecls == Declares("procedure", "procedureDecl")
taskDecls == Declares("task", "taskDecl")
interfacesignalDecls ==
  <<Alt(<<Declares("input", "signalDecl"), Declares("output", "signalDecl"),
          Declares("inputoutput", "signalDecl"), Declares("return", "signalDecl")>>)>>
sensorDecls == Declares("sensor", "sensorDecl")
relationDecls == Declares("relation", "relationDecl")

constantDecl ==
  <<Alt(<<<<Peek({":", "="}), Rule("constantIdentifier"), Opt(Just("constantInitializer"))>>,
          <<Peek({","}), Rule("identifierList")>>>>),
    Drop(":"), Rule("typeIdentifier"), Wrap("CDECL")>>
constantInitializer == <<Root("="), Rule("constantAtom")>>
identifierList == <<Tok("ID"), Root(","), Tok("ID"), Star(<<Drop(","), Tok("ID")>>)>>

functionDecl ==
  <<Rule("functionIdentifier"), Rule("optTypeIdentifierList"), Drop(":"), Rule("typeIdentifier"),
    Wrap("FDECL")>>
optTypeIdentifierList ==
  <<Drop("("), Opt(List(Just("typeIdentifier"))), Drop(")"), Wrap("TYPES")>>
procedureDecl ==
  <<Rule("procedureIdentifier"), Rule("optTypeIdentifierList"), Rule("optTypeIdentifierList"),
    Wrap("PDECL")>>
taskDecl ==
  <<Rule("taskIdentifier"), Rule("optTypeIdentifierList"), Rule("optTypeIdentifierList"),
    Wrap("TADECL")>>

signalDeclList == List(Just("signalDecl")) \o <<Wrap("SIGS")>>
signalDecl ==
  <<Rule("signalIdentifier"),
    Opt(<<Alt(<<<<Opt(Just("signalInitializer")), Drop(":"), Rule("channelType")>>,
                <<Drop("("), Rule("channelType"), Drop(")")>>>>)>>),
    Wrap("SDECL")>>
signalInitializer == <<Root(":="), Rule("expression")>>
channelType ==
  <<Alt(<<Just("typeIdentifier"),
          <<Drop("combine"), Rule("typeIdentifier"), Drop("with"),
            Alt(<<Just("functionIdentifier"), Just("predefinedCombineFunction")>>)>>>>)>>
predefinedCombineFunction == Words(<<"+", "*", "or", "and">>)
sensorDecl ==
  <<Rule("sensorIdentifier"),
    Alt(<<<<Drop(":"), Rule("typeIdentifier")>>, <<Drop("("), Rule("typeIdentifier"), Drop(")")>>>>),
    Wrap("SDECL")>>

relationDecl ==
  <<Alt(<<<<Peek({"=>"}), Rule("implicationDecl")>>, <<Peek({"#"}), Rule("exclusionDecl")>>>>)>>
implicationDecl == <<Rule("signalIdentifier"), Root("=>"), Rule("signalIdentifier")>>
exclusionDecl ==
  <<Rule("signalIdentifier"), Root("#"), Rule("signalIdentifier"),
    Star(<<Drop("#"), Rule("signalIdentifier")>>)>>

-----------------------------------------------------------------------------
(* Expressions of data, signals, delays and traps.                         *)

expression == Just("orexpr")
orexpr == Infix("andexpr", <<"or">>)
andexpr == Infix("notexpr", <<"and">>)
notexpr == <<Alt(<<<<Root("not"), Rule("cmpexpr")>>, Just("cmpexpr")>>)>>
cmpexpr == Infix("addexpr", <<"=", "<>", "<", ">", "<=", ">=">>)
addexpr == Infix("mulexpr", <<"+", "-">>)
mulexpr == Infix("unaryexpr", <<"*", "/", "mod">>)
unaryexpr ==
  <<Alt(<<<<Root("-"), Rule("unaryexpr")>>,
          <<Drop("("), Rule("expression"), Drop(")")>>,
          <<Root("?"), Rule("signalIdentifier")>>,
          <<Root("pre"), Drop("("), Drop("?"), Rule("signalIdentifier"), Drop(")")>>,
          <<Root("??"), Rule("trapIdentifier")>>,
          <<Peek({"("}), Rule("functionCall")>>,
          Just("constant")>>)>>
functionCall ==
  <<Rule("functionIdentifier"), Drop("("), Opt(List(Just("expression"))), Drop(")"), Wrap("CALL")>>

constant == <<Alt(<<Just("constantLiteral"), Just("unsignedNumber")>>)>>
constantLiteral ==
  <<Alt(<<Just("constantIdentifier"), <<Tok("true")>>, <<Tok("false")>>, Just("stringConstant")>>)>>
constantAtom == <<Alt(<<Just("constantLiteral"), Just("signedNumber")>>)>>
signedNumber == <<Alt(<<Just("unsignedNumber"), <<Root("-"), Rule("unsignedNumber")>>>>)>>
unsignedNumber == Words(<<"Integer", "FloatConst", "DoubleConst">>)
stringConstant == <<Tok("StringConstant")>>

signalExpression == Infix("sandexpr", <<"or">>)
sandexpr == Infix("sunaryexpr", <<"and">>)
sunaryexpr ==
  <<Alt(<<Just("signalIdentifier"),
          <<Root("pre"), Drop("("), Rule("signalIdentifier"), Drop(")")>>,
          <<Root("not"), Rule("sunaryexpr")>>,
          <<Drop("("), Rule("signalExpression"), Drop(")")>>>>)>>

delayExpression ==
  <<IfParses(<<Rule("expression"), Rule("bracketedSignalExpression")>>,
             Just("delayPair"),
             <<Alt(<<Just("bracketedSignalExpression"),
                     <<Root("immediate"), Rule("bracketedSignalExpression")>>>>)>>)>>
delayPair == <<Rule("expression"), Rule("bracketedSignalExpression"), Wrap("DELAY")>>
bracketedSignalExpression ==
  <<Alt(<<Just("signalIdentifier"), <<Drop("["), Rule("signalExpression"), Drop("]")>>>>)>>

trapEvent == Infix("eand", <<"or">>)
eand == Infix("eunary", <<"and">>)
eunary ==
  <<Alt(<<Just("trapIdentifier"), <<Drop("("), Rule("trapEvent"), Drop(")")>>,
          <<Root("not"), Rule("eunary")>>>>)>>

-----------------------------------------------------------------------------
(* Statements.                                                             *)

(* The tokens a statement can start with.                                  *)
AtomStarts ==
  {"ID", "[", "nothing", "pause", "halt", "emit", "sustain", "call", "present", "do", "if",
   "positive", "repeat", "abort", "weak", "await", "loop", "every", "suspend", "trap", "exit",
   "exec", "signal", "var", "run", "copymodule"}

statement == <<Rule("sequence"), Star(<<Drop("||"), Rule("sequence")>>), Gather("||")>>
(* A semicolon that no statement follows ends the sequence.                *)
sequence ==
  <<Rule("atomicStatement"),
    Star(<<Peek(AtomStarts), Drop(";"), Rule("atomicStatement")>>),
    Opt(<<Drop(";")>>), Gather(";")>>
atomicStatement ==
  <<Alt(<<<<Root("nothing")>>, <<Root("pause")>>, <<Root("halt")>>,
          Just("emit"), Just("sustain"), Just("assignment"), Just("procedureCall"),
          Just("present"), Just("ifstatement"), Just("loop"), Just("repeat"),
          Just("abort"), Just("await"), Just("every"), Just("suspend"), Just("trap"),
          Just("exit"), Just("exec"), Just("localvariableDecl"), Just("localSignalDecl"),
          Just("runModule"), <<Drop("["), Rule("statement"), Drop("]")>>, Just("doStatements")>>)>>

Valued == Opt(<<Drop("("), Rule("expression"), Drop(")")>>)
emit == <<Root("emit"), Rule("signalIdentifier"), Valued>>
sustain == <<Root("sustain"), Rule("signalIdentifier"), Valued>>
exit == <<Root("exit"), Rule("trapIdentifier"), Valued>>
assignment == <<Rule("variableIdentifier"), Root(":="), Rule("expression")>>
procedureCall == <<Root("call"), Rule("procedureIdentifier"), Rule("refArgs"), Rule("valueArgs")>>
refArgs == <<Drop("("), Opt(List(Just("variableIdentifier"))), Drop(")"), Wrap("VARS")>>
valueArgs == <<Drop("("), Opt(List(Just("expression"))), Drop(")"), Wrap("ARGS")>>

Then(word) == Opt(<<Drop(word), Rule("statement")>>)
present ==
  <<Root("present"), Alt(<<Just("presentThenPart"), Plus(Just("presentCase"))>>),
    Opt(Just("elsePart"))>> \o Closing("present")
presentThenPart == <<Rule("presentEvent"), Then("then"), Wrap("CASE")>>
presentEvent ==
  <<Alt(<<Just("signalExpression"), <<Drop("["), Rule("signalExpression"), Drop("]")>>>>)>>
elsePart == <<Root("else"), Rule("statement")>>
presentCase == <<Drop("case"), Rule("presentEvent"), Then("do"), Wrap("CASE")>>

ifstatement ==
  <<Root("if"), Rule("expression"), Opt(Just("thenPart")), Star(Just("elsif")),
    Opt(Just("elsePart"))>> \o Closing("if")
thenPart == <<Root("then"), Rule("statement")>>
elsif == <<Root("elsif"), Rule("expression"), Drop("then"), Rule("statement")>>

loop ==
  <<Root("loop"), Rule("statement"), Alt(<<Closing("loop"), <<Drop("each"), Rule("delayExpression")>>>>)>>
repeat ==
  <<Opt(<<Tok("positive")>>), Root("repeat"), Rule("expression"), Drop("times"), Rule("statement")>>
    \o Closing("repeat")

(* The words that end several cases are kept in the tree, those that end   *)
(* one are not.                                                            *)
abort ==
  <<Alt(<<<<Root("abort"), Rule("statement"), Drop("when"),
            Alt(<<Just("abortOneCaseStrong"),
                  Plus(Just("acase")) \o <<Tok("end"), Opt(<<Tok("abort")>>)>>>>)>>,
          <<Tok("weak"), Root("abort"), Rule("statement"), Drop("when"),
            Alt(<<Just("abortOneCaseWeak"),
                  Plus(Just("acase")) \o
                    <<Tok("end"), Opt(<<Opt(<<Tok("weak")>>), Tok("abort")>>)>>>>)>>>>)>>
Does(ending) == <<Opt(<<Drop("do"), Rule("statement"), Drop("end")>> \o ending), Wrap("CASE")>>
abortOneCaseStrong == <<Rule("delayExpression")>> \o Does(<<Opt(<<Drop("abort")>>)>>)
abortOneCaseWeak ==
  <<Rule("delayExpression")>> \o Does(<<Opt(<<Opt(<<Drop("weak")>>), Drop("abort")>>)>>)
acase == <<Drop("case"), Rule("delayExpression"), Then("do"), Wrap("CASE")>>

await ==
  <<Root("await"), Alt(<<Just("awaitOneCase"), Plus(Just("acase")) \o Closing("await")>>)>>
awaitOneCase == <<Rule("delayExpression")>> \o Does(<<Opt(<<Drop("await")>>)>>)
every == <<Root("every"), Rule("delayExpression"), Drop("do"), Rule("statement")>> \o Closing("every")
suspend == <<Root("suspend"), Rule("statement"), Drop("when"), Rule("delayExpression")>>

trap ==
  <<Root("trap"), Rule("trapDeclList"), Drop("in"), Rule("statement"), Star(Just("trapHandler"))>>
    \o Closing("trap")
trapDeclList == List(Just("trapDecl")) \o <<Wrap("TRAPS")>>
trapDecl ==
  <<Rule("trapIdentifier"), Opt(<<Opt(Just("trapInitializer")), Drop(":"), Rule("channelType")>>),
    Wrap("TDECL")>>
trapInitializer == <<Root(":="), Rule("expression")>>
trapHandler == <<Root("handle"), Rule("trapEvent"), Drop("do"), Rule("statement")>>

exec ==
  <<Alt(<<<<Peek({"ID"}), Root("exec"), Rule("execOneCase")>>,
          <<Peek({"case"}), Root("exec")>> \o Plus(Just("execCase")) \o Closing("exec")>>)>>
Executes ==
  <<Rule("taskIdentifier"), Rule("refArgs"), Rule("valueArgs"), Drop("return"), Rule("signalIdentifier")>>
execOneCase == Executes \o Does(<<Opt(<<Drop("exec")>>)>>)
execCase == <<Drop("case")>> \o Executes \o <<Then("do"), Wrap("CASE")>>

localSignalDecl ==
  <<Root("signal"), Rule("signalDeclList"), Drop("in"), Rule("statement")>> \o Closing("signal")
localvariableDecl ==
  <<Root("var"), Rule("variableDeclList"), Drop("in"), Rule("statement")>> \o Closing("var")
variableDeclList == List(Just("variableDecls")) \o <<Wrap("VARS")>>
variableDecls == <<Rule("variableDeclList2"), Root(":"), Rule("typeIdentifier")>>
variableDeclList2 == List(Just("variableDecl")) \o <<Wrap("VARS")>>
variableDecl == <<Rule("variableIdentifier"), Opt(Just("variableInitializer")), Wrap("VDECL")>>
variableInitializer == <<Root(":="), Rule("expression")>>

runModule ==
  <<Alt(<<<<Drop("run")>>, <<Drop("copymodule")>>>>), Rule("moduleIdentifier"),
    Opt(<<Drop("/"), Rule("moduleIdentifier")>>),
    Opt(<<Drop("["), Rule("renaming"), Star(<<Drop(";"), Rule("renaming")>>), Drop("]")>>),
    Wrap("RUN")>>
renaming ==
  LET Renames(word, r) == <<Drop(word)>> \o List(Just(r))
  IN <<Alt(<<Renames("type", "typeRenaming"), Renames("constant", "constantRenaming"),
             Renames("function", "functionRenaming"), Renames("procedure", "procedureRenaming"),
             Renames("task", "taskRenaming"), Renames("signal", "signalRenaming")>>)>>
Renaming(new, old, k) == <<Rule(new), Drop("/"), Rule(old), Wrap(k)>>
typeRenaming == Renaming("typeIdentifier", "typeIdentifier", "TRENAME")
constantRenaming == Renaming("constantAtom", "constantIdentifier", "CRENAME")
functionRenaming ==
  <<Alt(<<<<Rule("functionIdentifier"), Drop("/"), Rule("functionIdentifier")>>,
          <<Rule("predefinedFunction"), Drop("/"), Rule("functionIdentifier")>>>>),
    Wrap("FRENAME")>>
predefinedFunction ==
  Words(<<"and", "or", "not", "+", "-", "*", "/", "mod", "<", ">", "<=", ">=", "<>", "=">>)
procedureRenaming == Renaming("procedureIdentifier", "procedureIdentifier", "PRENAME")
taskRenaming == Renaming("taskIdentifier", "taskIdentifier", "TARENAME")
signalRenaming == Renaming("signalIdentifier", "signalIdentifier", "SRENAME")

(* Deprecated statements.                                                  *)
doStatements ==
  <<Drop("do"), Rule("statement"),
    Alt(<<<<Drop("watching"), Rule("delayExpression"),
            Opt(<<Drop("timeout"), Rule("statement")>> \o Closing("timeout")), Wrap("DOWATCHING")>>,
          <<Drop("upto"), Rule("delayExpression"), Wrap("DOUPTO")>>>>)>>

-----------------------------------------------------------------------------

typeIdentifier == <<Tok("ID")>>
signalIdentifier == <<Tok("ID")>>
sensorIdentifier == <<Tok("ID")>>
trapIdentifier == <<Tok("ID")>>
constantIdentifier == <<Tok("ID")>>
functionIdentifier == <<Tok("ID")>>
variableIdentifier == <<Tok("ID")>>
procedureIdentifier == <<Tok("ID")>>
taskIdentifier == <<Tok("ID")>>
moduleIdentifier == <<Tok("ID")>>
-----------------------------------------------------------------------------
(* All rules by name, and the tokens a sequence of elements can start with.*)

Grammar ==
  [file |-> file, module |-> module, declarations |-> declarations,
   interfaceDecls |-> interfaceDecls, typeDecls |-> typeDecls,
   constantDecls |-> constantDecls, functionDecls |-> functionDecls,
   procedureDecls |-> procedureDecls, taskDecls |-> taskDecls,
   interfacesignalDecls |-> interfacesignalDecls, sensorDecls |-> sensorDecls,
   relationDecls |-> relationDecls, constantDecl |-> constantDecl,
   constantInitializer |-> constantInitializer, identifierList |-> identifierList,
   functionDecl |-> functionDecl, optTypeIdentifierList |-> optTypeIdentifierList,
   procedureDecl |-> procedureDecl, taskDecl |-> taskDecl, signalDeclList |-> signalDeclList,
   signalDecl |-> signalDecl, signalInitializer |-> signalInitializer,
   channelType |-> channelType, predefinedCombineFunction |-> predefinedCombineFunction,
   sensorDecl |-> sensorDecl, relationDecl |-> relationDecl,
   implicationDecl |-> implicationDecl, exclusionDecl |-> exclusionDecl,
   expression |-> expression, orexpr |-> orexpr, andexpr |-> andexpr, notexpr |-> notexpr,
   cmpexpr |-> cmpexpr, addexpr |-> addexpr, mulexpr |-> mulexpr, unaryexpr |-> unaryexpr,
   functionCall |-> functionCall, constant |-> constant, constantLiteral |-> constantLiteral,
   constantAtom |-> constantAtom, signedNumber |-> signedNumber,
   unsignedNumber |-> unsignedNumber, stringConstant |-> stringConstant,
   signalExpression |-> signalExpression, sandexpr |-> sandexpr, sunaryexpr |-> sunaryexpr,
   delayExpression |-> delayExpression, delayPair |-> delayPair,
   bracketedSignalExpression |-> bracketedSignalExpression, trapEvent |-> trapEvent,
   eand |-> eand, eunary |-> eunary, statement |-> statement, sequence |-> sequence,
   atomicStatement |-> atomicStatement, emit |-> emit, sustain |-> sustain, exit |-> exit,
   assignment |-> assignment, procedureCall |-> procedureCall, refArgs |-> refArgs,
   valueArgs |-> valueArgs, present |-> present, presentThenPart |-> presentThenPart,
   presentEvent |-> presentEvent, elsePart |-> elsePart, presentCase |-> presentCase,
   ifstatement |-> ifstatement, thenPart |-> thenPart, elsif |-> elsif, loop |-> loop,
   repeat |-> repeat, abort |-> abort, abortOneCaseStrong |-> abortOneCaseStrong,
   abortOneCaseWeak |-> abortOneCaseWeak, acase |-> acase, await |-> await,
   awaitOneCase |-> awaitOneCase, every |-> every, suspend |-> suspend, trap |-> trap,
   trapDeclList |-> trapDeclList, trapDecl |-> trapDecl, trapInitializer |-> trapInitializer,
   trapHandler |-> trapHandler, exec |-> exec, execOneCase |-> execOneCase,
   execCase |-> execCase, localSignalDecl |-> localSignalDecl,
   localvariableDecl |-> localvariableDecl, variableDeclList |-> variableDeclList,
   variableDecls |-> variableDecls, variableDeclList2 |-> variableDeclList2,
   variableDecl |-> variableDecl, variableInitializer |-> variableInitializer,
   runModule |-> runModule, renaming |-> renaming, typeRenaming |-> typeRenaming,
   constantRenaming |-> constantRenaming, functionRenaming |-> functionRenaming,
   predefinedFunction |-> predefinedFunction, procedureRenaming |-> procedureRenaming,
   taskRenaming |-> taskRenaming, signalRenaming |-> signalRenaming,
   doStatements |-> doStatements, typeIdentifier |-> typeIdentifier,
   signalIdentifier |-> signalIdentifier, sensorIdentifier |-> sensorIdentifier,
   trapIdentifier |-> trapIdentifier, constantIdentifier |-> constantIdentifier,
   functionIdentifier |-> functionIdentifier, variableIdentifier |-> variableIdentifier,
   procedureIdentifier |-> procedureIdentifier, taskIdentifier |-> taskIdentifier,
   moduleIdentifier |-> moduleIdentifier]

RECURSIVE Nullable(_)
Nullable(e) ==
  \/ e.op \in Always
  \/ e.op = "rule" /\ \A i \in DOMAIN Grammar[e.t] : Nullable(Grammar[e.t][i])

RECURSIVE First(_)
First(es) ==
  IF es = <<>> THEN {}
  ELSE LET e == Head(es)
           here == IF e.op \in Matches THEN {e.t}
                   ELSE IF e.op = "rule" THEN First(Grammar[e.t])
                   ELSE UNION {First(e.of[i]) : i \in DOMAIN e.of}
       IN IF Nullable(e) THEN here \cup First(Tail(es)) ELSE here

=============================================================================
