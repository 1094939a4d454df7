----------------------------- MODULE LLkParser -----------------------------
(***************************************************************************)
(* A parser that ANTLR generates, as a pushdown machine.  A frame is a rule*)
(* that has been called: what it still has to match and the tree it has    *)
(* built.  It looks at two tokens and never goes back, except from a guess:*)
(* a syntactic predicate is parsed without building a tree, and the parser *)
(* returns to where it began whether that worked or threw an exception.    *)
(***************************************************************************)
EXTENDS Grammars

CONSTANTS
  Rules,      \* what each rule matches
  Starts(_),  \* the tokens a sequence of elements can start with
  Start       \* the rule of a whole file

VARIABLES
  text,   \* the tokens the lexer delivers
  pos,    \* the next of them
  stack,  \* the rules that have been called
  marks,  \* the guesses that are being made
  verdict \* "parsing", "parsed" or "error"

parserVars == <<text, pos, stack, marks, verdict>>

LA(k) == IF pos + k - 1 <= Len(text) THEN text[pos + k - 1].t ELSE "EOF"
Frame(todo, tree) == [todo |-> todo, tree |-> tree]
Top == stack[Len(stack)]
Now == Head(Top.todo)
Guessing == marks # <<>>
Mark == marks[Len(marks)]

(* The lookahead fits: the test generated for a subrule.                   *)
Fits(es) ==
  /\ LA(1) \in Starts(es)
  /\ es[1].op = "peek" => LA(2) \in es[1].ahead

(* The rule being parsed goes on with todo and tree.                       *)
Becomes(todo, tree) == [stack EXCEPT ![Len(stack)] = Frame(todo, tree)]
GoesOn(todo) == stack' = Becomes(todo, Top.tree)
Continues(es) == GoesOn(es \o Tail(Top.todo))

Doing(ops) == verdict = "parsing" /\ Top.todo # <<>> /\ Now.op \in ops

-----------------------------------------------------------------------------

LLkInit ==
  /\ pos = 1 /\ marks = <<>> /\ verdict = "parsing"
  /\ stack = <<Frame(Rules[Start], Empty)>>

(* match, with the node for the token created before it.                   *)
Built(op, word) ==
  IF Guessing \/ op = "drop" THEN Top.tree
  ELSE IF op = "root" THEN makeASTRoot(Top.tree, Now.t, word)
  ELSE addASTChild(Top.tree, <<Tree(Now.t, word, <<>>)>>)
MatchToken ==
  /\ Doing(Matches) /\ LA(1) = Now.t
  /\ pos' = pos + 1
  /\ stack' = Becomes(Tail(Top.todo), Built(Now.op, IF LA(1) = "EOF" THEN "" ELSE text[pos].text))
  /\ UNCHANGED <<text, marks, verdict>>

CallRule ==
  /\ Doing({"rule"})
  /\ stack' = Append(Becomes(Tail(Top.todo), Top.tree), Frame(Rules[Now.t], Empty))
  /\ UNCHANGED <<text, pos, marks, verdict>>

(* A rule returns its tree, and its caller adds it to its own.             *)
Bottom == Guessing /\ Len(stack) = Mark.depth + 1
ReturnTree ==
  /\ verdict = "parsing" /\ Top.todo = <<>> /\ Len(stack) > 1 /\ ~Bottom
  /\ LET caller == stack[Len(stack) - 1]
     IN stack' = [SubSeq(stack, 1, Len(stack) - 1) EXCEPT
                    ![Len(stack) - 1].tree = IF Guessing THEN caller.tree
                                             ELSE addASTChild(caller.tree, Top.tree.nodes)]
  /\ UNCHANGED <<text, pos, marks, verdict>>

(* The first alternative whose test holds.                                 *)
ChooseAlternative ==
  /\ Doing({"alt"})
  /\ \E i \in DOMAIN Now.of :
       /\ Fits(Now.of[i]) /\ \A j \in 1..(i - 1) : ~Fits(Now.of[j])
       /\ Continues(Now.of[i])
  /\ UNCHANGED <<text, pos, marks, verdict>>

EnterSubrule ==
  /\ Doing({"opt", "star"}) /\ Fits(Now.of[1])
  /\ IF Now.op = "star" THEN GoesOn(Now.of[1] \o Top.todo) ELSE Continues(Now.of[1])
  /\ UNCHANGED <<text, pos, marks, verdict>>
LeaveSubrule ==
  /\ \/ Doing({"opt", "star"}) /\ ~Fits(Now.of[1])
     \/ Doing({"peek"})
  /\ Continues(<<>>)
  /\ UNCHANGED <<text, pos, marks, verdict>>

WrapTree ==
  /\ Doing({"wrap", "gather"})
  /\ stack' = Becomes(Tail(Top.todo),
                      IF Guessing \/ (Now.op = "gather" /\ Len(Top.tree.nodes) < 2) THEN Top.tree
                      ELSE makeASTRoot(Top.tree, Now.t, Now.t))
  /\ UNCHANGED <<text, pos, marks, verdict>>

-----------------------------------------------------------------------------
(* Guesses and errors.                                                     *)

(* The test before a guess also looks at the second token; a guess it would*)
(* have skipped fails at that token.                                       *)
StartGuess ==
  /\ Doing({"try"}) /\ Fits(Now.of[1])
  /\ marks' = Append(marks, [depth |-> Len(stack), at |-> pos])
  /\ stack' = Append(stack, Frame(Now.of[1], Empty))
  /\ UNCHANGED <<text, pos, verdict>>
SkipGuess ==
  /\ Doing({"try"}) /\ ~Fits(Now.of[1])
  /\ Continues(Now.of[3])
  /\ UNCHANGED <<text, pos, marks, verdict>>

Rewind_Short(branch) ==  \* a mutant: the mark is one token before the guess
  LET d == Mark.depth
      f == stack[d]
  IN /\ stack' = [SubSeq(stack, 1, d) EXCEPT ![d].todo = Head(f.todo).of[branch] \o Tail(f.todo)]
     /\ marks' = SubSeq(marks, 1, Len(marks) - 1)
     /\ pos' = Mark.at - 1
     /\ UNCHANGED <<text, verdict>>
Rewind_Again(branch) ==  \* a mutant: the guess is not taken off what is to be matched
  LET d == Mark.depth
  IN /\ stack' = SubSeq(stack, 1, d)
     /\ marks' = SubSeq(marks, 1, Len(marks) - 1)
     /\ pos' = Mark.at
     /\ UNCHANGED <<text, verdict>>

(* rewind, and what the rule that guessed goes on with: an exception has   *)
(* left every rule called since.                                           *)
Rewind(branch) ==
  LET d == Mark.depth
      f == stack[d]
  IN /\ stack' = [SubSeq(stack, 1, d) EXCEPT ![d].todo = Head(f.todo).of[branch] \o Tail(f.todo)]
     /\ marks' = SubSeq(marks, 1, Len(marks) - 1)
     /\ pos' = Mark.at
     /\ UNCHANGED <<text, verdict>>

GuessSucceeds_Keeps ==  \* a mutant: the guess is taken for the parse
  /\ verdict = "parsing" /\ Bottom /\ Top.todo = <<>>
  /\ stack' = [SubSeq(stack, 1, Mark.depth) EXCEPT ![Mark.depth].todo = Tail(stack[Mark.depth].todo)]
  /\ marks' = SubSeq(marks, 1, Len(marks) - 1)
  /\ UNCHANGED <<text, pos, verdict>>
GuessSucceeds == verdict = "parsing" /\ Bottom /\ Top.todo = <<>> /\ Rewind(2)

(* MismatchedTokenException and NoViableAltException.                      *)
Stuck ==
  \/ Doing(Matches) /\ LA(1) # Now.t
  \/ Doing({"alt"}) /\ \A i \in DOMAIN Now.of : ~Fits(Now.of[i])
GuessFails == Guessing /\ Stuck /\ Rewind(3)

ThrowError ==
  /\ ~Guessing /\ Stuck
  /\ verdict' = "error"
  /\ UNCHANGED <<text, pos, stack, marks>>

Finish ==
  /\ verdict = "parsing" /\ Top.todo = <<>> /\ Len(stack) = 1
  /\ verdict' = "parsed"
  /\ UNCHANGED <<text, pos, stack, marks>>

LLkNext ==
  \/ MatchToken \/ CallRule \/ ReturnTree \/ ChooseAlternative
  \/ EnterSubrule \/ LeaveSubrule \/ WrapTree
  \/ StartGuess \/ SkipGuess \/ GuessSucceeds \/ GuessFails
  \/ ThrowError \/ Finish

getAST == stack[1].tree.nodes

LLkSpec == LLkInit /\ [][LLkNext]_parserVars

-----------------------------------------------------------------------------
(* Properties.                                                             *)

(* A guess leaves no trace: while one is made no tree of a rule called     *)
(* before it grows, and the parser does not go back beyond its beginning.  *)
NoTrace ==
  [][Guessing => /\ pos' >= marks[1].at
                 /\ \A i \in 1..marks[1].depth : stack'[i].tree = stack[i].tree]_parserVars

=============================================================================
