---------------------------- MODULE EsterelLexer ----------------------------
(***************************************************************************)
(* The lexer of Esterel: a state machine that cuts the source into tokens, *)
(* one action for each rule of the generated lexer.  It looks at two       *)
(* characters.  The type of a keyword or punctuation mark is its text.     *)
(* The parser pulls tokens as it needs them; a model that delivers them    *)
(* first differs only in which of two errors in a file is reported.        *)
(***************************************************************************)
EXTENDS Grammars

LOCAL INSTANCE SequencesExt
LOCAL INSTANCE FiniteSets

VARIABLES
  source,  \* the characters of the file
  next,    \* the next of them
  text     \* the tokens so far

lexVars == <<source, next, text>>

Letters ==
  {"a", "b", "c", "d", "e", "f", "g", "h", "i", "j", "k", "l", "m",
   "n", "o", "p", "q", "r", "s", "t", "u", "v", "w", "x", "y", "z",
   "A", "B", "C", "D", "E", "F", "G", "H", "I", "J", "K", "L", "M",
   "N", "O", "P", "Q", "R", "S", "T", "U", "V", "W", "X", "Y", "Z"}
Digits == {"0", "1", "2", "3", "4", "5", "6", "7", "8", "9"}
Newlines == {"\n", "\r"}
Blanks == {" ", "\t", "\f"}
Quote == "\""

Singles ==
  {"#", "+", "-", "/", "*", ",", ";", "(", ")", "[", "]", ".", "<", ">", "=", ":", "?"}
Doubles == {"||", ":=", "??", "<=", ">=", "<>", "=>"}
Literals ==
  {"abort", "and", "await", "call", "case", "combine", "constant", "copymodule", "do", "each",
   "else", "elsif", "emit", "end", "every", "exec", "exit", "false", "function", "halt", "handle",
   "if", "immediate", "in", "input", "inputoutput", "loop", "mod", "module", "not", "nothing",
   "or", "output", "pause", "positive", "pre", "present", "procedure", "relation", "repeat",
   "return", "run", "sensor", "signal", "suspend", "sustain", "task", "then", "timeout", "times",
   "trap", "true", "type", "upto", "var", "watching", "weak", "when", "with"}

-----------------------------------------------------------------------------

At(i) == IF i <= Len(source) THEN SubSeq(source, i, i) ELSE "EOF"
Slice(i, j) == SubSeq(source, i, j - 1)
(* The first place from i on that a character outside the set is at.       *)
Past(i, set) ==
  CHOOSE j \in i..(Len(source) + 1) : At(j) \notin set /\ \A k \in i..(j - 1) : At(k) \in set

Delivers(token, j) == text' = Append(text, token) /\ next' = j /\ UNCHANGED source
Skips(j) == next' = j /\ UNCHANGED <<source, text>>

mID ==
  /\ At(next) \in Letters
  /\ LET j == Past(next, Letters \cup Digits \cup {"_"})
         word == Slice(next, j)
     IN Delivers(Token(IF word \in Literals THEN word ELSE "ID", word), j)

(* Where an exponent that starts at i ends, i if there is none, 0 if it has*)
(* no digits.                                                              *)
mExponent(i) ==
  LET k == IF At(i + 1) \in {"+", "-"} THEN i + 2 ELSE i + 1
  IN IF At(i) \notin {"e", "E"} THEN i
     ELSE IF At(k) \in Digits THEN Past(k, Digits) ELSE 0
(* What follows the digits after a period.                                 *)
Fraction(i) ==
  LET j == mExponent(i)
  IN /\ j # 0
     /\ IF At(j) \in {"f", "F"} THEN Delivers(Token("FloatConst", Slice(next, j + 1)), j + 1)
        ELSE Delivers(Token("DoubleConst", Slice(next, j)), j)
mNumber ==
  /\ At(next) \in Digits
  /\ LET j == Past(next, Digits)
     IN IF At(j) = "." THEN Fraction(Past(j + 1, Digits))
        ELSE Delivers(Token("Integer", Slice(next, j)), j)
mFractionalNumber ==
  /\ At(next) = "." /\ At(next + 1) \in Digits
  /\ Fraction(Past(next + 1, Digits))

(* A string ends at the first quote that is not doubled; of those that are *)
(* one is kept.                                                            *)
OddQuote(i, j) == At(j) = Quote /\ Cardinality({k \in i..j : At(k) = Quote}) % 2 = 1
Ends(i, j) == OddQuote(i, j) /\ At(j + 1) # Quote
mStringConstant ==
  LET i == next + 1
      Inside(j) == SelectSeq([k \in 1..(j - i) |-> i + k - 1], LAMBDA k : ~OddQuote(i, k))
  IN /\ At(next) = Quote
     /\ \E j \in i..Len(source) :
          /\ Ends(i, j)
          /\ \A k \in i..(j - 1) : ~Ends(i, k) /\ At(k) # "\n"
          /\ Delivers(Token("StringConstant", FoldLeft(LAMBDA w, k : w \o At(k), "", Inside(j))), j + 1)

Punctuation ==
  LET two == At(next) \o At(next + 1)
  IN IF two \in Doubles THEN Delivers(Token(two, two), next + 2)
     ELSE /\ At(next) \in Singles /\ ~(At(next) = "." /\ At(next + 1) \in Digits)
          /\ Delivers(Token(At(next), At(next)), next + 1)

Whitespace == At(next) \in Blanks \cup Newlines /\ Skips(Past(next, Blanks \cup Newlines))

(* %{ up to the first }%, or % up to a newline there must be.              *)
mComment ==
  /\ At(next) = "%"
  /\ \E j \in (next + 1)..Len(source) :
       IF At(next + 1) = "{" /\ At(next + 2) # "EOF"
       THEN LET Closes(k) == k > next + 1 /\ At(k) = "}" /\ At(k + 1) = "%"
            IN Closes(j) /\ (\A k \in next..(j - 1) : ~Closes(k)) /\ Skips(j + 2)
       ELSE At(j) = "\n" /\ (\A k \in next..(j - 1) : At(k) # "\n") /\ Skips(j + 1)

nextToken ==
  \/ mID \/ mNumber \/ mFractionalNumber \/ mStringConstant
  \/ Punctuation \/ Whitespace \/ mComment

=============================================================================
