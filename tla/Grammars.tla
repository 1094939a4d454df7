------------------------------ MODULE Grammars ------------------------------
(***************************************************************************)
(* What ANTLR reads and makes: the elements of a grammar rule, tokens, and *)
(* the trees of a generic AST (LineAST).  A rule is a sequence of elements;*)
(* a tree is a token with kids; a forest stands for an ASTPair, whose root *)
(* may have siblings as long as no token was made the root.                *)
(***************************************************************************)
EXTENDS Naturals, Sequences

Element(op, t, of) == [op |-> op, t |-> t, of |-> of, ahead |-> {}]

(* A token that becomes a child of the tree, its root, or is dropped.      *)
Tok(t) == Element("add", t, <<>>)
Root(t) == Element("root", t, <<>>)
Drop(t) == Element("drop", t, <<>>)
Rule(r) == Element("rule", r, <<>>)

(* Subrules: one of several, (...)?, (...)* and (...)+.                    *)
Alt(alternatives) == Element("alt", "", alternatives)
Opt(es) == Element("opt", "", <<es>>)
Star(es) == Element("star", "", <<es>>)
Plus(es) == es \o <<Star(es)>>

(* An alternative headed by Peek is taken only if the second token of the  *)
(* lookahead is one of these.                                              *)
Peek(ts) == [Element("peek", "", <<>>) EXCEPT !.ahead = ts]

(* A syntactic predicate: if the guess parses then yes, otherwise no.      *)
IfParses(guess, yes, no) == Element("try", "", <<guess, yes, no>>)

(* The actions of the grammar: make an imaginary token the root of what the*)
(* rule has built, always or only if that is more than one tree.           *)
Wrap(k) == Element("wrap", k, <<>>)
Gather(k) == Element("gather", k, <<>>)

Matches == {"add", "root", "drop"}
Always == {"opt", "star", "peek", "wrap", "gather"}  \* may match nothing

-----------------------------------------------------------------------------

Token(t, word) == [t |-> t, text |-> word]
Tree(t, word, kids) == [t |-> t, text |-> word, kids |-> kids]

Forest(rooted, nodes) == [rooted |-> rooted, nodes |-> nodes]
Empty == Forest(FALSE, <<>>)

addASTChild(f, ts) ==
  IF f.rooted THEN [f EXCEPT !.nodes[1].kids = f.nodes[1].kids \o ts]
  ELSE Forest(FALSE, f.nodes \o ts)
makeASTRoot(f, t, word) == Forest(TRUE, <<Tree(t, word, f.nodes)>>)

=============================================================================
