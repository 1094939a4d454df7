-------------------------- MODULE LLkParser_proofs --------------------------
(***************************************************************************)
(* A generated parser's guesses leave no trace, whatever the grammar and   *)
(* the text, and however deep guesses are nested.                          *)
(***************************************************************************)
EXTENDS LLkParser, TLAPS

LOCAL INSTANCE SequenceTheorems

-----------------------------------------------------------------------------
(* Sequences of frames, and what calls and returns do to them.             *)

Framed(s) == \E T, U : s \in Seq([todo : T, tree : U])
Put(s, k, x, y) == [s EXCEPT ![k] = Frame(x, y)]
PutTodo(s, k, x) == [s EXCEPT ![k].todo = x]
PutTree(s, k, y) == [s EXCEPT ![k].tree = y]

(* A stack is a sequence of frames.                                        *)
LEMMA FramedSeq ==
  ASSUME NEW s, Framed(s)
  PROVE  /\ Len(s) \in Nat
         /\ DOMAIN s = 1..Len(s)
         /\ \E S : s \in Seq(S)
         /\ \A i \in 1..Len(s) : s[i] = Frame(s[i].todo, s[i].tree)
<1>1. PICK T, U : s \in Seq([todo : T, tree : U]) BY DEF Framed
<1> DEFINE F == [todo : T, tree : U]
<1>2. \A i \in 1..Len(s) : s[i] \in F BY <1>1, ElementOfSeq
<1>3. \A i \in 1..Len(s) : s[i] = Frame(s[i].todo, s[i].tree) BY <1>2 DEF Frame
<1> QED BY <1>1, <1>3, LenProperties

(* Putting a frame into a stack changes that frame only.                   *)
LEMMA Replaced ==
  ASSUME NEW s, Framed(s), NEW k \in 1..Len(s), NEW x, NEW y
  PROVE  /\ Framed(Put(s, k, x, y))
         /\ Len(Put(s, k, x, y)) = Len(s)
         /\ \A i \in 1..Len(s) :
              Put(s, k, x, y)[i] = IF i = k THEN Frame(x, y) ELSE s[i]
<1>1. PICK T, U : s \in Seq([todo : T, tree : U]) BY DEF Framed
<1> DEFINE F == [todo : T \cup {x}, tree : U \cup {y}]
<1>2. s \in Seq(F) BY <1>1, SeqMonotonic
<1>3. Frame(x, y) \in F BY DEF Frame
<1> HIDE DEF F
<1>4. /\ Put(s, k, x, y) \in Seq(F)
      /\ Len(Put(s, k, x, y)) = Len(s)
      /\ \A i \in 1..Len(s) :
           Put(s, k, x, y)[i] = IF i = k THEN Frame(x, y) ELSE s[i]
  BY <1>2, <1>3, ExceptSeq DEF Put
<1>5. Framed(Put(s, k, x, y)) BY <1>4 DEF Framed, F
<1> QED BY <1>4, <1>5

(* Changing what a frame has to do, or its tree, is putting a frame.       *)
LEMMA Retold ==
  ASSUME NEW s, Framed(s), NEW k \in 1..Len(s), NEW x
  PROVE  /\ PutTodo(s, k, x) = Put(s, k, x, s[k].tree)
         /\ PutTree(s, k, x) = Put(s, k, s[k].todo, x)
<1>1. s[k] = Frame(s[k].todo, s[k].tree) BY FramedSeq
<1>2. [s[k] EXCEPT !.todo = x] = Frame(x, s[k].tree) BY <1>1 DEF Frame
<1>3. [s[k] EXCEPT !.tree = x] = Frame(s[k].todo, x) BY <1>1 DEF Frame
<1> QED BY <1>2, <1>3 DEF Put, PutTodo, PutTree

(* Calling a rule extends the stack by a frame.                            *)
LEMMA Pushed ==
  ASSUME NEW s, Framed(s), NEW x, NEW y
  PROVE  /\ Framed(Append(s, Frame(x, y)))
         /\ Len(Append(s, Frame(x, y))) = Len(s) + 1
         /\ \A i \in 1..Len(s) : Append(s, Frame(x, y))[i] = s[i]
<1>1. PICK T, U : s \in Seq([todo : T, tree : U]) BY DEF Framed
<1> DEFINE F == [todo : T \cup {x}, tree : U \cup {y}]
<1>2. s \in Seq(F) BY <1>1, SeqMonotonic
<1>3. Frame(x, y) \in F BY DEF Frame
<1> HIDE DEF F
<1>4. /\ Append(s, Frame(x, y)) \in Seq(F)
      /\ Len(Append(s, Frame(x, y))) = Len(s) + 1
      /\ \A i \in 1..Len(s) : Append(s, Frame(x, y))[i] = s[i]
  BY <1>2, <1>3, AppendProperties
<1>5. Framed(Append(s, Frame(x, y))) BY <1>4 DEF Framed, F
<1> QED BY <1>4, <1>5

(* Going back cuts the stack down to a frame.                              *)
LEMMA Cut ==
  ASSUME NEW s, Framed(s), NEW n \in 1..Len(s)
  PROVE  /\ Framed(SubSeq(s, 1, n))
         /\ Len(SubSeq(s, 1, n)) = n
         /\ \A i \in 1..n : SubSeq(s, 1, n)[i] = s[i]
<1>1. PICK T, U : s \in Seq([todo : T, tree : U]) BY DEF Framed
<1> DEFINE F == [todo : T, tree : U]
<1> HIDE DEF F
<1>2. s \in Seq(F) /\ Len(s) \in Nat BY <1>1, LenProperties DEF F
<1>3. \A i \in 1..n : i \in 1..Len(s) BY <1>2
<1>4. \A i \in 1..n : s[i] \in F BY <1>2, <1>3, ElementOfSeq
<1>5. n \in Int /\ 1 \in Int /\ 1 <= n /\ n - 1 + 1 = n /\ \A i \in 1..n : 1 + i - 1 = i BY <1>2
<1>6. /\ SubSeq(s, 1, n) \in Seq(F)
      /\ Len(SubSeq(s, 1, n)) = n
      /\ \A i \in 1..n : SubSeq(s, 1, n)[i] = s[i]
  BY <1>4, <1>5, SubSeqProperties
<1>7. Framed(SubSeq(s, 1, n)) BY <1>6 DEF Framed, F
<1> QED BY <1>6, <1>7

-----------------------------------------------------------------------------
(* The inductive invariant: the marks are nested, below the rule that is   *)
(* being parsed and behind the place it has come to.                       *)

Marks == [depth : Nat, at : Nat]
Nested ==
  /\ \A i \in 1..Len(marks) : marks[i].depth \in 1..(Len(stack) - 1) /\ marks[i].at <= pos
  /\ \A i, j \in 1..Len(marks) :
       i < j => marks[i].depth < marks[j].depth /\ marks[i].at <= marks[j].at
ParserInv ==
  /\ Framed(stack) /\ Len(stack) >= 1
  /\ marks \in Seq(Marks) /\ pos \in Nat
  /\ Nested

(* What a step that neither starts nor ends a guess does.                  *)
Within ==
  /\ Framed(stack') /\ Len(stack') >= 1
  /\ pos' \in Nat /\ pos' >= pos /\ marks' = marks
  /\ Guessing => Len(stack') > Mark.depth
  /\ \A i \in 1..Len(stack) : Guessing /\ i <= Mark.depth => stack'[i].tree = stack[i].tree

(* The trace left in a step, as NoTrace has it.                            *)
Traceless ==
  Guessing => /\ pos' >= marks[1].at
              /\ \A i \in 1..marks[1].depth : stack'[i].tree = stack[i].tree

(* Each mark has a depth and a position.                                   *)
LEMMA MarksAreMarks ==
  ASSUME ParserInv
  PROVE  \A i \in 1..Len(marks) :
           marks[i] \in Marks /\ marks[i].depth \in Nat /\ marks[i].at \in Nat
<1>1. \A i \in 1..Len(marks) : marks[i] \in Marks BY ElementOfSeq DEF ParserInv
<1> QED BY <1>1 DEF Marks

(* The last mark is the innermost: every other one is at a lower frame and *)
(* at a token not after its own.                                           *)
LEMMA Ends ==
  ASSUME ParserInv, Guessing
  PROVE  /\ Len(marks) \in Nat \ {0}
         /\ Mark = marks[Len(marks)] /\ Mark \in Marks
         /\ Mark.depth \in 1..(Len(stack) - 1) /\ Mark.at <= pos
         /\ \A i \in 1..Len(marks) : marks[i].depth <= Mark.depth /\ marks[i].at <= Mark.at
         /\ marks[1] \in Marks
<1>1. Len(marks) \in Nat \ {0} BY DEF ParserInv, Guessing
<1>2. Len(marks) \in 1..Len(marks) /\ 1 \in 1..Len(marks) BY <1>1
<1>3. \A i \in 1..Len(marks) : marks[i] \in Marks BY MarksAreMarks
<1>4. \A i \in 1..Len(marks) : marks[i].depth \in Nat /\ marks[i].at \in Nat BY <1>3 DEF Marks
<1>5. \A i \in 1..Len(marks) : i < Len(marks) \/ i = Len(marks) BY <1>1
<1>6. \A i \in 1..Len(marks) :
        marks[i].depth <= marks[Len(marks)].depth /\ marks[i].at <= marks[Len(marks)].at
  BY <1>1, <1>2, <1>4, <1>5 DEF ParserInv, Nested
<1> QED BY <1>1, <1>2, <1>3, <1>6 DEF ParserInv, Nested, Mark

(* A step that stays above the frame of the innermost guess keeps the      *)
(* invariant and leaves no trace.                                          *)
LEMMA WithinIsSound ==
  ASSUME ParserInv, Within
  PROVE  ParserInv' /\ Traceless
<1>1. CASE ~Guessing
  BY <1>1 DEF ParserInv, Within, Nested, Traceless, Guessing
<1>2. CASE Guessing
  <2>1. \A i \in 1..Len(marks) : marks[i].depth \in Nat /\ marks[i].at \in Nat
    BY MarksAreMarks
  <2>2. Len(stack') \in Nat /\ Len(stack) \in Nat BY FramedSeq DEF Within, ParserInv
  <2>3. marks' = marks /\ pos \in Nat /\ pos' \in Nat /\ pos' >= pos
        /\ Mark.depth \in Nat /\ Mark.depth < Len(stack')
    <3>1. Mark.depth \in 1..(Len(stack) - 1) BY <1>2, Ends
    <3> QED BY <1>2, <2>2, <3>1 DEF Within, ParserInv
  <2>6. ASSUME NEW i \in 1..Len(marks)
        PROVE  marks[i].depth \in 1..(Len(stack') - 1) /\ marks[i].at <= pos'
    <3>1. marks[i].depth <= Mark.depth BY <1>2, Ends
    <3>2. marks[i].depth >= 1 /\ marks[i].at <= pos BY <2>2 DEF ParserInv, Nested
    <3> QED BY <2>1, <2>2, <2>3, <3>1, <3>2
  <2>7. Nested'
    BY <2>3, <2>6 DEF ParserInv, Nested
  <2>4. 1 \in 1..Len(marks) /\ marks[1].depth \in 1..(Len(stack) - 1)
        /\ marks[1].depth <= Mark.depth /\ marks[1].at <= pos
    BY <1>2, Ends DEF ParserInv, Nested
  <2>5. Traceless
    BY <1>2, <2>1, <2>2, <2>4, Ends DEF Within, Traceless, ParserInv, Marks
  <2> QED BY <2>7, <2>5 DEF Within, ParserInv
<1> QED BY <1>1, <1>2

-----------------------------------------------------------------------------
(* The steps.                                                              *)

(* A step that goes on with the rule being parsed.                         *)
LEMMA GoingOn ==
  ASSUME ParserInv, NEW x, NEW y, stack' = Becomes(x, y),
         pos' \in {pos, pos + 1}, marks' = marks
  PROVE  Within
<1>1. Len(stack) \in 1..Len(stack) /\ Len(stack) \in Nat BY FramedSeq DEF ParserInv
<1>2. /\ Framed(stack') /\ Len(stack') = Len(stack)
      /\ \A i \in 1..Len(stack) : i # Len(stack) => stack'[i] = stack[i]
  <2> DEFINE k == Len(stack)
  <2>1. k \in 1..Len(stack) /\ Framed(stack) BY <1>1 DEF ParserInv
  <2>2. stack' = Put(stack, k, x, y) BY DEF Becomes, Put
  <2> HIDE DEF k
  <2>3. /\ Framed(stack') /\ Len(stack') = Len(stack)
        /\ \A i \in 1..Len(stack) : stack'[i] = IF i = k THEN Frame(x, y) ELSE stack[i]
    BY <2>1, <2>2, Replaced
  <2> QED BY <2>3 DEF k
<1>3. Guessing => Mark.depth < Len(stack) /\ Mark.depth \in Nat BY <1>1, Ends DEF Marks
<1> QED BY <1>1, <1>2, <1>3 DEF ParserInv, Within

(* A rule or a guess is called; below it only what is to be matched has    *)
(* changed.                                                                *)
LEMMA Calling ==
  ASSUME ParserInv, NEW s, Framed(s), Len(s) = Len(stack), NEW x,
         \A i \in 1..Len(stack) : s[i].tree = stack[i].tree,
         stack' = Append(s, Frame(x, Empty)), pos' = pos
  PROVE  /\ Framed(stack') /\ Len(stack') = Len(stack) + 1
         /\ \A i \in 1..Len(stack) : stack'[i].tree = stack[i].tree
<1>1. /\ Framed(stack') /\ Len(stack') = Len(stack) + 1
      /\ \A i \in 1..Len(s) : stack'[i] = s[i]
  BY Pushed
<1> QED BY <1>1

(* Calling a rule is such a step.                                          *)
LEMMA CallIsSound == ASSUME ParserInv, CallRule PROVE Within
<1> DEFINE s == Becomes(Tail(Top.todo), Top.tree)
<1>1. Len(stack) \in 1..Len(stack) /\ Len(stack) \in Nat BY FramedSeq DEF ParserInv
<1>2. Framed(s) /\ Len(s) = Len(stack)
      /\ \A i \in 1..Len(stack) :
           s[i] = IF i = Len(stack) THEN Frame(Tail(Top.todo), Top.tree) ELSE stack[i]
  BY <1>1, Replaced DEF ParserInv, Becomes, Put
<1>3. \A i \in 1..Len(stack) : s[i].tree = stack[i].tree BY <1>1, <1>2 DEF Frame, Top
<1>4. stack' = Append(s, Frame(Rules[Now.t], Empty)) /\ pos' = pos /\ marks' = marks
  BY DEF CallRule
<1> HIDE DEF s
<1>5. /\ Framed(stack') /\ Len(stack') = Len(stack) + 1
      /\ \A i \in 1..Len(stack) : stack'[i].tree = stack[i].tree
  BY <1>2, <1>3, <1>4, Calling
<1>6. Guessing => Mark.depth < Len(stack) /\ Mark.depth \in Nat BY <1>1, Ends DEF Marks
<1> QED BY <1>1, <1>4, <1>5, <1>6 DEF ParserInv, Within

(* Returning a tree to the calling rule is such a step.                    *)
LEMMA ReturnIsSound == ASSUME ParserInv, ReturnTree PROVE Within
<1> DEFINE n == Len(stack) - 1
           s == SubSeq(stack, 1, n)
           caller == stack[n]
           x == IF Guessing THEN caller.tree ELSE addASTChild(caller.tree, Top.tree.nodes)
<1>1. Len(stack) \in Nat /\ Len(stack) > 1 BY FramedSeq DEF ParserInv, ReturnTree
<1>2. n \in 1..Len(stack) BY <1>1
<1>3. /\ Framed(s) /\ Len(s) = n
      /\ \A i \in 1..n : s[i] = stack[i]
  BY <1>2, Cut DEF ParserInv
<1>4. stack' = PutTree(s, n, x) /\ pos' = pos /\ marks' = marks BY DEF ReturnTree, PutTree
<1>5. n \in 1..Len(s) BY <1>2, <1>3
<1> HIDE DEF s, x, n
<1>6. stack' = Put(s, n, s[n].todo, x) BY <1>3, <1>4, <1>5, Retold
<1>7. /\ Framed(stack') /\ Len(stack') = n
      /\ \A i \in 1..n : stack'[i] = IF i = n THEN Frame(s[n].todo, x) ELSE s[i]
  BY <1>3, <1>5, <1>6, Replaced
<1>8. Guessing => Mark.depth < n /\ Mark.depth \in Nat
  BY <1>1, Ends DEF ReturnTree, Bottom, Marks, n
<1>9. \A i \in 1..n : Guessing => stack'[i].tree = stack[i].tree
  BY <1>2, <1>3, <1>7 DEF x, Frame
<1>10. \A i \in 1..Len(stack) : Guessing /\ i <= Mark.depth => stack'[i].tree = stack[i].tree
  BY <1>1, <1>8, <1>9 DEF n
<1> QED BY <1>1, <1>4, <1>7, <1>8, <1>10 DEF ParserInv, Within, n

(* A predicate begins a guess at the present frame and token.              *)
LEMMA StartIsSound == ASSUME ParserInv, StartGuess PROVE ParserInv' /\ Traceless
<1> DEFINE m == [depth |-> Len(stack), at |-> pos]
<1>1. Len(stack) \in Nat /\ Len(stack) >= 1 /\ pos \in Nat BY FramedSeq DEF ParserInv
<1>2. /\ Framed(stack') /\ Len(stack') = Len(stack) + 1
      /\ \A i \in 1..Len(stack) : stack'[i].tree = stack[i].tree
  BY Calling DEF ParserInv, StartGuess
<1>3. m \in Marks BY <1>1 DEF Marks
<1>4. marks' = Append(marks, m) /\ pos' = pos BY DEF StartGuess
<1> HIDE DEF m
<1>5. /\ marks' \in Seq(Marks) /\ Len(marks') = Len(marks) + 1 /\ Len(marks) \in Nat
      /\ \A i \in 1..Len(marks) : marks'[i] = marks[i]
      /\ marks'[Len(marks) + 1] = m
  BY <1>3, <1>4 DEF ParserInv
<1>6. m.depth = Len(stack) /\ m.at = pos BY DEF m
<1>7. \A i \in 1..Len(marks) :
        /\ marks[i].depth \in Nat /\ marks[i].at \in Nat
        /\ marks[i].depth \in 1..(Len(stack) - 1) /\ marks[i].at <= pos
  BY MarksAreMarks DEF ParserInv, Nested
<1>8. Nested'
  <2>1. \A i \in 1..Len(marks') : i \in 1..Len(marks) \/ i = Len(marks) + 1 BY <1>5
  <2>2. \A i \in 1..Len(marks') : marks'[i].depth \in 1..(Len(stack') - 1) /\ marks'[i].at <= pos'
    BY <1>1, <1>2, <1>4, <1>5, <1>6, <1>7, <2>1
  <2>3. \A i, j \in 1..Len(marks') :
          i < j => marks'[i].depth < marks'[j].depth /\ marks'[i].at <= marks'[j].at
    <3> SUFFICES ASSUME NEW i \in 1..Len(marks'), NEW j \in 1..Len(marks'), i < j
                 PROVE  marks'[i].depth < marks'[j].depth /\ marks'[i].at <= marks'[j].at
      OBVIOUS
    <3>1. i \in 1..Len(marks) /\ marks'[i] = marks[i] BY <1>5
    <3>2. CASE j \in 1..Len(marks) BY <1>5, <3>1, <3>2 DEF ParserInv, Nested
    <3>3. CASE j = Len(marks) + 1 BY <1>1, <1>5, <1>6, <1>7, <3>1, <3>3
    <3> QED BY <2>1, <3>2, <3>3
  <2> QED BY <2>2, <2>3 DEF Nested
<1>9. Guessing => marks[1].at <= pos /\ marks[1].depth \in 1..(Len(stack) - 1)
  BY Ends, <1>7
<1>10. Traceless BY <1>1, <1>2, <1>4, <1>9 DEF Traceless
<1> QED BY <1>1, <1>2, <1>4, <1>5, <1>8, <1>10 DEF ParserInv

(* The end of a guess, whichever its outcome, goes back to its frame and   *)
(* token.                                                                  *)
LEMMA RewindIsSound ==
  ASSUME ParserInv, Guessing, NEW branch, Rewind(branch)
  PROVE  ParserInv' /\ Traceless
<1> DEFINE d == Mark.depth
           s == SubSeq(stack, 1, d)
           x == Head(stack[d].todo).of[branch] \o Tail(stack[d].todo)
           n == Len(marks)
<1>1. /\ Len(stack) \in Nat /\ n \in Nat \ {0} /\ d \in 1..Len(stack) /\ Mark.at \in Nat
      /\ Mark = marks[n]
  BY Ends, FramedSeq DEF ParserInv, Marks
<1>2. /\ Framed(s) /\ Len(s) = d
      /\ \A i \in 1..d : s[i] = stack[i]
  BY <1>1, Cut DEF ParserInv
<1>3. stack' = PutTodo(s, d, x) /\ pos' = Mark.at /\ marks' = SubSeq(marks, 1, n - 1)
  BY DEF Rewind, PutTodo
<1>4. d \in 1..Len(s) BY <1>1, <1>2
<1> HIDE DEF s, x, d
<1>5. stack' = Put(s, d, x, s[d].tree) BY <1>2, <1>3, <1>4, Retold
<1>6. /\ Framed(stack') /\ Len(stack') = d
      /\ \A i \in 1..d : stack'[i] = IF i = d THEN Frame(x, s[d].tree) ELSE s[i]
  BY <1>2, <1>4, <1>5, Replaced
<1>7. \A i \in 1..d : stack'[i].tree = stack[i].tree BY <1>2, <1>4, <1>6 DEF Frame
<1>8. /\ marks' \in Seq(Marks) /\ Len(marks') = n - 1
      /\ \A i \in 1..(n - 1) : marks'[i] = marks[i]
  <2>1. marks \in Seq(Marks) /\ \A i \in 1..(n - 1) : i \in 1..n BY <1>1 DEF ParserInv
  <2>2. \A i \in 1..(n - 1) : marks[i] \in Marks BY <2>1, MarksAreMarks
  <2>3. n - 1 \in Int /\ 1 \in Int BY <1>1
  <2>4. /\ SubSeq(marks, 1, n - 1) \in Seq(Marks)
        /\ Len(SubSeq(marks, 1, n - 1)) = IF 1 <= n - 1 THEN n - 1 - 1 + 1 ELSE 0
        /\ \A i \in 1..(n - 1 - 1 + 1) : SubSeq(marks, 1, n - 1)[i] = marks[1 + i - 1]
    <3> DEFINE m == n - 1
    <3>1. m \in Int /\ \A i \in 1..m : marks[i] \in Marks BY <2>2, <2>3
    <3> HIDE DEF m
    <3>2. /\ SubSeq(marks, 1, m) \in Seq(Marks)
          /\ Len(SubSeq(marks, 1, m)) = IF 1 <= m THEN m - 1 + 1 ELSE 0
          /\ \A i \in 1..(m - 1 + 1) : SubSeq(marks, 1, m)[i] = marks[1 + i - 1]
      BY <2>3, <3>1, SubSeqProperties
    <3> QED BY <3>2 DEF m
  <2>5. /\ n - 1 - 1 + 1 = n - 1 /\ \A i \in 1..(n - 1) : 1 + i - 1 = i
        /\ (IF 1 <= n - 1 THEN n - 1 - 1 + 1 ELSE 0) = n - 1
    <3>1. \A k \in Nat \ {0} :
            /\ k - 1 - 1 + 1 = k - 1 /\ \A i \in 1..(k - 1) : 1 + i - 1 = i
            /\ (IF 1 <= k - 1 THEN k - 1 - 1 + 1 ELSE 0) = k - 1
      OBVIOUS
    <3> QED BY <1>1, <3>1
  <2>6. \A i \in 1..(n - 1) : SubSeq(marks, 1, n - 1)[i] = marks[i]
    <3> SUFFICES ASSUME NEW i \in 1..(n - 1) PROVE SubSeq(marks, 1, n - 1)[i] = marks[i] OBVIOUS
    <3>1. i \in 1..(n - 1 - 1 + 1) /\ 1 + i - 1 = i BY <2>5
    <3> QED BY <2>4, <3>1
  <2> QED BY <1>3, <2>4, <2>5, <2>6
<1>9. \A i \in 1..n : marks[i].depth \in Nat /\ marks[i].at \in Nat BY MarksAreMarks
<1>10. Nested'
  <2>1. \A i \in 1..(n - 1) : i \in 1..n /\ i < n /\ n \in 1..n BY <1>1
  <2>2. \A i \in 1..(n - 1) : marks[i].depth < d /\ marks[i].at <= Mark.at /\ marks[i].depth >= 1
    BY <1>1, <1>9, <2>1 DEF ParserInv, Nested, d
  <2>3. \A i \in 1..Len(marks') : marks'[i].depth \in 1..(Len(stack') - 1) /\ marks'[i].at <= pos'
    BY <1>1, <1>3, <1>6, <1>8, <1>9, <2>1, <2>2
  <2>4. \A i, j \in 1..Len(marks') :
          i < j => marks'[i].depth < marks'[j].depth /\ marks'[i].at <= marks'[j].at
    BY <1>8, <2>1 DEF ParserInv, Nested
  <2> QED BY <2>3, <2>4 DEF Nested
<1>11. marks[1].depth <= d /\ marks[1].at <= Mark.at BY <1>1, Ends DEF d
<1>12. Traceless BY <1>1, <1>3, <1>7, <1>9, <1>11 DEF Traceless
<1> QED BY <1>1, <1>3, <1>6, <1>8, <1>10, <1>12 DEF ParserInv

-----------------------------------------------------------------------------

(* The parser starts without a guess.                                      *)
LEMMA InitiallyNested == LLkInit => ParserInv
<1> SUFFICES ASSUME LLkInit PROVE ParserInv OBVIOUS
<1>1. stack \in Seq([todo : {Rules[Start]}, tree : {Empty}]) /\ Len(stack) = 1
  BY DEF LLkInit, Frame
<1>2. Framed(stack) BY <1>1 DEF Framed
<1> QED BY <1>1, <1>2 DEF LLkInit, ParserInv, Nested

(* Every step of the machine keeps the invariant and leaves no trace.      *)
LEMMA StepsAreSound ==
  ASSUME ParserInv, [LLkNext]_parserVars
  PROVE  ParserInv' /\ (Traceless \/ UNCHANGED parserVars)
<1>1. CASE MatchToken
  <2>1. pos \in Nat BY DEF ParserInv
  <2>2. PICK y : stack' = Becomes(Tail(Top.todo), y) BY <1>1 DEF MatchToken
  <2> QED BY <1>1, <2>2, GoingOn, WithinIsSound DEF MatchToken
<1>2. CASE CallRule BY <1>2, CallIsSound, WithinIsSound
<1>3. CASE ReturnTree BY <1>3, ReturnIsSound, WithinIsSound
<1>4. CASE ChooseAlternative \/ EnterSubrule \/ LeaveSubrule \/ SkipGuess
  <2>1. \E x : stack' = Becomes(x, Top.tree)
    BY <1>4 DEF ChooseAlternative, EnterSubrule, LeaveSubrule, SkipGuess, Continues, GoesOn
  <2>2. pos' = pos /\ marks' = marks
    BY <1>4 DEF ChooseAlternative, EnterSubrule, LeaveSubrule, SkipGuess
  <2> QED BY <2>1, <2>2, GoingOn, WithinIsSound
<1>5. CASE WrapTree
  <2>1. \E y : stack' = Becomes(Tail(Top.todo), y) BY <1>5 DEF WrapTree
  <2>2. pos' = pos /\ marks' = marks BY <1>5 DEF WrapTree
  <2> QED BY <2>1, <2>2, GoingOn, WithinIsSound
<1>6. CASE StartGuess BY <1>6, StartIsSound
<1>7. CASE GuessSucceeds BY <1>7, RewindIsSound DEF GuessSucceeds, Bottom
<1>8. CASE GuessFails BY <1>8, RewindIsSound DEF GuessFails
<1>9. CASE ThrowError \/ Finish
  <2>1. UNCHANGED <<pos, stack, marks>> BY <1>9 DEF ThrowError, Finish
  <2>2. Guessing => Mark.depth < Len(stack) BY Ends, FramedSeq DEF ParserInv
  <2>3. Within BY <2>1, <2>2 DEF ParserInv, Within
  <2> QED BY <2>3, WithinIsSound
<1>10. CASE UNCHANGED parserVars
  BY <1>10 DEF parserVars, ParserInv, Nested
<1> QED
  BY <1>1, <1>2, <1>3, <1>4, <1>5, <1>6, <1>7, <1>8, <1>9, <1>10 DEF LLkNext

(* The marks of a parser's guesses are always nested, below the rule being *)
(* parsed and behind its place in the text: what rewind relies on.         *)
THEOREM GuessesNest == LLkSpec => []ParserInv
<1>1. ParserInv /\ [LLkNext]_parserVars => ParserInv' BY StepsAreSound
<1> QED BY <1>1, InitiallyNested, PTL DEF LLkSpec

(* While a parser guesses, no tree of a rule called before the guess grows *)
(* and it does not go back beyond where the guess began.                   *)
THEOREM GuessLeavesNoTrace == LLkSpec => NoTrace
<1>1. ParserInv /\ [LLkNext]_parserVars => [Traceless]_parserVars BY StepsAreSound
<1>2. LLkSpec => [][Traceless]_parserVars BY <1>1, GuessesNest, PTL DEF LLkSpec
<1> QED BY <1>2 DEF NoTrace, Traceless

=============================================================================
