-------------------------------- MODULE GRC ---------------------------------
(***************************************************************************)
(* A GRC graph: the control-flow graph and the selection tree that         *)
(* cec-astgrc writes and every later pass of the compiler reads.           *)
(*                                                                         *)
(* The graph is what is in the file: arcs of control (successors, with     *)
(* NULL entries) and arcs of data (dataPredecessors).  Nodes that nothing  *)
(* leads to from Root are dead code, which the optimizer removes.          *)
(***************************************************************************)
EXTENDS GRCNodes, FiniteSets

CONSTANTS
  Graph,   \* the control-flow graph, a sequence of node records
  Tree,    \* the selection tree, a sequence of records; 1 is its root
  Root,    \* the node that starts a tick: the last successor of EnterGRC
  Input,   \* the input signals
  Signal   \* every signal and trap of the module

Node == 1..Len(Graph)
STNode == 1..Len(Tree)

Kind(n) == Graph[n].kind
Succ(n) == Graph[n].succ
Data(n) == Graph[n].data
Sig(n) == Graph[n].sig
Reads(n) == Graph[n].reads
Code(n) == Graph[n].code
Thread(n) == Graph[n].thread

DataSucc(n) == {m \in Node : n \in Data(m)}
SuccSet(n) == {Succ(n)[i] : i \in DOMAIN Succ(n)} \ {0}
OfKind(k) == {n \in Node : Kind(n) = k}
Writers(s) == {n \in Node : Kind(n) \in {"emit", "exit", "define"} /\ Sig(n) = s}

STExcl == {e \in STNode : Tree[e].kind = "excl"}
Children(e) == Tree[e].children
Parent(c) == Tree[c].parent

(* The position of c among the children of its parent.                     *)
ChildNum(c) == CHOOSE i \in DOMAIN Children(Parent(c)) : Children(Parent(c))[i] = c

(* The climb of setState: from a node up through parents that are neither  *)
(* exclusive nor parallel.  It ends at the child of an exclusive node, or  *)
(* with 0 when a parallel node, whose children are not alternatives, is    *)
(* met first.  Of every Enter one of the two is met: assert(n).            *)
Settled[c \in STNode] ==
  IF Parent(c) = 0 \/ Tree[Parent(c)].kind = "par" THEN 0
  ELSE IF Tree[Parent(c)].kind = "excl" THEN c
  ELSE Settled[Parent(c)]
Settles[c \in STNode] ==
  Parent(c) # 0 /\ (Tree[Parent(c)].kind \in {"excl", "par"} \/ Settles[Parent(c)])

-----------------------------------------------------------------------------
(* What every graph the compiler builds satisfies.                         *)

NodeRecord ==
  [kind : Kinds, succ : Seq(Nat), data : SUBSET Nat, sig : Signal \cup {""},
   op : Predicates, reads : SUBSET Signal, code : Nat, thread : Nat, st : Nat, sync : Nat]

TreeRecord ==
  [kind : {"excl", "par", "ref", "leaf"}, parent : Nat, children : Seq(Nat), final : BOOLEAN]

ASSUME GraphAssumption ==
  /\ Graph \in Seq(NodeRecord) /\ Tree \in Seq(TreeRecord)
  /\ Root \in Node
  /\ Input \subseteq Signal

(* The classes have the successors and the fields their visitors assert.   *)
ASSUME ArcAssumption ==
  \A n \in Node :
    /\ \A i \in DOMAIN Succ(n) : Succ(n)[i] \in Node \cup {0}
    /\ Data(n) \subseteq Node
    /\ Kind(n) = "test" => Len(Succ(n)) = 2 /\ Reads(n) # {}
    /\ Kind(n) = "test" /\ Graph[n].op = "load" => \E s \in Signal : Reads(n) = {s}
    /\ Kind(n) = "sync" => \A d \in Data(n) : Kind(d) = "term"
    /\ Kind(n) = "switch" => Graph[n].st \in STExcl
    /\ Kind(n) = "enter" => Graph[n].st \in STNode
    /\ Kind(n) \in {"emit", "exit", "define"} => Sig(n) \in Signal
    /\ Kind(n) \in {"term", "enter", "emit", "exit", "define", "pass"} => Len(Succ(n)) <= 1

(* The climb from every node an Enter names ends at an exclusive or a      *)
(* parallel node; a child of an exclusive one is in its vector.            *)
ASSUME TreeAssumption ==
  /\ 1 \in STExcl /\ Len(Children(1)) > 0
  /\ \A n \in OfKind("enter") : Graph[n].st \in STNode /\ Settles[Graph[n].st]
  /\ \A c \in STNode :
       Settled[c] # 0 =>
         /\ Settled[c] \in STNode
         /\ Parent(Settled[c]) \in STExcl
         /\ ChildNum(Settled[c]) \in 1..Len(Children(Parent(Settled[c])))

(* Dependencies::compute: what writes a signal is a data predecessor of    *)
(* everything that reads it, and what leads to a Sync is one of the Sync,  *)
(* among the nodes its search reaches from Root.                           *)
Reached[k \in Nat] ==
  IF k = 0 THEN {Root}
  ELSE LET R == Reached[k - 1] IN R \cup UNION {SuccSet(n) : n \in R}
Live == Reached[Len(Graph)]
ASSUME DataAssumption ==
  /\ Live \subseteq Node /\ Root \in Live
  /\ \A n \in Live :
       /\ SuccSet(n) \cup DataSucc(n) \subseteq Live
       /\ \A s \in Reads(n) : Live \cap Writers(s) \subseteq Data(n)
       /\ Kind(n) = "sync" => \A t \in Node : n \in SuccSet(t) => t \in Data(n)

-----------------------------------------------------------------------------
(* What a node does when every value is known.                             *)

Holds(n, present) ==
  CASE Graph[n].op = "load" -> Reads(n) \subseteq present
    [] Graph[n].op = "not"  -> Reads(n) \cap present = {}
    [] Graph[n].op = "and"  -> Reads(n) \subseteq present
    [] Graph[n].op = "or"   -> Reads(n) \cap present # {}

(* The highest completion code among the Terminates that have run.         *)
Exited(n, ran) == {Code(d) : d \in Data(n) \cap ran}
Completion(n, ran) == CHOOSE l \in Exited(n, ran) : \A k \in Exited(n, ran) : k <= l

(* The positions of the successors that n hands control to, and the nodes  *)
(* there, in the state s of the tree, if the signals present are and the   *)
(* nodes of ran run.                                                       *)
Takes(n, s, present, ran) ==
  CASE Kind(n) = "switch" -> {s[Graph[n].st]}
    [] Kind(n) = "test"   -> {IF Holds(n, present) THEN 2 ELSE 1}
    [] Kind(n) = "sync"   -> {Completion(n, ran) + 1}
    [] OTHER              -> DOMAIN Succ(n)
Leads(n, s, present, ran) ==
  {Succ(n)[i] : i \in DOMAIN Succ(n) \cap Takes(n, s, present, ran)} \ {0}

-----------------------------------------------------------------------------
(* Threads are nested.  A place is a thread of a Sync, or Main outside     *)
(* every thread.                                                           *)

Place == [sync : Nat, thread : Nat]
Main == [sync |-> 0, thread |-> 0]
PlaceOf(f, j) == [sync |-> Graph[f].sync, thread |-> j - 1]

(* Where a node may lead that runs beside those of R: a Sync of which only *)
(* some Terminates can run has no other exits than those of their codes.   *)
WaysOut(n, R) ==
  IF Kind(n) = "sync"
  THEN {Succ(n)[Code(d) + 1] : d \in {t \in Data(n) \cap R : Code(t) + 1 \in DOMAIN Succ(n)}} \ {0}
  ELSE SuccSet(n)

(* What the place of a node puts where: a Fork puts its branches in the    *)
(* threads of its Sync and the Sync where it is itself, a Terminate ends   *)
(* its thread, and every other node puts what it leads to where it is.     *)
Hands(n, p, R) ==
  CASE Kind(n) = "fork" -> {<<Graph[n].sync, p>>}
                             \cup {<<Succ(n)[j], PlaceOf(n, j)>> : j \in DOMAIN Succ(n)}
    [] Kind(n) = "term" /\ p # Main -> {}
    [] OTHER -> {<<m, p>> : m \in WaysOut(n, R)}
PlacedIn[k \in Nat] ==
  IF k = 0 THEN {<<Root, Main>>}
  ELSE LET P == PlacedIn[k - 1]
           R == {r[1] : r \in P}
       IN P \cup UNION {Hands(r[1], r[2], R) : r \in P}
Placed == PlacedIn[Len(Graph)]
Inner == {r[1] : r \in Placed}
Home(n) == (CHOOSE r \in Placed : r[1] = n)[2]
ForksOf(s) == {f \in Inner \cap OfKind("fork") : Graph[f].sync = s}

(* The visitor of a parallel statement, and the ones it calls for threads: *)
(* every node has one place, a thread is left by its Terminates alone and  *)
(* ends in one, and a Sync has an exit for every level its threads may     *)
(* reach together, at its own place.                                       *)
Nested ==
  /\ <<Root, Main>> \in Placed /\ Kind(Root) # "sync"
  /\ \A r \in Placed :
       /\ r \in Node \X Place /\ r = <<r[1], Home(r[1])>>
       /\ Hands(r[1], r[2], Inner) \subseteq Placed
  /\ \A n \in Inner :
       /\ Kind(n) = "fork" => Kind(Graph[n].sync) = "sync" /\ Succ(n) # <<>>
       /\ Kind(n) = "sync" =>
            /\ SuccSet(n) \cap Inner # {}
            /\ \A m \in SuccSet(n) \cap Inner : Home(m) = Home(n)
       /\ Kind(n) # "sync" =>
            /\ \A i \in DOMAIN Succ(n) : Succ(n)[i] # 0
            /\ Succ(n) = <<>> => Kind(n) = "pass" /\ Home(n) = Main
       /\ Kind(n) = "term" /\ Home(n) # Main =>
            /\ Succ(n) = <<Home(n).sync>> /\ Kind(Home(n).sync) = "sync"
            /\ n \in Data(Home(n).sync) /\ Thread(n) = Home(n).thread
       /\ Kind(n) # "term" \/ Home(n) = Main => \A m \in SuccSet(n) : Kind(m) # "sync"
  /\ \A s \in Inner \cap OfKind("sync") : \A d \in Data(s) :
       /\ d \in Inner => Home(d) = [sync |-> s, thread |-> Thread(d)]
       /\ \A f \in ForksOf(s) : Thread(d) + 1 \in DOMAIN Succ(f)
       /\ d \in Inner /\ (\A q \in Data(s) \cap Inner :
                            \E u \in Data(s) \cap Inner :
                              Thread(u) = Thread(q) /\ Code(u) <= Code(d))
            => Code(d) + 1 \in DOMAIN Succ(s) /\ Succ(s)[Code(d) + 1] # 0

-----------------------------------------------------------------------------
(* What erasing leaves of a vector: the members at the positions of I.     *)

Nth(I, j) == CHOOSE i \in I : Cardinality({k \in I : k <= i}) = j
Thinned(s, I) == [j \in 1..Cardinality(I) |-> s[Nth(I, j)]]

=============================================================================
