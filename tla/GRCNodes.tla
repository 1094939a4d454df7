------------------------------ MODULE GRCNodes ------------------------------
(***************************************************************************)
(* The vocabulary of GRC, the intermediate form of the compiler: the       *)
(* control-flow nodes and the selection-tree nodes of AST.hpp, as records, *)
(* and one constructor for each class.  A node is named by its position in *)
(* a sequence; 0 is the NULL pointer.                                      *)
(***************************************************************************)
EXTENDS Integers, Sequences

(* Nop, STSuspend and ExitGRC change nothing the model keeps: they are the *)
(* kind "pass", which hands control to its successor if it has one.        *)
Kinds == {"switch", "test", "fork", "sync", "term", "enter",
          "emit", "exit", "define", "pass"}

(* The predicate of a Test, as far as control depends on it: one signal,   *)
(* its negation, or a conjunction or disjunction of signals.               *)
Predicates == {"load", "not", "and", "or"}

Plain == [kind |-> "pass", succ |-> <<>>, data |-> {}, sig |-> "", op |-> "load",
          reads |-> {}, code |-> 0, thread |-> 0, st |-> 0, sync |-> 0]

Only(n) == IF n = 0 THEN <<>> ELSE <<n>>

Sw(ex, succ) == [Plain EXCEPT !.kind = "switch", !.st = ex, !.succ = succ]
Te(op, reads, succ, data) ==
  [Plain EXCEPT !.kind = "test", !.op = op, !.reads = reads, !.succ = succ, !.data = data]
Fo(sync, succ) ==
  [Plain EXCEPT !.kind = "fork", !.sync = sync, !.succ = succ]
Sy(par, succ, data) ==
  [Plain EXCEPT !.kind = "sync", !.st = par, !.succ = succ, !.data = data]
Tm(code, thread, n) ==
  [Plain EXCEPT !.kind = "term", !.code = code, !.thread = thread, !.succ = Only(n)]
En(child, n) == [Plain EXCEPT !.kind = "enter", !.st = child, !.succ = Only(n)]
Em(sig, n) == [Plain EXCEPT !.kind = "emit", !.sig = sig, !.succ = Only(n)]
Ex(sig, n) == [Plain EXCEPT !.kind = "exit", !.sig = sig, !.succ = Only(n)]
De(sig, n) == [Plain EXCEPT !.kind = "define", !.sig = sig, !.succ = Only(n)]
Pa(n) == [Plain EXCEPT !.succ = Only(n)]
Quit == Plain

(* Selection-tree nodes: exclusive, parallel, reference and leaf.          *)
Excl(parent, children) ==
  [kind |-> "excl", parent |-> parent, children |-> children, final |-> FALSE]
Par(parent, children) ==
  [kind |-> "par", parent |-> parent, children |-> children, final |-> FALSE]
Ref(parent, children) ==
  [kind |-> "ref", parent |-> parent, children |-> children, final |-> FALSE]
Leaf(parent, final) ==
  [kind |-> "leaf", parent |-> parent, children |-> <<>>, final |-> final]

=============================================================================
