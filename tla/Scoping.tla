------------------------------ MODULE Scoping -------------------------------
(***************************************************************************)
(* What the names of a program refer to: a reference definition, by descent*)
(* into the statements with the symbols in view, outermost first.          *)
(***************************************************************************)
EXTENDS Symbols

View(signals, traps, variables) == [signals |-> signals, traps |-> traps, variables |-> variables]

(* id is the last symbol in view that has its name.                        *)
Refers(id, symbols) ==
  \E i \in DOMAIN symbols :
    /\ symbols[i].id = id
    /\ \A j \in (i + 1)..Len(symbols) : symbols[j].name # symbols[i].name
AllRefer(ids, symbols) == \A i \in DOMAIN ids : Refers(ids[i], symbols)

RECURSIVE TermBound(_, _)
TermBound(e, view) ==
  /\ e.op \in {"signal", "?"} => Refers(e.id, view.signals)
  /\ e.op = "??" => Refers(e.id, view.traps)
  /\ e.op = "variable" => Refers(e.id, view.variables)
  /\ \A i \in DOMAIN e.args : TermBound(e.args[i], view)
DelayBound(d, view) == TermBound(d.pred, view) /\ TermBound(d.count, view)
InitsBound(symbols, view) == \A i \in DOMAIN symbols : TermBound(symbols[i].init, view)

(* A local signal or trap may start with what is declared before it in the *)
(* same list, a variable may not.                                          *)
InitsBoundInTurn(symbols, Within(_)) ==
  \A i \in DOMAIN symbols : TermBound(symbols[i].init, Within(SubSeq(symbols, 1, i - 1)))

RECURSIVE StatementBound(_, _)
StatementBound(p, view) ==
  LET inner ==
        CASE p.op = "signal" -> [view EXCEPT !.signals = @ \o p.names]
          [] p.op = "trap" -> [view EXCEPT !.traps = @ \o p.names]
          [] p.op = "var" -> [view EXCEPT !.variables = @ \o p.names]
          [] OTHER -> view
      HandlerView == [inner EXCEPT !.signals = inner.traps]
  IN /\ p.op \in {"emit", "sustain"} => Refers(p.id, view.signals)
     /\ p.op = "exit" => Refers(p.id, view.traps)
     /\ p.op = "assign" => Refers(p.id, view.variables)
     /\ p.op \in {"call", "task"} => AllRefer(p.names, view.variables)
     /\ p.op = "task" => AllRefer(p.cases, view.signals)
     /\ p.op = "var" => InitsBound(p.names, view)
     /\ p.op = "signal" => InitsBoundInTurn(p.names, LAMBDA ss : [view EXCEPT !.signals = @ \o ss])
     /\ p.op = "trap" => InitsBoundInTurn(p.names, LAMBDA ts : [view EXCEPT !.traps = @ \o ts])
     /\ p.op # "call" => TermBound(p.test, view)
     /\ \A i \in DOMAIN p.test.args : TermBound(p.test.args[i], view)
     /\ \A i \in DOMAIN p.subs : StatementBound(p.subs[i], inner)
     /\ \A i \in DOMAIN p.cases :
          CASE p.op = "exec" -> StatementBound(p.cases[i], view)
            [] p.op = "run" -> p.cases[i].kind = "SRENAME" => TermBound(p.cases[i].new, view)
            [] p.op = "task" -> TRUE
            [] p.op = "trap" -> /\ TermBound(p.cases[i].when.pred, HandlerView)
                                /\ StatementBound(p.cases[i].do, inner)
            [] OTHER -> DelayBound(p.cases[i].when, view) /\ StatementBound(p.cases[i].do, inner)

(* What a declaration may mention is declared before it.                   *)
ModuleBound(m) ==
  LET view == View(m.signals, <<>>, m.constants)
  IN /\ InitsBound(m.constants, view) /\ InitsBound(m.signals, view)
     /\ \A i \in DOMAIN m.relations : AllRefer(m.relations[i].signals, m.signals)
     /\ StatementBound(m.body, view)

=============================================================================
