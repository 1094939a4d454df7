------------------------------ MODULE DeadCode ------------------------------
(***************************************************************************)
(* The optimizer and the programs it optimizes: GRCOpt::Simulator analyses *)
(* a graph, and the graph runs, with inputs that are known.  What the      *)
(* analysis did not reach must never run, since Prune deletes it.          *)
(***************************************************************************)
EXTENDS GRCsim, Simulator

allVars == <<vars, optVars>>

Known == [Input -> {Off, On}]

DeadInit == Init /\ OptInit
Optimize == OptNext /\ UNCHANGED vars
Execute ==
  /\ phase = "pruned"
  /\ Order \/ (\E in \in Known : TickStart(in)) \/ Step \/ TickEnd \/ Stop \/ Halted
  /\ UNCHANGED optVars
DeadNext == Optimize \/ Execute
(* The analysis is a loop of one thread that nothing waits for.            *)
DeadSpec == DeadInit /\ [][DeadNext]_allVars /\ WF_allVars(Optimize)

-----------------------------------------------------------------------------

(* Every node that runs in some tick, and every child that an exclusive    *)
(* node is in or moves to, was reached by the analysis and is kept.        *)
KeepsWhatRuns ==
  phase = "pruned" =>
    /\ \A n \in Node : sched[n] # Off => n \in cfg
    /\ \A e \in STExcl : \A i \in {state[e], nextstate[e]} \ {0} : Children(e)[i] \in st

(* The successor a Sync hands control to is not one of those cut off.      *)
KeepsExits ==
  phase = "pruned" /\ At("sync") =>
    \E top \in levels[here] : IsTop(here, top) /\ newSucc[here][top + 1] # 0

(* Prune moves the branches of a Switch with the children it keeps: the    *)
(* branch at the new position of a child, which is the one the Switch      *)
(* takes in that state, is the one that was at its old position.           *)
KeepsBranches ==
  phase = "pruned" =>
    \A n \in cfg \cap OfKind("switch") :
      LET e == Graph[n].st
      IN \A i \in DOMAIN Children(e) : Children(e)[i] \in st =>
           \E k \in DOMAIN newChildren[e] :
             newChildren[e][k] = Children(e)[i] /\ newSucc[n][k] = Succ(n)[i]

=============================================================================
