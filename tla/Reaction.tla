------------------------------ MODULE Reaction ------------------------------
(***************************************************************************)
(* What a GRC graph promises, whoever runs it: a tick is a function of the *)
(* state of the selection tree and the inputs.  React computes it by       *)
(* running the nodes one after the other in the order of their numbers;    *)
(* the simulator and the generated C program, which find other orders,     *)
(* implement this specification.                                           *)
(***************************************************************************)
EXTENDS GRC

LOCAL INSTANCE SequencesExt

CONSTANT Output  \* the output signals

VARIABLES
  asked,   \* the inputs of the tick that was called and has not answered, if any
  config,  \* child of every exclusive node on the active path, else 0
  shown,   \* the outputs of the last tick
  alive    \* the program has not terminated

reactVars == <<asked, config, shown, alive>>

(* The numbers of the nodes follow control and data.                       *)
ASSUME OrderAssumption ==
  /\ \A n \in Node : \A m \in SuccSet(n) \cup DataSucc(n) : n < m
  /\ Output \subseteq Signal

-----------------------------------------------------------------------------

(* A state restricted to the exclusive nodes of the active path.           *)
ActivePath(s) ==
  LET active[c \in STNode] ==
        Parent(c) = 0
          \/ (active[Parent(c)] /\ (Parent(c) \in STExcl => s[Parent(c)] = ChildNum(c)))
  IN [e \in STExcl |-> IF active[e] THEN s[e] ELSE 0]

Initially == [e \in STExcl |-> IF e = 1 THEN Len(Children(1)) ELSE 0]

Entered(n, s) ==
  LET c == Settled[Graph[n].st]
  IN IF Kind(n) = "enter" /\ c # 0 THEN [s EXCEPT ![Parent(c)] = ChildNum(c)] ELSE s
Status(n, present) ==
  CASE Kind(n) \in {"emit", "exit"} -> present \cup {Sig(n)}
    [] Kind(n) = "define"           -> present \ {Sig(n)}
    [] OTHER                        -> present

(* One tick: run is what runs, present the signals, next the state.        *)
React(inputs) ==
  FoldLeft(
    LAMBDA r, n : IF n \notin r.run THEN r
                  ELSE [run |-> r.run \cup Leads(n, config, r.present, r.run),
                        present |-> Status(n, r.present),
                        next |-> Entered(n, r.next)],
    [run |-> {Root}, present |-> inputs, next |-> config],
    [n \in Node |-> n])

-----------------------------------------------------------------------------

ReactInit == asked = {} /\ config = Initially /\ shown = {} /\ alive = TRUE

(* A tick is called with its inputs, and answers to these.                 *)
Ask(inputs) ==
  /\ asked = {} /\ alive
  /\ asked' = {inputs} /\ UNCHANGED <<config, shown, alive>>
Answer ==
  /\ asked' = {}
  /\ \E inputs \in asked :
       LET r == React(inputs) IN
         /\ config' = ActivePath(r.next)
         /\ shown' = r.present \cap Output
         /\ alive' = ~ \E c \in STNode : Parent(c) = 1 /\ Tree[c].final /\ r.next[1] = ChildNum(c)
ReactNext == (\E inputs \in SUBSET Input : Ask(inputs)) \/ Answer
ReactSpec == ReactInit /\ [][ReactNext]_reactVars

(* A program that can be reset as well, between two ticks.                 *)
Restart ==
  /\ asked = {} /\ asked' = {}
  /\ config' = Initially /\ shown' = {} /\ alive' = TRUE
ResetSpec == ReactInit /\ [][ReactNext \/ Restart]_reactVars

=============================================================================
