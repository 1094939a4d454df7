----------------------------- MODULE Equations ------------------------------
(***************************************************************************)
(* The logical meaning of a tick, without any order: the nodes that run    *)
(* are those with a reason to, a signal is present if and only if a node   *)
(* that runs emits it, and both at once.  What runs is a solution of these *)
(* equations.  It need not be computed here, only be one.                  *)
(* A DefineSignal has no part in this: it clears a signal that nothing has *)
(* set (DefinedFirst of GRCsimCover).                                      *)
(*                                                                         *)
(* The state has an entry for every exclusive node, also for those that    *)
(* are not active, and keeps what no Enter of the tick has changed.        *)
(***************************************************************************)
EXTENDS GRC

VARIABLES
  at,      \* "idle" between ticks, "tick" in one, "done"
  inputs,  \* the input signals present in this tick
  config,  \* child every exclusive node is in
  run,     \* what ran in the last tick
  present  \* the signals present in the last tick

eqVars == <<at, inputs, config, run, present>>

-----------------------------------------------------------------------------

(* "tick" is present in every tick, unless it is read from the inputs.     *)
Always == (Signal \ Input) \cap {"tick"}
Emitted(R) == {Sig(n) : n \in {m \in R : Kind(m) \in {"emit", "exit"}}}
Present(I, R) == I \cup Always \cup Emitted(R)

(* R runs in the state C on the inputs I: a node of R is Root, or one that *)
(* a node of R hands control to, and R has all of these.  Dead code, which *)
(* may lead to itself, does not run.                                       *)
Solution(C, I, R) ==
  /\ R \subseteq Live
  /\ R = {Root} \cup UNION {Leads(n, C, Present(I, R), R) : n \in R}

(* Where control may go from n.                                            *)
After(n) ==
  LET within[k \in Nat] ==
        IF k = 0 THEN SuccSet(n)
        ELSE LET W == within[k - 1] IN W \cup UNION {SuccSet(m) : m \in W}
  IN within[Len(Graph)]

(* The Enters of R that settle a child of e, and those of them that no     *)
(* other one comes after.                                                  *)
Child(n) == Settled[Graph[n].st]
Enters(R, e) == {n \in R : Kind(n) = "enter" /\ Child(n) # 0 /\ Parent(Child(n)) = e}
LastEnters(R, e) == {n \in Enters(R, e) : \A m \in Enters(R, e) \ {n} : m \notin After(n)}

(* D is the state after a tick in which R has run in C.                    *)
Moves(C, R, D) ==
  \A e \in STExcl :
    IF Enters(R, e) = {} THEN D[e] = C[e]
    ELSE \E n \in LastEnters(R, e) : D[e] = ChildNum(Child(n))
Ends(R) == \E n \in Enters(R, 1) : Tree[Child(n)].final

-----------------------------------------------------------------------------

EqInit ==
  /\ at = "idle" /\ inputs = {} /\ run = {} /\ present = {}
  /\ config = [e \in STExcl |-> IF e = 1 THEN Len(Children(1)) ELSE 0]

Ask(in) ==
  /\ at = "idle" /\ at' = "tick"
  /\ inputs' = in /\ run' = {} /\ present' = {}
  /\ UNCHANGED config

Answer ==
  /\ at = "tick" /\ at' = IF Ends(run') THEN "done" ELSE "idle"
  /\ Solution(config, inputs, run')
  /\ present' = Present(inputs, run')
  /\ config' \in [STExcl -> Nat] /\ Moves(config, run', config')
  /\ UNCHANGED inputs

Leave ==
  /\ at = "idle" /\ at' = "done"
  /\ UNCHANGED <<inputs, config, run, present>>

EqNext ==
  \/ UNCHANGED eqVars
  \/ \E in \in SUBSET Input : Ask(in)
  \/ Answer \/ Leave
EqSpec == EqInit /\ [][EqNext]_eqVars

=============================================================================
