------------------------------- MODULE GRCsim -------------------------------
(***************************************************************************)
(* cec-grcsim: the three-valued simulator of a GRC graph (GRCsim.cpp).     *)
(*                                                                         *)
(* init orders the nodes (Dfs); a tick visits them from the end of topo.   *)
(* Each node has a control value: Off, On or Unk ("may run"), and so does  *)
(* each signal.  A Test of an unknown signal makes every successor unknown *)
(* and marks the tick ternary; the state of the selection tree moves at    *)
(* the end of a tick unless the tick is ternary.                           *)
(***************************************************************************)
EXTENDS Dfs

VARIABLES
  mode,       \* "init", "idle" between ticks, "tick" inside dotick, "done"
  pos,        \* the index in topo that dotick looks at
  sched,      \* control value of every node
  signals,    \* status of every signal
  state,      \* child an exclusive node is in, 0 when the map has no entry
  nextstate,  \* the same for the next tick
  ternary,    \* the tick has met something unknown
  isFinal     \* the root has entered its final leaf

simVars == <<mode, pos, sched, signals, state, nextstate, ternary, isFinal>>
vars == <<dfsVars, simVars>>

Off == 0
On == 1
Unk == -1
Control == {Off, On, Unk}

here == topo[pos]
cc == sched[here]  \* globalcc
Passed(n) == \E i \in DOMAIN topo : i > pos /\ topo[i] = n

-----------------------------------------------------------------------------
(* A tick relies on threads that are nested.                               *)
ASSUME NestAssumption == Nested

-----------------------------------------------------------------------------

(* schedule: a node that is On stays On.                                   *)
Schedule(S, c) == [n \in Node |-> IF n \in S /\ sched[n] # On THEN c ELSE sched[n]]

(* C's reading of a predicate: -1 is a true operand of !, && and ||, so    *)
(* only a plain load yields Unk.                                           *)
Value(n) ==
  CASE Graph[n].op = "load" -> signals[CHOOSE s \in Reads(n) : TRUE]
    [] Graph[n].op = "not"  -> IF \E s \in Reads(n) : signals[s] # Off THEN Off ELSE On
    [] Graph[n].op = "and"  -> IF \A s \in Reads(n) : signals[s] # Off THEN On ELSE Off
    [] Graph[n].op = "or"   -> IF \E s \in Reads(n) : signals[s] # Off THEN On ELSE Off

(* orall: the control values of the Terminates of one completion level.    *)
Level(n) == {Code(d) : d \in Data(n)}
OrAll(n, l) ==
  LET at == {sched[d] : d \in {t \in Data(n) : Code(t) = l}}
  IN IF On \in at THEN On ELSE IF Unk \in at THEN Unk ELSE Off
IsTop(n, l) ==
  /\ l \in Level(n)
  /\ OrAll(n, l) # Off
  /\ \A k \in Level(n) : k > l => OrAll(n, k) = Off
(* Mutants: only the level the Sync would leave at if it were certain; a   *)
(* scan of the levels that does not end at one that is certain.            *)
LeaveLevels_Top(n) == {l \in Level(n) : IsTop(n, l)}
LeaveLevels_All(n) == {l \in Level(n) : OrAll(n, l) # Off}

(* The levels a Sync may leave at: from the top down to the first On.      *)
LeaveLevels(n) ==
  {l \in Level(n) : /\ OrAll(n, l) # Off
                    /\ \A k \in Level(n) : k > l => OrAll(n, k) # On}

Init ==
  /\ DfsInit
  /\ mode = "init" /\ pos = 0
  /\ sched = [n \in Node |-> Off]
  /\ signals = [s \in Signal |-> Off]
  /\ state = [e \in STExcl |-> IF e = 1 THEN Len(Children(1)) ELSE 0]
  /\ nextstate = [e \in STExcl |-> 0]
  /\ ternary = FALSE /\ isFinal = FALSE

(* init: the search; a cycle ends the program.                             *)
Order ==
  /\ mode = "init" /\ DfsNext
  /\ mode' = CASE dfs' = "done" -> "idle" [] dfs' = "cycle" -> "done" [] OTHER -> "init"
  /\ UNCHANGED <<pos, sched, signals, state, nextstate, ternary, isFinal>>

(* Mutants: the count of nodes off by one; signals that are not cleared.   *)
TickStart_Off(in) ==
  /\ mode = "idle"
  /\ mode' = "tick" /\ pos' = Len(topo) + 1
  /\ signals' = [s \in Signal |-> IF s \in Input THEN in[s] ELSE Off]
  /\ ternary' = (ternary \/ \E s \in Input : in[s] = Unk)
  /\ sched' = [n \in Node |-> IF n = topo[Len(topo)] THEN On ELSE Off]
  /\ UNCHANGED <<dfsVars, state, nextstate, isFinal>>
TickStart_Keep(in) ==
  /\ mode = "idle"
  /\ mode' = "tick" /\ pos' = Len(topo)
  /\ signals' = [s \in Signal |-> IF s \in Input THEN in[s] ELSE signals[s]]
  /\ ternary' = (ternary \/ \E s \in Input : in[s] = Unk)
  /\ sched' = [n \in Node |-> IF n = topo[Len(topo)] THEN On ELSE Off]
  /\ UNCHANGED <<dfsVars, state, nextstate, isFinal>>

(* A mutant: the line is read before the signals are cleared.              *)
TickStart_Cleared(in) ==
  /\ mode = "idle"
  /\ mode' = "tick" /\ pos' = Len(topo)
  /\ signals' = [s \in Signal |-> IF s = "tick" THEN On ELSE Off]
  /\ ternary' = (ternary \/ \E s \in Input : in[s] = Unk)
  /\ sched' = [n \in Node |-> IF n = topo[Len(topo)] THEN On ELSE Off]
  /\ UNCHANGED <<dfsVars, state, nextstate, isFinal>>

(* clear_inputs, one line of the vector file, and the head of dotick.      *)
TickStart(in) ==
  /\ mode = "idle"
  /\ mode' = "tick" /\ pos' = Len(topo)
  /\ signals' = [s \in Signal |-> IF s \in Input THEN in[s]
                                 ELSE IF s = "tick" THEN On ELSE Off]
  /\ ternary' = (ternary \/ \E s \in Input : in[s] = Unk)
  /\ sched' = [n \in Node |-> IF n = topo[Len(topo)] THEN On ELSE Off]
  /\ UNCHANGED <<dfsVars, state, nextstate, isFinal>>

(* The vector file ends, or the tick limit is reached.                     *)
Stop ==
  /\ mode = "idle" /\ mode' = "done"
  /\ UNCHANGED <<dfsVars, pos, sched, signals, state, nextstate, ternary, isFinal>>

At(kind) == mode = "tick" /\ pos > 0 /\ cc # Off /\ Kind(here) = kind
Advance == pos' = pos - 1 /\ UNCHANGED <<dfsVars, mode, state>>

Skip ==
  /\ mode = "tick" /\ pos > 0 /\ cc = Off
  /\ Advance /\ UNCHANGED <<sched, signals, nextstate, ternary, isFinal>>

(* A mutant: the loop over the successors starts at the second one.        *)
VisitPlain_Second ==
  /\ At("fork") \/ At("term") \/ At("pass")
  /\ sched' = Schedule(IF Kind(here) = "fork"
                       THEN {Succ(here)[i] : i \in 2..Len(Succ(here))} ELSE SuccSet(here), cc)
  /\ Advance /\ UNCHANGED <<signals, nextstate, ternary, isFinal>>

(* Fork, Terminate, STSuspend, Nop and ExitGRC.                            *)
VisitPlain ==
  /\ At("fork") \/ At("term") \/ At("pass")
  /\ sched' = Schedule(SuccSet(here), cc)
  /\ Advance /\ UNCHANGED <<signals, nextstate, ternary, isFinal>>

(* A mutant: the successor below the level.                                *)
VisitSync_Below ==
  /\ At("sync")
  /\ \E top \in Level(here) :
       /\ IsTop(here, top)
       /\ sched' = Schedule({Succ(here)[l] : l \in LeaveLevels(here) \ {0}} \ {0},
                            IF OrAll(here, top) = Unk THEN Unk ELSE cc)
  /\ Advance /\ UNCHANGED <<signals, nextstate, ternary, isFinal>>

VisitSync ==
  /\ At("sync")
  /\ \E top \in Level(here) :
       /\ IsTop(here, top)
       /\ top < Len(Succ(here))
       /\ sched' = Schedule({Succ(here)[l + 1] : l \in LeaveLevels(here)} \ {0},
                            IF OrAll(here, top) = Unk THEN Unk ELSE cc)
  /\ Advance /\ UNCHANGED <<signals, nextstate, ternary, isFinal>>

VisitTest ==
  /\ At("test")
  /\ LET v == Value(here) IN
       /\ sched' = IF v = Unk THEN Schedule(SuccSet(here), Unk)
                   ELSE Schedule({Succ(here)[v + 1]} \ {0}, cc)
       /\ ternary' = (ternary \/ v = Unk)
  /\ Advance /\ UNCHANGED <<signals, nextstate, isFinal>>

VisitSwitch ==
  /\ At("switch")
  /\ state[Graph[here].st] \in DOMAIN Succ(here)
  /\ sched' = Schedule({Succ(here)[state[Graph[here].st]]} \ {0}, cc)
  /\ Advance /\ UNCHANGED <<signals, nextstate, ternary, isFinal>>

(* setState writes whatever the control value is.                          *)
VisitEnter ==
  /\ At("enter")
  /\ LET c == Settled[Graph[here].st] IN
       /\ nextstate' = IF c = 0 THEN nextstate
                       ELSE [nextstate EXCEPT ![Parent(c)] = ChildNum(c)]
       /\ isFinal' = (isFinal \/ (c # 0 /\ Parent(c) = 1 /\ Tree[c].final))
  /\ sched' = Schedule(SuccSet(here), cc)
  /\ Advance /\ UNCHANGED <<signals, ternary>>

VisitEmit ==
  /\ At("emit")
  /\ signals' = IF signals[Sig(here)] = On THEN signals
                ELSE [signals EXCEPT ![Sig(here)] = cc]
  /\ sched' = Schedule(SuccSet(here), cc)
  /\ Advance /\ UNCHANGED <<nextstate, ternary, isFinal>>

VisitExit ==
  /\ At("exit")
  /\ signals' = [signals EXCEPT ![Sig(here)] = cc]
  /\ sched' = Schedule(SuccSet(here), cc)
  /\ Advance /\ UNCHANGED <<nextstate, ternary, isFinal>>

VisitDefine ==
  /\ At("define")
  /\ signals' = [signals EXCEPT ![Sig(here)] = Off]
  /\ sched' = Schedule(SuccSet(here), cc)
  /\ Advance /\ UNCHANGED <<nextstate, ternary, isFinal>>

(* A mutant, the line of dotick that is commented out: the two maps are    *)
(* swapped, and what was not entered in this tick has no state.            *)
TickEnd_Swap ==
  /\ mode = "tick" /\ pos = 0
  /\ mode' = IF isFinal THEN "done" ELSE "idle"
  /\ ternary' = FALSE
  /\ IF ternary THEN UNCHANGED <<state, nextstate>>
     ELSE state' = nextstate /\ nextstate' = [e \in STExcl |-> 0]
  /\ UNCHANGED <<dfsVars, pos, sched, signals, isFinal>>

(* The tail of dotick and the loop condition of its callers.  A ternary    *)
(* tick moves no state, and leaves nextstate as it is.                     *)
TickEnd ==
  /\ mode = "tick" /\ pos = 0
  /\ mode' = IF isFinal THEN "done" ELSE "idle"
  /\ ternary' = FALSE
  /\ IF ternary THEN UNCHANGED <<state, nextstate>>
     ELSE /\ state' = [e \in STExcl |-> IF nextstate[e] # 0 THEN nextstate[e] ELSE state[e]]
          /\ nextstate' = [e \in STExcl |-> 0]
  /\ UNCHANGED <<dfsVars, pos, sched, signals, isFinal>>

Visit ==
  \/ VisitPlain \/ VisitSync \/ VisitTest \/ VisitSwitch \/ VisitEnter
  \/ VisitEmit \/ VisitExit \/ VisitDefine
Step == Skip \/ Visit
Halted == mode = "done" /\ UNCHANGED vars

Next ==
  \/ Order
  \/ \E in \in [Input -> Control] : TickStart(in)
  \/ Step \/ TickEnd \/ Stop \/ Halted

Spec == Init /\ [][Next]_vars

-----------------------------------------------------------------------------
(* Properties.                                                             *)

TypeOK ==
  /\ DfsTypeOK
  /\ mode \in {"init", "idle", "tick", "done"}
  /\ pos \in 0..Len(topo)
  /\ sched \in [Node -> Control]
  /\ signals \in [Signal -> Control]
  /\ state \in [STExcl -> Nat] /\ nextstate \in [STExcl -> Nat]
  /\ ternary \in BOOLEAN /\ isFinal \in BOOLEAN

(* A tick that has met nothing unknown computes with On and Off alone, so  *)
(* the state it moves to is the one a two-valued execution reaches.        *)
TwoValued ==
  mode = "tick" /\ ~ternary =>
    /\ \A n \in Node : sched[n] # Unk
    /\ \A s \in Signal : signals[s] # Unk

(* Causality: once a Test of this tick has read a signal, no later node of *)
(* the same tick changes it.                                               *)
NoLateWrite ==
  [][\A n \in Node : \A s \in Reads(n) :
       mode = "tick" /\ Passed(n) /\ sched[n] # Off => signals'[s] = signals[s]]_vars

(* The order of the nodes is a schedule: no node that dotick has passed is *)
(* given another control value in the same tick.                           *)
NoLateControl ==
  [][\A n \in Node : mode = "tick" /\ Passed(n) => sched'[n] = sched[n]]_vars

(* A Sync of a two-valued tick joins every thread: each thread of the Fork *)
(* has run exactly one of its Terminates by then.                          *)
JoinsEveryThread ==
  At("sync") /\ ~ternary =>
    \A d \in Data(here) :
      Cardinality({t \in Data(here) : Thread(t) = Thread(d) /\ sched[t] = On}) = 1

(* No tick loses its control: ExitGRC, which has no successor, is always   *)
(* reached, so no branch was taken into a NULL successor.                  *)
ControlReachesExit ==
  mode = "tick" /\ pos = 0 =>
    \E n \in OfKind("pass") : Succ(n) = <<>> /\ sched[n] # Off

(* Every exclusive node on the active path of the selection tree has a     *)
(* state, which is what doswitch asserts of the nodes it is asked about.   *)
Active[c \in STNode] ==
  IF Parent(c) = 0 THEN TRUE
  ELSE /\ Active[Parent(c)]
       /\ Parent(c) \in STExcl => state[Parent(c)] = ChildNum(c)
ActiveHasState ==
  mode = "idle" => \A e \in STExcl : Active[e] => state[e] \in 1..Len(Children(e))

(* "Enter does not set state if any input signal is unknown": the state an *)
(* exclusive node moves to was entered in the tick that moves it.          *)
StateMovedByOwnTick ==
  [][\A e \in STExcl : state'[e] # state[e] =>
       \E n \in OfKind("enter") :
         /\ sched[n] # Off
         /\ LET c == Settled[Graph[n].st] IN
              c # 0 /\ Parent(c) = e /\ ChildNum(c) = state'[e]]_vars

(* "term lvls and correspond ctrl values": the scan of orall for the range *)
(* of a Sync ends at a level that has a Terminate.                         *)
ScanStaysInside ==
  At("sync") => \E l \in Level(here) : OrAll(here, l) = On

=============================================================================
