------------------------------- MODULE GRCC2 --------------------------------
(***************************************************************************)
(* The C program that cec-grcc2 prints (generateC and split of GRCC2.cpp,  *)
(* the statements of CPrinter.cpp), run after its nodes were clustered.    *)
(*                                                                         *)
(* A cluster runs from one of its entries to its end without a choice of   *)
(* scheduler.  Control that leaves it goes through a macro, which puts an  *)
(* entry of another cluster at the head of the list of that cluster's      *)
(* level; the end of a cluster jumps to the rest of the list, and the end  *)
(* of the list to the next level.  The variables of Reaction are history:  *)
(* what the last tick left.                                                *)
(***************************************************************************)
EXTENDS Clusters, Reaction

VARIABLES
  mode,     \* "print" before the program exists, "idle", "tick", "done"
  signals,  \* the presence variables that are 1
  state,    \* _state_ of every exclusive node; the first child is 1
  term,     \* _term_ of every Sync: the highest code so far
  head,     \* _level_: the first entry of a level's list, 0 for its END
  rest,     \* _next_: what follows a cluster in its list, -1 when not set
  now,      \* the level whose code runs
  running,  \* the cluster that runs, 0 at a label _LEVEL_END
  pc,       \* the node to be executed, 0 at the end of a cluster
  chain,    \* after a Fork: what its Nops have to schedule, by position
  took      \* history: what the nodes executed in a tick handed control to

runVars == <<mode, signals, state, term, head, rest, now, running, pc, chain>>
cVars == <<clusterVars, runVars, reactVars>>

-----------------------------------------------------------------------------

(* cec-optgrc has removed what Root does not lead to; Dependencies draws   *)
(* arcs of data from a Terminate to its Sync alone.                        *)
ASSUME KeptAssumption ==
  Node = Live /\ \A n \in OfKind("term") : DataSucc(n) \subseteq OfKind("sync")

Unset == -1
MaxLevel == CHOOSE l \in {level[c] : c \in Seeds} : \A c \in Seeds : level[c] <= l

CInit ==
  /\ ClusterInit
  /\ mode = "print" /\ signals = {}
  /\ state = [e \in STExcl |-> IF e = 1 THEN Len(Children(1)) ELSE 1]
  /\ term = [s \in OfKind("sync") |-> 0]
  /\ head = <<>> /\ rest = [n \in Node |-> Unset]
  /\ now = 0 /\ running = 0 /\ pc = 0 /\ chain = {}
  /\ ReactInit

Compile ==
  /\ mode = "print" /\ ClusterNext
  /\ mode' = IF stage' = "ready" THEN "idle" ELSE "print"
  /\ UNCHANGED <<signals, state, term, head, rest, now, running, pc, chain, reactVars>>

(* The input functions, and the declarations of the tick function: the     *)
(* lists are empty, and what follows a cluster has no value yet.           *)
TickStart(inputs) ==
  /\ mode = "idle" /\ mode' = "tick"
  /\ signals' = signals \cup inputs
  /\ head' = [l \in 1..MaxLevel |-> 0] /\ rest' = [n \in Node |-> Unset]
  /\ now' = 0 /\ running' = clusterOf[Root] /\ pc' = Root
  /\ asked' = {inputs}
  /\ UNCHANGED <<clusterVars, state, term, chain, config, shown, alive>>

-----------------------------------------------------------------------------
(* Control.                                                                *)

(* A mutant: the two assignments of the macro swapped.                     *)
Schedule_Swap(m) ==
  LET c == clusterOf[m]
      l == level[c]
  IN head' = [head EXCEPT ![l] = m] /\ rest' = [rest EXCEPT ![c] = m]

(* A mutant: the entries already in the list are dropped.                  *)
Schedule_Cut(m) ==
  LET c == clusterOf[m]
      l == level[c]
  IN head' = [head EXCEPT ![l] = m] /\ rest' = [rest EXCEPT ![c] = 0]

(* The macro _schedule_ of an entry.                                       *)
Schedule(m) ==
  LET c == clusterOf[m]
      l == level[c]
  IN head' = [head EXCEPT ![l] = m] /\ rest' = [rest EXCEPT ![c] = head[l]]

(* Control goes to m, 0 for the end of the cluster: inside the cluster by  *)
(* a jump, else m is scheduled and the cluster ends.                       *)
GoTo(m) ==
  \/ /\ m # 0 /\ clusterOf[m] = running
     /\ pc' = m /\ UNCHANGED <<head, rest>>
  \/ /\ m # 0 /\ clusterOf[m] # running
     /\ pc' = 0 /\ Schedule(m)
  \/ /\ m = 0
     /\ pc' = 0 /\ UNCHANGED <<head, rest>>
GoOn == GoTo(IF CSucc[pc] = <<>> THEN 0 ELSE CSucc[pc][1])

(* synthesize: a choice with one successor is no choice, one of two is an  *)
(* if, one of more a switch whose cases are the successors there are.      *)
Arms(n) == {i \in DOMAIN CSucc[n] : CSucc[n][i] # 0}
Arm(n, v) ==
  IF Cardinality(Arms(n)) = 1 THEN CHOOSE i \in Arms(n) : TRUE
  ELSE IF Len(CSucc[n]) = 2 THEN (IF v = 0 THEN 1 ELSE 2)
  ELSE v + 1
Branch(v) == Arm(pc, v) \in Arms(pc) /\ GoTo(CSucc[pc][Arm(pc, v)])

AtNode(kind) == mode = "tick" /\ chain = {} /\ pc # 0 /\ Kind(pc) = kind
AtEnd == mode = "tick" /\ chain = {} /\ pc = 0
Frame == UNCHANGED <<clusterVars, mode, now, running, reactVars>>

RunSwitch ==
  /\ AtNode("switch") /\ Branch(state[Graph[pc].st] - 1)
  /\ Frame /\ UNCHANGED <<chain, signals, state, term>>

RunTest ==
  /\ AtNode("test") /\ Branch(IF Holds(pc, signals) THEN 1 ELSE 0)
  /\ Frame /\ UNCHANGED <<chain, signals, state, term>>

RunSync ==
  /\ AtNode("sync") /\ Branch(term[pc])
  /\ Frame /\ UNCHANGED <<chain, signals, state, term>>

(* split: a Fork leads to a chain of Nops that schedule the successors in  *)
(* other clusters, the last one first, and then to the one in this cluster.*)
RunFork ==
  /\ AtNode("fork")
  /\ LET away == {i \in DOMAIN CSucc[pc] : clusterOf[CSucc[pc][i]] # running} IN
       chain' = {<<i, CSucc[pc][i]>> : i \in away}
  /\ LET stay == {m \in CSuccSet(pc) : clusterOf[m] = running} IN
       /\ Cardinality(stay) <= 1
       /\ pc' = IF stay = {} THEN 0 ELSE CHOOSE m \in stay : TRUE
  /\ term' = [s \in DOMAIN term |-> IF s = Graph[pc].sync THEN 0 ELSE term[s]]
  /\ Frame /\ UNCHANGED <<head, rest, signals, state>>

RunNop ==
  /\ mode = "tick"
  /\ \E e \in chain :
       /\ \A d \in chain : d[1] <= e[1]
       /\ Schedule(e[2])
       /\ chain' = chain \ {e}
  /\ Frame /\ UNCHANGED <<pc, signals, state, term>>

(* A Sync with one way out has no variable.                                *)
RunTerminate ==
  /\ AtNode("term") /\ GoOn
  /\ term' = [s \in DOMAIN term |->
                IF DataSucc(pc) = {s} /\ Cardinality(Arms(s)) > 1 /\ Code(pc) > term[s]
                THEN Code(pc) ELSE term[s]]
  /\ Frame /\ UNCHANGED <<chain, signals, state>>

(* The state variable is written at once.                                  *)
RunEnter ==
  /\ AtNode("enter") /\ GoOn
  /\ LET c == Settled[Graph[pc].st] IN
       state' = IF c = 0 THEN state ELSE [state EXCEPT ![Parent(c)] = ChildNum(c)]
  /\ Frame /\ UNCHANGED <<chain, signals, term>>

RunEmit ==
  /\ AtNode("emit") \/ AtNode("exit")
  /\ GoOn
  /\ signals' = signals \cup {Sig(pc)}
  /\ Frame /\ UNCHANGED <<chain, state, term>>

RunDefine ==
  /\ AtNode("define") /\ GoOn
  /\ signals' = signals \ {Sig(pc)}
  /\ Frame /\ UNCHANGED <<chain, state, term>>

(* Nop and STSuspend.                                                      *)
RunPass ==
  /\ AtNode("pass") /\ GoOn
  /\ Frame /\ UNCHANGED <<chain, signals, state, term>>

(* goto *_next_: the rest of the list, or the END label.                   *)
EndCluster ==
  /\ AtEnd /\ running # 0
  /\ now > 0 => rest[running] # Unset
  /\ pc' = IF now = 0 THEN 0 ELSE rest[running]
  /\ running' = IF pc' = 0 THEN 0 ELSE clusterOf[pc']
  /\ UNCHANGED <<clusterVars, mode, signals, state, term, head, rest, now, chain, reactVars>>

(* goto *_level_.                                                          *)
NextLevel ==
  /\ AtEnd /\ running = 0 /\ now < MaxLevel
  /\ now' = now + 1
  /\ pc' = head[now']
  /\ running' = IF pc' = 0 THEN 0 ELSE clusterOf[pc']
  /\ UNCHANGED <<clusterVars, mode, signals, state, term, head, rest, chain, reactVars>>

Returns == IF Tree[Head(Children(1))].final THEN state[1] # 1 ELSE TRUE
(* A mutant: the inputs are not cleared.                                   *)
TickEnd_Keeps ==
  /\ AtEnd /\ running = 0 /\ now = MaxLevel
  /\ mode' = IF Returns THEN "idle" ELSE "done"
  /\ signals' = signals \ Output
  /\ asked' = {} /\ config' = ActivePath(state) /\ shown' = signals \cap Output /\ alive' = Returns
  /\ UNCHANGED <<clusterVars, state, term, head, rest, now, running, pc, chain>>

(* The output functions, the inputs, and the value the tick returns.       *)
TickEnd ==
  /\ AtEnd /\ running = 0 /\ now = MaxLevel
  /\ mode' = IF Returns THEN "idle" ELSE "done"
  /\ signals' = signals \ (Output \cup Input)
  /\ asked' = {} /\ config' = ActivePath(state) /\ shown' = signals \cap Output /\ alive' = Returns
  /\ UNCHANGED <<clusterVars, state, term, head, rest, now, running, pc, chain>>

(* The reset function sets the root alone, and clears the inputs.          *)
Reset ==
  /\ mode \in {"idle", "done"} /\ mode' = "idle"
  /\ state' = [state EXCEPT ![1] = Len(Children(1))]
  /\ signals' = signals \ Input
  /\ config' = ActivePath(state') /\ shown' = {} /\ alive' = TRUE /\ UNCHANGED asked
  /\ UNCHANGED <<clusterVars, term, head, rest, now, running, pc, chain>>

RunNext ==
  \/ RunSwitch \/ RunTest \/ RunSync \/ RunFork \/ RunNop \/ RunTerminate
  \/ RunEnter \/ RunEmit \/ RunDefine \/ RunPass
  \/ EndCluster \/ NextLevel \/ TickEnd
CNext ==
  \/ Compile
  \/ \E inputs \in SUBSET Input : TickStart(inputs)
  \/ RunNext \/ Reset
CSpec == CInit /\ [][CNext]_cVars /\ WF_cVars(Compile) /\ WF_cVars(RunNext)

(* The same program, with a record of what its tick executes: for each     *)
(* node, what it hands control to.                                         *)
ran == DOMAIN took
Choice(n) ==
  CASE Kind(n) = "switch" -> state[Graph[n].st] - 1
    [] Kind(n) = "test"   -> IF Holds(n, signals) THEN 1 ELSE 0
    [] Kind(n) = "sync"   -> term[n]
Ways(n) ==
  IF Kind(n) \in {"switch", "test", "sync"}
  THEN {CSucc[n][i] : i \in {Arm(n, Choice(n))} \cap Arms(n)}
  ELSE CSuccSet(n)
Nothing == [n \in {} |-> {}]
Executes == mode = "tick" /\ chain = {} /\ pc # 0
TracedInit == CInit /\ took = Nothing
TracedNext ==
  /\ CNext
  /\ took' = IF mode' # "tick" THEN Nothing
             ELSE IF Executes THEN [n \in ran \cup {pc} |-> IF n = pc THEN Ways(pc) ELSE took[n]]
             ELSE took
TracedSpec ==
  /\ TracedInit /\ [][TracedNext]_<<cVars, took>>
  /\ WF_cVars(Compile) /\ WF_cVars(RunNext)

-----------------------------------------------------------------------------

CTypeOK ==
  /\ ClusterTypeOK
  /\ mode \in {"print", "idle", "tick", "done"}
  /\ signals \subseteq Signal
  /\ state \in [STExcl -> Nat \ {0}]
  /\ term \in [OfKind("sync") -> Nat]
  /\ head \in Seq(Node \cup {0})
  /\ rest \in [Node -> Node \cup {0, Unset}]
  /\ chain \subseteq Nat \X Node /\ now \in Nat /\ running \in Node \cup {0} /\ pc \in Node \cup {0}

(* "The scheduling code assumes that each node is scheduled at most once": *)
(* no cluster is linked into a list twice in a tick, by whichever of its   *)
(* entries; that would cut the list or close it to a ring.                 *)
LinkedOnce ==
  [][\A c \in Seeds : mode = "tick" /\ rest'[c] # rest[c] => rest[c] = Unset]_cVars

(* Only levels still to come are added to: nothing is scheduled in a list  *)
(* that was read already.                                                  *)
LinkedAhead ==
  [][\A c \in Seeds : mode = "tick" /\ rest'[c] # rest[c] => level[c] > now]_cVars

(* The levels are a schedule: a node is executed once in a tick, and after *)
(* all that it depends on and that the tick executes.                      *)
RunsInOrder == mode = "tick" /\ pc # 0 => \A n \in ran : n # pc /\ pc \notin Before[n]

(* When a tick is over, what it executed solves the equations of the graph *)
(* that was printed: these are Root and all that they handed control to,   *)
(* where a Test went by the signals as they are in the end, and a Sync by  *)
(* the highest code of all the Terminates that were executed.              *)
TickOver == AtEnd /\ running = 0 /\ now = MaxLevel
Solved ==
  TickOver =>
    /\ ran = {Root} \cup UNION {took[n] : n \in ran}
    /\ \A n \in ran : Kind(n) # "switch" => took[n] = Ways(n)
    /\ \A n \in ran : Kind(n) = "sync" /\ Cardinality(Arms(n)) > 1 =>
         /\ term[n] \in Exited(n, ran) \cup {0}
         /\ \A k \in Exited(n, ran) : k <= term[n]

(* What a tick prints, the state it leaves and the value it returns are    *)
(* those of Reaction for the inputs of that tick and the state it started  *)
(* in; what came before, in ticks or before a reset, has no other effect.  *)
Reacts == ResetSpec

(* A tick returns.                                                         *)
TickReturns == mode = "tick" ~> mode # "tick"

=============================================================================
