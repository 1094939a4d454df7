--------------------------------- MODULE Dfs ---------------------------------
(***************************************************************************)
(* GRCsim::dfs: the depth-first search that orders the nodes of a graph.   *)
(* The order it leaves in topo is read backwards by dotick.  An explicit   *)
(* stack stands for the recursion: a frame is a call of dfs for a node,    *)
(* with the position of the successor it is looking at.                    *)
(***************************************************************************)
EXTENDS GRC

VARIABLES
  stack,     \* the calls of dfs in progress, the innermost last
  notwhite,  \* dfs_notwhite: nodes a call was made for
  black,     \* dfs_black: nodes whose call has returned
  topo,      \* the nodes in the order their calls returned
  dfs        \* "run", "done", or "cycle" for exit(100)

dfsVars == <<stack, notwhite, black, topo, dfs>>

(* A mutant: the search follows control and forgets data.                  *)
Frame_Control(n) == [node |-> n, next |-> 1, left |-> {}]

(* A call of dfs for n: the position of the next successor to look at, and *)
(* the data successors left.  Those are kept in the order in which a set   *)
(* of pointers listed them when they were added: any order is possible.    *)
Frame(n) ==
  [node |-> n, next |-> 1, left |-> DataSucc(n)]

Top == stack[Len(stack)]
Calling == dfs = "run" /\ stack # <<>>

(* A mutant: a NULL successor is taken for the end of the successors.      *)
InSucc_Null == Top.next <= Len(Succ(Top.node)) /\ Succ(Top.node)[Top.next] # 0

InSucc == Top.next <= Len(Succ(Top.node))

(* dfs(k) is called from the innermost call, which then moves on.          *)
Look(k) ==
  /\ Calling
  /\ InSucc => k = Succ(Top.node)[Top.next]
  /\ ~InSucc => k \in Top.left
MovedOn(k) ==
  IF InSucc THEN [Top EXCEPT !.next = @ + 1] ELSE [Top EXCEPT !.left = @ \ {k}]
MoveOn(k) == [stack EXCEPT ![Len(stack)] = MovedOn(k)]

DfsInit ==
  /\ stack = <<Frame(Root)>>
  /\ notwhite = {Root} /\ black = {} /\ topo = <<>>
  /\ dfs = "run"

(* A mutant: a node that was visited before is skipped without i++.        *)
DfsSkip_Stays(k) ==
  /\ Look(k) /\ (k = 0 \/ k \in black)
  /\ UNCHANGED dfsVars

(* A NULL successor, or one visited before.                                *)
DfsSkip(k) ==
  /\ Look(k) /\ (k = 0 \/ k \in black)
  /\ stack' = MoveOn(k)
  /\ UNCHANGED <<notwhite, black, topo, dfs>>

DfsCall(k) ==
  /\ Look(k) /\ k # 0 /\ k \notin notwhite
  /\ stack' = Append(MoveOn(k), Frame(k))
  /\ notwhite' = notwhite \cup {k}
  /\ UNCHANGED <<black, topo, dfs>>

(* A mutant: black nodes count as on the stack.                            *)
DfsCycle_Black(k) ==
  /\ Look(k) /\ k \in notwhite
  /\ dfs' = "cycle"
  /\ UNCHANGED <<stack, notwhite, black, topo>>

DfsCycle(k) ==
  /\ Look(k) /\ k \in notwhite \ black
  /\ dfs' = "cycle"
  /\ UNCHANGED <<stack, notwhite, black, topo>>

(* A mutant: the loop over several successors may end one too early.       *)
DfsReturn_Early ==
  /\ Calling
  /\ InSucc => Top.next = Len(Succ(Top.node)) /\ Top.next > 1
  /\ topo' = Append(topo, Top.node)
  /\ black' = black \cup {Top.node}
  /\ stack' = SubSeq(stack, 1, Len(stack) - 1)
  /\ dfs' = IF Len(stack) = 1 THEN "done" ELSE "run"
  /\ UNCHANGED notwhite

DfsReturn ==
  /\ Calling /\ ~InSucc /\ Top.left = {}
  /\ topo' = Append(topo, Top.node)
  /\ black' = black \cup {Top.node}
  /\ stack' = SubSeq(stack, 1, Len(stack) - 1)
  /\ dfs' = IF Len(stack) = 1 THEN "done" ELSE "run"
  /\ UNCHANGED notwhite

DfsNext ==
  \/ \E k \in Node \cup {0} : DfsSkip(k) \/ DfsCall(k) \/ DfsCycle(k)
  \/ DfsReturn
DfsSpec == DfsInit /\ [][DfsNext]_dfsVars /\ WF_dfsVars(DfsNext)

-----------------------------------------------------------------------------

DfsTypeOK ==
  /\ stack \in Seq([node : Node, next : Nat \ {0}, left : SUBSET Node])
  /\ notwhite \subseteq Node /\ black \subseteq Node
  /\ topo \in Seq(Node)
  /\ dfs \in {"run", "done", "cycle"}

(* What the search has put in topo is ordered: whatever a node leads to,   *)
(* by control or by data, stands before it, and no node stands twice.      *)
LeadsTo(n) == SuccSet(n) \cup DataSucc(n)
Ordered ==
  /\ \A i, j \in DOMAIN topo : topo[i] = topo[j] => i = j
  /\ \A i \in DOMAIN topo : \A m \in LeadsTo(topo[i]) : \E j \in 1..(i - 1) : topo[j] = m

(* exit(100) is right: a cycle is reported only where one exists, through  *)
(* the nodes whose calls are in progress.                                  *)
CycleIsReal ==
  dfs = "cycle" =>
    \E i \in DOMAIN stack :
      /\ stack[i].node \in LeadsTo(Top.node)
      /\ \A j \in i..(Len(stack) - 1) : stack[j + 1].node \in LeadsTo(stack[j].node)

(* The search ends.                                                        *)
DfsEnds == <>(dfs # "run")

(* What makes Ordered inductive.  A node is visited when it is in topo or  *)
(* has a call in progress; a call has seen to everything before the place  *)
(* it is looking at, except that the next call on the stack is in progress.*)
OnStack == {stack[i].node : i \in DOMAIN stack}
InTopo(k) == {topo[j] : j \in 1..k}
SeenTo(i) == black \cup (IF i < Len(stack) THEN {stack[i + 1].node} ELSE {})
Progress(f, seen) ==
  /\ f.next <= Len(Succ(f.node)) + 1
  /\ \A j \in 1..(f.next - 1) : Succ(f.node)[j] \in seen \cup {0}
  /\ f.left \subseteq DataSucc(f.node)
  /\ DataSucc(f.node) \ f.left \subseteq seen
StackInv ==
  /\ notwhite = black \cup OnStack
  /\ \A i, j \in DOMAIN stack : stack[i].node = stack[j].node => i = j
  /\ \A i \in DOMAIN stack : stack[i].node \notin black /\ Progress(stack[i], SeenTo(i))
  /\ \A i \in 1..(Len(stack) - 1) : stack[i + 1].node \in LeadsTo(stack[i].node)
TopoInv ==
  /\ black = InTopo(Len(topo))
  /\ \A i, j \in DOMAIN topo : topo[i] = topo[j] => i = j
  /\ \A i \in DOMAIN topo : LeadsTo(topo[i]) \subseteq InTopo(i - 1)
RootInv ==
  /\ notwhite \subseteq Live
  /\ dfs # "done" => stack # <<>> /\ stack[1].node = Root
  /\ dfs = "done" => stack = <<>> /\ topo # <<>> /\ topo[Len(topo)] = Root
SearchInv == DfsTypeOK /\ StackInv /\ TopoInv /\ RootInv

=============================================================================
