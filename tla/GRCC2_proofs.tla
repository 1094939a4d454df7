---------------------------- MODULE GRCC2_proofs ----------------------------
(***************************************************************************)
(* The C program never schedules what it has passed, and nothing twice:    *)
(* ProgramInv and LinkInv are invariants of GRCC2 for every graph that     *)
(* meets the assumptions of Clusters.  With ClusterInv the first makes     *)
(* every scheduled entry one of a level to come; the second says which     *)
(* entries wait, and that two of one cluster never do: they would be nodes *)
(* of the threads one Sync waits for, on levels that differ.  TraceInv is  *)
(* about what a tick has executed: nothing of it comes again or was read   *)
(* too early, and nothing it handed control to is lost.                    *)
(***************************************************************************)
EXTENDS GRCC2, Clusters_proofs

OnLevel(m, l) == Clustered(m) /\ level[clusterOf[m]] = l

(* The lists hold entries of their own level.                              *)
Lists ==
  /\ head \in [1..MaxLevel -> Node \cup {0}]
  /\ \A l \in 1..MaxLevel : head[l] # 0 => OnLevel(head[l], l)
  /\ \A c \in Node : rest[c] \in Node => OnLevel(rest[c], level[c])

(* What runs is on the current level, and Nops schedule for later ones.    *)
Flow ==
  /\ now \in 0..MaxLevel
  /\ running # 0 => level[running] = now
  /\ pc # 0 => Clustered(pc) /\ clusterOf[pc] = running
  /\ \A e \in chain : Clustered(e[2]) /\ now < level[clusterOf[e[2]]]

ProgramInv ==
  /\ ClusterInv /\ CTypeOK
  /\ mode # "print" => stage = "ready"
  /\ mode # "tick" => chain = {}
  /\ mode = "tick" => Lists /\ Flow

(* Links are made to levels to come.                                       *)
Ahead == \A c \in Seeds : rest'[c] # rest[c] => level[c] > now

-----------------------------------------------------------------------------

(* The highest level exists.                                               *)
LEMMA TopLevel ==
  ASSUME ClusterInv, stage = "ready"
  PROVE  /\ MaxLevel \in Nat
         /\ \A n \in Node : Clustered(n) => level[clusterOf[n]] \in 0..MaxLevel
<1> DEFINE bounds == {l \in Nat : \A c \in Seeds : level[c] <= l}
<1>1. Seeds \subseteq Node /\ \A c \in Node : level[c] \in Nat
  BY DEF Seeds, ClusterInv, ClusterTypeOK
<1>2. Root \in Seeds
  BY FixedArcs DEF ClusterInv, Started, Seeds
<1>3. bounds # {}
  BY <1>1 DEF ClusterInv, Bounded
<1>4. PICK l \in bounds : \A k \in bounds : l <= k
  <2>1. bounds \in SUBSET Nat
    OBVIOUS
  <2> HIDE DEF bounds
  <2> QED
    BY <1>3, <2>1, LeastNat
<1>5. \E c \in Seeds : level[c] = l
  <2> SUFFICES ASSUME \A c \in Seeds : level[c] # l
               PROVE  FALSE
    OBVIOUS
  <2>1. \A c \in Seeds : level[c] \in Nat /\ level[c] < l
    BY <1>1, <1>4
  <2>2. l - 1 \in bounds
    BY <1>2, <1>4, <2>1
  <2> QED
    BY <1>4, <2>2
<1>6. MaxLevel \in {level[c] : c \in Seeds} /\ \A c \in Seeds : level[c] <= MaxLevel
  BY <1>4, <1>5 DEF MaxLevel
<1>7. \A n \in Node : Clustered(n) => clusterOf[n] \in Seeds
  BY DEF Clustered, Seeds
<1> QED
  BY <1>1, <1>6, <1>7

(* The macro _schedule_ of an entry of a level to come.                    *)
LEMMA ScheduleKeeps ==
  ASSUME ProgramInv, mode = "tick", UNCHANGED clusterVars,
         NEW m \in Node, Clustered(m), now < level[clusterOf[m]], Schedule(m)
  PROVE  /\ Lists' /\ Ahead
         /\ head' \in Seq(Node \cup {0}) /\ rest' \in [Node -> Node \cup {0, Unset}]
<1> DEFINE c == clusterOf[m]
           l == level[c]
<1>1. ClusterInv /\ stage = "ready" /\ Lists /\ now \in Nat
  BY DEF ProgramInv, CTypeOK
<1>2. c \in Node /\ l \in Nat /\ l \in 1..MaxLevel /\ MaxLevel \in Nat
  BY <1>1, TopLevel DEF ClusterInv, ClusterTypeOK, Clustered
<1>3. head' = [head EXCEPT ![l] = m] /\ rest' = [rest EXCEPT ![c] = head[l]]
  BY DEF Schedule
<1>4. rest \in [Node -> Node \cup {0, Unset}]
  BY DEF ProgramInv, CTypeOK
<1>5. clusterOf' = clusterOf /\ level' = level /\ MaxLevel' = MaxLevel
  BY DEF clusterVars, MaxLevel, Seeds
<1>6. head[l] \in Node \cup {0} /\ (head[l] # 0 => OnLevel(head[l], l))
  BY <1>1, <1>2 DEF Lists
<1>7. /\ head' \in [1..MaxLevel -> Node \cup {0}]
      /\ head'[l] = m /\ \A k \in (1..MaxLevel) \ {l} : head'[k] = head[k]
  BY <1>1, <1>2, <1>3 DEF Lists
<1>8. /\ rest' \in [Node -> Node \cup {0, Unset}]
      /\ rest'[c] = head[l] /\ \A d \in Node \ {c} : rest'[d] = rest[d]
  BY <1>2, <1>3, <1>4, <1>6
<1>9. \A k \in 1..MaxLevel : head'[k] # 0 => OnLevel(head'[k], k)
  BY <1>1, <1>2, <1>7 DEF Lists, OnLevel
<1>10. \A d \in Node : rest'[d] \in Node => OnLevel(rest'[d], level[d])
  <2>1. 0 \notin Node
    BY FixedArcs
  <2> QED
    BY <1>1, <1>6, <1>8, <2>1 DEF Lists
<1>11. Lists'
  BY <1>5, <1>7, <1>9, <1>10 DEF Lists, OnLevel, Clustered
<1>12. Ahead
  BY <1>8 DEF Ahead, Seeds, ProgramInv, ClusterInv, ClusterTypeOK
<1> QED
  BY <1>2, <1>7, <1>8, <1>11, <1>12

(* Control passes along an arc.                                            *)
LEMMA GoToKeeps ==
  ASSUME ProgramInv, mode = "tick", chain = {}, pc # 0,
         UNCHANGED <<clusterVars, now, running, chain>>,
         NEW m \in CSuccSet(pc) \cup {0}, GoTo(m)
  PROVE  /\ Lists' /\ Flow' /\ Ahead
         /\ head' \in Seq(Node \cup {0}) /\ rest' \in [Node -> Node \cup {0, Unset}]
         /\ pc' \in Node \cup {0}
<1>1. /\ ClusterInv /\ stage = "ready" /\ Lists /\ Flow /\ pc \in Node
      /\ head \in Seq(Node \cup {0}) /\ rest \in [Node -> Node \cup {0, Unset}]
  BY DEF ProgramInv, CTypeOK
<1>2. clusterOf' = clusterOf /\ level' = level /\ MaxLevel' = MaxLevel
  BY DEF clusterVars, MaxLevel, Seeds
<1>3. ASSUME m # 0
      PROVE  /\ m \in Node /\ Clustered(m)
             /\ clusterOf[m] # running => now < level[clusterOf[m]]
  <2>1. m \in Node /\ pc \in Before[m]
    BY <1>1, <1>3, FixedArcs
  <2>2. /\ clusterOf[m] \in Node
        /\ clusterOf[pc] # clusterOf[m] => level[clusterOf[pc]] < level[clusterOf[m]]
    BY <1>1, <2>1, ArcsClimb
  <2>3. clusterOf[pc] = running /\ running # 0 /\ level[running] = now
    BY <1>1 DEF Flow, Clustered
  <2> QED
    BY <2>1, <2>2, <2>3, FixedArcs DEF Clustered
<1>4. CASE m # 0 /\ clusterOf[m] = running /\ pc' = m /\ UNCHANGED <<head, rest>>
  <2>1. Lists'
    BY <1>1, <1>2, <1>4 DEF Lists, OnLevel, Clustered
  <2>2. Flow'
    BY <1>1, <1>2, <1>3, <1>4 DEF Flow, Clustered
  <2> QED
    BY <1>1, <1>3, <1>4, <2>1, <2>2 DEF Ahead
<1>5. CASE m # 0 /\ clusterOf[m] # running /\ pc' = 0 /\ Schedule(m)
  <2>1. Flow'
    BY <1>1, <1>2, <1>5 DEF Flow, Clustered
  <2> QED
    BY <1>3, <1>5, <2>1, ScheduleKeeps
<1>6. CASE m = 0 /\ pc' = 0 /\ UNCHANGED <<head, rest>>
  <2>1. Lists'
    BY <1>1, <1>2, <1>6 DEF Lists, OnLevel, Clustered
  <2>2. Flow'
    BY <1>1, <1>2, <1>6 DEF Flow, Clustered
  <2> QED
    BY <1>1, <1>6, <2>1, <2>2 DEF Ahead
<1> QED
  BY <1>4, <1>5, <1>6 DEF GoTo

(* A branch that is taken, and the way on from a node, are arcs.           *)
LEMMA WaysAreArcs ==
  ASSUME ProgramInv, mode = "tick", pc # 0
  PROVE  /\ \A v : Branch(v) => \E m \in CSuccSet(pc) : GoTo(m)
         /\ GoOn => \E m \in CSuccSet(pc) \cup {0} : GoTo(m)
<1>1. pc \in Node
  BY DEF ProgramInv, CTypeOK
<1>2. ASSUME NEW v, Branch(v)
      PROVE  \E m \in CSuccSet(pc) : GoTo(m)
  <2>1. Arm(pc, v) \in DOMAIN CSucc[pc] /\ CSucc[pc][Arm(pc, v)] # 0
    BY <1>2 DEF Branch, Arms
  <2> QED
    BY <1>2, <2>1 DEF Branch, CSuccSet
<1>3. ASSUME GoOn
      PROVE  \E m \in CSuccSet(pc) \cup {0} : GoTo(m)
  <2>1. CSucc[pc] # <<>> => 1 \in DOMAIN CSucc[pc]
    BY <1>1, FixAssumption
  <2> QED
    BY <1>3, <2>1 DEF GoOn, CSuccSet
<1> QED
  BY <1>2, <1>3

(* The variables of the printed program that hold no control.              *)
DataOK ==
  /\ signals \subseteq Signal
  /\ state \in [STExcl -> Nat \ {0}]
  /\ term \in [OfKind("sync") -> Nat]

(* What the assumptions on the graph say of the fields the printed         *)
(* statements read.                                                        *)
LEMMA NodeFacts ==
  /\ Input \subseteq Signal /\ Len(Children(1)) \in Nat \ {0}
  /\ \A n \in Node :
       /\ Code(n) \in Nat
       /\ Kind(n) \in {"emit", "exit", "define"} => Sig(n) \in Signal
       /\ Kind(n) = "enter" /\ Settled[Graph[n].st] # 0 =>
            /\ Parent(Settled[Graph[n].st]) \in STExcl
            /\ ChildNum(Settled[Graph[n].st]) \in Nat \ {0}
<1>1. Len(Graph) \in Nat /\ Len(Tree) \in Nat
  BY GraphAssumption
<1>2. ASSUME NEW e \in STNode
      PROVE  Len(Children(e)) \in Nat
  <2>1. Tree[e] \in TreeRecord
    BY <1>1, GraphAssumption DEF STNode
  <2> QED
    BY <2>1 DEF TreeRecord, Children
<1>3. Len(Children(1)) \in Nat \ {0}
  BY <1>2, TreeAssumption DEF STExcl
<1>4. ASSUME NEW n \in Node
      PROVE  Code(n) \in Nat
  <2>1. Graph[n] \in NodeRecord
    BY <1>1, GraphAssumption DEF Node
  <2> QED
    BY <2>1 DEF NodeRecord, Code
<1>5. ASSUME NEW n \in Node, Kind(n) = "enter", Settled[Graph[n].st] # 0
      PROVE  /\ Parent(Settled[Graph[n].st]) \in STExcl
             /\ ChildNum(Settled[Graph[n].st]) \in Nat \ {0}
  <2> DEFINE c == Settled[Graph[n].st]
  <2>1. Graph[n].st \in STNode
    BY <1>5, ArcAssumption
  <2>2. Parent(c) \in STExcl /\ ChildNum(c) \in 1..Len(Children(Parent(c)))
    BY <1>5, <2>1, TreeAssumption
  <2>3. Len(Children(Parent(c))) \in Nat
    BY <1>2, <2>2 DEF STExcl
  <2> QED
    BY <2>2, <2>3
<1> QED
  BY <1>3, <1>4, <1>5, GraphAssumption, ArcAssumption

(* The program's variables for signals, states and terminations keep their *)
(* types.                                                                  *)
LEMMA DataTypes ==
  ASSUME ProgramInv, [CNext]_cVars
  PROVE  DataOK'
<1>1. DataOK /\ pc \in Node \cup {0}
  BY DEF ProgramInv, CTypeOK, DataOK
<1>2. ASSUME UNCHANGED <<signals, state, term>>
      PROVE  DataOK'
  BY <1>1, <1>2 DEF DataOK
<1>3. ASSUME Compile \/ RunSwitch \/ RunTest \/ RunSync \/ RunNop \/ RunPass
               \/ EndCluster \/ NextLevel \/ UNCHANGED cVars
      PROVE  DataOK'
  <2>1. UNCHANGED <<signals, state, term>>
    BY <1>3 DEF Compile, RunSwitch, RunTest, RunSync, RunNop, RunPass, EndCluster,
                NextLevel, cVars, runVars
  <2> QED
    BY <1>2, <2>1
<1>4. ASSUME NEW inputs \in SUBSET Input, TickStart(inputs)
      PROVE  DataOK'
  BY <1>1, <1>4, NodeFacts DEF TickStart, DataOK
<1>5. RunFork => DataOK'
  BY <1>1 DEF RunFork, DataOK
<1>6. ASSUME RunTerminate
      PROVE  DataOK'
  <2>1. Code(pc) \in Nat
    BY <1>1, <1>6, NodeFacts DEF RunTerminate, AtNode
  <2>2. /\ term' = [s \in DOMAIN term |->
                      IF DataSucc(pc) = {s} /\ Cardinality(Arms(s)) > 1 /\ Code(pc) > term[s]
                      THEN Code(pc) ELSE term[s]]
        /\ UNCHANGED <<signals, state>>
    BY <1>6 DEF RunTerminate
  <2>3. term' \in [OfKind("sync") -> Nat]
    BY <1>1, <2>1, <2>2 DEF DataOK
  <2> QED
    BY <1>1, <2>2, <2>3 DEF DataOK
<1>7. ASSUME RunEnter
      PROVE  DataOK'
  <2>1. pc \in Node /\ Kind(pc) = "enter"
    BY <1>1, <1>7 DEF RunEnter, AtNode
  <2>2. state' \in [STExcl -> Nat \ {0}]
    BY <1>1, <1>7, <2>1, NodeFacts DEF RunEnter, DataOK
  <2> QED
    BY <1>1, <1>7, <2>2 DEF RunEnter, DataOK
<1>8. ASSUME RunEmit \/ RunDefine
      PROVE  DataOK'
  <2>1. Sig(pc) \in Signal
    BY <1>1, <1>8, NodeFacts DEF RunEmit, RunDefine, AtNode
  <2> QED
    BY <1>1, <1>8, <2>1 DEF RunEmit, RunDefine, DataOK
<1>9. TickEnd => DataOK'
  BY <1>1 DEF TickEnd, DataOK
<1>10. Reset => DataOK'
  BY <1>1, NodeFacts DEF Reset, DataOK
<1> QED
  BY <1>3, <1>4, <1>5, <1>6, <1>7, <1>8, <1>9, <1>10 DEF CNext, RunNext

(* The variables that hold control.                                        *)
ControlOK ==
  /\ head \in Seq(Node \cup {0})
  /\ rest \in [Node -> Node \cup {0, Unset}]
  /\ chain \subseteq Nat \X Node
  /\ now \in Nat /\ running \in Node \cup {0} /\ pc \in Node \cup {0}

(* Nodes that are executed one after the other.                            *)
RunNode ==
  \/ RunSwitch \/ RunTest \/ RunSync \/ RunTerminate
  \/ RunEnter \/ RunEmit \/ RunDefine \/ RunPass

(* The statements of a node other than a Fork's leave the lists alone.     *)
LEMMA NodeKeeps ==
  ASSUME ProgramInv, RunNode
  PROVE  /\ mode = "tick" /\ UNCHANGED <<mode, clusterVars>>
         /\ Lists' /\ Flow' /\ Ahead /\ ControlOK'
<1>1. /\ mode = "tick" /\ chain = {} /\ pc # 0
      /\ UNCHANGED <<mode, clusterVars, now, running, chain>>
      /\ GoOn \/ \E v : Branch(v)
  BY DEF RunNode, RunSwitch, RunTest, RunSync, RunTerminate, RunEnter, RunEmit,
         RunDefine, RunPass, AtNode, Frame
<1>2. PICK m \in CSuccSet(pc) \cup {0} : GoTo(m)
  BY <1>1, WaysAreArcs
<1>3. /\ Lists' /\ Flow' /\ Ahead
      /\ head' \in Seq(Node \cup {0}) /\ rest' \in [Node -> Node \cup {0, Unset}]
      /\ pc' \in Node \cup {0}
  BY <1>1, <1>2, GoToKeeps
<1>4. ControlOK'
  BY <1>1, <1>3 DEF ControlOK, ProgramInv, CTypeOK
<1> QED
  BY <1>1, <1>3, <1>4

(* A Fork's statements hand its branches to the Nops that schedule them.   *)
LEMMA ForkKeeps ==
  ASSUME ProgramInv, RunFork
  PROVE  /\ mode = "tick" /\ UNCHANGED <<mode, clusterVars>>
         /\ Lists' /\ Flow' /\ Ahead /\ ControlOK'
<1> DEFINE away == {i \in DOMAIN CSucc[pc] : clusterOf[CSucc[pc][i]] # running}
           stay == {m \in CSuccSet(pc) : clusterOf[m] = running}
<1>1. /\ mode = "tick" /\ pc # 0 /\ Kind(pc) = "fork"
      /\ UNCHANGED <<mode, clusterVars, now, running, head, rest>>
      /\ chain' = {<<i, CSucc[pc][i]>> : i \in away}
      /\ pc' = IF stay = {} THEN 0 ELSE CHOOSE m \in stay : TRUE
  BY DEF RunFork, AtNode, Frame
<1>2. ClusterInv /\ stage = "ready" /\ Lists /\ Flow /\ ControlOK /\ pc \in Node
  BY <1>1 DEF ProgramInv, CTypeOK, ControlOK
<1>3. clusterOf' = clusterOf /\ level' = level /\ MaxLevel' = MaxLevel
  BY <1>1 DEF clusterVars, MaxLevel, Seeds
<1>4. clusterOf[pc] = running /\ level[running] = now
  BY <1>1, <1>2 DEF Flow, Clustered
<1>5. ASSUME NEW i \in DOMAIN CSucc[pc]
      PROVE  /\ i \in Nat /\ CSucc[pc][i] \in Node /\ CSucc[pc][i] \in CSuccSet(pc)
  BY <1>1, <1>2, <1>5, FixAssumption DEF CSuccSet
<1>6. ASSUME NEW m \in CSuccSet(pc)
      PROVE  /\ m \in Node /\ Clustered(m)
             /\ clusterOf[m] # running => now < level[clusterOf[m]]
  <2>1. m \in Node /\ pc \in Before[m]
    BY <1>2, <1>6, FixedArcs
  <2> QED
    BY <1>2, <1>4, <2>1, ArcsClimb, FixedArcs DEF Clustered
<1>7. chain' \subseteq Nat \X Node
  BY <1>1, <1>5
<1>8. \A e \in chain' : Clustered(e[2]) /\ now < level[clusterOf[e[2]]]
  BY <1>1, <1>5, <1>6
<1>9. /\ pc' \in Node \cup {0}
      /\ pc' # 0 => Clustered(pc') /\ clusterOf[pc'] = running
  <2>1. stay # {} => (CHOOSE m \in stay : TRUE) \in stay
    OBVIOUS
  <2> QED
    BY <1>1, <1>6, <2>1
<1>10. Flow'
  BY <1>1, <1>2, <1>3, <1>8, <1>9 DEF Flow, Clustered
<1>11. Lists' /\ Ahead
  BY <1>1, <1>2, <1>3 DEF Lists, OnLevel, Clustered, Ahead
<1>12. ControlOK'
  BY <1>1, <1>2, <1>7, <1>9 DEF ControlOK
<1> QED
  BY <1>1, <1>10, <1>11, <1>12

(* A Nop of split links the cluster of one branch into the list of its     *)
(* level.                                                                  *)
LEMMA NopKeeps ==
  ASSUME ProgramInv, RunNop
  PROVE  /\ mode = "tick" /\ UNCHANGED <<mode, clusterVars>>
         /\ Lists' /\ Flow' /\ Ahead /\ ControlOK'
<1>1. PICK e \in chain : Schedule(e[2]) /\ chain' = chain \ {e}
  BY DEF RunNop
<1>2. mode = "tick" /\ UNCHANGED <<mode, clusterVars, now, running, pc>>
  BY DEF RunNop, Frame
<1>3. ClusterInv /\ Lists /\ Flow /\ ControlOK
  BY <1>2 DEF ProgramInv, CTypeOK, ControlOK
<1>4. e[2] \in Node /\ Clustered(e[2]) /\ now < level[clusterOf[e[2]]]
  BY <1>1, <1>3 DEF Flow, ControlOK
<1>5. /\ Lists' /\ Ahead
      /\ head' \in Seq(Node \cup {0}) /\ rest' \in [Node -> Node \cup {0, Unset}]
  BY <1>1, <1>2, <1>4, ScheduleKeeps
<1>6. clusterOf' = clusterOf /\ level' = level /\ MaxLevel' = MaxLevel
  BY <1>2 DEF clusterVars, MaxLevel, Seeds
<1>7. Flow'
  BY <1>1, <1>2, <1>3, <1>6 DEF Flow, Clustered
<1>8. ControlOK'
  BY <1>1, <1>2, <1>3, <1>5 DEF ControlOK
<1> QED
  BY <1>2, <1>5, <1>7, <1>8

(* A jump to the rest of the list, or to the next level.                   *)
LEMMA JumpKeeps ==
  ASSUME ProgramInv, EndCluster \/ NextLevel
  PROVE  /\ mode = "tick" /\ UNCHANGED <<mode, clusterVars>>
         /\ Lists' /\ Flow' /\ Ahead /\ ControlOK'
<1>1. /\ mode = "tick" /\ chain = {} /\ UNCHANGED <<mode, clusterVars, head, rest, chain>>
      /\ running' = IF pc' = 0 THEN 0 ELSE clusterOf[pc']
  BY DEF EndCluster, NextLevel, AtEnd
<1>2. ClusterInv /\ stage = "ready" /\ Lists /\ Flow /\ ControlOK
  BY <1>1 DEF ProgramInv, CTypeOK, ControlOK
<1>3. clusterOf' = clusterOf /\ level' = level /\ MaxLevel' = MaxLevel /\ MaxLevel \in Nat
  BY <1>1, <1>2, TopLevel DEF clusterVars, MaxLevel, Seeds
<1>4. /\ now' \in 0..MaxLevel /\ pc' \in Node \cup {0}
      /\ pc' # 0 => OnLevel(pc', now')
  <2>1. CASE EndCluster
    <3>1. /\ running # 0 /\ now' = now
          /\ now > 0 => rest[running] # Unset
          /\ pc' = IF now = 0 THEN 0 ELSE rest[running]
      BY <2>1 DEF EndCluster
    <3>2. running \in Node /\ level[running] = now /\ now \in 0..MaxLevel
      BY <1>2, <3>1 DEF Flow, ControlOK
    <3>3. rest[running] \in Node \cup {0, Unset}
      BY <1>2, <3>2 DEF ControlOK
    <3> QED
      BY <1>2, <3>1, <3>2, <3>3 DEF Lists
  <2>2. CASE NextLevel
    <3>1. now < MaxLevel /\ now' = now + 1 /\ pc' = head[now']
      BY <2>2 DEF NextLevel
    <3>2. now \in 0..MaxLevel
      BY <1>2 DEF Flow
    <3>3. now' \in 1..MaxLevel
      BY <1>3, <3>1, <3>2
    <3> QED
      BY <1>2, <1>3, <3>1, <3>3 DEF Lists
  <2> QED
    BY <2>1, <2>2
<1>5. pc' # 0 => running' \in Node /\ level[running'] = now' /\ Clustered(pc')
  BY <1>1, <1>2, <1>4 DEF OnLevel, Clustered, ClusterInv, ClusterTypeOK
<1>6. Flow'
  BY <1>1, <1>3, <1>4, <1>5 DEF Flow, Clustered
<1>7. Lists' /\ Ahead
  BY <1>1, <1>2, <1>3 DEF Lists, OnLevel, Clustered, Ahead
<1>8. ControlOK'
  BY <1>1, <1>2, <1>3, <1>4, <1>5 DEF ControlOK
<1> QED
  BY <1>1, <1>6, <1>7, <1>8

(* The tick function starts with the lists empty but for the first         *)
(* cluster.                                                                *)
LEMMA StartKeeps ==
  ASSUME ProgramInv, NEW inputs \in SUBSET Input, TickStart(inputs)
  PROVE  /\ mode = "idle" /\ mode' = "tick" /\ UNCHANGED clusterVars
         /\ Lists' /\ Flow' /\ ControlOK'
<1>1. /\ mode = "idle" /\ mode' = "tick" /\ UNCHANGED <<clusterVars, chain>>
      /\ head' = [l \in 1..MaxLevel |-> 0] /\ rest' = [n \in Node |-> Unset]
      /\ now' = 0 /\ running' = clusterOf[Root] /\ pc' = Root
  BY DEF TickStart
<1>2. ClusterInv /\ stage = "ready" /\ chain = {} /\ Root \in Node /\ 0 \notin Node
  BY <1>1, FixedArcs DEF ProgramInv
<1>3. /\ clusterOf' = clusterOf /\ level' = level /\ MaxLevel' = MaxLevel
      /\ MaxLevel \in Nat /\ clusterOf[Root] = Root /\ level[Root] = 0
  BY <1>1, <1>2, TopLevel
  DEF clusterVars, MaxLevel, Seeds, ClusterInv, Started, Relaxed
<1>4. Lists'
  <2>1. Unset \notin Node
    BY FixedArcs DEF Unset
  <2> QED
    BY <1>1, <1>2, <1>3, <2>1 DEF Lists
<1>5. Flow'
  BY <1>1, <1>2, <1>3 DEF Flow, Clustered
<1>6. head' \in Seq(Node \cup {0})
  BY <1>1, <1>3
<1>7. ControlOK'
  BY <1>1, <1>2, <1>3, <1>6 DEF ControlOK
<1> QED
  BY <1>1, <1>4, <1>5, <1>7

-----------------------------------------------------------------------------
(* What waits.  W is the set of the entries in lists that will still be    *)
(* read; with what the Nops have to schedule and with pc they are the      *)
(* nodes that will run without another decision.                           *)

Stops == {e[2] : e \in chain}
Busy(W) == W \cup Stops \cup ({pc} \ {0})

(* The lists: what is read from them is in W, and is read once.            *)
Lined(W) ==
  /\ \A x \in W : Clustered(x) /\ now <= level[clusterOf[x]] /\ clusterOf[x] # running
  /\ \A x \in W : rest[clusterOf[x]] \in W \cup {0}
  /\ \A x, y \in W : rest[clusterOf[x]] = rest[clusterOf[y]] => x = y \/ rest[clusterOf[x]] = 0
  /\ \A l \in 1..MaxLevel : now < l =>
       /\ head[l] \in W \cup {0}
       /\ \A x \in W : rest[clusterOf[x]] = head[l] => head[l] = 0
  /\ running # 0 /\ now > 0 =>
       /\ rest[running] \in W \cup {0}
       /\ \A x \in W : rest[clusterOf[x]] = rest[running] => rest[running] = 0
  /\ \A c \in Node : rest[c] # Unset /\ now < level[c] => \E x \in W : clusterOf[x] = c

(* Threads: one node of each place will run, and the Sync of its thread    *)
(* waits for it.                                                           *)
Threaded(W) ==
  /\ \A x, y \in Busy(W) : Home(x) = Home(y) => x = y
  /\ W \cap Stops = {} /\ pc \notin W \cup Stops
  /\ \A d, e \in chain : d[2] = e[2] => d = e
  /\ \A x \in Busy(W) : Home(x) # Main => Home(x).sync \in W \cup Stops

LinkInv == mode = "tick" => \E W \in SUBSET Node : Lined(W) /\ Threaded(W)

(* No step links a cluster that was linked before.                         *)
Once == \A c \in Seeds : rest'[c] # rest[c] => rest[c] = Unset

(* The entries of a list are linked one after the other, as r counts them, *)
(* and each is where a list starts, or follows another one or what runs.   *)
(* So what waits is read: a list has an end and no other part.             *)
RankedBy(W, r, k) ==
  /\ \A x \in W : r[x] < k /\ 0 < level[clusterOf[x]]
  /\ \A x \in W : rest[clusterOf[x]] # 0 => r[rest[clusterOf[x]]] < r[x]
  /\ \A x \in W :
       \/ \E z \in W : rest[clusterOf[z]] = x
       \/ now < level[clusterOf[x]] /\ head[level[clusterOf[x]]] = x
       \/ running # 0 /\ rest[running] = x
Ranked(W) == \E r \in [Node -> Nat], k \in Nat : RankedBy(W, r, k)

(* A step of the tick, from W to V: what comes to wait is on a level to    *)
(* come, the lists stay lists, and B is what will run then.                *)
Moves(W, V, B) ==
  /\ \A x \in V : x \in W \/ now < level[clusterOf[x]]
  /\ Ranked(W) => Ranked(V)'
  /\ Busy(V)' = B

(* The macro _schedule_ puts an entry that is in no list before the others *)
(* of its level.                                                           *)
LEMMA ScheduleLines ==
  ASSUME ProgramInv, mode = "tick", UNCHANGED <<clusterVars, now, running>>,
         NEW W \in SUBSET Node, Lined(W),
         NEW m \in Node \ W, Clustered(m), now < level[clusterOf[m]], Schedule(m),
         \A x \in W : clusterOf[x] # clusterOf[m]
  PROVE  Lined(W \cup {m})' /\ Once
<1> DEFINE c == clusterOf[m]
           l == level[c]
           V == W \cup {m}
<1>1. /\ ClusterInv /\ stage = "ready" /\ Lists /\ Flow /\ now \in Nat
      /\ rest \in [Node -> Node \cup {0, Unset}]
  BY DEF ProgramInv, CTypeOK
<1>2. c \in Node /\ l \in Nat /\ l \in 1..MaxLevel /\ MaxLevel \in Nat /\ now < l
  BY <1>1, TopLevel DEF ClusterInv, ClusterTypeOK, Clustered
<1>3. 0 \notin Node
  BY FixedArcs
<1>4. c # running
  BY <1>1, <1>2, <1>3 DEF Flow
<1>5. clusterOf' = clusterOf /\ level' = level /\ MaxLevel' = MaxLevel
      /\ now' = now /\ running' = running
  BY DEF clusterVars, MaxLevel, Seeds
<1>6. \A x \in W : clusterOf[x] \in Node /\ clusterOf[x] # c
  BY DEF ClusterInv, ClusterTypeOK, Clustered, Lined, ProgramInv
<1>7. head[l] \in W \cup {0} /\ \A x \in W : rest[clusterOf[x]] = head[l] => head[l] = 0
  BY <1>2 DEF Lined
<1>8. /\ head'[l] = m /\ \A k \in (1..MaxLevel) \ {l} : head'[k] = head[k]
  BY <1>1, <1>2 DEF Lists, Schedule
<1>9. /\ rest'[c] = head[l] /\ \A d \in Node \ {c} : rest'[d] = rest[d]
  BY <1>1, <1>2 DEF Schedule
<1>10. \A x \in W : rest'[clusterOf[x]] = rest[clusterOf[x]]
  BY <1>6, <1>9
<1>11. \A x \in V : Clustered(x)' /\ now' <= level'[clusterOf'[x]] /\ clusterOf'[x] # running'
  <2>1. \A x \in V : Clustered(x) /\ now <= level[clusterOf[x]] /\ clusterOf[x] # running
    BY <1>2, <1>1, <1>4 DEF Lined
  <2> QED
    BY <2>1, <1>5 DEF Clustered
<1>12. \A x \in V : rest'[clusterOf'[x]] \in V \cup {0}
  BY <1>5, <1>7, <1>9, <1>10 DEF Lined
<1>13. \A x, y \in V : rest'[clusterOf'[x]] = rest'[clusterOf'[y]]
         => x = y \/ rest'[clusterOf'[x]] = 0
  BY <1>5, <1>7, <1>9, <1>10 DEF Lined
<1>14. ASSUME NEW k \in 1..MaxLevel, now < k
       PROVE  /\ head'[k] \in V \cup {0}
              /\ \A x \in V : rest'[clusterOf[x]] = head'[k] => head'[k] = 0
  <2>1. CASE k = l
    <3>1. ASSUME NEW x \in V
          PROVE  rest'[clusterOf[x]] # m
      <4>1. rest'[clusterOf[x]] \in W \cup {0}
        BY <1>7, <1>9, <1>10 DEF Lined
      <4> QED
        BY <4>1, <1>3
    <3> QED
      BY <1>8, <2>1, <3>1
  <2>2. CASE k # l
    <3>1. head'[k] = head[k] /\ head[k] \in W \cup {0}
          /\ \A x \in W : rest[clusterOf[x]] = head[k] => head[k] = 0
      BY <1>8, <1>14, <2>2 DEF Lined
    <3>2. head[l] = head[k] => head[k] = 0
      BY <1>1, <1>2, <2>2 DEF Lists, OnLevel
    <3> QED
      BY <1>9, <1>10, <3>1, <3>2
  <2> QED
    BY <2>1, <2>2
<1>15. ASSUME running # 0, now > 0
       PROVE  /\ rest'[running] \in V \cup {0}
              /\ \A x \in V : rest'[clusterOf[x]] = rest'[running] => rest'[running] = 0
  <2>1. running \in Node /\ level[running] = now
    BY <1>1, <1>15 DEF Flow, ProgramInv, CTypeOK
  <2>2. /\ rest'[running] = rest[running] /\ rest[running] \in W \cup {0}
        /\ \A x \in W : rest[clusterOf[x]] = rest[running] => rest[running] = 0
    BY <1>4, <1>9, <1>15, <2>1 DEF Lined
  <2>3. head[l] = rest[running] => rest[running] = 0
    <3>1. rest[running] \in Node => OnLevel(rest[running], now)
      BY <1>1, <2>1 DEF Lists
    <3>2. head[l] # 0 => OnLevel(head[l], l)
      BY <1>1, <1>2 DEF Lists
    <3> QED
      BY <2>2, <3>1, <3>2, <1>1, <1>2 DEF OnLevel
  <2> QED
    BY <1>9, <1>10, <2>2, <2>3
<1>16. ASSUME NEW d \in Node, rest'[d] # Unset, now < level[d]
       PROVE  \E x \in V : clusterOf[x] = d
  BY <1>9, <1>16 DEF Lined
<1>17. Lined(V)'
  <2> HIDE DEF V
  <2> QED
    BY <1>5, <1>11, <1>12, <1>13, <1>14, <1>15, <1>16 DEF Lined
<1>18. Once
  <2> SUFFICES ASSUME NEW d \in Seeds, rest'[d] # rest[d], rest[d] # Unset
               PROVE  FALSE
    BY DEF Once
  <2>1. d \in Node
    BY DEF Seeds, ProgramInv, ClusterInv, ClusterTypeOK
  <2>2. d = c
    BY <1>9, <2>1
  <2>3. \E x \in W : clusterOf[x] = c
    BY <1>2, <2>2 DEF Lined
  <2> QED
    BY <2>3
<1> QED
  BY <1>17, <1>18

(* It becomes the first of its list.                                       *)
LEMMA ScheduleRanks ==
  ASSUME ProgramInv, mode = "tick", UNCHANGED <<clusterVars, now, running>>,
         NEW W \in SUBSET Node, Lined(W), Ranked(W),
         NEW m \in Node \ W, Clustered(m), now < level[clusterOf[m]], Schedule(m),
         \A x \in W : clusterOf[x] # clusterOf[m]
  PROVE  Ranked(W \cup {m})'
<1> DEFINE c == clusterOf[m]
           l == level[c]
           V == W \cup {m}
<1>1. PICK r \in [Node -> Nat], k \in Nat : RankedBy(W, r, k)
  BY DEF Ranked
<1>2. /\ ClusterInv /\ stage = "ready" /\ Lists /\ Flow /\ now \in Nat /\ 0 \notin Node
      /\ rest \in [Node -> Node \cup {0, Unset}]
  BY FixedArcs DEF ProgramInv, CTypeOK
<1>3. c \in Node /\ l \in Nat /\ l \in 1..MaxLevel /\ now < l /\ 0 < l
  BY <1>2, TopLevel DEF ClusterInv, ClusterTypeOK, Clustered
<1>4. clusterOf' = clusterOf /\ level' = level /\ now' = now /\ running' = running
  BY DEF clusterVars
<1>5. running # 0 => running # c
  BY <1>2, <1>3 DEF Flow
<1>6. \A x \in W : clusterOf[x] \in Node /\ clusterOf[x] # c
  BY <1>2 DEF ClusterInv, ClusterTypeOK, Clustered, Lined
<1>7. head[l] \in W \cup {0}
  BY <1>3 DEF Lined
<1>8. /\ head'[l] = m /\ \A i \in (1..MaxLevel) \ {l} : head'[i] = head[i]
      /\ rest'[c] = head[l] /\ \A d \in Node \ {c} : rest'[d] = rest[d]
  BY <1>2, <1>3 DEF Lists, Schedule
<1>9. /\ \A x \in W : rest'[clusterOf[x]] = rest[clusterOf[x]] /\ rest[clusterOf[x]] \in W \cup {0}
      /\ running # 0 => running \in Node /\ rest'[running] = rest[running]
  BY <1>5, <1>6, <1>8 DEF Lined, ProgramInv, CTypeOK
<1>10. PICK q \in [Node -> Nat] : q[m] = k /\ \A x \in Node \ {m} : q[x] = r[x]
  <2>1. [r EXCEPT ![m] = k] \in [Node -> Nat]
    OBVIOUS
  <2> QED
    BY <2>1
<1>11. \A x \in V : q[x] < k + 1 /\ 0 < level[clusterOf[x]]
  BY <1>1, <1>3, <1>10 DEF RankedBy
<1>12. ASSUME NEW x \in V, rest'[clusterOf[x]] # 0
       PROVE  q[rest'[clusterOf[x]]] < q[x]
  <2>1. CASE x = m
    BY <1>1, <1>7, <1>8, <1>10, <1>12, <2>1 DEF RankedBy
  <2>2. CASE x \in W
    BY <1>1, <1>9, <1>10, <1>12, <2>2 DEF RankedBy
  <2> QED
    BY <2>1, <2>2
<1>13. ASSUME NEW x \in V
       PROVE  \/ \E z \in V : rest'[clusterOf[z]] = x
              \/ now < level[clusterOf[x]] /\ head'[level[clusterOf[x]]] = x
              \/ running # 0 /\ rest'[running] = x
  <2>1. CASE x = m
    BY <1>3, <1>8, <2>1
  <2>2. CASE x \in W
    <3>1. CASE \E z \in W : rest[clusterOf[z]] = x
      BY <1>9, <3>1
    <3>2. CASE running # 0 /\ rest[running] = x
      BY <1>9, <3>2
    <3>3. CASE now < level[clusterOf[x]] /\ head[level[clusterOf[x]]] = x
      <4>1. CASE level[clusterOf[x]] = l
        BY <1>8, <3>3, <4>1
      <4>2. CASE level[clusterOf[x]] # l
        <5>1. level[clusterOf[x]] \in 1..MaxLevel
          BY <1>2, <1>11, <2>2, TopLevel DEF Lined
        <5> QED
          BY <1>8, <3>3, <4>2, <5>1
      <4> QED
        BY <4>1, <4>2
    <3> QED
      BY <1>1, <2>2, <3>1, <3>2, <3>3 DEF RankedBy
  <2> QED
    BY <2>1, <2>2
<1> HIDE DEF V
<1>14. RankedBy(V, q, k + 1)'
  BY <1>4, <1>11, <1>12, <1>13 DEF RankedBy
<1>15. Ranked(V)'
  BY <1>14 DEF Ranked
<1> QED
  BY <1>15 DEF V

(* A node hands its place on to the one it leads to; the Terminate of a    *)
(* thread leads nowhere.                                                   *)
LEMMA ArcsStayHome ==
  ASSUME NEW n \in Node, Kind(n) # "fork", NEW m \in CSuccSet(n)
  PROVE  m \in Node /\ n < m /\ n \in Before[m] /\ Home(m) = Home(n)
<1>1. m \in Node /\ n \in Before[m] /\ n < m
  BY FixedArcs
<1>2. Kind(n) # "term" \/ Home(n) = Main
  BY RewiredArcs DEF CSuccSet
<1>3. m \in SuccSet(n)
  BY <1>2, RewiredArcs
<1> QED
  BY <1>1, <1>2, <1>3, NestAssumption, OtherPlaces

(* What the two parts of the invariant say when there are no Nops.         *)
LEMMA WithoutNops ==
  ASSUME chain = {}, NEW W \in SUBSET Node, pc \in Node \cup {0}
  PROVE  Threaded(W) <=>
           /\ \A x, y \in W : Home(x) = Home(y) => x = y
           /\ Upward(W)
           /\ pc # 0 =>
                /\ \A x \in W : Home(x) # Home(pc)
                /\ Home(pc) # Main => Home(pc).sync \in W
<1>1. Stops = {} /\ 0 \notin Node
  BY FixedArcs DEF Stops
<1>2. CASE pc = 0
  BY <1>1, <1>2 DEF Threaded, Busy, Upward
<1>3. CASE pc # 0
  <2>1. Busy(W) = W \cup {pc}
    BY <1>1, <1>3 DEF Busy
  <2> QED
    BY <1>1, <1>3, <2>1 DEF Threaded, Upward
<1> QED
  BY <1>2, <1>3

(* What is left to show of the threads when a step leaves no Nops.         *)
LEMMA NoNopsAfter ==
  ASSUME chain' = {}, NEW V \in SUBSET Node, pc' \in Node \cup {0},
         \A x, y \in V : Home(x) = Home(y) => x = y, Upward(V),
         pc' # 0 => /\ \A x \in V : Home(x) # Home(pc')
                    /\ Home(pc') # Main => Home(pc').sync \in V
  PROVE  Threaded(V)'
<1>1. Stops' = {} /\ 0 \notin Node
  BY FixedArcs DEF Stops
<1>2. CASE pc' = 0
  BY <1>1, <1>2 DEF Threaded, Busy, Upward
<1>3. CASE pc' # 0
  <2>1. Busy(V)' = V \cup {pc'}
    BY <1>1, <1>3 DEF Busy
  <2> QED
    BY <1>1, <1>3, <2>1 DEF Threaded, Upward
<1> QED
  BY <1>2, <1>3

(* Control passes along an arc.                                            *)
LEMMA GoToLines ==
  ASSUME ProgramInv, mode = "tick", chain = {}, pc # 0, Kind(pc) # "fork",
         UNCHANGED <<clusterVars, now, running, chain>>,
         NEW W \in SUBSET Node, Lined(W), Threaded(W),
         NEW m \in CSuccSet(pc) \cup {0}, GoTo(m)
  PROVE  Once /\ \E V \in SUBSET Node : Lined(V)' /\ Threaded(V)' /\ Moves(W, V, W \cup ({m} \ {0}))
<1>1. /\ ClusterInv /\ stage = "ready" /\ Flow /\ pc \in Node /\ 0 \notin Node
      /\ clusterOf[pc] = running /\ level[running] = now /\ running # 0
  BY FixedArcs DEF ProgramInv, CTypeOK, Flow, Clustered
<1>2. clusterOf' = clusterOf /\ level' = level /\ MaxLevel' = MaxLevel
      /\ now' = now /\ running' = running /\ chain' = {}
  BY DEF clusterVars, MaxLevel, Seeds
<1>3. /\ \A x, y \in W : Home(x) = Home(y) => x = y
      /\ Upward(W) /\ \A x \in W : Home(x) # Home(pc)
      /\ Home(pc) # Main => Home(pc).sync \in W
  BY <1>1, WithoutNops
<1>4. ASSUME UNCHANGED <<head, rest>>
      PROVE  Lined(W)' /\ Once
  BY <1>2, <1>4 DEF Lined, Clustered, Once
<1>5. ASSUME NEW V \in SUBSET Node, pc' \in Node \cup {0},
             \A x, y \in V : Home(x) = Home(y) => x = y, Upward(V),
             pc' # 0 => /\ \A x \in V : Home(x) # Home(pc')
                        /\ Home(pc') # Main => Home(pc').sync \in V
      PROVE  Threaded(V)'
  BY <1>2, <1>5, NoNopsAfter
<1>6. ASSUME m # 0
      PROVE  m \in Node /\ Home(m) = Home(pc) /\ Clustered(m) /\ m \notin W
             /\ (clusterOf[m] # running => now < level[clusterOf[m]])
  <2>1. m \in Node /\ pc \in Before[m] /\ Home(m) = Home(pc)
    BY <1>1, <1>6, ArcsStayHome
  <2>2. /\ clusterOf[m] \in Node
        /\ clusterOf[pc] # clusterOf[m] => level[clusterOf[pc]] < level[clusterOf[m]]
    BY <1>1, <2>1, ArcsClimb
  <2> QED
    BY <1>1, <1>3, <2>1, <2>2 DEF Clustered
<1>10. ASSUME UNCHANGED <<head, rest>>, Ranked(W)
       PROVE  Ranked(W)'
  BY <1>2, <1>10 DEF Ranked, RankedBy
<1>11. ASSUME NEW V \in SUBSET Node
       PROVE  Busy(V)' = V \cup ({pc'} \ {0})
  BY <1>2 DEF Busy, Stops
<1>7. CASE m # 0 /\ clusterOf[m] = running /\ pc' = m /\ UNCHANGED <<head, rest>>
  <2>1. Threaded(W)'
    BY <1>3, <1>5, <1>6, <1>7
  <2>2. Moves(W, W, W \cup ({m} \ {0}))
    BY <1>2, <1>6, <1>7, <1>10, <1>11 DEF Moves
  <2> QED
    BY <1>4, <1>7, <2>1, <2>2
<1>8. CASE m # 0 /\ clusterOf[m] # running /\ pc' = 0 /\ Schedule(m)
  <2> DEFINE V == W \cup {m}
  <2>1. /\ V \in SUBSET Node /\ Upward(V)
        /\ \A x, y \in V : Home(x) = Home(y) => x = y
    BY <1>3, <1>6, <1>8 DEF Upward
  <2>2. \A x \in W : clusterOf[x] # clusterOf[m]
    <3> SUFFICES ASSUME NEW x \in W, clusterOf[m] = clusterOf[x] PROVE FALSE
      OBVIOUS
    <3>1. m \in V /\ x \in V
      OBVIOUS
    <3> HIDE DEF V
    <3>2. m = x
      BY <1>1, <1>6, <1>8, <2>1, <3>1, OneOfCluster
    <3> QED
      BY <1>6, <1>8, <3>2
  <2>3. Lined(V)' /\ Once
    BY <1>1, <1>6, <1>8, <2>2, ScheduleLines
  <2>4. Threaded(V)'
    <3> HIDE DEF V
    <3> QED
      BY <1>5, <1>8, <2>1
  <2>5. Ranked(W) => Ranked(V)'
    BY <1>1, <1>6, <1>8, <2>2, ScheduleRanks
  <2>6. Moves(W, V, W \cup ({m} \ {0}))
    <3>1. \A x \in V : x \in W \/ now < level[clusterOf[x]]
      BY <1>6, <1>8
    <3>2. V = W \cup ({m} \ {0})
      BY <1>8
    <3> HIDE DEF V
    <3> QED
      BY <1>8, <1>11, <2>1, <2>5, <3>1, <3>2 DEF Moves
  <2> QED
    BY <2>1, <2>3, <2>4, <2>6
<1>9. CASE m = 0 /\ pc' = 0 /\ UNCHANGED <<head, rest>>
  <2>1. Moves(W, W, W \cup ({m} \ {0}))
    BY <1>9, <1>10, <1>11 DEF Moves
  <2> QED
    BY <1>3, <1>4, <1>5, <1>9, <2>1
<1> QED
  BY <1>7, <1>8, <1>9 DEF GoTo

(* A Fork puts a node in every thread of its Sync, and the Sync where it   *)
(* was itself: none was there, since the Sync would have waited for it.    *)
LEMMA ForkLines ==
  ASSUME ProgramInv, RunFork, NEW W \in SUBSET Node, Lined(W), Threaded(W)
  PROVE  Once /\ Lined(W)' /\ Threaded(W)'
<1> DEFINE f == pc
           s == Graph[f].sync
           L == Len(Succ(f))
           D == 1..(L + 1)
           g(i) == CSucc[f][i]
           away == {i \in DOMAIN CSucc[f] : clusterOf[CSucc[f][i]] # running}
           stay == {m \in CSuccSet(f) : clusterOf[m] = running}
<1>1. /\ mode = "tick" /\ chain = {} /\ f # 0 /\ Kind(f) = "fork"
      /\ UNCHANGED <<mode, clusterVars, now, running, head, rest>>
      /\ chain' = {<<i, CSucc[f][i]>> : i \in away}
      /\ pc' = IF stay = {} THEN 0 ELSE CHOOSE m \in stay : TRUE
  BY DEF RunFork, AtNode, Frame
<1>2. /\ ClusterInv /\ stage = "ready" /\ f \in Node /\ Clustered(f) /\ clusterOf[f] = running
  BY <1>1 DEF ProgramInv, CTypeOK, Flow
<1>3. /\ DOMAIN CSucc[f] = D /\ L \in Nat /\ DOMAIN Succ(f) = 1..L
      /\ \A i \in 1..L : g(i) = Succ(f)[i]
      /\ g(L + 1) = s
  BY <1>1, <1>2, RewiredArcs, Arcs
<1>4. /\ s \in Node /\ Kind(s) = "sync" /\ Home(s) = Home(f) /\ f < s
      /\ \A i \in 1..L : /\ g(i) \in Node /\ Home(g(i)) # Main
                         /\ Home(g(i)).sync = s /\ Home(g(i)).thread = i - 1
  <2>1. Nested /\ f \in Inner
    BY <1>2, NestAssumption
  <2>2. s \in Node /\ Kind(s) = "sync" /\ Home(s) = Home(f)
    BY <1>1, <2>1, ForkPlaces, Places
  <2>3. s \in CSuccSet(f)
    <3>1. L + 1 \in DOMAIN CSucc[f] /\ s # 0
      BY <1>3, <2>2, FixedArcs
    <3> QED
      BY <1>3, <3>1 DEF CSuccSet
  <2>4. f < s
    <3> HIDE DEF s, f
    <3>1. CSuccSet(f) \subseteq After[f] /\ (s \in After[f] <=> f \in Before[s])
      BY <1>2, <2>2, FixedArcs
    <3> QED
      BY <2>2, <2>3, <3>1, FixedArcs
  <2>5. ASSUME NEW i \in 1..L
        PROVE  /\ g(i) \in Node /\ Home(g(i)) # Main
               /\ Home(g(i)).sync = s /\ Home(g(i)).thread = i - 1
    <3>1. Succ(f)[i] \in Inner /\ Home(Succ(f)[i]) = PlaceOf(f, i) /\ PlaceOf(f, i) # Main
      BY <1>1, <1>3, <2>1, ForkPlaces
    <3> QED
      BY <1>3, <2>1, <3>1, Places DEF PlaceOf
  <2> QED
    BY <2>2, <2>4, <2>5
<1> HIDE DEF g, L, s, f, away, stay
<1>5. /\ \A x, y \in W : Home(x) = Home(y) => x = y
      /\ Upward(W) /\ \A x \in W : Home(x) # Home(f)
      /\ Home(f) # Main => Home(f).sync \in W
  <2>1. pc \in Node /\ pc # 0
    BY <1>1, <1>2 DEF f
  <2> QED
    BY <1>1, <2>1, WithoutNops DEF f
<1>6. \A i \in D : i \in 1..L \/ i = L + 1
  BY <1>3
<1>7. ASSUME NEW i \in D, NEW j \in D, Home(g(i)) = Home(g(j))
      PROVE  i = j
  <2>1. ASSUME NEW k \in 1..L
        PROVE  Home(g(k)) # Home(s)
    <3>1. Home(s) # Main => s < Home(s).sync
      BY <1>4, SyncIsLater
    <3>2. s \in Nat /\ ~(s < s)
      BY <1>4, FixedArcs
    <3> QED
      BY <1>4, <3>1, <3>2
  <2>2. CASE i \in 1..L /\ j \in 1..L
    <3>1. i - 1 = j - 1
      BY <1>4, <1>7, <2>2
    <3> QED
      BY <1>3, <2>2, <3>1
  <2>3. CASE i = L + 1 \/ j = L + 1
    BY <1>3, <1>6, <1>7, <2>1, <2>3
  <2> QED
    BY <1>6, <2>2, <2>3
<1>8. ASSUME NEW x \in W, NEW i \in D
      PROVE  Home(x) # Home(g(i))
  <2>1. CASE i = L + 1
    BY <1>3, <1>4, <1>5, <2>1
  <2>2. CASE i \in 1..L
    <3>1. Home(x) = Home(g(i)) => s \in W
      BY <1>4, <1>5, <2>2 DEF Upward
    <3> QED
      BY <1>4, <1>5, <3>1
  <2> QED
    BY <1>6, <2>1, <2>2
<1>9. ASSUME NEW i \in D
      PROVE  g(i) \in Node /\ (Home(g(i)) # Main => Home(g(i)).sync \in W \cup {s})
  BY <1>3, <1>4, <1>5, <1>6
<1>10. /\ Stops' = {g(i) : i \in away} /\ away \subseteq D
  <2>1. Stops' = {e[2] : e \in {<<i, g(i)>> : i \in away}}
    BY <1>1 DEF Stops, g
  <2>2. \A x : x \in {e[2] : e \in {<<i, g(i)>> : i \in away}} <=> \E i \in away : x = g(i)
    <3>1. ASSUME NEW i \in away
          PROVE  <<i, g(i)>>[2] = g(i)
      OBVIOUS
    <3>2. ASSUME NEW x, x \in {e[2] : e \in {<<i, g(i)>> : i \in away}}
          PROVE  \E i \in away : x = g(i)
      BY <3>2
    <3>3. ASSUME NEW i \in away
          PROVE  g(i) \in {e[2] : e \in {<<j, g(j)>> : j \in away}}
      <4>1. <<i, g(i)>> \in {<<j, g(j)>> : j \in away}
        OBVIOUS
      <4> QED
        BY <3>1, <4>1
    <3> QED
      BY <3>2, <3>3
  <2> QED
    BY <1>3, <2>1, <2>2 DEF away
<1>11. s \in Stops'
  <2>1. clusterOf[s] = s /\ running <= f
    <3>1. ~IsExit(s)
      BY <1>4 DEF IsExit
    <3> QED
      BY <1>2, <1>4, <3>1 DEF ClusterInv, Together, Complete
  <2>2. f \in Nat /\ s \in Nat /\ running \in Nat
    BY <1>2, <1>4, FixedArcs DEF ClusterInv, ClusterTypeOK, Clustered
  <2>3. clusterOf[s] # running
    BY <1>4, <2>1, <2>2
  <2>4. L + 1 \in away
    BY <1>3, <2>3 DEF away, g
  <2> QED
    BY <1>3, <1>10, <2>4
<1>12. pc' # 0 => \E i \in D : i \notin away /\ pc' = g(i)
  <2>1. ASSUME pc' # 0
        PROVE  pc' \in stay
    BY <1>1, <2>1
  <2>2. \A m \in stay : \E i \in D : g(i) = m /\ clusterOf[m] = running
    BY <1>3 DEF stay, CSuccSet, g
  <2> QED
    BY <2>1, <2>2 DEF away, g
<1>13. ASSUME NEW x \in Busy(W)'
       PROVE  x \in W \/ \E i \in D : x = g(i)
  BY <1>10, <1>12 DEF Busy
<1>14. \A x, y \in Busy(W)' : Home(x) = Home(y) => x = y
  BY <1>5, <1>7, <1>8, <1>13
<1>15. W \cap Stops' = {} /\ pc' \notin W \cup Stops'
  <2>1. W \cap Stops' = {}
    BY <1>8, <1>10
  <2>2. 0 \notin W \cup Stops'
    BY <1>9, <1>10, FixedArcs
  <2>3. \A i \in D : i \notin away => g(i) \notin W \cup Stops'
    BY <1>7, <1>8, <1>10
  <2> QED
    BY <1>12, <2>1, <2>2, <2>3
<1>16. \A d, e \in chain' : d[2] = e[2] => d = e
  <2>1. ASSUME NEW d \in chain', NEW e \in chain', d[2] = e[2]
        PROVE  d = e
    <3>1. PICK i \in away : d = <<i, g(i)>>
      BY <1>1 DEF g
    <3>2. PICK j \in away : e = <<j, g(j)>>
      BY <1>1 DEF g
    <3>3. g(i) = g(j)
      BY <2>1, <3>1, <3>2
    <3>4. i = j
      BY <1>7, <1>10, <3>3
    <3> QED
      BY <3>1, <3>2, <3>4
  <2> QED
    BY <2>1
<1>17. \A x \in Busy(W)' : Home(x) # Main => Home(x).sync \in W \cup Stops'
  BY <1>5, <1>9, <1>11, <1>13 DEF Upward
<1>18. Threaded(W)'
  BY <1>14, <1>15, <1>16, <1>17 DEF Threaded
<1>19. Lined(W)' /\ Once
  <2>1. clusterOf' = clusterOf /\ level' = level /\ MaxLevel' = MaxLevel
        /\ now' = now /\ running' = running /\ head' = head /\ rest' = rest
    BY <1>1 DEF clusterVars, MaxLevel, Seeds
  <2> QED
    BY <2>1 DEF Lined, Clustered, Once
<1> QED
  BY <1>18, <1>19

(* A Nop puts its node in a list; the same nodes will run.                 *)
LEMMA NopLines ==
  ASSUME ProgramInv, RunNop, NEW W \in SUBSET Node, Lined(W), Threaded(W)
  PROVE  Once /\ \E V \in SUBSET Node : Lined(V)' /\ Threaded(V)' /\ Moves(W, V, Busy(W))
<1>1. PICK e \in chain : Schedule(e[2]) /\ chain' = chain \ {e}
  BY DEF RunNop
<1>2. mode = "tick" /\ UNCHANGED <<mode, clusterVars, now, running, pc>>
  BY DEF RunNop, Frame
<1>3. /\ ClusterInv /\ stage = "ready" /\ Flow /\ chain \subseteq Nat \X Node
      /\ pc \in Node \cup {0}
  BY <1>2 DEF ProgramInv, CTypeOK
<1> DEFINE m == e[2]
           V == W \cup {m}
<1>4. m \in Node /\ Clustered(m) /\ now < level[clusterOf[m]] /\ m \in Stops /\ m \notin W
  BY <1>1, <1>3 DEF Flow, Stops, Threaded
<1>5. Stops' = Stops \ {m}
  <2>1. \A d \in chain : d[2] = m => d = e
    BY <1>1 DEF Threaded
  <2> QED
    BY <1>1, <2>1 DEF Stops
<1>6. Busy(V)' = Busy(W)
  BY <1>2, <1>4, <1>5 DEF Busy
<1>7. Threaded(V)'
  <2>1. /\ V \cap Stops' = {} /\ pc' \notin V \cup Stops'
        /\ V \cup Stops' = W \cup Stops
    BY <1>2, <1>4, <1>5 DEF Threaded
  <2>2. \A c, d \in chain' : c[2] = d[2] => c = d
    BY <1>1 DEF Threaded
  <2> HIDE DEF V
  <2> QED
    BY <1>6, <2>1, <2>2 DEF Threaded
<1>8. \A x \in W : clusterOf[x] # clusterOf[m]
  <2> SUFFICES ASSUME NEW x \in W, clusterOf[m] = clusterOf[x] PROVE FALSE
    OBVIOUS
  <2>1. /\ Busy(W) \in SUBSET Node /\ x \in Busy(W) /\ m \in Busy(W)
        /\ Upward(Busy(W)) /\ \A y, z \in Busy(W) : Home(y) = Home(z) => y = z
    BY <1>3, <1>4 DEF Busy, Threaded, Upward, Stops
  <2>2. m = x
    BY <1>3, <1>4, <2>1, OneOfCluster
  <2> QED
    BY <1>4, <2>2
<1>9. Lined(V)' /\ Once
  BY <1>1, <1>2, <1>4, <1>8, ScheduleLines
<1>10. V \in SUBSET Node
  BY <1>4
<1>11. Ranked(W) => Ranked(V)'
  BY <1>1, <1>2, <1>4, <1>8, ScheduleRanks
<1>12. Moves(W, V, Busy(W))
  <2>1. \A x \in V : x \in W \/ now < level[clusterOf[x]]
    BY <1>4
  <2> HIDE DEF V
  <2> QED
    BY <1>6, <1>11, <2>1 DEF Moves
<1> QED
  BY <1>7, <1>9, <1>10, <1>12

(* Control comes to an entry y of level l, or to its END: 0.  V holds the  *)
(* entries in lists that are still to be read, y among them.               *)
LEMMA TakeLines ==
  ASSUME ProgramInv, mode = "tick", chain = {},
         UNCHANGED <<clusterVars, head, rest, chain>>,
         NEW l \in Nat, now' = l,
         NEW V \in SUBSET Node, NEW y \in V \cup {0}, pc' = y,
         running' = IF y = 0 THEN 0 ELSE clusterOf[y],
         y # 0 => level[clusterOf[y]] = l /\ \A x \in V : rest[clusterOf[x]] # y,
         \A x, z \in V : Home(x) = Home(z) => x = z, Upward(V),
         \A x \in V : Clustered(x) /\ l <= level[clusterOf[x]],
         \A x \in V : rest[clusterOf[x]] \in V \cup {0},
         \A x, z \in V :
           rest[clusterOf[x]] = rest[clusterOf[z]] => x = z \/ rest[clusterOf[x]] = 0,
         \A k \in 1..MaxLevel : l < k =>
           /\ head[k] \in V \cup {0}
           /\ \A x \in V : rest[clusterOf[x]] = head[k] => head[k] = 0,
         \A d \in Node : rest[d] # Unset /\ l < level[d] => \E x \in V : clusterOf[x] = d
  PROVE  Lined(V \ {y})' /\ Threaded(V \ {y})'
<1> DEFINE U == V \ {y}
<1>1. /\ ClusterInv /\ stage = "ready" /\ Lists /\ 0 \notin Node
      /\ \A d \in Node : level[d] \in Nat
  BY FixedArcs DEF ProgramInv, ClusterInv, ClusterTypeOK
<1>2. clusterOf' = clusterOf /\ level' = level /\ MaxLevel' = MaxLevel
      /\ head' = head /\ rest' = rest /\ chain' = {}
  BY DEF clusterVars, MaxLevel, Seeds
<1>3. \A x \in V : clusterOf[x] \in Node /\ clusterOf[x] # 0
  BY <1>1 DEF ClusterInv, ClusterTypeOK, Clustered
<1>4. /\ U \in SUBSET Node /\ \A x \in U : x \in V /\ x # y
      /\ \A x \in V : x = y \/ x \in U
      /\ y # 0 => y \in V
  OBVIOUS
<1> HIDE DEF U
<1>5. \A x \in U : clusterOf[x] # running'
  <2>1. ASSUME NEW x \in U, y # 0
        PROVE  clusterOf[x] # clusterOf[y]
    <3> SUFFICES ASSUME clusterOf[x] = clusterOf[y] PROVE FALSE
      OBVIOUS
    <3>1. x \in V /\ y \in V /\ Clustered(x)
      BY <1>4, <2>1
    <3>2. x = y
      BY <1>1, <3>1, OneOfCluster
    <3> QED
      BY <1>4, <3>2
  <2> QED
    BY <1>3, <1>4, <2>1
<1>6. \A x \in U : rest[clusterOf[x]] \in U \cup {0}
  BY <1>4
<1>7. \A x, z \in U : rest[clusterOf[x]] = rest[clusterOf[z]] => x = z \/ rest[clusterOf[x]] = 0
  BY <1>4
<1>8. ASSUME NEW k \in 1..MaxLevel, l < k
      PROVE  /\ head[k] \in U \cup {0}
             /\ \A x \in U : rest[clusterOf[x]] = head[k] => head[k] = 0
  <2>1. head[k] # 0 => level[clusterOf[head[k]]] = k
    BY <1>1 DEF Lists, OnLevel
  <2>2. head[k] = 0 \/ head[k] # y
    BY <1>8, <2>1
  <2> QED
    BY <1>4, <1>8, <2>2
<1>9. running' # 0 => /\ rest[running'] \in U \cup {0}
                      /\ \A x \in U : rest[clusterOf[x]] = rest[running'] => rest[running'] = 0
  BY <1>4
<1>10. ASSUME NEW d \in Node, rest[d] # Unset, l < level[d]
       PROVE  \E x \in U : clusterOf[x] = d
  BY <1>1, <1>4, <1>10
<1>11. Lined(U)'
  <2>1. \A x \in U : Clustered(x)' /\ now' <= level'[clusterOf'[x]]
    BY <1>2, <1>4 DEF Clustered
  <2> QED
    BY <1>2, <1>5, <1>6, <1>7, <1>8, <1>9, <1>10, <2>1 DEF Lined
<1>12. ASSUME NEW x \in U, Home(x) # Main
       PROVE  Home(x).sync \in U
  <2>1. Home(x).sync \in V
    BY <1>4, <1>12 DEF Upward
  <2>2. y # 0 => Home(x).sync # y
    <3>1. level[clusterOf[x]] < level[clusterOf[Home(x).sync]]
      BY <1>1, <1>4, <1>12, ThreadsAreLower
    <3>2. l <= level[clusterOf[x]] /\ level[clusterOf[x]] \in Nat
      BY <1>1, <1>3, <1>4
    <3> QED
      BY <3>1, <3>2
  <2> QED
    BY <1>1, <1>4, <2>1, <2>2
<1>13. ASSUME pc' # 0
       PROVE  /\ \A x \in U : Home(x) # Home(pc')
              /\ Home(pc') # Main => Home(pc').sync \in U
  <2>1. y \in V /\ y \in Node /\ y \in Nat
    BY <1>4, <1>13, FixedArcs
  <2>2. Home(y) # Main => y < Home(y).sync
    BY <2>1, SyncIsLater
  <2>3. Home(y) # Main => Home(y).sync \in V /\ Home(y).sync # y
    BY <2>1, <2>2 DEF Upward
  <2> QED
    BY <1>4, <1>13, <2>1, <2>3
<1>14. Threaded(U)'
  BY <1>2, <1>4, <1>12, <1>13, NoNopsAfter DEF Upward
<1> QED
  BY <1>11, <1>14 DEF U

(* The rest of the list, and the first entry of the next one.              *)
LEMMA JumpLines ==
  ASSUME ProgramInv, EndCluster \/ NextLevel, NEW W \in SUBSET Node, Lined(W), Threaded(W)
  PROVE  /\ Once
         /\ \E V \in SUBSET W :
              /\ Lined(V)' /\ Threaded(V)' /\ pc' \in W \cup {0}
              /\ \A x \in W : \/ x \in V \/ x = pc'
                              \/ running = 0 /\ level[clusterOf[x]] = now
<1>1. /\ mode = "tick" /\ chain = {} /\ pc = 0 /\ UNCHANGED <<clusterVars, head, rest, chain>>
      /\ running' = IF pc' = 0 THEN 0 ELSE clusterOf[pc']
  BY DEF EndCluster, NextLevel, AtEnd
<1>2. /\ ClusterInv /\ stage = "ready" /\ Lists /\ Flow /\ 0 \notin Node
      /\ now \in Nat /\ MaxLevel \in Nat /\ pc \in Node \cup {0} /\ running \in Node \cup {0}
      /\ \A d \in Node : level[d] \in Nat
  BY <1>1, TopLevel, FixedArcs DEF ProgramInv, CTypeOK, ClusterInv, ClusterTypeOK
<1>3. /\ \A x, y \in W : Home(x) = Home(y) => x = y
      /\ Upward(W)
  BY <1>1, <1>2, WithoutNops
<1>4. \A x \in W : Clustered(x) /\ now <= level[clusterOf[x]] /\ level[clusterOf[x]] \in Nat
                   /\ clusterOf[x] \in Node
  BY <1>2 DEF Lined, Clustered, ClusterInv, ClusterTypeOK
<1>5. Once
  BY <1>1 DEF Once
<1>6. CASE EndCluster
  <2>1. /\ running # 0 /\ now' = now /\ now \in Nat
        /\ pc' = IF now = 0 THEN 0 ELSE rest[running]
    BY <1>2, <1>6 DEF EndCluster
  <2>2. now > 0 => /\ rest[running] \in W \cup {0}
                   /\ \A x \in W : rest[clusterOf[x]] = rest[running] => rest[running] = 0
    BY <2>1 DEF Lined
  <2>3. pc' # 0 => /\ level[clusterOf[pc']] = now
                   /\ \A x \in W : rest[clusterOf[x]] # pc'
    <3>1. rest[running] \in Node => level[clusterOf[rest[running]]] = now
      BY <1>2, <2>1 DEF Lists, Flow, OnLevel
    <3> QED
      BY <2>1, <2>2, <3>1
  <2>4. pc' \in W \cup {0}
    BY <2>1, <2>2
  <2>5. /\ \A x \in W : rest[clusterOf[x]] \in W \cup {0}
        /\ \A x, z \in W :
             rest[clusterOf[x]] = rest[clusterOf[z]] => x = z \/ rest[clusterOf[x]] = 0
        /\ \A k \in 1..MaxLevel : now < k =>
             /\ head[k] \in W \cup {0}
             /\ \A x \in W : rest[clusterOf[x]] = head[k] => head[k] = 0
        /\ \A d \in Node : rest[d] # Unset /\ now < level[d] => \E x \in W : clusterOf[x] = d
    BY DEF Lined
  <2>6. PICK y \in W \cup {0} : pc' = y
    BY <2>4
  <2>7. Lined(W \ {y})' /\ Threaded(W \ {y})'
    BY <1>1, <1>2, <1>3, <1>4, <2>1, <2>3, <2>5, <2>6, TakeLines
  <2>8. W \ {y} \in SUBSET W /\ \A x \in W : x \in W \ {y} \/ x = pc'
    BY <2>6
  <2> QED
    BY <1>5, <2>4, <2>7, <2>8
<1>7. CASE NextLevel
  <2>1. /\ now < MaxLevel /\ now' = now + 1 /\ pc' = head[now + 1]
        /\ now + 1 \in 1..MaxLevel /\ now + 1 \in Nat
    BY <1>2, <1>7 DEF NextLevel
  <2>2. PICK V \in SUBSET Node :
          /\ V \subseteq W
          /\ \A x \in W : now + 1 <= level[clusterOf[x]] => x \in V
          /\ \A x \in V : now + 1 <= level[clusterOf[x]]
    <3> DEFINE S == {x \in W : now + 1 <= level[clusterOf[x]]}
    <3>1. /\ S \in SUBSET Node /\ S \subseteq W
          /\ \A x \in W : now + 1 <= level[clusterOf[x]] => x \in S
          /\ \A x \in S : now + 1 <= level[clusterOf[x]]
      OBVIOUS
    <3> QED
      BY <3>1
  <2>3. \A x \in V : rest[clusterOf[x]] \in V \cup {0}
    <3>1. ASSUME NEW x \in V, rest[clusterOf[x]] # 0
          PROVE  rest[clusterOf[x]] \in V
      <4>1. rest[clusterOf[x]] \in W
        BY <2>2, <3>1 DEF Lined
      <4>2. level[clusterOf[rest[clusterOf[x]]]] = level[clusterOf[x]]
        BY <1>2, <1>4, <2>2, <4>1 DEF Lists, OnLevel
      <4> QED
        BY <2>2, <4>1, <4>2
    <3> QED
      BY <3>1
  <2>4. ASSUME NEW k \in 1..MaxLevel, now < k
        PROVE  /\ head[k] \in V \cup {0}
               /\ head[k] # 0 => level[clusterOf[head[k]]] = k
               /\ \A x \in V : rest[clusterOf[x]] = head[k] => head[k] = 0
    <3>1. /\ head[k] \in W \cup {0}
          /\ \A x \in V : rest[clusterOf[x]] = head[k] => head[k] = 0
      BY <2>2, <2>4 DEF Lined
    <3>2. head[k] # 0 => level[clusterOf[head[k]]] = k
      BY <1>2 DEF Lists, OnLevel
    <3>3. k \in Nat /\ now + 1 <= k
      BY <1>2, <2>4
    <3> QED
      BY <2>2, <3>1, <3>2, <3>3
  <2>5. Upward(V)
    <3> SUFFICES ASSUME NEW x \in V, Home(x) # Main
                 PROVE  Home(x).sync \in V
      BY DEF Upward
    <3>1. x \in Node /\ x \in W /\ Home(x).sync \in W
      BY <1>3, <2>2 DEF Upward
    <3>2. level[clusterOf[x]] < level[clusterOf[Home(x).sync]]
      BY <1>2, <3>1, ThreadsAreLower
    <3>3. now + 1 <= level[clusterOf[Home(x).sync]]
      BY <1>2, <1>4, <2>2, <3>1, <3>2
    <3> QED
      BY <2>2, <3>1, <3>3
  <2>6. ASSUME NEW d \in Node, rest[d] # Unset, now + 1 < level[d]
        PROVE  \E x \in V : clusterOf[x] = d
    <3>1. level[d] \in Nat /\ now < level[d] /\ now + 1 <= level[d]
      BY <1>2, <2>6
    <3>2. PICK x \in W : clusterOf[x] = d
      BY <2>6, <3>1 DEF Lined
    <3> QED
      BY <2>2, <3>1, <3>2
  <2>7. PICK y \in V \cup {0} : pc' = y /\ y = head[now + 1]
    BY <1>2, <2>1, <2>4
  <2>8. y # 0 => level[clusterOf[y]] = now + 1 /\ \A x \in V : rest[clusterOf[x]] # y
    BY <1>2, <2>1, <2>4, <2>7
  <2>9. /\ \A x, z \in V : Home(x) = Home(z) => x = z
        /\ \A x \in V : Clustered(x) /\ now + 1 <= level[clusterOf[x]]
        /\ \A x, z \in V :
             rest[clusterOf[x]] = rest[clusterOf[z]] => x = z \/ rest[clusterOf[x]] = 0
    BY <1>3, <1>4, <2>2 DEF Lined
  <2>10. \A k \in 1..MaxLevel : now + 1 < k =>
           /\ head[k] \in V \cup {0}
           /\ \A x \in V : rest[clusterOf[x]] = head[k] => head[k] = 0
    <3>1. \A k \in 1..MaxLevel : now + 1 < k => now < k
      BY <1>2
    <3> QED
      BY <2>4, <3>1
  <2>11. Lined(V \ {y})' /\ Threaded(V \ {y})'
    BY <1>1, <2>1, <2>2, <2>3, <2>5, <2>6, <2>7, <2>8, <2>9, <2>10, TakeLines
  <2>12. V \ {y} \in SUBSET W /\ pc' \in W \cup {0}
    BY <2>2, <2>7
  <2>13. ASSUME NEW x \in W
         PROVE  x \in V \ {y} \/ x = pc' \/ (running = 0 /\ level[clusterOf[x]] = now)
    <3>1. now + 1 <= level[clusterOf[x]] \/ level[clusterOf[x]] = now
      BY <1>2, <1>4
    <3>2. running = 0
      BY <1>7 DEF NextLevel
    <3> QED
      BY <2>2, <2>7, <3>1, <3>2
  <2> QED
    BY <1>5, <2>11, <2>12, <2>13
<1> QED
  BY <1>6, <1>7

(* When a tick starts nothing waits.                                       *)
LEMMA StartLines ==
  ASSUME ProgramInv, NEW inputs \in SUBSET Input, TickStart(inputs)
  PROVE  Lined({})' /\ Threaded({})'
<1>1. /\ UNCHANGED <<clusterVars, chain>>
      /\ head' = [l \in 1..MaxLevel |-> 0] /\ rest' = [n \in Node |-> Unset]
      /\ now' = 0 /\ pc' = Root /\ chain = {}
  BY DEF TickStart, ProgramInv
<1>2. MaxLevel' = MaxLevel /\ chain' = {}
  BY <1>1 DEF clusterVars, MaxLevel, Seeds
<1>3. Root \in Node /\ Home(Root) = Main
  BY NestAssumption, FixedArcs DEF Nested
<1>4. Lined({})'
  BY <1>1, <1>2 DEF Lined
<1>5. Threaded({})'
  BY <1>1, <1>2, <1>3, NoNopsAfter DEF Upward
<1> QED
  BY <1>4, <1>5

(* What waits in a tick goes on waiting, and what waits is in no list      *)
(* twice.                                                                  *)
LEMMA LinkStays ==
  ASSUME ProgramInv, LinkInv, [CNext]_cVars
  PROVE  LinkInv' /\ (mode = "tick" => Once)
<1>1. ASSUME RunNode
      PROVE  mode = "tick" /\ Once /\ LinkInv'
  <2>1. /\ mode = "tick" /\ chain = {} /\ pc # 0 /\ Kind(pc) # "fork"
        /\ UNCHANGED <<clusterVars, now, running, chain>>
        /\ GoOn \/ \E v : Branch(v)
    BY <1>1 DEF RunNode, RunSwitch, RunTest, RunSync, RunTerminate, RunEnter, RunEmit,
                RunDefine, RunPass, AtNode, Frame
  <2>2. PICK W \in SUBSET Node : Lined(W) /\ Threaded(W)
    BY <2>1 DEF LinkInv
  <2>3. PICK m \in CSuccSet(pc) \cup {0} : GoTo(m)
    BY <2>1, WaysAreArcs
  <2>4. Once /\ \E V \in SUBSET Node : Lined(V)' /\ Threaded(V)'
    BY <2>1, <2>2, <2>3, GoToLines
  <2> QED
    BY <2>1, <2>4 DEF LinkInv
<1>2. ASSUME RunFork \/ RunNop \/ EndCluster \/ NextLevel
      PROVE  mode = "tick" /\ Once /\ LinkInv'
  <2>1. mode = "tick"
    BY <1>2 DEF RunFork, AtNode, RunNop, EndCluster, NextLevel, AtEnd
  <2>2. PICK W \in SUBSET Node : Lined(W) /\ Threaded(W)
    BY <2>1 DEF LinkInv
  <2>3. Once /\ \E V \in SUBSET Node : Lined(V)' /\ Threaded(V)'
    BY <1>2, <2>2, ForkLines, NopLines, JumpLines
  <2> QED
    BY <2>1, <2>3 DEF LinkInv
<1>3. ASSUME NEW inputs \in SUBSET Input, TickStart(inputs)
      PROVE  mode # "tick" /\ LinkInv'
  <2>1. Lined({})' /\ Threaded({})'
    BY <1>3, StartLines
  <2> QED
    BY <1>3, <2>1 DEF TickStart, LinkInv
<1>4. ASSUME Compile \/ TickEnd \/ Reset
      PROVE  LinkInv' /\ (mode = "tick" => Once)
  BY <1>4 DEF Compile, TickEnd, Reset, LinkInv, Once
<1>5. ASSUME UNCHANGED cVars
      PROVE  LinkInv' /\ (mode = "tick" => Once)
  <2>1. UNCHANGED <<clusterVars, runVars>>
    BY <1>5 DEF cVars
  <2>2. /\ mode' = mode /\ clusterOf' = clusterOf /\ level' = level /\ MaxLevel' = MaxLevel
        /\ UNCHANGED <<head, rest, now, running, pc, chain>>
    BY <2>1 DEF clusterVars, runVars, MaxLevel, Seeds
  <2>3. ASSUME NEW W \in SUBSET Node, Lined(W), Threaded(W)
        PROVE  Lined(W)' /\ Threaded(W)'
    BY <2>2, <2>3 DEF Lined, Clustered, Threaded, Busy, Stops
  <2> QED
    BY <2>2, <2>3 DEF LinkInv, Once
<1> QED
  BY <1>1, <1>2, <1>3, <1>4, <1>5 DEF CNext, RunNext, RunNode

-----------------------------------------------------------------------------

(* Before the first tick no list holds anything.                           *)
LEMMA ProgramStarts == CInit => ProgramInv
<1> SUFFICES ASSUME CInit
             PROVE  ProgramInv
  OBVIOUS
<1>1. ClusterInv
  BY InvStarts DEF CInit
<1>2. DataOK
  BY NodeFacts DEF CInit, DataOK
<1>3. ControlOK
  BY DEF CInit, ControlOK
<1>4. mode = "print" /\ chain = {}
  BY DEF CInit
<1> QED
  BY <1>1, <1>2, <1>3, <1>4
  DEF ProgramInv, CTypeOK, ClusterInv, DataOK, ControlOK

(* A step inside a tick; how a tick starts and ends; clustering.           *)
LEMMA ProgramStays == ProgramInv /\ [CNext]_cVars => ProgramInv'
<1> SUFFICES ASSUME ProgramInv, [CNext]_cVars
             PROVE  ProgramInv'
  OBVIOUS
<1>1. DataOK'
  BY DataTypes
<1>2. ASSUME ClusterInv', ControlOK', mode' \in {"print", "idle", "tick", "done"}
      PROVE  CTypeOK'
  BY <1>1, <1>2 DEF CTypeOK, ClusterInv, ControlOK, DataOK
<1>3. ASSUME UNCHANGED clusterVars
      PROVE  ClusterInv'
  BY <1>3, InvStays DEF ProgramInv
<1>4. ControlOK /\ mode \in {"print", "idle", "tick", "done"}
  BY DEF ProgramInv, CTypeOK, ControlOK
<1>5. ASSUME Compile
      PROVE  ProgramInv'
  <2>1. /\ mode = "print" /\ ClusterNext
        /\ mode' = IF stage' = "ready" THEN "idle" ELSE "print"
        /\ UNCHANGED <<head, rest, now, running, pc, chain>>
    BY <1>5 DEF Compile
  <2>2. ClusterInv' /\ ControlOK' /\ chain = {}
    BY <1>4, <2>1, InvStays DEF ProgramInv, ControlOK
  <2> QED
    BY <1>2, <2>1, <2>2 DEF ProgramInv
<1>6. ASSUME NEW inputs \in SUBSET Input, TickStart(inputs)
      PROVE  ProgramInv'
  <2>1. /\ mode = "idle" /\ mode' = "tick" /\ UNCHANGED clusterVars
        /\ Lists' /\ Flow' /\ ControlOK'
    BY <1>6, StartKeeps
  <2> QED
    BY <1>2, <1>3, <2>1 DEF ProgramInv, clusterVars
<1>7. ASSUME RunNode \/ RunFork \/ RunNop \/ EndCluster \/ NextLevel
      PROVE  ProgramInv'
  <2>1. /\ mode = "tick" /\ UNCHANGED <<mode, clusterVars>>
        /\ Lists' /\ Flow' /\ ControlOK'
    BY <1>7, NodeKeeps, ForkKeeps, NopKeeps, JumpKeeps
  <2> QED
    BY <1>2, <1>3, <2>1 DEF ProgramInv, clusterVars
<1>8. ASSUME TickEnd \/ Reset
      PROVE  ProgramInv'
  <2>1. /\ mode \in {"idle", "tick", "done"} /\ mode' \in {"idle", "done"} /\ chain = {}
        /\ UNCHANGED <<clusterVars, head, rest, now, running, pc, chain>>
    BY <1>8 DEF TickEnd, Reset, AtEnd, ProgramInv
  <2>2. ControlOK'
    BY <1>4, <2>1 DEF ControlOK
  <2> QED
    BY <1>2, <1>3, <2>1, <2>2 DEF ProgramInv, clusterVars
<1>9. ASSUME UNCHANGED cVars
      PROVE  ProgramInv'
  <2>1. UNCHANGED <<clusterVars, mode, head, rest, now, running, pc, chain>>
    BY <1>9 DEF cVars, runVars
  <2>2. ControlOK'
    BY <1>4, <2>1 DEF ControlOK
  <2>3. clusterOf' = clusterOf /\ level' = level /\ stage' = stage /\ MaxLevel' = MaxLevel
    BY <2>1 DEF clusterVars, MaxLevel, Seeds
  <2>4. mode = "tick" => Lists' /\ Flow'
    BY <2>1, <2>3 DEF ProgramInv, Lists, Flow, OnLevel, Clustered
  <2> QED
    BY <1>2, <1>3, <1>4, <2>1, <2>2, <2>3, <2>4 DEF ProgramInv
<1> QED
  BY <1>5, <1>6, <1>7, <1>8, <1>9 DEF CNext, RunNext, RunNode

(* The inductive invariant of the printed program and of what prints it.   *)
THEOREM ProgramIsSound == CSpec => []ProgramInv
<1> QED
  BY ProgramStarts, ProgramStays, PTL DEF CSpec

(* Every variable of the clustering and of the printed program has its     *)
(* type: a position inside the graph, a list of entries, a state above 0.  *)
THEOREM ProgramTypes == CSpec => []CTypeOK
<1>1. ProgramInv => CTypeOK
  BY DEF ProgramInv
<1> QED
  BY <1>1, ProgramIsSound, PTL

(* split never meets a node that is in no cluster.                         *)
THEOREM EveryNodeIsClustered == CSpec => []AllClustered
<1>1. ProgramInv => AllClustered
  BY InvImplies DEF ProgramInv
<1> QED
  BY <1>1, ProgramIsSound, PTL

(* levelize puts what a cluster needs on lower levels, and only the        *)
(* cluster that starts a tick on level 0.                                  *)
THEOREM LevelsAreSound == CSpec => []LevelsClimb
<1>1. ProgramInv => LevelsClimb
  BY InvImplies DEF ProgramInv
<1> QED
  BY <1>1, ProgramIsSound, PTL

(* No step of a tick puts an entry in a list that was read already.        *)
THEOREM SchedulesAhead == CSpec => LinkedAhead
<1>1. ASSUME ProgramInv, [CNext]_cVars, mode = "tick"
      PROVE  Ahead
  <2>1. RunNode \/ RunFork \/ RunNop \/ EndCluster \/ NextLevel => Ahead
    BY <1>1, NodeKeeps, ForkKeeps, NopKeeps, JumpKeeps
  <2>2. TickEnd \/ UNCHANGED cVars => rest' = rest
    BY DEF TickEnd, cVars, runVars
  <2>3. ~Compile /\ ~Reset /\ \A inputs : ~TickStart(inputs)
    BY <1>1 DEF Compile, Reset, TickStart
  <2> QED
    BY <1>1, <2>1, <2>2, <2>3 DEF CNext, RunNext, RunNode, Ahead
<1>2. ProgramInv /\ [CNext]_cVars
        => [\A c \in Seeds : mode = "tick" /\ rest'[c] # rest[c] => level[c] > now]_cVars
  BY <1>1 DEF Ahead
<1> QED
  BY <1>2, ProgramIsSound, PTL DEF CSpec, LinkedAhead

(* The lists hold what waits, in every state of a tick.                    *)
LEMMA LinksAreSound == CSpec => []LinkInv
<1>1. CInit => LinkInv
  BY DEF CInit, LinkInv
<1>2. ProgramInv /\ LinkInv /\ [CNext]_cVars => LinkInv'
  BY LinkStays
<1> QED
  BY <1>1, <1>2, ProgramIsSound, PTL DEF CSpec

(* "Should not have already found a successor in the same cluster": split  *)
(* finds one at most, whatever the order the frontier is taken in.         *)
THEOREM ForksGoOnOnce == CSpec => []OneThreadStays
<1>1. ProgramInv => OneThreadStays
  BY ForksGoOn DEF ProgramInv
<1> QED
  BY <1>1, ProgramIsSound, PTL

(* "The scheduling code assumes that each node is scheduled at most once": *)
(* no cluster is linked into a list again while it is in one.              *)
THEOREM LinksOnce == CSpec => LinkedOnce
<1>1. ProgramInv /\ LinkInv /\ [CNext]_cVars
        => [\A c \in Seeds : mode = "tick" /\ rest'[c] # rest[c] => rest[c] = Unset]_cVars
  BY LinkStays DEF Once
<1> QED
  BY <1>1, ProgramIsSound, LinksAreSound, PTL DEF CSpec, LinkedOnce

-----------------------------------------------------------------------------
(* Steps from what waits to what waits then.                               *)

(* A jump takes the first entry of a list that is left, and loses none:    *)
(* at the end of a level none of its entries waits, since the one with the *)
(* highest number would have to follow another one.                        *)
LEMMA NothingLeft ==
  ASSUME ProgramInv, mode = "tick", running = 0, NEW W \in SUBSET Node, Lined(W), Ranked(W)
  PROVE  \A x \in W : level[clusterOf[x]] # now
<1> SUFFICES ASSUME NEW w \in W, level[clusterOf[w]] = now
             PROVE  FALSE
  OBVIOUS
<1>1. PICK r \in [Node -> Nat], k \in Nat : RankedBy(W, r, k)
  BY DEF Ranked
<1> DEFINE here == {k - r[x] : x \in {y \in W : level[clusterOf[y]] = now}}
<1>2. here \in SUBSET Nat /\ here # {}
  <2>1. \A x \in W : r[x] \in Nat /\ r[x] < k
    BY <1>1 DEF RankedBy
  <2>2. \A x \in W : k - r[x] \in Nat
    BY <2>1
  <2> QED
    BY <2>2
<1>3. PICK h \in here : \A y \in here : h <= y
  <2> HIDE DEF here
  <2> QED
    BY <1>2, LeastNat
<1>4. PICK x \in W : level[clusterOf[x]] = now /\ h = k - r[x]
  OBVIOUS
<1>5. /\ Lists /\ now \in Nat /\ clusterOf[x] \in Node /\ 0 \notin Node
      /\ \A z \in W : clusterOf[z] \in Node
  BY FixedArcs DEF ProgramInv, CTypeOK, ClusterTypeOK, Lined, Clustered
<1>6. PICK z \in W : rest[clusterOf[z]] = x
  BY <1>1, <1>4, <1>5 DEF RankedBy
<1>7. r[x] < r[z]
  BY <1>1, <1>5, <1>6 DEF RankedBy
<1>8. level[clusterOf[z]] = now
  BY <1>4, <1>5, <1>6 DEF Lists, OnLevel
<1>9. k - r[z] \in here
  BY <1>8
<1>10. k - r[x] <= k - r[z]
  BY <1>3, <1>4, <1>9
<1> QED
  BY <1>7, <1>10

(* The entry a jump takes was followed by the next one.                    *)
LEMMA JumpRanks ==
  ASSUME ProgramInv, EndCluster \/ NextLevel,
         NEW W \in SUBSET Node, Lined(W), Ranked(W),
         NEW V \in SUBSET W, Lined(V)', pc' \notin V,
         \A x \in W : \/ x \in V \/ x = pc'
                      \/ running = 0 /\ level[clusterOf[x]] = now
  PROVE  Ranked(V)'
<1>1. /\ mode = "tick" /\ UNCHANGED <<clusterVars, head, rest>>
      /\ running' = IF pc' = 0 THEN 0 ELSE clusterOf[pc']
  BY DEF EndCluster, NextLevel, AtEnd
<1>2. clusterOf' = clusterOf /\ level' = level /\ head' = head /\ rest' = rest
  BY <1>1 DEF clusterVars
<1>3. /\ Lists /\ Flow /\ now \in Nat /\ 0 \notin Node
      /\ running \in Node \cup {0} /\ \A c \in Node : level[c] \in Nat
      /\ \A x \in W : clusterOf[x] \in Node /\ clusterOf[x] # 0
  BY <1>1, FixedArcs DEF ProgramInv, CTypeOK, ClusterTypeOK, Lined, Clustered
<1>4. \A x \in V : clusterOf[x] \in Node /\ now' <= level[clusterOf[x]]
  BY <1>2, <1>3 DEF Lined
<1>5. PICK r \in [Node -> Nat], k \in Nat : RankedBy(W, r, k)
  BY DEF Ranked
<1>6. /\ \A x \in V : r[x] < k /\ 0 < level[clusterOf[x]]
      /\ \A x \in V : rest[clusterOf[x]] # 0 => r[rest[clusterOf[x]]] < r[x]
  BY <1>5 DEF RankedBy
<1>7. ASSUME NEW x \in V
      PROVE  \/ \E z \in V : rest[clusterOf[z]] = x
             \/ now' < level[clusterOf[x]] /\ head[level[clusterOf[x]]] = x
             \/ running' # 0 /\ rest[running'] = x
  <2>1. x \in Node /\ x # 0 /\ x # pc' /\ x \in W
    BY <1>3
  <2>2. CASE \E z \in W : rest[clusterOf[z]] = x
    <3>1. PICK z \in W : rest[clusterOf[z]] = x
      BY <2>2
    <3>2. z \in Node /\ z # 0 /\ clusterOf[z] \in Node /\ clusterOf[z] # 0
      BY <1>3, <3>1
    <3>3. CASE z = pc'
      BY <1>1, <3>1, <3>2, <3>3
    <3>4. CASE running = 0 /\ level[clusterOf[z]] = now
      <4>1. now' = now + 1
        BY <3>4 DEF EndCluster, NextLevel
      <4>2. level[clusterOf[x]] = now
        BY <1>3, <2>1, <3>1, <3>2, <3>4 DEF Lists, OnLevel
      <4> QED
        BY <1>3, <1>4, <4>1, <4>2
    <3> QED
      BY <3>1, <3>3, <3>4
  <2>3. CASE now < level[clusterOf[x]] /\ head[level[clusterOf[x]]] = x
    <3>1. CASE EndCluster
      BY <2>3, <3>1 DEF EndCluster
    <3>2. CASE NextLevel
      <4>1. now' = now + 1 /\ pc' = head[now']
        BY <3>2 DEF NextLevel
      <4>2. level[clusterOf[x]] # now'
        BY <2>1, <2>3, <4>1
      <4> QED
        BY <1>3, <1>4, <2>3, <4>1, <4>2
    <3> QED
      BY <3>1, <3>2
  <2>4. CASE running # 0 /\ rest[running] = x
    <3>1. now = 0 /\ running \in Node /\ level[running] = now
      BY <1>3, <2>1, <2>4 DEF EndCluster, NextLevel, Flow
    <3>2. level[clusterOf[x]] = 0
      BY <1>3, <2>1, <2>4, <3>1 DEF Lists, OnLevel
    <3> QED
      BY <1>3, <1>4, <1>6, <3>2
  <2> QED
    BY <1>5, <2>1, <2>2, <2>3, <2>4 DEF RankedBy
<1>8. RankedBy(V, r, k)'
  BY <1>2, <1>6, <1>7 DEF RankedBy
<1> QED
  BY <1>8 DEF Ranked

(* So the same nodes will run after a jump.                                *)
LEMMA JumpMoves ==
  ASSUME ProgramInv, EndCluster \/ NextLevel,
         NEW W \in SUBSET Node, Lined(W), Threaded(W), Ranked(W)
  PROVE  \E V \in SUBSET W :
           Lined(V)' /\ Threaded(V)' /\ pc' \in W \cup {0} /\ Moves(W, V, Busy(W))
<1>1. mode = "tick" /\ chain = {} /\ chain' = {} /\ pc = 0
  BY DEF EndCluster, NextLevel, AtEnd
<1>2. PICK V \in SUBSET W :
        /\ Lined(V)' /\ Threaded(V)' /\ pc' \in W \cup {0}
        /\ \A x \in W : \/ x \in V \/ x = pc'
                        \/ running = 0 /\ level[clusterOf[x]] = now
  BY JumpLines
<1>3. pc' \notin V
  BY <1>2 DEF Threaded
<1>4. Ranked(V)'
  BY <1>2, <1>3, JumpRanks
<1>5. running = 0 => \A x \in W : level[clusterOf[x]] # now
  BY <1>1, NothingLeft
<1>6. Busy(W) = W
  BY <1>1 DEF Busy, Stops
<1>7. Busy(V)' = V \cup ({pc'} \ {0})
  BY <1>1 DEF Busy, Stops
<1>8. Busy(V)' = W
  <2>1. 0 \notin W
    BY FixedArcs
  <2> QED
    BY <1>2, <1>5, <1>7, <2>1
<1> QED
  BY <1>2, <1>4, <1>6, <1>8 DEF Moves

(* A Fork's branches and its Sync are in the lists' company now, and what  *)
(* stays in the cluster runs next.                                         *)
LEMMA ForkMoves ==
  ASSUME ProgramInv, RunFork, NEW W \in SUBSET Node
  PROVE  Moves(W, W, W \cup CSuccSet(pc)) /\ pc' \in CSuccSet(pc) \cup {0}
<1> DEFINE away == {i \in DOMAIN CSucc[pc] : clusterOf[CSucc[pc][i]] # running}
           stay == {m \in CSuccSet(pc) : clusterOf[m] = running}
<1>1. /\ mode = "tick" /\ pc # 0 /\ Kind(pc) = "fork"
      /\ UNCHANGED <<clusterVars, now, running, head, rest>>
      /\ chain' = {<<i, CSucc[pc][i]>> : i \in away}
      /\ Cardinality(stay) <= 1
      /\ pc' = IF stay = {} THEN 0 ELSE CHOOSE m \in stay : TRUE
  BY DEF RunFork, AtNode, Frame
<1>2. pc \in Node
  BY <1>1 DEF ProgramInv, CTypeOK
<1>3. 0 \notin Node /\ CSuccSet(pc) \subseteq Node
  BY <1>2, FixedArcs
<1>4. \A i \in DOMAIN CSucc[pc] : CSucc[pc][i] # 0 /\ CSucc[pc][i] \in CSuccSet(pc)
  BY <1>1, <1>2, FixAssumption DEF CSuccSet
<1>5. \A m \in CSuccSet(pc) : m # 0 /\ \E i \in DOMAIN CSucc[pc] : m = CSucc[pc][i]
  BY DEF CSuccSet
<1>6. \A x : x \in Stops' <=> \E i \in away : x = CSucc[pc][i]
  <2>1. Stops' = {e[2] : e \in chain'}
    BY DEF Stops
  <2>2. \A i \in away : \E e \in chain' : e[2] = CSucc[pc][i]
    <3>1. \A i \in away : <<i, CSucc[pc][i]>> \in chain' /\ <<i, CSucc[pc][i]>>[2] = CSucc[pc][i]
      BY <1>1
    <3> HIDE DEF away
    <3> QED
      BY <3>1
  <2>3. \A e \in chain' : \E i \in away : e[2] = CSucc[pc][i]
    BY <1>1
  <2>4. \A x : x \in Stops' <=> \E e \in chain' : x = e[2]
    BY <2>1
  <2> HIDE DEF away
  <2>5. ASSUME NEW x, x \in Stops'
        PROVE  \E i \in away : x = CSucc[pc][i]
    <3>1. PICK e \in chain' : x = e[2]
      BY <2>4, <2>5
    <3> QED
      BY <2>3, <3>1
  <2>6. ASSUME NEW i \in away
        PROVE  CSucc[pc][i] \in Stops'
    <3>1. PICK e \in chain' : e[2] = CSucc[pc][i]
      BY <2>2
    <3> QED
      BY <2>4, <3>1
  <2> QED
    BY <2>5, <2>6
<1>7. \A m, n \in stay : m = n
  <2>1. IsFiniteSet(stay)
    <3>1. IsFiniteSet(Node) /\ stay \subseteq Node
      BY <1>3, GraphAssumption, FS_Interval DEF Node
    <3> QED
      BY <3>1, FS_Subset
  <2> SUFFICES ASSUME NEW m \in stay, NEW n \in stay, m # n
               PROVE  FALSE
    OBVIOUS
  <2> HIDE DEF stay
  <2>2. IsFiniteSet(stay \ {m}) /\ Cardinality(stay \ {m}) = Cardinality(stay) - 1
    BY <2>1, FS_RemoveElement
  <2>3. Cardinality(stay) \in Nat /\ Cardinality(stay \ {m}) \in Nat
    BY <2>1, <2>2, FS_CardinalityType
  <2>4. Cardinality(stay \ {m}) = 0
    BY <1>1, <2>2, <2>3
  <2>5. stay \ {m} = {}
    BY <2>2, <2>4, FS_EmptySet
  <2> QED
    BY <2>5
<1>8. \A x : x \in {pc'} \ {0} <=> x \in stay
  <2>1. stay # {} => (CHOOSE m \in stay : TRUE) \in stay
    OBVIOUS
  <2>2. 0 \notin stay
    BY <1>3
  <2> HIDE DEF stay
  <2> QED
    BY <1>1, <1>7, <2>1, <2>2
<1>9. Busy(W)' = W \cup CSuccSet(pc)
  <2>1. Busy(W)' = W \cup Stops' \cup ({pc'} \ {0})
    BY DEF Busy
  <2>2. \A x : x \in CSuccSet(pc) <=> x \in Stops' \/ x \in stay
    BY <1>4, <1>5, <1>6
  <2> HIDE DEF stay, away
  <2> QED
    BY <1>8, <2>1, <2>2
<1>10. pc' \in CSuccSet(pc) \cup {0}
  BY <1>8
<1>11. Ranked(W) => Ranked(W)'
  BY <1>1 DEF clusterVars, Ranked, RankedBy
<1> QED
  BY <1>9, <1>10, <1>11 DEF Moves

-----------------------------------------------------------------------------
(* What a node hands control to.                                           *)

(* A Fork leads to one Sync, its own.                                      *)
LEMMA ForkLeads ==
  ASSUME NEW f \in Node, Kind(f) = "fork"
  PROVE  /\ Graph[f].sync \in Node /\ Kind(Graph[f].sync) = "sync"
         /\ Home(Graph[f].sync) = Home(f)
         /\ Graph[f].sync \in CSuccSet(f) /\ f \in Before[Graph[f].sync]
         /\ \A m \in CSuccSet(f) : Kind(m) = "sync" => m = Graph[f].sync
<1> DEFINE s == Graph[f].sync
           L == Len(Succ(f))
<1>1. Nested /\ f \in Inner
  BY NestAssumption
<1>2. s \in Node /\ Kind(s) = "sync" /\ Home(s) = Home(f)
  BY <1>1, ForkPlaces, Places
<1>3. /\ DOMAIN CSucc[f] = 1..(L + 1) /\ L \in Nat /\ DOMAIN Succ(f) = 1..L
      /\ \A i \in 1..L : CSucc[f][i] = Succ(f)[i]
      /\ CSucc[f][L + 1] = s
  BY RewiredArcs, Arcs
<1>4. s \in CSuccSet(f)
  <2>1. L + 1 \in DOMAIN CSucc[f] /\ s # 0
    BY <1>2, <1>3, FixedArcs
  <2> QED
    BY <1>3, <2>1 DEF CSuccSet
<1>5. ASSUME NEW m \in CSuccSet(f), Kind(m) = "sync"
      PROVE  m = s
  <2>1. PICK i \in 1..(L + 1) : m = CSucc[f][i]
    BY <1>3 DEF CSuccSet
  <2>2. i \in 1..L => Kind(Succ(f)[i]) # "sync"
    BY <1>1, <1>3, ForkPlaces
  <2>3. i \notin 1..L
    BY <1>3, <1>5, <2>1, <2>2
  <2> QED
    BY <1>3, <2>1, <2>3
<1>6. f \in Before[s]
  BY <1>2, <1>4 DEF Before
<1> QED
  BY <1>2, <1>4, <1>5, <1>6

(* No other node leads to a Sync any more.                                 *)
LEMMA NoSyncAhead ==
  ASSUME NEW n \in Node, Kind(n) # "fork", NEW m \in CSuccSet(n)
  PROVE  Kind(m) # "sync"
<1>1. Kind(n) # "term" \/ Home(n) = Main
  BY RewiredArcs DEF CSuccSet
<1>2. m \in SuccSet(n)
  BY <1>1, RewiredArcs
<1> QED
  BY <1>1, <1>2, NestAssumption DEF Nested

(* What a Sync waits for are Terminates of its threads, and a Terminate is *)
(* waited for by one Sync.                                                 *)
LEMMA HeardFrom ==
  ASSUME NEW s \in Node, Kind(s) = "sync", NEW d \in Data(s)
  PROVE  /\ d \in Node /\ Kind(d) = "term" /\ d \in Before[s]
         /\ Home(d) # Main /\ Home(d).sync = s /\ DataSucc(d) = {s}
<1>1. d \in Node /\ Kind(d) = "term" /\ d \in Before[s]
  BY ArcAssumption DEF Before
<1>2. Nested /\ Inner = Node
  BY NestAssumption
<1>3. \A t \in Node : Kind(t) = "sync" /\ d \in Data(t) => Home(d) = [sync |-> t, thread |-> Thread(d)]
  BY <1>1, <1>2 DEF Nested, OfKind
<1>4. \A t \in Node : Kind(t) = "sync" /\ d \in Data(t) => Home(d).sync = t
  BY <1>3
<1>5. Home(d).sync = s /\ Home(d) # Main
  <2>1. s # 0
    BY FixedArcs
  <2> QED
    BY <1>4, <2>1 DEF Main
<1>6. \A t \in DataSucc(d) : t \in Node /\ Kind(t) = "sync" /\ d \in Data(t)
  BY <1>1, KeptAssumption DEF DataSucc, OfKind
<1>7. DataSucc(d) = {s}
  BY <1>4, <1>5, <1>6 DEF DataSucc
<1> QED
  BY <1>1, <1>5, <1>7

(* Control goes where the node hands it.                                   *)
LEMMA NodeGoes ==
  ASSUME ProgramInv, RunNode
  PROVE  /\ mode = "tick" /\ mode' = mode /\ chain = {} /\ pc # 0 /\ Kind(pc) # "fork"
         /\ UNCHANGED <<clusterVars, now, running, chain>>
         /\ \E m \in CSuccSet(pc) \cup {0} :
              GoTo(m) /\ pc' \in {m, 0} /\ Ways(pc) = {m} \ {0}
<1>1. /\ mode = "tick" /\ mode' = mode /\ chain = {} /\ pc # 0 /\ Kind(pc) # "fork"
      /\ UNCHANGED <<clusterVars, now, running, chain>>
  BY DEF RunNode, RunSwitch, RunTest, RunSync, RunTerminate, RunEnter, RunEmit,
         RunDefine, RunPass, AtNode, Frame
<1>2. pc \in Node /\ 0 \notin Node
  BY <1>1, FixedArcs DEF ProgramInv, CTypeOK
<1>3. ASSUME NEW m \in CSuccSet(pc) \cup {0}, GoTo(m)
      PROVE  pc' \in {m, 0}
  BY <1>3 DEF GoTo
<1>4. CASE RunSwitch \/ RunTest \/ RunSync
  <2>1. Kind(pc) \in {"switch", "test", "sync"} /\ Branch(Choice(pc))
    BY <1>4 DEF RunSwitch, RunTest, RunSync, AtNode, Choice
  <2> DEFINE a == Arm(pc, Choice(pc))
             m == CSucc[pc][a]
  <2>2. a \in Arms(pc) /\ GoTo(m)
    BY <2>1 DEF Branch
  <2>3. a \in DOMAIN CSucc[pc] /\ m # 0
    BY <2>2 DEF Arms
  <2>4. m \in CSuccSet(pc)
    BY <2>3 DEF CSuccSet
  <2>5. Ways(pc) = {m}
    BY <2>1, <2>2 DEF Ways
  <2> HIDE DEF m
  <2> QED
    BY <1>1, <1>3, <2>2, <2>3, <2>4, <2>5
<1>5. CASE RunTerminate \/ RunEnter \/ RunEmit \/ RunDefine \/ RunPass
  <2>1. Kind(pc) \in {"term", "enter", "emit", "exit", "define", "pass"} /\ GoOn
    BY <1>5 DEF RunTerminate, RunEnter, RunEmit, RunDefine, RunPass, AtNode
  <2>2. Ways(pc) = CSuccSet(pc)
    BY <2>1 DEF Ways
  <2>3. Len(CSucc[pc]) \in Nat /\ Len(CSucc[pc]) <= 1 /\ DOMAIN CSucc[pc] = 1..Len(CSucc[pc])
    BY <1>2, <2>1, OneWay
  <2>4. CASE Len(CSucc[pc]) = 0
    <3>1. CSuccSet(pc) = {}
      BY <2>3, <2>4 DEF CSuccSet
    <3>2. CSucc[pc] = <<>>
      BY <1>2, <2>4, FixAssumption
    <3>3. GoTo(0)
      BY <2>1, <3>2 DEF GoOn
    <3> QED
      BY <1>1, <1>3, <2>2, <3>1, <3>3
  <2>5. CASE Len(CSucc[pc]) = 1
    <3> DEFINE m == CSucc[pc][1]
    <3>1. DOMAIN CSucc[pc] = {1} /\ CSucc[pc] # <<>>
      BY <2>3, <2>5
    <3>2. GoTo(m)
      BY <2>1, <3>1 DEF GoOn
    <3>3. CSuccSet(pc) = {m} \ {0}
      BY <3>1 DEF CSuccSet
    <3>4. m \in CSuccSet(pc) \cup {0}
      BY <3>3
    <3> HIDE DEF m
    <3> QED
      BY <1>1, <1>3, <2>2, <3>2, <3>3, <3>4
  <2>6. Len(CSucc[pc]) = 0 \/ Len(CSucc[pc]) = 1
    <3>1. \A k \in Nat : k <= 1 => k = 0 \/ k = 1
      OBVIOUS
    <3> QED
      BY <2>3, <3>1, Zenon
  <2> QED
    BY <2>4, <2>5, <2>6
<1> QED
  BY <1>4, <1>5 DEF RunNode

(* What a node that was executed hands control to is not changed by the    *)
(* nodes after it, but for a Switch: these write no signal that a Test     *)
(* before them reads, and no variable of a Sync before them.               *)
LEMMA WaysStay ==
  ASSUME ProgramInv, RunsInOrder, RunNode \/ RunFork,
         NEW n \in Node, n = pc \/ n \in ran, Kind(n) # "switch"
  PROVE  Ways(n)' = Ways(n)
<1>1. mode = "tick" /\ pc # 0
  BY DEF RunNode, RunSwitch, RunTest, RunSync, RunFork, RunTerminate, RunEnter, RunEmit,
         RunDefine, RunPass, AtNode
<1>2. /\ pc \in Node /\ term \in [OfKind("sync") -> Nat]
      /\ n # pc => pc \notin Before[n]
  BY <1>1 DEF ProgramInv, CTypeOK, RunsInOrder
<1>3. CASE Kind(n) = "test"
  <2>1. ASSUME NEW s \in Reads(n), Kind(pc) \in {"emit", "exit", "define"}
        PROVE  Sig(pc) # s
    <3> SUFFICES ASSUME Sig(pc) = s
                 PROVE  FALSE
      OBVIOUS
    <3>1. pc \in Live \cap Writers(s) /\ n \in Live
      BY <1>2, <2>1, KeptAssumption DEF Writers
    <3>2. pc \in Data(n)
      BY <2>1, <3>1, DataAssumption
    <3>3. pc \in Before[n]
      BY <3>2 DEF Before
    <3> QED
      BY <1>2, <1>3, <2>1, <3>3
  <2>2. \A s \in Reads(n) : s \in signals' <=> s \in signals
    <3>1. RunEmit \/ RunDefine \/ signals' = signals
      BY DEF RunNode, RunSwitch, RunTest, RunSync, RunFork, RunTerminate, RunEnter, RunPass
    <3>2. RunEmit => Kind(pc) \in {"emit", "exit"} /\ signals' = signals \cup {Sig(pc)}
      BY DEF RunEmit, AtNode
    <3>3. RunDefine => Kind(pc) = "define" /\ signals' = signals \ {Sig(pc)}
      BY DEF RunDefine, AtNode
    <3> QED
      BY <2>1, <3>1, <3>2, <3>3
  <2>3. (Reads(n) \subseteq signals' <=> Reads(n) \subseteq signals)
        /\ Reads(n) \cap signals' = Reads(n) \cap signals
    BY <2>2
  <2>4. Holds(n, signals') = Holds(n, signals)
    BY <2>3 DEF Holds
  <2>5. Choice(n)' = Choice(n)
    BY <1>3, <2>4 DEF Choice
  <2> QED
    BY <2>5 DEF Ways
<1>4. CASE Kind(n) = "sync"
  <2>1. n \in OfKind("sync")
    BY <1>4 DEF OfKind
  <2>2. CASE RunFork
    <3>1. Kind(pc) = "fork" /\ \A s \in DOMAIN term : s # Graph[pc].sync => term'[s] = term[s]
      BY <2>2 DEF RunFork, AtNode
    <3>2. n # Graph[pc].sync
      BY <1>2, <1>4, <3>1, ForkLeads
    <3> QED
      BY <1>2, <1>4, <2>1, <3>1, <3>2 DEF Ways, Choice
  <2>3. CASE RunTerminate
    <3>1. Kind(pc) = "term" /\ \A s \in DOMAIN term : DataSucc(pc) # {s} => term'[s] = term[s]
      BY <2>3 DEF RunTerminate, AtNode
    <3>2. DataSucc(pc) # {n}
      <4>1. DataSucc(pc) = {n} => pc \in Before[n]
        BY DEF DataSucc, Before
      <4> QED
        BY <1>2, <1>4, <3>1, <4>1
    <3> QED
      BY <1>2, <1>4, <2>1, <3>1, <3>2 DEF Ways, Choice
  <2>4. CASE term' = term
    BY <1>4, <2>4 DEF Ways, Choice
  <2> QED
    BY <2>2, <2>3, <2>4
    DEF RunNode, RunSwitch, RunTest, RunSync, RunEnter, RunEmit, RunDefine, RunPass
<1>5. CASE Kind(n) \notin {"switch", "test", "sync"}
  BY <1>5 DEF Ways
<1> QED
  BY <1>3, <1>4, <1>5

-----------------------------------------------------------------------------
(* What the tick has executed.  It is below what waits and in no cluster   *)
(* that waits; in the cluster that runs it is before pc.                   *)

Fresh(W) ==
  /\ \A n \in ran : Clustered(n) /\ level[clusterOf[n]] <= now
  /\ \A x \in W, n \in ran : clusterOf[x] # clusterOf[n]
  /\ pc # 0 => \A n \in ran : clusterOf[n] = running => n < pc

(* What it handed control to is executed or will be, and the Sync of a     *)
(* thread it was in too; that Sync has heard of its Terminates.            *)
Reach(W) == ran \cup Busy(W)
Due(W) == {Root} \cup UNION {took[n] : n \in ran} = Reach(W)
Homes(W) == \A n \in ran : Home(n) # Main => Home(n).sync \in Reach(W)
Heard(W) ==
  \A s \in Reach(W) : Kind(s) = "sync" /\ Cardinality(Arms(s)) > 1 =>
    /\ term[s] \in Exited(s, ran) \cup {0}
    /\ \A k \in Exited(s, ran) : k <= term[s]

Steady == \A n \in ran : Kind(n) # "switch" => took[n] = Ways(n)
Follows(W) ==
  Lined(W) /\ Threaded(W) /\ Ranked(W) /\ Fresh(W) /\ Due(W) /\ Homes(W) /\ Heard(W)

TraceInv ==
  /\ ran \subseteq Node
  /\ mode # "tick" => ran = {}
  /\ mode = "tick" => Steady /\ \E W \in SUBSET Node : Follows(W)

(* What was executed is not pc, and does not depend on it: in its cluster  *)
(* it comes before, and the clusters before are on levels that are lower.  *)
LEMMA OrderHolds == ProgramInv /\ TraceInv => RunsInOrder
<1> SUFFICES ASSUME ProgramInv, TraceInv, mode = "tick", pc # 0, NEW n \in ran
             PROVE  n # pc /\ pc \notin Before[n]
  BY DEF RunsInOrder
<1>1. /\ ClusterInv /\ stage = "ready" /\ pc \in Node /\ n \in Node /\ now \in Nat
      /\ clusterOf[pc] = running /\ level[running] = now
      /\ level[clusterOf[n]] <= now
      /\ clusterOf[n] = running => n < pc
  BY DEF ProgramInv, CTypeOK, Flow, TraceInv, Follows, Fresh, Clustered
<1>2. n \in Nat /\ pc \in Nat
  BY <1>1, FixedArcs
<1>3. n # pc
  BY <1>1, <1>2
<1>4. ASSUME pc \in Before[n]
      PROVE  FALSE
  <2>1. pc < n
    BY <1>1, <1>4, FixedArcs
  <2>2. clusterOf[n] # running
    BY <1>1, <1>2, <2>1
  <2>3. level[running] < level[clusterOf[n]] /\ clusterOf[n] \in Node
    BY <1>1, <1>4, <2>2, ArcsClimb
  <2>4. level[clusterOf[n]] \in Nat
    BY <1>1, <2>3 DEF ClusterInv, ClusterTypeOK
  <2> QED
    BY <1>1, <2>3, <2>4
<1> QED
  BY <1>3, <1>4

(* A node is executed, and control stays in its cluster or leaves it.      *)
LEMMA FreshNode ==
  ASSUME ProgramInv, mode = "tick", pc # 0,
         UNCHANGED <<clusterVars, now, running>>, ran \subseteq Node,
         NEW W \in SUBSET Node, Lined(W), Fresh(W),
         pc' \in CSuccSet(pc) \cup {0}, ran' = ran \cup {pc},
         NEW V \in SUBSET Node, \A x \in V : x \in W \/ now < level[clusterOf[x]]
  PROVE  Fresh(V)'
<1>1. /\ ClusterInv /\ stage = "ready" /\ Flow /\ pc \in Node
      /\ Clustered(pc) /\ clusterOf[pc] = running /\ level[running] = now /\ now \in Nat
  BY DEF ProgramInv, CTypeOK, Flow, Clustered
<1>2. clusterOf' = clusterOf /\ level' = level /\ now' = now /\ running' = running
  BY DEF clusterVars
<1>3. \A n \in ran' : n \in Node /\ Clustered(n) /\ level[clusterOf[n]] <= now
  BY <1>1 DEF Fresh
<1>4. \A n \in ran' : clusterOf[n] \in Node /\ level[clusterOf[n]] \in Nat
  BY <1>1, <1>3 DEF ClusterInv, ClusterTypeOK, Clustered
<1>5. ASSUME NEW x \in V, NEW n \in ran'
      PROVE  clusterOf[x] # clusterOf[n]
  <2>1. CASE x \in W
    BY <1>1, <2>1 DEF Fresh, Lined
  <2>2. CASE now < level[clusterOf[x]]
    BY <1>1, <1>3, <1>4, <2>2
  <2> QED
    BY <2>1, <2>2
<1>6. ASSUME pc' # 0, NEW n \in ran', clusterOf[n] = running
      PROVE  n < pc'
  <2>1. pc' \in Node /\ pc < pc'
    BY <1>1, <1>6, FixedArcs
  <2>2. n = pc \/ n < pc
    BY <1>6 DEF Fresh
  <2>3. n \in Nat /\ pc \in Nat /\ pc' \in Nat
    BY <1>1, <1>3, <2>1, FixedArcs
  <2> QED
    BY <2>1, <2>2, <2>3
<1> QED
  BY <1>2, <1>3, <1>5, <1>6 DEF Fresh, Clustered

(* A Nop schedules for a level to come.                                    *)
LEMMA FreshNop ==
  ASSUME ProgramInv, mode = "tick", UNCHANGED <<clusterVars, now, running, pc>>,
         ran' = ran, ran \subseteq Node,
         NEW W \in SUBSET Node, Fresh(W),
         NEW V \in SUBSET Node, \A x \in V : x \in W \/ now < level[clusterOf[x]]
  PROVE  Fresh(V)'
<1>1. /\ clusterOf' = clusterOf /\ level' = level /\ now' = now /\ running' = running
      /\ pc' = pc
  BY DEF clusterVars
<1>2. \A n \in ran : clusterOf[n] \in Node /\ level[clusterOf[n]] \in Nat /\ now \in Nat
  BY DEF Fresh, ProgramInv, CTypeOK, ClusterTypeOK, Clustered
<1>3. ASSUME NEW x \in V, NEW n \in ran
      PROVE  clusterOf[x] # clusterOf[n]
  <2>1. level[clusterOf[n]] <= now /\ (x \in W => clusterOf[x] # clusterOf[n])
    BY DEF Fresh
  <2> QED
    BY <1>2, <2>1
<1> QED
  BY <1>1, <1>3 DEF Fresh, Clustered

(* The end of a cluster comes to one that has not run.                     *)
LEMMA FreshJump ==
  ASSUME ProgramInv, EndCluster \/ NextLevel, ran' = ran, ran \subseteq Node,
         NEW W \in SUBSET Node, Fresh(W), NEW V \in SUBSET W, pc' \in W \cup {0}
  PROVE  Fresh(V)'
<1>1. /\ mode = "tick" /\ UNCHANGED clusterVars /\ (now' = now \/ now' = now + 1)
      /\ running' = IF pc' = 0 THEN 0 ELSE clusterOf[pc']
  BY DEF EndCluster, NextLevel, AtEnd
<1>2. clusterOf' = clusterOf /\ level' = level
  BY <1>1 DEF clusterVars
<1>3. \A n \in ran : /\ clusterOf[n] \in Node /\ level[clusterOf[n]] \in Nat /\ now \in Nat
                     /\ Clustered(n)
  BY DEF Fresh, ProgramInv, CTypeOK, ClusterTypeOK, Clustered
<1>4. \A n \in ran : level[clusterOf[n]] <= now'
  BY <1>1, <1>3 DEF Fresh
<1>5. \A x \in V, n \in ran : clusterOf[x] # clusterOf[n]
  BY DEF Fresh
<1>6. pc' # 0 => \A n \in ran : clusterOf[n] # running'
  BY <1>1 DEF Fresh
<1> QED
  BY <1>2, <1>3, <1>4, <1>5, <1>6 DEF Fresh, Clustered

(* A Terminate adds its code where one Sync hears of it, and the Sync of a *)
(* Fork is new, so that nothing has ended in it.                           *)
LEMMA HeardNode ==
  ASSUME ProgramInv, RunsInOrder, RunNode \/ RunFork, mode = "tick", chain = {}, pc # 0,
         NEW W \in SUBSET Node, Threaded(W), Homes(W), Heard(W),
         ran \subseteq Node, ran' = ran \cup {pc},
         NEW V \in SUBSET Node, Busy(V)' = W \cup Ways(pc), Ways(pc) \subseteq CSuccSet(pc)
  PROVE  Heard(V)'
<1>1. /\ pc \in Node /\ 0 \notin Node /\ term \in [OfKind("sync") -> Nat] /\ Code(pc) \in Nat
      /\ \A n \in ran : n # pc /\ pc \notin Before[n]
  BY NodeFacts, FixedArcs DEF ProgramInv, CTypeOK, RunsInOrder
<1>2. Busy(W) = W \cup {pc} /\ Reach(W) = ran \cup W \cup {pc} /\ Reach(W) \subseteq Node
  BY <1>1 DEF Busy, Stops, Reach
<1>3. Reach(V)' = Reach(W) \cup Ways(pc)
  BY <1>2 DEF Reach
<1>4. \A s : Exited(s, ran') = Exited(s, ran) \cup {Code(d) : d \in Data(s) \cap {pc}}
  BY DEF Exited
<1>5. Kind(pc) = "fork" => /\ RunFork /\ Graph[pc].sync \notin Reach(W)
                           /\ Graph[pc].sync \in OfKind("sync")
  <2> SUFFICES ASSUME Kind(pc) = "fork"
               PROVE  /\ RunFork /\ Graph[pc].sync \notin Reach(W)
                      /\ Graph[pc].sync \in OfKind("sync")
    OBVIOUS
  <2> DEFINE z == Graph[pc].sync
  <2>1. z \in Node /\ Kind(z) = "sync" /\ Home(z) = Home(pc) /\ pc \in Before[z]
    BY <1>1, ForkLeads
  <2>2. z \notin ran /\ z # pc
    BY <1>1, <2>1
  <2>3. z \notin W
    BY <1>2, <2>1, <2>2 DEF Threaded
  <2>4. RunFork
    BY NodeGoes
  <2> QED
    BY <1>2, <2>1, <2>2, <2>3, <2>4 DEF OfKind
<1>6. ASSUME NEW s \in Reach(W), Kind(s) = "sync", Cardinality(Arms(s)) > 1
      PROVE  /\ term'[s] \in Exited(s, ran') \cup {0}
             /\ \A k \in Exited(s, ran') : k <= term'[s]
  <2>1. /\ s \in Node /\ s \in OfKind("sync") /\ term[s] \in Nat
        /\ term[s] \in Exited(s, ran) \cup {0}
        /\ \A k \in Exited(s, ran) : k <= term[s]
    BY <1>1, <1>2, <1>6 DEF Heard, OfKind
  <2>2. CASE pc \in Data(s)
    <3>1. Kind(pc) = "term" /\ DataSucc(pc) = {s}
      BY <1>6, <2>1, <2>2, HeardFrom
    <3>2. RunTerminate
      BY <3>1 DEF RunNode, RunSwitch, RunTest, RunSync, RunFork, RunEnter, RunEmit,
                  RunDefine, RunPass, AtNode
    <3>3. term'[s] = IF Code(pc) > term[s] THEN Code(pc) ELSE term[s]
      BY <1>1, <1>6, <2>1, <3>1, <3>2 DEF RunTerminate
    <3>4. Exited(s, ran') = Exited(s, ran) \cup {Code(pc)}
      <4>1. Data(s) \cap {pc} = {pc}
        BY <2>2
      <4> QED
        BY <1>4, <4>1
    <3>5. Exited(s, ran) \subseteq Nat
      BY <2>1, NodeFacts, ArcAssumption DEF Exited
    <3>6. term'[s] \in {Code(pc), term[s]} /\ Code(pc) <= term'[s] /\ term[s] <= term'[s]
          /\ term'[s] \in Nat
      BY <1>1, <2>1, <3>3
    <3>7. \A k \in Exited(s, ran) : k <= term'[s]
      BY <2>1, <3>5, <3>6
    <3> QED
      BY <2>1, <3>4, <3>6, <3>7
  <2>3. CASE pc \notin Data(s)
    <3>1. Exited(s, ran') = Exited(s, ran)
      <4>1. Data(s) \cap {pc} = {}
        BY <2>3
      <4> QED
        BY <1>4, <4>1
    <3>2. RunTerminate => DataSucc(pc) # {s}
      BY <2>3 DEF DataSucc
    <3>3. RunFork => Graph[pc].sync # s
      BY <1>5 DEF RunFork, AtNode
    <3>4. term'[s] = term[s]
      BY <1>1, <2>1, <3>2, <3>3
      DEF RunNode, RunSwitch, RunTest, RunSync, RunFork, RunTerminate, RunEnter, RunEmit,
          RunDefine, RunPass
    <3> QED
      BY <2>1, <3>1, <3>4
  <2> QED
    BY <2>2, <2>3
<1>7. ASSUME NEW s \in Ways(pc), Kind(s) = "sync"
      PROVE  term'[s] = 0 /\ Exited(s, ran') = {}
  <2>1. s \in CSuccSet(pc) /\ Kind(pc) = "fork"
    BY <1>1, <1>7, NoSyncAhead
  <2>2. s = Graph[pc].sync
    BY <1>1, <1>7, <2>1, ForkLeads
  <2>3. s \notin Reach(W) /\ RunFork /\ s \in OfKind("sync") /\ s \in Node
    BY <1>5, <2>1, <2>2 DEF OfKind
  <2>4. term'[s] = 0
    BY <1>1, <2>2, <2>3 DEF RunFork
  <2>5. ASSUME NEW d \in Data(s), d \in ran'
        PROVE  FALSE
    <3>1. Kind(d) = "term" /\ Home(d) # Main /\ Home(d).sync = s
      BY <1>7, <2>3, HeardFrom
    <3>2. d \in ran
      BY <2>1, <2>5, <3>1
    <3> QED
      BY <2>3, <3>1, <3>2 DEF Homes
  <2>6. Data(s) \cap ran' = {}
    BY <2>5
  <2> QED
    BY <2>4, <2>6 DEF Exited
<1>8. \A s \in Reach(V)' : Kind(s) = "sync" /\ Cardinality(Arms(s)) > 1 =>
        /\ term'[s] \in Exited(s, ran') \cup {0}
        /\ \A k \in Exited(s, ran') : k <= term'[s]
  BY <1>3, <1>6, <1>7
<1> QED
  BY <1>8 DEF Heard

(* What one step of the tick records.                                      *)
LEMMA Records ==
  ASSUME TracedNext
  PROVE  /\ CNext
         /\ mode' # "tick" => ran' = {}
         /\ mode' = "tick" /\ Executes =>
              /\ ran' = ran \cup {pc} /\ took'[pc] = Ways(pc)
              /\ \A n \in ran : n # pc => took'[n] = took[n]
         /\ mode' = "tick" /\ ~Executes => took' = took
<1>1. mode' # "tick" => ran' = {}
  BY DEF TracedNext, ran, Nothing
<1>2. ASSUME mode' = "tick", Executes
      PROVE  /\ ran' = ran \cup {pc} /\ took'[pc] = Ways(pc)
             /\ \A n \in ran : n # pc => took'[n] = took[n]
  <2>1. took' = [n \in ran \cup {pc} |-> IF n = pc THEN Ways(pc) ELSE took[n]]
    BY <1>2 DEF TracedNext
  <2>2. ran' = ran \cup {pc}
    BY <2>1 DEF ran
  <2> QED
    BY <2>1, <2>2
<1> QED
  BY <1>1, <1>2 DEF TracedNext

(* A node is executed.                                                     *)
LEMMA NodeTraced ==
  ASSUME ProgramInv, TraceInv, TracedNext, RunNode \/ RunFork
  PROVE  TraceInv'
<1>1. /\ mode = "tick" /\ mode' = mode /\ chain = {} /\ pc # 0
      /\ UNCHANGED <<clusterVars, now, running>>
  BY NodeGoes DEF RunFork, AtNode, Frame
<1>2. /\ pc \in Node /\ ran \subseteq Node /\ RunsInOrder /\ Steady
  BY <1>1, OrderHolds DEF ProgramInv, CTypeOK, TraceInv
<1>3. PICK W \in SUBSET Node : Follows(W)
  BY <1>1 DEF TraceInv
<1>4. /\ ran' = ran \cup {pc} /\ took'[pc] = Ways(pc) /\ pc \notin ran
      /\ \A n \in ran : took'[n] = took[n]
  BY <1>1, <1>2, Records DEF Executes, RunsInOrder
<1>5. PICK V \in SUBSET Node :
        /\ Lined(V)' /\ Threaded(V)' /\ Moves(W, V, W \cup Ways(pc))
        /\ pc' \in CSuccSet(pc) \cup {0} /\ Ways(pc) \subseteq CSuccSet(pc)
  <2>1. CASE RunNode
    <3>1. PICK m \in CSuccSet(pc) \cup {0} : GoTo(m) /\ pc' \in {m, 0} /\ Ways(pc) = {m} \ {0}
      BY <2>1, NodeGoes
    <3>2. PICK V \in SUBSET Node :
            Lined(V)' /\ Threaded(V)' /\ Moves(W, V, W \cup ({m} \ {0}))
      BY <1>3, <2>1, <3>1, NodeGoes, GoToLines DEF Follows
    <3> QED
      BY <3>1, <3>2
  <2>2. CASE RunFork
    <3>1. Ways(pc) = CSuccSet(pc)
      BY <2>2 DEF RunFork, AtNode, Ways
    <3> QED
      BY <1>3, <2>2, <3>1, ForkLines, ForkMoves DEF Follows
  <2> QED
    BY <2>1, <2>2
<1>6. Fresh(V)'
  BY <1>1, <1>2, <1>3, <1>4, <1>5, FreshNode DEF Follows, Moves
<1>7. Ranked(V)' /\ Busy(V)' = W \cup Ways(pc)
  BY <1>3, <1>5 DEF Follows, Moves
<1>8. /\ Busy(W) = W \cup {pc} /\ Reach(V)' = Reach(W) \cup Ways(pc)
  <2>1. Busy(W) = W \cup {pc}
    BY <1>1, <1>2, FixedArcs DEF Busy, Stops
  <2> QED
    BY <1>4, <1>7, <2>1 DEF Reach
<1>9. Due(V)'
  <2> DEFINE before == {took[n] : n \in ran}
             after == {took'[n] : n \in ran'}
  <2>1. after = before \cup {Ways(pc)}
    BY <1>4
  <2>2. {Root} \cup UNION before = Reach(W)
    BY <1>3 DEF Due, Follows
  <2> HIDE DEF before, after
  <2>3. \A x : x \in UNION after <=> x \in UNION before \/ x \in Ways(pc)
    BY <2>1
  <2>4. {Root} \cup UNION after = Reach(V)'
    <3>1. \A x : x \in Reach(W) <=> x \in {Root} \/ x \in UNION before
      BY <2>2
    <3>2. \A x : x \in Reach(V)' <=> x \in Reach(W) \/ x \in Ways(pc)
      BY <1>8
    <3> QED
      BY <2>3, <3>1, <3>2
  <2> QED
    BY <2>4 DEF Due, after
<1>10. Homes(V)'
  <2>1. Home(pc) # Main => Home(pc).sync \in Reach(W)
    BY <1>3, <1>8 DEF Follows, Threaded, Reach, Busy
  <2> QED
    BY <1>3, <1>4, <1>8, <2>1 DEF Homes, Follows
<1>11. Heard(V)'
  BY <1>1, <1>2, <1>3, <1>4, <1>5, <1>7, HeardNode DEF Follows
<1>12. Steady'
  <2>1. ASSUME NEW n \in ran', Kind(n) # "switch"
        PROVE  took'[n] = Ways(n)'
    <3>1. Ways(n)' = Ways(n)
      BY <1>2, <1>4, <2>1, WaysStay
    <3> QED
      BY <1>2, <1>4, <2>1, <3>1 DEF Steady
  <2> QED
    BY <2>1 DEF Steady
<1> QED
  BY <1>1, <1>2, <1>4, <1>5, <1>6, <1>7, <1>9, <1>10, <1>11, <1>12 DEF TraceInv, Follows

(* Control moves on, and nothing is executed.                              *)
LEMMA MoveTraced ==
  ASSUME ProgramInv, TraceInv, TracedNext, RunNop \/ EndCluster \/ NextLevel
  PROVE  TraceInv'
<1>1. /\ mode = "tick" /\ mode' = mode /\ UNCHANGED <<signals, term>>
      /\ chain # {} \/ pc = 0
      /\ RunNop => UNCHANGED <<clusterVars, now, running, pc>>
  BY DEF RunNop, EndCluster, NextLevel, AtEnd, Frame
<1>2. ran \subseteq Node /\ Steady
  BY <1>1 DEF TraceInv
<1>3. PICK W \in SUBSET Node : Follows(W)
  BY <1>1 DEF TraceInv
<1>4. took' = took /\ ran' = ran
  BY <1>1, Records DEF Executes, ran
<1>5. PICK V \in SUBSET Node :
        Lined(V)' /\ Threaded(V)' /\ Moves(W, V, Busy(W)) /\ Fresh(V)'
  <2>1. CASE RunNop
    <3>1. PICK V \in SUBSET Node : Lined(V)' /\ Threaded(V)' /\ Moves(W, V, Busy(W))
      BY <1>3, <2>1, NopLines DEF Follows
    <3>2. Fresh(V)'
      BY <1>1, <1>2, <1>3, <1>4, <2>1, <3>1, FreshNop DEF Follows, Moves
    <3> QED
      BY <3>1, <3>2
  <2>2. CASE EndCluster \/ NextLevel
    <3>1. PICK V \in SUBSET W :
            Lined(V)' /\ Threaded(V)' /\ pc' \in W \cup {0} /\ Moves(W, V, Busy(W))
      BY <1>3, <2>2, JumpMoves DEF Follows
    <3>2. Fresh(V)'
      BY <1>2, <1>3, <1>4, <2>2, <3>1, FreshJump DEF Follows
    <3> QED
      BY <3>1, <3>2
  <2> QED
    BY <2>1, <2>2
<1>6. Ranked(V)' /\ Reach(V)' = Reach(W)
  BY <1>3, <1>4, <1>5 DEF Follows, Moves, Reach
<1>7. Due(V)' /\ Homes(V)' /\ Heard(V)'
  BY <1>1, <1>3, <1>4, <1>6 DEF Follows, Due, Homes, Heard
<1>8. Steady'
  BY <1>1, <1>2, <1>4 DEF Steady, Ways, Choice
<1> QED
  BY <1>1, <1>2, <1>4, <1>5, <1>6, <1>7, <1>8 DEF TraceInv, Follows

(* A tick starts with Root alone.                                          *)
LEMMA StartTraced ==
  ASSUME ProgramInv, TraceInv, TracedNext, NEW inputs \in SUBSET Input, TickStart(inputs)
  PROVE  TraceInv'
<1>1. mode = "idle" /\ mode' = "tick" /\ chain = {} /\ chain' = {} /\ pc' = Root
  BY DEF TickStart, ProgramInv
<1>2. ran' = {}
  <2>1. took' = took /\ ran = {}
    BY <1>1, Records DEF Executes, TraceInv
  <2> QED
    BY <2>1 DEF ran
<1>3. Lined({})' /\ Threaded({})'
  BY StartLines
<1>4. Ranked({})'
  <2>1. [n \in Node |-> 0] \in [Node -> Nat]
    OBVIOUS
  <2>2. RankedBy({}, [n \in Node |-> 0], 0)'
    BY DEF RankedBy
  <2> QED
    BY <2>1, <2>2 DEF Ranked
<1>5. Reach({})' = {Root}
  BY <1>1, <1>2, FixedArcs DEF Reach, Busy, Stops
<1>6. Fresh({})' /\ Due({})' /\ Homes({})' /\ Steady'
  BY <1>2, <1>5 DEF Fresh, Due, Homes, Steady
<1>7. Heard({})'
  BY <1>5, NestAssumption DEF Heard, Nested
<1> QED
  BY <1>1, <1>2, <1>3, <1>4, <1>6, <1>7 DEF TraceInv, Follows

(* One step of the program with the record of what its ticks execute.      *)
LEMMA TraceStays ==
  ASSUME ProgramInv, TraceInv, [TracedNext]_<<cVars, took>>
  PROVE  TraceInv'
<1>1. ASSUME TracedNext, Compile \/ TickEnd \/ Reset
      PROVE  TraceInv'
  <2>1. mode' # "tick" /\ ran' = {}
    BY <1>1, Records DEF Compile, TickEnd, Reset
  <2> QED
    BY <2>1 DEF TraceInv
<1>2. ASSUME UNCHANGED <<cVars, took>>
      PROVE  TraceInv'
  <2>1. UNCHANGED <<clusterVars, runVars, took>>
    BY <1>2 DEF cVars
  <2>2. /\ mode' = mode /\ clusterOf' = clusterOf /\ level' = level /\ MaxLevel' = MaxLevel
        /\ took' = took /\ ran' = ran
        /\ UNCHANGED <<head, rest, now, running, pc, chain, signals, state, term>>
    BY <2>1 DEF clusterVars, runVars, MaxLevel, Seeds, ran
  <2>3. Steady => Steady'
    BY <2>2 DEF Steady, Ways, Choice
  <2>4. ASSUME NEW W \in SUBSET Node
        PROVE  /\ Lined(W) => Lined(W)'
               /\ Threaded(W) => Threaded(W)'
               /\ Fresh(W) => Fresh(W)'
               /\ Ranked(W) => Ranked(W)'
               /\ Reach(W)' = Reach(W)
    BY <2>2 DEF Lined, Clustered, Threaded, Busy, Stops, Fresh, Ranked, RankedBy, Reach
  <2>5. ASSUME NEW W \in SUBSET Node, Follows(W)
        PROVE  Follows(W)'
    BY <2>2, <2>4, <2>5 DEF Follows, Due, Homes, Heard
  <2> QED
    BY <2>2, <2>3, <2>5 DEF TraceInv
<1> QED
  BY <1>1, <1>2, NodeTraced, MoveTraced, StartTraced, Records DEF CNext, RunNext, RunNode

(* When nothing waits any more, what was executed is all there was to.     *)
LEMMA TraceSolves == ProgramInv /\ TraceInv => Solved
<1> SUFFICES ASSUME ProgramInv, TraceInv, TickOver
             PROVE  Solved
  BY DEF Solved
<1>1. /\ mode = "tick" /\ chain = {} /\ pc = 0 /\ running = 0 /\ now = MaxLevel
      /\ ran \subseteq Node /\ Steady
  BY DEF TickOver, AtEnd, TraceInv
<1>2. PICK W \in SUBSET Node : Follows(W)
  BY <1>1 DEF TraceInv
<1>3. W = {}
  <2> SUFFICES ASSUME NEW x \in W
               PROVE  FALSE
    OBVIOUS
  <2>1. level[clusterOf[x]] # now
    BY <1>1, <1>2, NothingLeft DEF Follows
  <2>2. Clustered(x) /\ now <= level[clusterOf[x]]
    BY <1>2 DEF Follows, Lined
  <2>3. MaxLevel \in Nat /\ level[clusterOf[x]] \in 0..MaxLevel
    BY <1>1, <2>2, TopLevel DEF ProgramInv
  <2> QED
    BY <1>1, <2>1, <2>2, <2>3
<1>4. Reach(W) = ran
  BY <1>1, <1>3 DEF Reach, Busy, Stops
<1>5. ran = {Root} \cup UNION {took[n] : n \in ran}
  BY <1>2, <1>4 DEF Follows, Due
<1>6. \A n \in ran : Kind(n) # "switch" => took[n] = Ways(n)
  BY <1>1 DEF Steady
<1>7. \A n \in ran : Kind(n) = "sync" /\ Cardinality(Arms(n)) > 1 =>
        /\ term[n] \in Exited(n, ran) \cup {0}
        /\ \A k \in Exited(n, ran) : k <= term[n]
  BY <1>2, <1>4 DEF Follows, Heard
<1> QED
  BY <1>5, <1>6, <1>7 DEF Solved

(* The inductive invariant of a tick and the record of it.                 *)
LEMMA TraceIsSound == TracedSpec => [](ProgramInv /\ TraceInv)
<1>1. TracedInit => ProgramInv /\ TraceInv
  BY ProgramStarts DEF TracedInit, CInit, TraceInv, ran, Nothing
<1>2. ProgramInv /\ TraceInv /\ [TracedNext]_<<cVars, took>> => ProgramInv' /\ TraceInv'
  <2>1. [TracedNext]_<<cVars, took>> => [CNext]_cVars
    BY DEF TracedNext
  <2> QED
    BY <2>1, ProgramStays, TraceStays
<1> QED
  BY <1>1, <1>2, PTL DEF TracedSpec

(* In a tick of the printed program a node is executed once, and after all *)
(* that it depends on and that the tick executes, whatever order the       *)
(* clustering took its nodes in.                                           *)
THEOREM NodesRunInOrder == TracedSpec => []RunsInOrder
<1> QED
  BY TraceIsSound, OrderHolds, PTL

(* A tick of the printed program is over when it has executed what solves  *)
(* the equations of the graph, and no node besides: no entry of a list is  *)
(* lost, no Test went by a signal that was written later, and a Sync went  *)
(* by the highest code of all its Terminates.                              *)
THEOREM TicksAreSolved == TracedSpec => []Solved
<1> QED
  BY TraceIsSound, TraceSolves, PTL
=============================================================================
