---------------------------- MODULE DeadCode_proofs ---------------------------
(***************************************************************************)
(* What GRCOpt::Simulator removes is dead.  The analysis is right whatever *)
(* the order of its worklist: it finds the least sets that are closed      *)
(* under its rules (AnalysisIsLeast).  An execution of the graph before    *)
(* the pass gives control only to nodes that stay, and is only in states   *)
(* that stay (RunsAreKept); it leaves a Sync only by an exit that stays    *)
(* (ExitsAreKept); and what stays of a Switch or of an exclusive node      *)
(* matches (BranchesAreKept, ArcsAreLeft).                                 *)
(*                                                                         *)
(* WorkInv is the usual invariant of a worklist: all that a visited node   *)
(* opens is visited or waits.  Its last parts are about the two conditions *)
(* that become true late: a Switch visited before a child of its exclusive *)
(* node is marked (Routed), and a Sync whose threads end one by one        *)
(* (LevelsKept).  RunsKept adds the state that is committed and the one a  *)
(* tick prepares.  That the exit a tick takes is one that the analysis has *)
(* found needs every thread to have ended at the Sync, which is            *)
(* JoinsEveryThread of GRCsim_proofs.                                      *)
(***************************************************************************)
EXTENDS DeadCode, GRCsim_proofs

(* What the assumptions say of the tree and of the arcs the analysis takes.*)
LEMMA TreeFacts ==
  /\ STNode \subseteq Nat \ {0} /\ STExcl \subseteq STNode /\ 1 \in STExcl
  /\ {1, Children(1)[3]} \subseteq STNode
  /\ \A e \in STNode : Parent(e) \in Nat /\ Parent(e) < e /\ (Parent(e) # 0 => Parent(e) \in STNode)
<1>1. Len(Tree) \in Nat /\ Tree \in Seq(TreeRecord)
  BY GraphAssumption
<1>2. 1 \in STNode /\ 1 \in STExcl /\ STExcl \subseteq STNode
  BY TreeAssumption DEF STExcl
<1>3. Children(1) \in Seq(Nat)
  <2>1. Tree[1] \in TreeRecord
    BY <1>1, <1>2 DEF STNode
  <2> QED
    BY <2>1 DEF TreeRecord, Children
<1>4. Children(1)[3] \in STNode
  BY <1>2, <1>3, VisitAssumption
<1>5. ASSUME NEW e \in STNode
      PROVE  Parent(e) \in Nat /\ Parent(e) < e /\ (Parent(e) # 0 => Parent(e) \in STNode)
  <2>1. Parent(e) \in 0..(e - 1) /\ e \in 1..Len(Tree)
    BY VisitAssumption DEF STNode
  <2> QED
    BY <2>1, <1>1 DEF STNode
<1> QED
  BY <1>1, <1>2, <1>4, <1>5 DEF STNode

(* A node of the tree has a vector of children.                            *)
LEMMA TreeFields ==
  \A e \in STNode : Len(Children(e)) \in Nat /\ DOMAIN Children(e) = 1..Len(Children(e))
<1> SUFFICES ASSUME NEW e \in STNode
             PROVE  Len(Children(e)) \in Nat /\ DOMAIN Children(e) = 1..Len(Children(e))
  OBVIOUS
<1>1. Tree[e] \in TreeRecord
  BY GraphAssumption DEF STNode
<1>2. Children(e) \in Seq(Nat)
  BY <1>1 DEF TreeRecord, Children
<1> QED
  BY <1>2

(* The two climbs are what their definitions say, and they end at the same *)
(* place: what is climbed over has no exclusive parent but the one found.  *)
AtTop == {c \in STNode : Parent(c) = 0 \/ Parent(c) \in STExcl}

(* Climb[c] is the way up from c that visit(Enter) and NodeInTree go, to   *)
(* the child of an exclusive node or to the top.                           *)
LEMMA Climbs ==
  \A c \in STNode :
    /\ c \in Climb[c] /\ Climb[c] \subseteq STNode
    /\ \A x \in Climb[c] : Parent(x) \in STExcl => Above[c] = Parent(x)
    /\ Parent(c) # 0 /\ Parent(c) \notin STExcl => Climb[c] = {c} \cup Climb[Parent(c)]
<1> DEFINE p == [c \in STNode |-> Parent(c)]
<1>1. \A c \in STNode : c \notin AtTop => Parent(c) \in STNode /\ Parent(c) < c
  BY TreeFacts DEF AtTop
<1>2. STNode \subseteq Nat /\ \A c \in STNode : Parent(c) \in Nat
  BY TreeFacts
<1>3. \A c \in STNode :
        Climb[c] = IF Parent(c) = 0 \/ Parent(c) \in STExcl THEN {c} ELSE {c} \cup Climb[Parent(c)]
  <2> DEFINE V == SUBSET STNode
             b == [c \in STNode |-> {c}]
             g == [c \in STNode |-> [v \in V |-> {c} \cup v]]
  <2>1. Recurses(STNode, AtTop, p, b, g, V)
    <3>1. \A c \in STNode : b[c] \in V /\ \A v \in V : g[c][v] \in V
      OBVIOUS
    <3>2. \A c \in STNode : c \notin AtTop => p[c] \in STNode /\ p[c] < c
      BY <1>1
    <3> HIDE DEF b, g, p, V
    <3> QED
      BY <3>1, <3>2, <1>2 DEF Recurses
  <2>2. PICK f \in [STNode -> V] : f = [c \in STNode |-> IF c \in AtTop THEN b[c] ELSE g[c][f[p[c]]]]
    <3> HIDE DEF b, g, p, V
    <3> QED
      BY <2>1, Recursion
  <2>3. ASSUME NEW c \in STNode
        PROVE  f[c] = IF Parent(c) = 0 \/ Parent(c) \in STExcl THEN {c} ELSE {c} \cup f[Parent(c)]
    <3>1. f[c] = IF c \in AtTop THEN {c} ELSE g[c][f[Parent(c)]]
      BY <2>2
    <3>2. c \notin AtTop => f[Parent(c)] \in V
      BY <1>1, <2>2
    <3>3. c \notin AtTop => g[c][f[Parent(c)]] = {c} \cup f[Parent(c)]
      BY <3>2
    <3> QED
      BY <3>1, <3>3 DEF AtTop
  <2>4. f = [c \in STNode |-> IF Parent(c) = 0 \/ Parent(c) \in STExcl THEN {c}
                             ELSE {c} \cup f[Parent(c)]]
    BY <2>3
  <2>5. Climb = [c \in STNode |-> IF Parent(c) = 0 \/ Parent(c) \in STExcl THEN {c}
                                 ELSE {c} \cup Climb[Parent(c)]]
    BY <2>4 DEF Climb
  <2> QED
    BY <2>5
<1>4. \A c \in STNode :
        Above[c] = IF Parent(c) = 0 \/ Parent(c) \in STExcl THEN Parent(c) ELSE Above[Parent(c)]
  <2> DEFINE g == [c \in STNode |-> [v \in Nat |-> v]]
  <2>1. Recurses(STNode, AtTop, p, p, g, Nat)
    BY <1>1, <1>2 DEF Recurses
  <2>2. PICK f \in [STNode -> Nat] : f = [c \in STNode |-> IF c \in AtTop THEN p[c] ELSE g[c][f[p[c]]]]
    BY <2>1, Recursion
  <2>3. ASSUME NEW c \in STNode
        PROVE  f[c] = IF Parent(c) = 0 \/ Parent(c) \in STExcl THEN Parent(c) ELSE f[Parent(c)]
    <3>1. f[c] = IF c \in AtTop THEN Parent(c) ELSE g[c][f[Parent(c)]]
      BY <2>2
    <3>2. c \notin AtTop => f[Parent(c)] \in Nat
      BY <1>1, <2>2
    <3>3. c \notin AtTop => g[c][f[Parent(c)]] = f[Parent(c)]
      BY <3>2
    <3> QED
      BY <3>1, <3>3 DEF AtTop
  <2>4. f = [c \in STNode |-> IF Parent(c) = 0 \/ Parent(c) \in STExcl THEN Parent(c)
                             ELSE f[Parent(c)]]
    BY <2>3
  <2>5. Above = [c \in STNode |-> IF Parent(c) = 0 \/ Parent(c) \in STExcl THEN Parent(c)
                                 ELSE Above[Parent(c)]]
    BY <2>4 DEF Above
  <2> QED
    BY <2>5
<1> DEFINE Good == {c \in STNode :
              /\ c \in Climb[c] /\ Climb[c] \subseteq STNode
              /\ \A x \in Climb[c] : Parent(x) \in STExcl => Above[c] = Parent(x)}
<1>5. ASSUME NEW c \in STNode, \A d \in STNode : d < c => d \in Good
      PROVE  c \in Good
  <2>1. CASE c \in AtTop
    BY <2>1, <1>3, <1>4 DEF AtTop
  <2>2. CASE c \notin AtTop
    <3>1. Parent(c) \in Good
      BY <2>2, <1>1, <1>5
    <3>2. Climb[c] = {c} \cup Climb[Parent(c)] /\ Above[c] = Above[Parent(c)] /\ Parent(c) \notin STExcl
      BY <2>2, <1>3, <1>4 DEF AtTop
    <3> QED
      BY <3>1, <3>2
  <2> QED
    BY <2>1, <2>2
<1>6. STNode \subseteq Good
  <2> HIDE DEF Good
  <2> QED
    BY <1>2, <1>5, Induct
<1> QED
  BY <1>3, <1>6

(* The arcs that the analysis follows are arcs of the graph, and none that *)
(* leads from a node it took without marking e passes around e.            *)
LEMMA OpenArcs ==
  ASSUME NEW n \in Node, NEW C, NEW S
  PROVE  /\ Opens(C, S, n) \subseteq SuccSet(n)
         /\ \A e \in STNode \ (S \cup Marks(n)) : Opens(C, S, n) \subseteq ArcsAround(e, n)
<1>1. /\ Len(Succ(n)) \in Nat /\ DOMAIN Succ(n) = 1..Len(Succ(n))
      /\ \A i \in 1..Len(Succ(n)) : Succ(n)[i] # 0 => Succ(n)[i] \in SuccSet(n)
      /\ \A m \in SuccSet(n) : m # 0 /\ \E i \in 1..Len(Succ(n)) : m = Succ(n)[i]
  BY Arcs
<1>2. CASE Kind(n) = "switch"
  <2> DEFINE e == Graph[n].st
  <2>1. e \in STExcl /\ Len(Succ(n)) = Len(Children(e)) /\ \A i \in DOMAIN Succ(n) : Succ(n)[i] # 0
    BY <1>2, ArcAssumption, VisitAssumption
  <2>2. DOMAIN Children(e) = DOMAIN Succ(n)
    BY <2>1, <1>1, TreeFields
  <2>3. Opens(C, S, n) = {Succ(n)[i] : i \in {j \in DOMAIN Children(e) : Children(e)[j] \in S}}
    BY <1>2 DEF Opens, SwitchOpens
  <2>4. \A x, i : ArcMarks(n, i) = {e, Children(e)[i]} /\ Marks(n) = {e}
    BY <1>2 DEF ArcMarks, Marks
  <2> HIDE DEF e
  <2> QED
    BY <1>1, <2>1, <2>2, <2>3, <2>4 DEF ArcsAround
<1>3. CASE Kind(n) = "sync"
  <2>1. Opens(C, S, n) = SyncOpens(C, n)
    BY <1>3 DEF Opens
  <2>2. \A l \in Exits(C, n) : l \in Nat
    <3>1. \A t \in Terms(n) : t \in Node
      BY DEF Terms, JoinArcs, OfKind
    <3> QED
      BY <3>1, Fields DEF Exits
  <2>3. ASSUME NEW m \in SyncOpens(C, n)
        PROVE  m # 0 /\ \E i \in DOMAIN Succ(n) : m = Succ(n)[i]
    <3>1. PICK l \in Exits(C, n) : l < Len(Succ(n)) /\ m = Succ(n)[l + 1] /\ m # 0
      BY DEF SyncOpens, Leaves
    <3>2. l + 1 \in DOMAIN Succ(n)
      BY <3>1, <2>2, <1>1
    <3> QED
      BY <3>1, <3>2
  <2>4. \A i : ArcMarks(n, i) = {}
    BY <1>3 DEF ArcMarks
  <2> QED
    BY <1>1, <2>1, <2>3, <2>4 DEF ArcsAround
<1>4. CASE Kind(n) \notin {"switch", "sync"}
  <2>1. Opens(C, S, n) = SuccSet(n) /\ \A i : ArcMarks(n, i) = Marks(n)
    BY <1>4 DEF Opens, ArcMarks, Marks
  <2> QED
    BY <1>1, <2>1 DEF ArcsAround
<1> QED
  BY <1>2, <1>3, <1>4

(* What is marked exists, and what an Enter marks below an exclusive node  *)
(* is below the one whose Switch it looks for.                             *)
LEMMA MarkFacts ==
  ASSUME NEW n \in Node
  PROVE  /\ Marks(n) \subseteq STNode
         /\ Kind(n) = "switch" => Graph[n].st \in STExcl /\ Marks(n) = {Graph[n].st}
         /\ Kind(n) = "enter" =>
              /\ Graph[n].st \in STNode /\ Marks(n) = Climb[Graph[n].st]
              /\ Above[Graph[n].st] \in STExcl
              /\ \A x \in Marks(n) : Parent(x) \in STExcl => Parent(x) = Above[Graph[n].st]
         /\ Kind(n) \notin {"switch", "enter"} => Marks(n) = {}
<1>1. CASE Kind(n) = "switch"
  BY <1>1, ArcAssumption, TreeFacts DEF Marks
<1>2. CASE Kind(n) = "enter"
  <2>1. Graph[n].st \in STNode /\ Above[Graph[n].st] \in STExcl
    BY <1>2, ArcAssumption, VisitAssumption
  <2> QED
    BY <1>2, <2>1, Climbs DEF Marks
<1> QED
  BY <1>1, <1>2 DEF Marks

(* What a Terminate that is visited changes: the exits of its Sync alone.  *)
LEMMA SameOpens ==
  ASSUME NEW m \in Node, NEW n \in Node, NEW C, NEW S, NEW T,
         Kind(m) = "sync" => m \notin SuccSet(n) \/ Kind(n) # "term",
         Kind(m) = "switch" =>
           \A i \in DOMAIN Children(Graph[m].st) :
             Children(Graph[m].st)[i] \in T => Children(Graph[m].st)[i] \in S,
         S \subseteq T
  PROVE  Opens(C \cup {n}, T, m) = Opens(C, S, m)
<1>1. CASE Kind(m) = "sync"
  <2>1. n \notin Terms(m)
    BY <1>1 DEF Terms, JoinArcs, OfKind
  <2>2. Terms(m) \cap (C \cup {n}) = Terms(m) \cap C
    BY <2>1
  <2> QED
    BY <1>1, <2>2 DEF Opens, SyncOpens, Exits
<1>2. CASE Kind(m) = "switch"
  <2>1. {j \in DOMAIN Children(Graph[m].st) : Children(Graph[m].st)[j] \in T}
          = {j \in DOMAIN Children(Graph[m].st) : Children(Graph[m].st)[j] \in S}
    BY <1>2
  <2> QED
    BY <1>2, <2>1 DEF Opens, SwitchOpens
<1> QED
  BY <1>1, <1>2 DEF Opens

(* The invariant of the worklist.  A visited node is to be visited again,  *)
(* or what it opens is visited or waits; nothing needs to be said of it    *)
(* when what it depends on changes, for then it is put back: a Sync by its *)
(* Terminates, a Switch by the Enters below it.  That a Switch does not    *)
(* mark a child of a Switch that was visited before, for which nobody puts *)
(* that one back, is what Routed is for.                                   *)
Reaches == cfg \cup pending
Explored(n) ==
  /\ Marks(n) \subseteq st
  /\ Kind(n) = "switch" => switchFor[Graph[n].st] = n
  /\ n \in pending \/ Opens(cfg, st, n) \subseteq Reaches
Routed(m) ==
  Parent(Graph[m].st) \in STExcl /\ Graph[m].st \notin st => Reaches \subseteq Around(Graph[m].st)
WorkInv ==
  /\ Root \in Reaches /\ {1, Children(1)[3]} \subseteq st
  /\ \A e \in STExcl : switchFor[e] \in cfg \cup {0}
  /\ \A n \in cfg : Explored(n)
  /\ \A m \in OfKind("switch") : Routed(m)
  /\ phase = "pruned" => pending = {}
OptInv == OptTypeOK /\ WorkInv

(* The constructor starts with Root on the worklist and the third child of *)
(* the tree's root marked.                                                 *)
LEMMA WorkStarts == OptInit => OptInv
<1> SUFFICES ASSUME OptInit PROVE OptInv
  OBVIOUS
<1>1. cfg = {} /\ pending = {Root} /\ st = {1, Children(1)[3]} /\ phase = "analyse"
      /\ switchFor = [e \in STExcl |-> 0] /\ levels = [n \in OfKind("sync") |-> {}]
  BY DEF OptInit
<1>2. OptTypeOK
  BY <1>1, TreeFacts, GraphAssumption DEF OptTypeOK
<1>3. \A m \in OfKind("switch") : Routed(m)
  BY <1>1, SwitchAssumption DEF Routed, Reaches
<1> QED
  BY <1>1, <1>2, <1>3 DEF OptInv, WorkInv, Reaches

(* What every visit does.                                                  *)
LEMMA TakeFacts ==
  ASSUME OptInv, NEW n \in pending,
         TakeSwitch(n) \/ TakeEnter(n) \/ TakeSync(n) \/ TakeOther(n)
  PROVE  /\ n \in Node /\ cfg' = cfg \cup {n} /\ st' = st \cup Marks(n)
         /\ UNCHANGED <<newSucc, newChildren, phase>> /\ phase = "analyse"
         /\ Opens(cfg', st', n) \subseteq Reaches'
         /\ pending \ {n} \subseteq pending'
         /\ Reaches \subseteq Reaches'
         /\ Reaches' \subseteq Reaches \cup Opens(cfg', st', n)
         /\ Kind(n) = "term" => SuccSet(n) \subseteq pending'
         /\ Kind(n) = "switch" => switchFor' = [switchFor EXCEPT ![Graph[n].st] = n]
         /\ Kind(n) # "switch" => switchFor' = switchFor
         /\ Kind(n) = "enter" => switchFor[Above[Graph[n].st]] \in pending' \cup {0}
<1>1. n \in Node /\ cfg' = cfg \cup {n} /\ UNCHANGED <<newSucc, newChildren, phase>>
  BY DEF TakeSwitch, TakeEnter, TakeSync, TakeOther, Take, OptInv, OptTypeOK
<1>2. phase = "analyse"
  BY DEF OptInv, WorkInv, OptTypeOK
<1>3. CASE TakeSwitch(n)
  <2>1. Kind(n) = "switch" /\ st' = st \cup Marks(n)
        /\ Opens(cfg', st', n) = SwitchOpens(st', n)
        /\ pending' = (pending \ {n}) \cup (SwitchOpens(st', n) \ cfg')
        /\ switchFor' = [switchFor EXCEPT ![Graph[n].st] = n]
    BY <1>3 DEF TakeSwitch, Marks, Opens
  <2> QED
    BY <1>1, <1>2, <2>1 DEF Reaches
<1>4. CASE TakeEnter(n)
  <2>1. Kind(n) = "enter" /\ st' = st \cup Marks(n)
        /\ Opens(cfg', st', n) = SuccSet(n)
        /\ pending' = (pending \ {n}) \cup SuccSet(n)
                        \cup ({switchFor[Above[Graph[n].st]]} \ {0})
        /\ switchFor' = switchFor
    BY <1>4 DEF TakeEnter, Marks, Opens
  <2>2. switchFor[Above[Graph[n].st]] \in cfg \cup {0}
    BY <1>1, <2>1, MarkFacts DEF OptInv, WorkInv
  <2> QED
    BY <1>1, <1>2, <2>1, <2>2 DEF Reaches
<1>5. CASE TakeSync(n)
  <2>1. Kind(n) = "sync" /\ st' = st /\ Marks(n) = {} /\ switchFor' = switchFor
        /\ Opens(cfg', st', n) = SyncOpens(cfg', n)
        /\ pending' = (pending \ {n}) \cup (SyncOpens(cfg, n) \ cfg')
    BY <1>5 DEF TakeSync, Marks, Opens, SyncOpens
  <2>2. SyncOpens(cfg', n) = SyncOpens(cfg, n)
    <3>1. Opens(cfg \cup {n}, st, n) = Opens(cfg, st, n)
      BY <1>1, <2>1, SameOpens
    <3> QED
      BY <1>1, <2>1, <3>1 DEF Opens
  <2> QED
    BY <1>1, <1>2, <2>1, <2>2 DEF Reaches
<1>6. CASE TakeOther(n)
  <2>1. Kind(n) \notin {"switch", "enter", "sync"} /\ st' = st /\ Marks(n) = {}
        /\ switchFor' = switchFor /\ Opens(cfg', st', n) = SuccSet(n)
        /\ pending' = (pending \ {n}) \cup SuccSet(n)
    BY <1>6 DEF TakeOther, Marks, Opens
  <2> QED
    BY <1>1, <1>2, <2>1 DEF Reaches
<1> QED
  BY <1>3, <1>4, <1>5, <1>6

(* A visit keeps the types of the sets and of switchFor.                   *)
LEMMA TakeTypes ==
  ASSUME OptInv, NEW n \in pending,
         TakeSwitch(n) \/ TakeEnter(n) \/ TakeSync(n) \/ TakeOther(n)
  PROVE  OptTypeOK'
<1>1. /\ n \in Node /\ cfg' = cfg \cup {n} /\ st' = st \cup Marks(n) /\ phase' = phase
      /\ Reaches' \subseteq Reaches \cup SuccSet(n)
      /\ Kind(n) = "switch" => switchFor' = [switchFor EXCEPT ![Graph[n].st] = n]
      /\ Kind(n) # "switch" => switchFor' = switchFor
  BY TakeFacts, OpenArcs
<1>2. cfg' \subseteq Node /\ pending' \subseteq Node
  BY <1>1, Arcs DEF Reaches, OptInv, OptTypeOK
<1>3. st' \subseteq STNode
  BY <1>1, MarkFacts DEF OptInv, OptTypeOK
<1>4. switchFor' \in [STExcl -> {0} \cup OfKind("switch")]
  <2>1. switchFor \in [STExcl -> {0} \cup OfKind("switch")]
    BY DEF OptInv, OptTypeOK
  <2>2. CASE Kind(n) = "switch"
    BY <1>1, <2>1, <2>2 DEF OfKind
  <2> QED
    BY <1>1, <2>1, <2>2
<1>5. levels' \in [OfKind("sync") -> SUBSET Nat]
  <2>1. levels \in [OfKind("sync") -> SUBSET Nat]
    BY DEF OptInv, OptTypeOK
  <2>2. CASE TakeSync(n)
    <3>1. n \in OfKind("sync")
      BY <1>1, <2>2 DEF TakeSync, OfKind
    <3>2. Exits(cfg, n) \subseteq Nat
      BY <1>1, Fields DEF Exits, OptInv, OptTypeOK
    <3>3. levels' = [levels EXCEPT ![n] = IF Exits(cfg, n) = {} THEN levels[n] ELSE Exits(cfg, n)]
      BY <2>2 DEF TakeSync
    <3> QED
      BY <2>1, <3>1, <3>2, <3>3
  <2>3. CASE UNCHANGED levels
    BY <2>1, <2>3
  <2> QED
    BY <2>2, <2>3 DEF TakeSwitch, TakeEnter, TakeOther
<1> QED
  BY <1>1, <1>2, <1>3, <1>4, <1>5 DEF OptInv, OptTypeOK

(* A Switch visited before loses no branch when more of the tree is marked:*)
(* the mark is that of an Enter, which puts the Switch back.               *)
LEMMA NoBranchMissed ==
  ASSUME OptInv, NEW n \in pending,
         TakeSwitch(n) \/ TakeEnter(n) \/ TakeSync(n) \/ TakeOther(n),
         NEW m \in cfg, Kind(m) = "switch", m # n, m \notin pending',
         NEW i \in DOMAIN Children(Graph[m].st), Children(Graph[m].st)[i] \in st'
  PROVE  Children(Graph[m].st)[i] \in st
<1> DEFINE x == Children(Graph[m].st)[i]
<1>1. n \in Node /\ m \in Node /\ st' = st \cup Marks(n)
  BY TakeFacts DEF OptInv, OptTypeOK
<1>2. Graph[m].st \in STExcl /\ Graph[m].st \in STNode
  BY <1>1, MarkFacts, TreeFacts
<1>3. x \in STNode /\ Parent(x) = Graph[m].st
  BY <1>2, VisitAssumption
<1> HIDE DEF x
<1> SUFFICES ASSUME x \in Marks(n) \ st PROVE FALSE
  BY <1>1 DEF x
<1>4. CASE Kind(n) = "switch"
  <2>1. x = Graph[n].st /\ n \in OfKind("switch")
    BY <1>1, <1>4, MarkFacts DEF OfKind
  <2>2. n \in Around(x)
    BY <1>2, <1>3, <2>1 DEF OptInv, WorkInv, Routed, Reaches
  <2> QED
    BY <1>2, <1>3, <2>1, <2>2, SwitchAssumption
<1>5. CASE Kind(n) = "enter"
  <2>1. Above[Graph[n].st] = Graph[m].st
    BY <1>1, <1>2, <1>3, <1>5, MarkFacts
  <2>2. switchFor[Graph[m].st] = m
    BY DEF OptInv, WorkInv, Explored
  <2>3. m \in pending'
    BY <1>1, <1>5, <2>1, <2>2, TakeFacts, Arcs
  <2> QED
    BY <2>3
<1> QED
  BY <1>1, <1>4, <1>5, MarkFacts

(* A visit leaves on the worklist, or already visited, all that it opens.  *)
LEMMA TakeKeeps ==
  ASSUME OptInv, NEW n \in pending,
         TakeSwitch(n) \/ TakeEnter(n) \/ TakeSync(n) \/ TakeOther(n)
  PROVE  OptInv'
<1>1. /\ n \in Node /\ cfg' = cfg \cup {n} /\ st' = st \cup Marks(n)
      /\ phase' = "analyse"
      /\ Opens(cfg', st', n) \subseteq Reaches'
      /\ pending \ {n} \subseteq pending'
      /\ Reaches \subseteq Reaches'
      /\ Reaches' \subseteq Reaches \cup Opens(cfg', st', n)
      /\ Kind(n) = "term" => SuccSet(n) \subseteq pending'
  BY TakeFacts
<1>2. Kind(n) = "switch" => switchFor' = [switchFor EXCEPT ![Graph[n].st] = n]
  BY TakeFacts
<1>3. Kind(n) # "switch" => switchFor' = switchFor
  BY TakeFacts
<1>4. switchFor \in [STExcl -> {0} \cup OfKind("switch")] /\ cfg \subseteq Node
      /\ pending \subseteq Node /\ st \subseteq STNode
  BY DEF OptInv, OptTypeOK
<1>5. \A e \in STExcl : switchFor'[e] \in cfg' \cup {0}
  BY <1>1, <1>2, <1>3, <1>4 DEF OptInv, WorkInv
<1>6. ASSUME NEW m \in cfg'
      PROVE  Explored(m)'
  <2>1. m \in Node
    BY <1>1, <1>4
  <2>2. Marks(m) \subseteq st'
    BY <1>1 DEF OptInv, WorkInv, Explored
  <2>3. Kind(m) = "switch" => switchFor'[Graph[m].st] = m
    <3> SUFFICES ASSUME Kind(m) = "switch" PROVE switchFor'[Graph[m].st] = m
      OBVIOUS
    <3>1. Graph[m].st \in STExcl
      BY <2>1, MarkFacts
    <3>2. CASE m = n
      BY <3>1, <3>2, <1>2, <1>4
    <3>3. CASE m # n
      <4>1. m \in cfg /\ switchFor[Graph[m].st] = m
        BY <1>1, <3>3 DEF OptInv, WorkInv, Explored
      <4>2. Kind(n) = "switch" => Graph[n].st # Graph[m].st
        BY <1>1, <2>1, <3>3, SwitchAssumption DEF OfKind
      <4> QED
        BY <4>1, <4>2, <3>1, <1>2, <1>3, <1>4
    <3> QED
      BY <3>2, <3>3
  <2>4. m \in pending' \/ Opens(cfg', st', m) \subseteq Reaches'
    <3>1. CASE m = n
      BY <3>1, <1>1
    <3>2. CASE m # n /\ m \notin pending'
      <4>1. m \in cfg /\ m \notin pending
        BY <3>2, <1>1
      <4>2. Opens(cfg, st, m) \subseteq Reaches
        BY <4>1 DEF OptInv, WorkInv, Explored
      <4>3. Kind(m) = "sync" => m \notin SuccSet(n) \/ Kind(n) # "term"
        BY <3>2, <1>1
      <4>4. Kind(m) = "switch" =>
              \A i \in DOMAIN Children(Graph[m].st) :
                Children(Graph[m].st)[i] \in st' => Children(Graph[m].st)[i] \in st
        BY <3>2, <4>1, NoBranchMissed
      <4>5. Opens(cfg \cup {n}, st', m) = Opens(cfg, st, m)
        BY <2>1, <1>1, <4>3, <4>4, SameOpens
      <4> QED
        BY <4>2, <4>5, <1>1
    <3> QED
      BY <3>1, <3>2
  <2> QED
    BY <2>2, <2>3, <2>4 DEF Explored, Reaches
<1>7. ASSUME NEW m \in OfKind("switch")
      PROVE  Routed(m)'
  <2> DEFINE e == Graph[m].st
  <2> HIDE DEF e
  <2>1. SUFFICES ASSUME Parent(e) \in STExcl, e \notin st' PROVE Reaches' \subseteq Around(e)
    BY DEF Routed, Reaches, e
  <2>2. Reaches \subseteq Around(e)
    BY <2>1, <1>1 DEF OptInv, WorkInv, Routed, e
  <2>3. e \in STNode \ (st' \cup Marks(n))
    BY <2>1, <1>1, ArcAssumption, TreeFacts DEF e, OfKind
  <2>4. Opens(cfg', st', n) \subseteq ArcsAround(e, n)
    BY <2>3, <1>1, OpenArcs
  <2>5. ArcsAround(e, n) \subseteq Around(e)
    BY <2>1, <2>2, SwitchAssumption DEF e, Reaches
  <2> QED
    BY <1>1, <2>2, <2>4, <2>5
<1>8. Root \in Reaches' /\ {1, Children(1)[3]} \subseteq st'
  BY <1>1 DEF OptInv, WorkInv
<1> QED
  BY <1>1, <1>5, <1>6, <1>7, <1>8, TakeTypes DEF OptInv, WorkInv

(* Every step of the analysis, Prune included, keeps the worklist's        *)
(* invariant.                                                              *)
LEMMA WorkKeeps == OptInv /\ [OptNext]_optVars => OptInv'
<1> SUFFICES ASSUME OptInv, [OptNext]_optVars PROVE OptInv'
  OBVIOUS
<1>1. CASE Analyse
  BY <1>1, TakeKeeps DEF Analyse
<1>2. CASE Prune
  BY <1>2 DEF Prune, OptInv, WorkInv, OptTypeOK, Reaches, Explored, Routed
<1>3. CASE UNCHANGED optVars
  BY <1>3 DEF optVars, OptInv, WorkInv, OptTypeOK, Reaches, Explored, Routed
<1> QED
  BY <1>1, <1>2, <1>3 DEF OptNext

(* The analysis has this invariant in every state it reaches with the      *)
(* executions beside it.                                                   *)
LEMMA WorkIsSound == DeadSpec => []OptInv
<1>1. DeadInit => OptInv
  BY WorkStarts DEF DeadInit
<1>2. [DeadNext]_allVars => [OptNext]_optVars
  BY DEF DeadNext, Optimize, Execute, allVars, optVars
<1> QED
  BY <1>1, <1>2, WorkKeeps, PTL DEF DeadSpec

(* The analysis visits nodes that exist, and no Enter puts back the NULL   *)
(* of a Switch that is not known yet.                                      *)
THEOREM AnalysisTypes == DeadSpec => []OptTypeOK
BY WorkIsSound, PTL DEF OptInv

(* The worklist forgets nothing, in whatever order it is emptied.          *)
THEOREM AnalysisCloses == DeadSpec => []Closed
<1>1. OptInv => Closed
  <2> SUFFICES ASSUME OptInv, pending = {}
               PROVE  /\ \A n \in cfg : Opens(cfg, st, n) \subseteq cfg /\ Marks(n) \subseteq st
                      /\ Root \in cfg
    BY DEF Closed
  <2> QED
    BY DEF OptInv, WorkInv, Explored, Reaches
<1> QED
  BY <1>1, WorkIsSound, PTL

-----------------------------------------------------------------------------

(* More visited nodes and more marks open more.                            *)
LEMMA OpensMore ==
  ASSUME NEW n \in Node, NEW C, NEW D, NEW S, NEW T, C \subseteq D, S \subseteq T
  PROVE  Opens(C, S, n) \subseteq Opens(D, T, n)
<1>1. Exits(C, n) \subseteq Exits(D, n)
  BY DEF Exits
<1>2. SyncOpens(C, n) \subseteq SyncOpens(D, n)
  BY <1>1 DEF SyncOpens, Leaves
<1>3. SwitchOpens(S, n) \subseteq SwitchOpens(T, n)
  BY DEF SwitchOpens
<1> QED
  BY <1>2, <1>3 DEF Opens

(* One round of the closure, and the closure as its repetition.            *)
Found == [cfg : SUBSET Node, st : SUBSET STNode]
Round(R) == [cfg |-> R.cfg \cup UNION {Opens(R.cfg, R.st, n) : n \in R.cfg},
             st |-> R.st \cup UNION {Marks(n) : n \in R.cfg}]

(* A round of the closure adds nodes of the graph and of the tree, and     *)
(* takes none away.                                                        *)
LEMMA RoundFacts ==
  ASSUME NEW R \in Found
  PROVE  /\ Round(R) \in Found
         /\ R.cfg \subseteq Round(R).cfg /\ R.st \subseteq Round(R).st
<1>1. \A n \in R.cfg : Opens(R.cfg, R.st, n) \subseteq Node /\ Marks(n) \subseteq STNode
  BY OpenArcs, MarkFacts, Arcs DEF Found
<1> QED
  BY <1>1 DEF Round, Found

(* The closure begins with Root and goes on by rounds.                     *)
LEMMA Closures ==
  /\ Closure[0] = [cfg |-> {Root}, st |-> {1, Children(1)[3]}]
  /\ \A k \in Nat : Closure[k] \in Found /\ Closure[k + 1] = Round(Closure[k])
<1> DEFINE base == [cfg |-> {Root}, st |-> {1, Children(1)[3]}]
           p == [k \in Nat |-> k - 1]
           b == [k \in Nat |-> base]
           g == [k \in Nat |-> [R \in Found |-> Round(R)]]
<1>1. base \in Found
  BY TreeFacts, GraphAssumption DEF Found
<1>2. \A k \in Nat : k # 0 => k - 1 \in Nat /\ k - 1 < k
  OBVIOUS
<1>3. Closure = [k \in Nat |-> IF k = 0 THEN base ELSE Round(Closure[k - 1])]
  <2>1. Recurses(Nat, {0}, p, b, g, Found)
    <3>1. \A k \in Nat : b[k] \in Found /\ \A R \in Found : g[k][R] \in Found
      BY <1>1, RoundFacts
    <3>2. \A k \in Nat : k \notin {0} => p[k] \in Nat /\ p[k] < k
      BY <1>2
    <3> HIDE DEF p, b, g
    <3> QED
      BY <3>1, <3>2 DEF Recurses
  <2>2. PICK f \in [Nat -> Found] : f = [k \in Nat |-> IF k \in {0} THEN b[k] ELSE g[k][f[p[k]]]]
    <3> HIDE DEF p, b, g
    <3> QED
      BY <2>1, Recursion
  <2>3. ASSUME NEW k \in Nat
        PROVE  f[k] = IF k = 0 THEN base ELSE Round(f[k - 1])
    <3>1. k # 0 => f[k - 1] \in Found
      BY <2>2, <1>2
    <3>2. f[k] = IF k \in {0} THEN b[k] ELSE g[k][f[p[k]]]
      BY <2>2
    <3> HIDE DEF base
    <3> QED
      BY <3>1, <3>2
  <2>4. f = [k \in Nat |-> IF k = 0 THEN base ELSE Round(f[k - 1])]
    BY <2>3
  <2> QED
    BY <2>4 DEF Closure, Round
<1> HIDE DEF base
<1>4. Closure[0] = base
  BY <1>3
<1>5. ASSUME NEW k \in Nat
      PROVE  Closure[k + 1] = Round(Closure[k])
  BY <1>3
<1> DEFINE Good == {k \in Nat : Closure[k] \in Found}
<1>6. ASSUME NEW k \in Nat, \A j \in Nat : j < k => j \in Good
      PROVE  k \in Good
  <2>1. CASE k = 0
    BY <2>1, <1>1, <1>4
  <2>2. CASE k # 0
    <3>1. k - 1 \in Good
      BY <1>2, <2>2, <1>6
    <3>2. Closure[k] = Round(Closure[k - 1])
      BY <1>3, <2>2
    <3> QED
      BY <3>1, <3>2, RoundFacts
  <2> QED
    BY <2>1, <2>2
<1>7. Nat \subseteq Good
  <2> HIDE DEF Good
  <2> QED
    BY <1>6, Induct
<1> QED
  BY <1>4, <1>5, <1>7 DEF base

(* The closure grows in every round until it stays, and there is not more  *)
(* than the graph and the tree to find.                                    *)
LEMMA LeastIsClosed ==
  /\ Least \in Found /\ Root \in Least.cfg /\ {1, Children(1)[3]} \subseteq Least.st
  /\ Round(Least) = Least
<1> DEFINE Size(k) == Cardinality(Closure[k].cfg) + Cardinality(Closure[k].st)
           Stuck(k) == Closure[k + 1] = Closure[k]
           Start == [cfg |-> {Root}, st |-> {1, Children(1)[3]}]
           Good == {k \in Nat : Start.cfg \subseteq Closure[k].cfg /\ Start.st \subseteq Closure[k].st
                                /\ (Stuck(k) \/ Size(k) > k)}
<1>1. /\ Len(Graph) \in Nat /\ Len(Tree) \in Nat
      /\ IsFiniteSet(Node) /\ Cardinality(Node) = Len(Graph)
      /\ IsFiniteSet(STNode) /\ Cardinality(STNode) = Len(Tree)
  <2>1. Len(Graph) \in Nat /\ Len(Tree) \in Nat
    BY GraphAssumption
  <2>2. \A l \in Nat : IsFiniteSet(1..l) /\ Cardinality(1..l) = l
    <3> SUFFICES ASSUME NEW l \in Nat PROVE IsFiniteSet(1..l) /\ Cardinality(1..l) = l
      OBVIOUS
    <3>1. IsFiniteSet(1..l) /\ Cardinality(1..l) = IF 1 > l THEN 0 ELSE l - 1 + 1
      BY FS_Interval
    <3> QED
      BY <3>1
  <2> QED
    BY <2>1, <2>2 DEF Node, STNode
<1>2. ASSUME NEW k \in Nat
      PROVE  /\ Closure[k] \in Found
             /\ IsFiniteSet(Closure[k].cfg) /\ Cardinality(Closure[k].cfg) \in 0..Len(Graph)
             /\ IsFiniteSet(Closure[k].st) /\ Cardinality(Closure[k].st) \in 0..Len(Tree)
  <2>1. Closure[k] \in Found /\ Closure[k].cfg \in SUBSET Node /\ Closure[k].st \in SUBSET STNode
    BY Closures DEF Found
  <2>2. /\ IsFiniteSet(Closure[k].cfg) /\ Cardinality(Closure[k].cfg) <= Len(Graph)
        /\ IsFiniteSet(Closure[k].st) /\ Cardinality(Closure[k].st) <= Len(Tree)
    BY <2>1, <1>1, FS_Subset
  <2> QED
    BY <2>1, <2>2, <1>1, FS_CardinalityType
<1>3. ASSUME NEW k \in Nat, ~Stuck(k)
      PROVE  Size(k + 1) > Size(k)
  <2> DEFINE R == Closure[k]
             Q == Closure[k + 1]
  <2>1. Q = Round(R) /\ R \in Found /\ Q \in Found /\ Q # R
    BY <1>3, Closures
  <2>2. R.cfg \subseteq Q.cfg /\ R.st \subseteq Q.st
    BY <2>1, RoundFacts
  <2>3. R.cfg # Q.cfg \/ R.st # Q.st
    BY <2>1 DEF Found
  <2>4. /\ IsFiniteSet(Q.cfg) /\ Cardinality(Q.cfg) \in 0..Len(Graph)
        /\ IsFiniteSet(Q.st) /\ Cardinality(Q.st) \in 0..Len(Tree)
        /\ Cardinality(R.cfg) \in 0..Len(Graph) /\ Cardinality(R.st) \in 0..Len(Tree)
    <3>1. k + 1 \in Nat
      OBVIOUS
    <3> QED
      BY <3>1, <1>2
  <2> HIDE DEF R, Q
  <2>5. /\ Cardinality(R.cfg) <= Cardinality(Q.cfg) /\ Cardinality(R.st) <= Cardinality(Q.st)
        /\ Cardinality(R.cfg) = Cardinality(Q.cfg) => R.cfg = Q.cfg
        /\ Cardinality(R.st) = Cardinality(Q.st) => R.st = Q.st
    BY <2>2, <2>4, FS_Subset
  <2>6. Cardinality(Q.cfg) + Cardinality(Q.st) > Cardinality(R.cfg) + Cardinality(R.st)
    BY <2>3, <2>4, <2>5, <1>1
  <2> QED
    BY <2>6 DEF R, Q
<1>4. ASSUME NEW k \in Nat
      PROVE  Size(k) \in Nat /\ Size(k) <= Len(Graph) + Len(Tree)
  <2>1. Cardinality(Closure[k].cfg) \in 0..Len(Graph) /\ Cardinality(Closure[k].st) \in 0..Len(Tree)
    BY <1>2
  <2>2. \A x \in 0..Len(Graph), y \in 0..Len(Tree) : x + y \in Nat /\ x + y <= Len(Graph) + Len(Tree)
    BY <1>1
  <2> QED
    BY <2>1, <2>2
<1>5. ASSUME NEW k \in Nat, \A j \in Nat : j < k => j \in Good
      PROVE  k \in Good
  <2>1. CASE k = 0
    <3>1. Closure[0] = Start
      BY Closures
    <3>2. Cardinality({Root}) = 1 /\ Closure[0].cfg = {Root}
      BY <3>1, FS_Singleton
    <3>3. Size(0) > 0
      BY <3>2, <1>2
    <3> QED
      BY <2>1, <3>1, <3>3
  <2>2. CASE k # 0
    <3>1. k - 1 \in Nat /\ k - 1 \in Good
      BY <2>2, <1>5
    <3>2. Closure[k] = Round(Closure[k - 1]) /\ Closure[k + 1] = Round(Closure[k])
          /\ Closure[k - 1] \in Found /\ (k - 1) + 1 = k
      <4>1. (k - 1) + 1 = k
        BY <3>1
      <4> QED
        BY <4>1, <3>1, Closures
    <3>3. Start.cfg \subseteq Closure[k].cfg /\ Start.st \subseteq Closure[k].st
      BY <3>1, <3>2, RoundFacts
    <3>4. Stuck(k - 1) => Stuck(k)
      BY <3>2
    <3>5. ~Stuck(k - 1) => Size(k) > k
      <4>1. SUFFICES ASSUME ~Stuck(k - 1) PROVE Size(k) > k
        OBVIOUS
      <4>2. Size(k) > Size(k - 1) /\ Size(k - 1) > k - 1
        BY <4>1, <3>1, <3>2, <1>3
      <4>3. Size(k) \in Nat /\ Size(k - 1) \in Nat
        BY <3>1, <1>4
      <4> HIDE DEF Size
      <4> QED
        BY <4>2, <4>3
    <3> QED
      BY <3>3, <3>4, <3>5
  <2> QED
    BY <2>1, <2>2
<1>6. Nat \subseteq Good
  <2> HIDE DEF Good
  <2> QED
    BY <1>5, Induct
<1> DEFINE M == Len(Graph) + Len(Tree)
<1>7. M \in Nat /\ M \in Good
  BY <1>1, <1>6
<1>8. Stuck(M)
  <2>1. Size(M) \in Nat /\ ~(Size(M) > M)
    BY <1>7, <1>4
  <2> QED
    BY <1>7, <2>1
<1> QED
  BY <1>7, <1>8, Closures DEF Least

(* Whatever the order, the analysis stays inside the closure, ...          *)
Inside == Reaches \subseteq Least.cfg /\ st \subseteq Least.st

(* The union of all rounds is closed: what is open in it is in it.         *)
LEMMA LeastFacts ==
  /\ Least.cfg \subseteq Node
  /\ \A n \in Least.cfg :
       Opens(Least.cfg, Least.st, n) \subseteq Least.cfg /\ Marks(n) \subseteq Least.st
<1>1. Least.cfg = Round(Least).cfg /\ Least.st = Round(Least).st /\ Least \in Found
  BY LeastIsClosed
<1> QED
  BY <1>1 DEF Round, Found

(* No visit, in whatever order, reaches more than the least closed sets.   *)
LEMMA StaysInside == OptInv /\ Inside /\ [OptNext]_optVars => Inside'
<1> SUFFICES ASSUME OptInv, Inside, [OptNext]_optVars PROVE Inside'
  OBVIOUS
<1>1. ASSUME NEW n \in pending, TakeSwitch(n) \/ TakeEnter(n) \/ TakeSync(n) \/ TakeOther(n)
      PROVE  Inside'
  <2>1. /\ n \in Node /\ cfg' = cfg \cup {n} /\ st' = st \cup Marks(n)
        /\ Reaches' \subseteq Reaches \cup Opens(cfg', st', n)
    BY <1>1, TakeFacts
  <2>2. n \in Least.cfg /\ cfg' \subseteq Least.cfg
    BY <2>1 DEF Inside, Reaches
  <2>3. st' \subseteq Least.st
    BY <2>1, <2>2, LeastFacts DEF Inside
  <2>4. Opens(cfg', st', n) \subseteq Opens(Least.cfg, Least.st, n)
    BY <2>1, <2>2, <2>3, OpensMore
  <2>5. Opens(Least.cfg, Least.st, n) \subseteq Least.cfg
    BY <2>2, LeastFacts
  <2>6. Reaches' \subseteq Least.cfg
    BY <2>1, <2>4, <2>5 DEF Inside
  <2> QED
    BY <2>3, <2>6 DEF Inside
<1>2. CASE UNCHANGED <<cfg, pending, st>>
  BY <1>2 DEF Inside, Reaches
<1> QED
  BY <1>1, <1>2 DEF OptNext, Analyse, Prune, optVars

(* ... and what is closed and has the root holds every round of it.        *)
LEMMA HoldsClosure ==
  ASSUME OptInv, pending = {}, NEW k \in Nat
  PROVE  Closure[k].cfg \subseteq cfg /\ Closure[k].st \subseteq st
<1> DEFINE Good == {j \in Nat : Closure[j].cfg \subseteq cfg /\ Closure[j].st \subseteq st}
<1>1. /\ Root \in cfg /\ {1, Children(1)[3]} \subseteq st /\ cfg \subseteq Node
      /\ \A n \in cfg : Opens(cfg, st, n) \subseteq cfg /\ Marks(n) \subseteq st
  BY DEF OptInv, WorkInv, OptTypeOK, Explored, Reaches
<1>2. ASSUME NEW j \in Nat, \A i \in Nat : i < j => i \in Good
      PROVE  j \in Good
  <2>1. CASE j = 0
    BY <2>1, <1>1, Closures
  <2>2. CASE j # 0
    <3> DEFINE R == Closure[j - 1]
    <3>1. j - 1 \in Nat /\ j - 1 \in Good
      BY <2>2, <1>2
    <3>2. Closure[j] = Round(R)
      <4>1. (j - 1) + 1 = j
        BY <3>1
      <4> QED
        BY <4>1, <3>1, Closures
    <3>3. R.cfg \subseteq cfg /\ R.st \subseteq st
      BY <3>1
    <3> HIDE DEF R
    <3>4. \A n \in R.cfg : Opens(R.cfg, R.st, n) \subseteq cfg /\ Marks(n) \subseteq st
      BY <3>3, <1>1, OpensMore
    <3>5. Round(R).cfg \subseteq cfg /\ Round(R).st \subseteq st
      BY <3>3, <3>4 DEF Round
    <3> QED
      BY <3>2, <3>5
  <2> QED
    BY <2>1, <2>2
<1>3. Nat \subseteq Good
  <2> HIDE DEF Good
  <2> QED
    BY <1>2, Induct
<1> QED
  BY <1>3

(* Every order of the worklist finds the same nodes and marks.             *)
THEOREM AnalysisIsLeast == DeadSpec => []FindsLeast
<1>1. DeadInit => Inside
  BY LeastIsClosed DEF DeadInit, OptInit, Inside, Reaches
<1>2. [DeadNext]_allVars => [OptNext]_optVars
  BY DEF DeadNext, Optimize, Execute, allVars, optVars
<1>3. OptInv /\ Inside => FindsLeast
  <2> SUFFICES ASSUME OptInv, Inside, pending = {} PROVE cfg = Least.cfg /\ st = Least.st
    BY DEF FindsLeast
  <2>1. Len(Graph) + Len(Tree) \in Nat
    BY GraphAssumption
  <2>2. Least.cfg \subseteq cfg /\ Least.st \subseteq st
    BY <2>1, HoldsClosure DEF Least
  <2> QED
    BY <2>2 DEF Inside, Reaches
<1> QED
  BY <1>1, <1>2, <1>3, WorkIsSound, StaysInside, PTL DEF DeadSpec

-----------------------------------------------------------------------------

(* The climb of setState stays on that of visit(Enter): what an Enter      *)
(* moves an exclusive node to is among what the analysis marks for it.     *)
LEMMA SettledIsMarked ==
  ASSUME NEW x \in STNode, Settled[x] # 0
  PROVE  /\ Settled[x] \in Climb[x] /\ Settled[x] \in STNode
         /\ Parent(Settled[x]) \in STExcl
         /\ ChildNum(Settled[x]) \in DOMAIN Children(Parent(Settled[x]))
         /\ Children(Parent(Settled[x]))[ChildNum(Settled[x])] = Settled[x]
<1> DEFINE Low == {c \in STNode : Parent(c) = 0 \/ Tree[Parent(c)].kind \in {"par", "excl"}}
           p == [c \in STNode |-> Parent(c)]
           b == [c \in STNode |-> IF Parent(c) # 0 /\ Tree[Parent(c)].kind = "excl" THEN c ELSE 0]
           g == [c \in STNode |-> [v \in Nat |-> v]]
<1>1. \A c \in STNode : c \notin Low => Parent(c) \in STNode /\ Parent(c) < c
  BY TreeFacts
<1>2. STNode \subseteq Nat /\ \A c \in STNode : Parent(c) \in Nat
  BY TreeFacts
<1>3. \A c \in STNode :
        Settled[c] = IF Parent(c) = 0 \/ Tree[Parent(c)].kind = "par" THEN 0
                     ELSE IF Tree[Parent(c)].kind = "excl" THEN c ELSE Settled[Parent(c)]
  <2>1. Recurses(STNode, Low, p, b, g, Nat)
    <3>1. \A c \in STNode : b[c] \in Nat /\ \A v \in Nat : g[c][v] \in Nat
      BY <1>2
    <3>2. \A c \in STNode : c \notin Low => p[c] \in STNode /\ p[c] < c
      BY <1>1
    <3> HIDE DEF b, g, p, Low
    <3> QED
      BY <3>1, <3>2, <1>2 DEF Recurses
  <2>2. PICK f \in [STNode -> Nat] : f = [c \in STNode |-> IF c \in Low THEN b[c] ELSE g[c][f[p[c]]]]
    <3> HIDE DEF b, g, p, Low
    <3> QED
      BY <2>1, Recursion
  <2>3. ASSUME NEW c \in STNode
        PROVE  f[c] = IF Parent(c) = 0 \/ Tree[Parent(c)].kind = "par" THEN 0
                      ELSE IF Tree[Parent(c)].kind = "excl" THEN c ELSE f[Parent(c)]
    <3>1. f[c] = IF c \in Low THEN b[c] ELSE g[c][f[Parent(c)]]
      BY <2>2
    <3>2. c \notin Low => f[Parent(c)] \in Nat
      BY <1>1, <2>2
    <3>3. c \notin Low => g[c][f[Parent(c)]] = f[Parent(c)]
      BY <3>2
    <3> QED
      BY <3>1, <3>3
  <2>4. f = [c \in STNode |-> IF Parent(c) = 0 \/ Tree[Parent(c)].kind = "par" THEN 0
                             ELSE IF Tree[Parent(c)].kind = "excl" THEN c ELSE f[Parent(c)]]
    BY <2>3
  <2>5. Settled = [c \in STNode |-> IF Parent(c) = 0 \/ Tree[Parent(c)].kind = "par" THEN 0
                             ELSE IF Tree[Parent(c)].kind = "excl" THEN c ELSE Settled[Parent(c)]]
    BY <2>4 DEF Settled
  <2> QED
    BY <2>5
<1> DEFINE Good == {c \in STNode : Settled[c] # 0 => Settled[c] \in Climb[c]}
<1>4. ASSUME NEW c \in STNode, \A d \in STNode : d < c => d \in Good
      PROVE  c \in Good
  <2>1. CASE c \in Low
    BY <2>1, <1>3, Climbs
  <2>2. CASE c \notin Low
    <3>1. Parent(c) \in Good /\ Parent(c) # 0
      BY <2>2, <1>1, <1>4
    <3>2. Parent(c) \notin STExcl /\ Settled[c] = Settled[Parent(c)]
      BY <2>2, <1>3 DEF STExcl
    <3>3. Climb[c] = {c} \cup Climb[Parent(c)]
      BY <2>2, <3>1, <3>2, Climbs
    <3> QED
      BY <3>1, <3>2, <3>3
  <2> QED
    BY <2>1, <2>2
<1>5. STNode \subseteq Good
  <2> HIDE DEF Good
  <2> QED
    BY <1>2, <1>4, Induct
<1>6. Settled[x] \in STNode /\ Parent(Settled[x]) \in STExcl
  BY TreeAssumption
<1>7. Settled[x] # 1
  <2>1. Parent(1) = 0
    BY TreeFacts
  <2> QED
    BY <2>1, <1>6, TreeFacts
<1>8. PICK i \in DOMAIN Children(Parent(Settled[x])) : Children(Parent(Settled[x]))[i] = Settled[x]
  BY <1>6, <1>7, VisitAssumption
<1>9. /\ ChildNum(Settled[x]) \in DOMAIN Children(Parent(Settled[x]))
      /\ Children(Parent(Settled[x]))[ChildNum(Settled[x])] = Settled[x]
  BY <1>8 DEF ChildNum
<1> QED
  BY <1>5, <1>6, <1>9

(* The invariant of the run that follows the analysis: what runs was       *)
(* visited, a state is the number of a child that was marked, and known    *)
(* inputs leave nothing unknown.                                           *)
RunsKept ==
  /\ ~ternary
  /\ \A n \in Node : Lit(n) => n \in cfg
  /\ \A e \in STExcl : \A i \in {state[e], nextstate[e]} \ {0} :
       i \in DOMAIN Children(e) /\ Children(e)[i] \in st
DeadInv == OptInv /\ TickInv /\ RunsKept

(* At a Sync that runs, every level that its threads reach together is one *)
(* that the analysis found: each thread, from 0 to the largest index of a  *)
(* Terminate of the Sync, has a Terminate that was visited and stays below.*)
LEMMA ExitIsKnown ==
  ASSUME DeadInv, At("sync"), NEW top \in Level(here), IsTop(here, top)
  PROVE  /\ top \in Exits(cfg, here)
         /\ top + 1 \in DOMAIN Succ(here) /\ Succ(here)[top + 1] # 0
<1>1. /\ mode = "tick" /\ pos > 0 /\ Kind(here) = "sync" /\ Lit(here)
      /\ here \in Node /\ here \in Live /\ sched \in [Node -> Control]
  BY HereFacts DEF At, Lit, cc, DeadInv, TickInv, SimInv, TypeOK
<1>2. InPlace /\ ThreadsOpened
  BY <1>1 DEF DeadInv, TickInv, NestInv
<1>3. PICK f \in ForksOf(here) : Opened(f)
  BY <1>1, <1>2 DEF ThreadsOpened
<1>4. here \in Inner /\ f \in Inner /\ Kind(f) = "fork" /\ Graph[f].sync = here
  BY <1>1, <1>2, <1>3 DEF InPlace, ForksOf, OfKind
<1>5. /\ DOMAIN Succ(f) = 1..Len(Succ(f)) /\ Len(Succ(f)) \in Nat
      /\ Data(here) \subseteq Node /\ top \in Nat
      /\ \A d \in Node : Code(d) \in Nat /\ Thread(d) \in Nat
  <2>1. \A d \in Node : Code(d) \in Nat /\ Thread(d) \in Nat
    BY Fields, ThreadNumbers
  <2>2. Data(here) \subseteq Node
    BY <1>1, Fields
  <2>3. DOMAIN Succ(f) = 1..Len(Succ(f)) /\ Len(Succ(f)) \in Nat
    BY <1>4, Places, NestAssumption, Arcs
  <2>4. top \in Nat
    BY <2>1, <2>2 DEF Level
  <2> QED
    BY <2>1, <2>2, <2>3, <2>4
<1>6. ASSUME NEW u \in Data(here), Lit(u)
      PROVE  u \in cfg /\ u \in Inner /\ Code(u) <= top
  <2>1. OrAll(here, Code(u)) # Off
    <3>1. sched[u] \in {On, Unk}
      BY <1>1, <1>5, <1>6 DEF Lit, Control
    <3> QED
      BY <3>1 DEF OrAll, On, Off, Unk
  <2>2. Code(u) \in Level(here) /\ Code(u) \in Nat
    BY <1>5 DEF Level
  <2>3. ~(Code(u) > top)
    BY <2>1, <2>2 DEF IsTop
  <2> QED
    BY <1>2, <1>5, <1>6, <2>2, <2>3 DEF InPlace, DeadInv, RunsKept
<1>7. ASSUME NEW i \in Nat, i + 1 \in DOMAIN Succ(f)
      PROVE  \E d \in Data(here) \cap Inner :
               d \in Terms(here) \cap cfg /\ Thread(d) = i /\ Code(d) <= top
  <2>1. PICK d \in Data(here) \cap Inner :
          Kind(d) = "term" /\ Lit(d) /\ Home(d) = PlaceOf(f, i + 1) /\ Thread(d) = (i + 1) - 1
    BY <1>1, <1>3, <1>7, SyncReady DEF DeadInv
  <2>2. d \in Terms(here)
    <3>1. Home(d) # Main /\ Home(d).sync = here
      BY <1>4, <1>7, <2>1, ForkPlaces, NestAssumption
    <3>2. SuccSet(d) = {here} /\ d \in OfKind("term")
      BY <2>1, <3>1, Ends, NestAssumption, Places DEF OfKind
    <3>3. <<d, here>> \in JoinArcs
      BY <3>2 DEF JoinArcs
    <3> QED
      BY <3>3 DEF Terms
  <2> QED
    BY <2>1, <2>2, <1>6
<1>8. PICK d \in Data(here) : Code(d) = top /\ Lit(d)
  BY DEF IsTop, OrAll, On, Off, Unk, Lit
<1>9. Terms(here) \subseteq Data(here)
  <2>1. \A t \in Terms(here) : t \in Node /\ here \in SuccSet(t)
    BY DEF Terms, JoinArcs, OfKind
  <2> QED
    BY <2>1, <1>1, DataAssumption
<1>10. \A i \in Threads(here) : i \in Nat /\ i + 1 \in DOMAIN Succ(f)
  <2>1. ASSUME NEW t \in Terms(here), NEW i \in 0..Thread(t)
        PROVE  i \in Nat /\ i + 1 \in DOMAIN Succ(f)
    <3>1. t \in Data(here) /\ Thread(t) \in Nat
      BY <1>5, <1>9
    <3>2. Thread(t) + 1 \in DOMAIN Succ(f)
      BY <3>1, <1>1, <1>3, <1>4, NestAssumption DEF OfKind, Nested
    <3> QED
      BY <3>1, <3>2, <1>5
  <2> QED
    BY <2>1 DEF Threads
<1>11. Thread(d) + 1 \in DOMAIN Succ(f) /\ Thread(d) \in Nat /\ d \in Inner
  BY <1>1, <1>3, <1>4, <1>5, <1>6, <1>8, NestAssumption DEF OfKind, Nested
<1>12. d \in Terms(here) \cap cfg
  <2>1. Kind(d) = "term" /\ Home(d) = [sync |-> here, thread |-> Thread(d)]
    BY <1>1, <1>4, <1>8, <1>11, ArcAssumption, NestAssumption DEF OfKind, Nested
  <2>2. Home(d).sync = here /\ Home(d) # Main
    <3>1. here # 0
      BY <1>1, Arcs
    <3> QED
      BY <2>1, <3>1 DEF Main
  <2>3. SuccSet(d) = {here} /\ d \in OfKind("term")
    BY <2>1, <2>2, <1>11, Ends, NestAssumption, Places DEF OfKind
  <2>4. <<d, here>> \in JoinArcs
    BY <2>3 DEF JoinArcs
  <2> QED
    BY <2>4, <1>6, <1>8 DEF Terms
<1>13. top \in Exits(cfg, here)
  <2>1. \A i \in Threads(here) : \E t \in Terms(here) \cap cfg : Thread(t) = i /\ Code(t) <= top
    BY <1>7, <1>10
  <2>2. top \in {Code(t) : t \in Terms(here) \cap cfg}
    BY <1>8, <1>12
  <2> QED
    BY <2>1, <2>2 DEF Exits
<1>14. ASSUME NEW q \in Data(here) \cap Inner
       PROVE  \E u \in Data(here) \cap Inner : Thread(u) = Thread(q) /\ Code(u) <= Code(d)
  <2>1. Thread(q) \in Nat /\ Thread(q) + 1 \in DOMAIN Succ(f)
    BY <1>1, <1>3, <1>4, <1>5, NestAssumption DEF OfKind, Nested
  <2> QED
    BY <2>1, <1>7, <1>8
<1>15. Code(d) + 1 \in DOMAIN Succ(here) /\ Succ(here)[Code(d) + 1] # 0
  BY <1>1, <1>4, <1>11, <1>14, NestAssumption DEF OfKind, Nested
<1> QED
  BY <1>8, <1>13, <1>15

(* The known inputs stay known: no test of the tick reads a -1.            *)
LEMMA StaysKnown ==
  ASSUME DeadInv, Step
  PROVE  ~ternary'
<1>1. mode = "tick" /\ pos > 0
  BY VisitWrites DEF DeadInv, TickInv
<1>2. here \in Node /\ ~ternary /\ signals \in [Signal -> Control]
      /\ \A x \in Signal : signals[x] # Unk
  BY <1>1, HereFacts DEF DeadInv, TickInv, SimInv, TypeOK, RunsKept, TwoValued
<1>3. CASE VisitTest
  <2>1. here \in OfKind("test")
    BY <1>2, <1>3 DEF VisitTest, At, OfKind
  <2>2. Value(here) # Unk
    <3>1. /\ Reads(here) \subseteq Signal /\ Reads(here) # {} /\ Graph[here].op \in Predicates
      BY <1>2, <2>1, Fields DEF OfKind
    <3>2. (CHOOSE x \in Reads(here) : TRUE) \in Signal
      BY <3>1
    <3> QED
      BY <3>1, <3>2, <1>2 DEF Value, Predicates, On, Off, Unk
  <2> QED
    BY <1>2, <1>3, <2>2 DEF VisitTest
<1> QED
  BY <1>2, <1>3 DEF Step, Skip, Visit, VisitPlain, VisitSync, VisitSwitch, VisitEnter, VisitEmit,
                    VisitExit, VisitDefine

(* What a step gives control to was visited by the analysis.               *)
LEMMA GivesKept ==
  ASSUME DeadInv, phase = "pruned", Step, NEW n \in Node, sched'[n] # Off
  PROVE  n \in cfg
<1>1. mode = "tick" /\ pos > 0 /\ here \in Node /\ ~ternary
      /\ sched \in [Node -> Control] /\ state \in [STExcl -> Nat]
  <2>1. mode = "tick" /\ pos > 0
    BY VisitWrites DEF DeadInv, TickInv
  <2> QED
    BY <2>1, HereFacts DEF DeadInv, TickInv, SimInv, TypeOK, RunsKept
<1>2. /\ \A m \in Node : Lit(m) => m \in cfg
      /\ \A m \in cfg : Opens(cfg, st, m) \subseteq cfg
  BY DEF DeadInv, RunsKept, OptInv, WorkInv, Explored, Reaches
<1>3. \A S, c : sched' = Schedule(S, c) => Lit(n) \/ n \in S
  BY DEF Schedule, Lit
<1>4. CASE Lit(n)
  BY <1>2, <1>4
<1>5. ASSUME cc # Off, NEW S, NEW c, sched' = Schedule(S, c), S \subseteq Opens(cfg, st, here)
      PROVE  n \in cfg
  BY <1>1, <1>2, <1>3, <1>5 DEF Lit, cc
<1>6. CASE VisitSync
  <2>1. PICK top \in Level(here) :
          /\ IsTop(here, top)
          /\ sched' = Schedule({Succ(here)[l + 1] : l \in LeaveLevels(here)} \ {0},
                               IF OrAll(here, top) = Unk THEN Unk ELSE cc)
    BY <1>6 DEF VisitSync
  <2>2. At("sync") /\ cc # Off /\ Kind(here) = "sync"
    BY <1>6 DEF VisitSync, At
  <2>3. top \in Exits(cfg, here) /\ top + 1 \in DOMAIN Succ(here)
    BY <2>1, <2>2, ExitIsKnown
  <2>4. \A l \in LeaveLevels(here) : l = top
    <3>1. \A d \in Data(here) : sched[d] # Unk /\ sched[d] \in Control /\ Code(d) \in Nat
      BY <1>1, Fields DEF DeadInv, TickInv, TwoValued
    <3>2. OrAll(here, top) = On
      BY <3>1, <2>1 DEF OrAll, IsTop, On, Off, Unk
    <3>3. ASSUME NEW l \in LeaveLevels(here)
          PROVE  l = top
      <4>1. l \in Nat /\ top \in Nat /\ ~(top > l) /\ ~(l > top)
        BY <2>1, <3>1, <3>2 DEF LeaveLevels, Level, IsTop
      <4> QED
        BY <4>1
    <3> QED
      BY <3>3
  <2>5. top < Len(Succ(here)) /\ top \in Nat
    <3>1. top \in Nat
      BY <1>1, Fields DEF Level
    <3> QED
      BY <3>1, <2>3, <1>1, Arcs
  <2>6. {Succ(here)[l + 1] : l \in LeaveLevels(here)} \ {0} \subseteq Opens(cfg, st, here)
    BY <2>2, <2>3, <2>4, <2>5 DEF Opens, SyncOpens, Leaves
  <2> QED
    BY <2>1, <2>2, <2>6, <1>5
<1>7. CASE VisitSwitch
  <2> DEFINE e == Graph[here].st
  <2>1. /\ Kind(here) = "switch" /\ cc # Off /\ state[e] \in DOMAIN Succ(here)
        /\ sched' = Schedule({Succ(here)[state[e]]} \ {0}, cc)
    BY <1>7 DEF VisitSwitch, At
  <2>2. e \in STExcl /\ state[e] # 0
    BY <2>1, <1>1, ArcAssumption, Arcs
  <2>3. state[e] \in DOMAIN Children(e) /\ Children(e)[state[e]] \in st
    BY <2>2 DEF DeadInv, RunsKept
  <2>4. {Succ(here)[state[e]]} \ {0} \subseteq Opens(cfg, st, here)
    BY <2>1, <2>3 DEF Opens, SwitchOpens
  <2> QED
    BY <2>1, <2>4, <1>5
<1>8. CASE VisitTest
  <2>1. Kind(here) = "test" /\ cc # Off
    BY <1>8 DEF VisitTest, At
  <2>2. Opens(cfg, st, here) = SuccSet(here)
    BY <2>1 DEF Opens
  <2>3. \E S \in SUBSET SuccSet(here), c \in Control : sched' = Schedule(S, c)
    BY <1>8, VisitSchedules DEF Visit, DeadInv, TickInv
  <2> QED
    BY <2>1, <2>2, <2>3, <1>5
<1>9. CASE Skip
  BY <1>4, <1>9 DEF Skip, Lit
<1>10. CASE VisitPlain \/ VisitEnter \/ VisitEmit \/ VisitExit \/ VisitDefine
  <2>1. /\ Kind(here) \in {"fork", "term", "pass", "enter", "emit", "exit", "define"} /\ cc # Off
        /\ sched' = Schedule(SuccSet(here), cc)
    BY <1>10 DEF VisitPlain, VisitEnter, VisitEmit, VisitExit, VisitDefine, At
  <2>2. Opens(cfg, st, here) = SuccSet(here)
    BY <2>1 DEF Opens
  <2> QED
    BY <2>1, <2>2, <1>5
<1> QED
  BY <1>6, <1>7, <1>8, <1>9, <1>10 DEF Step, Visit

(* The states that a tick writes, or moves, are of marked children.        *)
LEMMA StatesKept ==
  ASSUME DeadInv, phase = "pruned", Step \/ TickEnd,
         NEW e \in STExcl, NEW i \in {state'[e], nextstate'[e]} \ {0}
  PROVE  i \in DOMAIN Children(e) /\ Children(e)[i] \in st
<1>1. /\ state \in [STExcl -> Nat] /\ nextstate \in [STExcl -> Nat]
      /\ \A m \in Node : Lit(m) => m \in cfg
      /\ \A m \in cfg : Marks(m) \subseteq st
      /\ \A j \in {state[e], nextstate[e]} \ {0} : j \in DOMAIN Children(e) /\ Children(e)[j] \in st
  BY DEF DeadInv, TickInv, SimInv, TypeOK, RunsKept, OptInv, WorkInv, Explored
<1>2. CASE TickEnd
  <2>1. state'[e] \in {state[e], nextstate[e]} /\ nextstate'[e] \in {nextstate[e], 0}
    BY <1>1, <1>2 DEF TickEnd
  <2> QED
    BY <2>1, <1>1
<1>3. CASE VisitEnter
  <2> DEFINE x == Graph[here].st
             c == Settled[x]
  <2>1. /\ mode = "tick" /\ pos > 0 /\ Kind(here) = "enter" /\ Lit(here) /\ UNCHANGED state
        /\ nextstate' = IF c = 0 THEN nextstate ELSE [nextstate EXCEPT ![Parent(c)] = ChildNum(c)]
    BY <1>3 DEF VisitEnter, At, Advance, Lit, cc
  <2>2. here \in Node
    BY <2>1, HereFacts DEF DeadInv, TickInv
  <2>3. x \in STNode /\ Climb[x] \subseteq st
    <3>1. x \in STNode
      BY <2>1, <2>2, ArcAssumption
    <3>2. Marks(here) = Climb[x]
      BY <2>1 DEF Marks
    <3> QED
      BY <3>1, <3>2, <2>1, <2>2, <1>1
  <2> HIDE DEF x
  <2>4. CASE c # 0 /\ e = Parent(c)
    <3>1. /\ c \in st /\ ChildNum(c) \in DOMAIN Children(e) /\ Children(e)[ChildNum(c)] = c
      BY <2>3, <2>4, SettledIsMarked
    <3>2. nextstate'[e] = ChildNum(c)
      BY <2>1, <2>4, <1>1
    <3> QED
      BY <3>1, <3>2, <2>1, <1>1
  <2>5. CASE c = 0 \/ e # Parent(c)
    <3>1. nextstate'[e] = nextstate[e]
      BY <2>1, <2>5, <1>1
    <3> QED
      BY <3>1, <2>1, <1>1
  <2> QED
    BY <2>4, <2>5
<1>4. CASE UNCHANGED <<state, nextstate>>
  BY <1>1, <1>4
<1>5. Step => VisitEnter \/ UNCHANGED <<state, nextstate>>
  BY DEF Step, Skip, Visit, VisitPlain, VisitSync, VisitTest, VisitSwitch, VisitEmit, VisitExit,
         VisitDefine, Advance
<1> QED
  BY <1>2, <1>3, <1>4, <1>5

(* A program that is optimized runs as one that is not: all that is said   *)
(* of a tick holds of it.                                                  *)
LEMMA DeadRuns == DeadSpec => Spec
<1>1. DeadInit => Init
  BY DEF DeadInit
<1>2. [DeadNext]_allVars => [Next]_vars
  <2>1. Known \subseteq [Input -> Control]
    BY DEF Known, Control
  <2> QED
    BY <2>1 DEF DeadNext, Optimize, Execute, allVars, Next
<1> QED
  BY <1>1, <1>2, PTL DEF DeadSpec, Spec

(* The root starts in its last child, which is marked from the start.      *)
LEMMA RunStarts == DeadInit => RunsKept
<1> SUFFICES ASSUME DeadInit PROVE RunsKept
  OBVIOUS
<1>1. /\ sched = [n \in Node |-> Off] /\ ~ternary
      /\ state = [e \in STExcl |-> IF e = 1 THEN Len(Children(1)) ELSE 0]
      /\ nextstate = [e \in STExcl |-> 0] /\ st = {1, Children(1)[3]}
  BY DEF DeadInit, Init, OptInit
<1>2. 3 \in DOMAIN Children(1) /\ Len(Children(1)) = 3
  BY TreeFacts, TreeFields, VisitAssumption
<1>3. ASSUME NEW e \in STExcl, NEW i \in {state[e], nextstate[e]} \ {0}
      PROVE  i \in DOMAIN Children(e) /\ Children(e)[i] \in st
  <2>1. e = 1 /\ i = 3
    BY <1>1, <1>2, <1>3
  <2> QED
    BY <1>1, <1>2, <2>1
<1> QED
  BY <1>1, <1>3 DEF RunsKept, Lit

(* While the analysis runs nothing does, and what it finds only grows.     *)
LEMMA OptimizeKeepsRuns ==
  ASSUME DeadInv, Optimize
  PROVE  RunsKept'
<1>1. cfg \subseteq cfg' /\ st \subseteq st'
  <2>1. CASE Prune
    BY <2>1 DEF Prune
  <2>2. CASE Analyse
    <3>1. PICK n \in pending : TakeSwitch(n) \/ TakeEnter(n) \/ TakeSync(n) \/ TakeOther(n)
      BY <2>2 DEF Analyse
    <3> QED
      BY <3>1, TakeFacts DEF DeadInv
  <2> QED
    BY <2>1, <2>2 DEF Optimize, OptNext
<1>2. UNCHANGED <<sched, state, nextstate, ternary>>
  BY DEF Optimize, vars, simVars
<1> QED
  BY <1>1, <1>2 DEF DeadInv, RunsKept, Lit

(* A step of an execution gives control only to nodes the analysis has     *)
(* reached, and commits only states it has marked.                         *)
LEMMA ExecuteKeepsRuns ==
  ASSUME DeadInv, Execute
  PROVE  RunsKept'
<1>1. phase = "pruned" /\ UNCHANGED <<cfg, st>> /\ pending = {}
  BY DEF Execute, optVars, DeadInv, OptInv, WorkInv
<1>2. CASE Step
  <2>1. ~ternary'
    BY <1>2, StaysKnown
  <2>2. \A n \in Node : sched'[n] # Off => n \in cfg
    BY <1>1, <1>2, GivesKept
  <2>3. \A e \in STExcl : \A i \in {state'[e], nextstate'[e]} \ {0} :
          i \in DOMAIN Children(e) /\ Children(e)[i] \in st
    BY <1>1, <1>2, StatesKept
  <2> QED
    BY <1>1, <2>1, <2>2, <2>3 DEF RunsKept, Lit
<1>3. CASE TickEnd
  <2>1. ~ternary' /\ sched' = sched
    BY <1>3 DEF TickEnd
  <2>2. \A e \in STExcl : \A i \in {state'[e], nextstate'[e]} \ {0} :
          i \in DOMAIN Children(e) /\ Children(e)[i] \in st
    BY <1>1, <1>3, StatesKept
  <2> QED
    BY <1>1, <2>1, <2>2 DEF DeadInv, RunsKept, Lit
<1>4. ASSUME NEW in \in Known, TickStart(in)
      PROVE  RunsKept'
  <2>1. UNCHANGED <<state, nextstate>> /\ ~ternary
        /\ ternary' = (ternary \/ \E x \in Input : in[x] = Unk)
        /\ sched' = [n \in Node |-> IF n = topo[Len(topo)] THEN On ELSE Off]
    BY <1>4 DEF TickStart, DeadInv, RunsKept
  <2>2. ~ternary'
    <3>1. \A x \in Input : in[x] # Unk
      BY DEF Known, On, Off, Unk
    <3> QED
      BY <2>1, <3>1
  <2>3. topo[Len(topo)] = Root
    BY <1>4 DEF TickStart, DeadInv, TickInv, SimInv, ModeInv, SearchInv, RootInv
  <2>4. Root \in cfg
    BY <1>1 DEF DeadInv, OptInv, WorkInv, Reaches
  <2> QED
    BY <1>1, <2>1, <2>2, <2>3, <2>4 DEF DeadInv, RunsKept, Lit
<1>5. CASE Order \/ Stop \/ Halted
  <2>1. UNCHANGED <<sched, state, nextstate, ternary>>
    BY <1>5 DEF Order, Stop, Halted, vars, simVars
  <2> QED
    BY <1>1, <2>1 DEF DeadInv, RunsKept, Lit
<1> QED
  BY <1>2, <1>3, <1>4, <1>5 DEF Execute

(* The invariant of the analysis and of the executions beside it.          *)
LEMMA DeadIsSound == DeadSpec => []DeadInv
<1>1. OptInv /\ TickInv /\ RunsKept /\ [DeadNext]_allVars => RunsKept'
  <2>1. OptInv /\ TickInv /\ RunsKept /\ UNCHANGED allVars => RunsKept'
    BY DEF allVars, vars, simVars, optVars, RunsKept, Lit
  <2> QED
    BY <2>1, OptimizeKeepsRuns, ExecuteKeepsRuns DEF DeadNext, DeadInv
<1> QED
  BY <1>1, DeadRuns, TickIsSound, WorkIsSound, RunStarts, PTL DEF DeadSpec, DeadInv

(* The optimizer deletes nothing that runs: in no tick with known inputs   *)
(* does control reach a node, or an exclusive node move to a child, that   *)
(* the analysis did not reach.                                             *)
THEOREM RunsAreKept == DeadSpec => []KeepsWhatRuns
<1>1. DeadInv => KeepsWhatRuns
  BY DEF DeadInv, RunsKept, KeepsWhatRuns, Lit
<1> QED
  BY <1>1, DeadIsSound, PTL

-----------------------------------------------------------------------------

(* The levels that a Sync remembers are its exits, unless it is to be      *)
(* visited again; and what Prune leaves of what was visited.               *)
LevelsKept ==
  \A n \in cfg : Kind(n) = "sync" =>
    n \in pending \/ Exits(cfg, n) = {} \/ levels[n] = Exits(cfg, n)
ArcsLeft(n) ==
  CASE Kind(n) = "switch" -> Branches(n)
    [] Kind(n) = "sync" /\ levels[n] # {} -> Joins(n)
    [] OTHER -> Succ(n)
PruneInv ==
  phase = "pruned" =>
    /\ \A e \in STExcl \cap st : newChildren[e] = Alive(e)
    /\ \A n \in cfg : newSucc[n] = Deleted(ArcsLeft(n))

(* Only a Terminate of a Sync that was not visited changes its exits.      *)
LEMMA SameExits ==
  ASSUME NEW m \in Node, NEW n \in Node, NEW C,
         Kind(n) # "term" \/ m \notin SuccSet(n)
  PROVE  Exits(C \cup {n}, m) = Exits(C, m)
<1>1. n \notin Terms(m)
  BY DEF Terms, JoinArcs, OfKind
<1>2. Terms(m) \cap (C \cup {n}) = Terms(m) \cap C
  BY <1>1
<1> QED
  BY <1>2 DEF Exits

(* A Terminate that is visited puts its Sync back, whose exits it changes. *)
LEMMA TakeKeepsLevels ==
  ASSUME OptInv, LevelsKept, NEW n \in pending,
         TakeSwitch(n) \/ TakeEnter(n) \/ TakeSync(n) \/ TakeOther(n)
  PROVE  LevelsKept'
<1>1. /\ n \in Node /\ cfg' = cfg \cup {n} /\ pending \ {n} \subseteq pending'
      /\ Kind(n) = "term" => SuccSet(n) \subseteq pending'
  BY TakeFacts
<1>2. cfg \subseteq Node /\ levels \in [OfKind("sync") -> SUBSET Nat]
  BY DEF OptInv, OptTypeOK
<1>3. ASSUME NEW m \in cfg', Kind(m) = "sync", m \notin pending', Exits(cfg', m) # {}
      PROVE  levels'[m] = Exits(cfg', m)
  <2>1. m \in Node /\ m \in OfKind("sync")
    BY <1>1, <1>2, <1>3 DEF OfKind
  <2>2. Exits(cfg', m) = Exits(cfg, m)
    <3>1. Exits(cfg \cup {n}, m) = Exits(cfg, m)
      BY <1>1, <1>3, <2>1, SameExits
    <3> QED
      BY <1>1, <3>1
  <2>3. CASE m = n
    <3>1. levels' = [levels EXCEPT ![n] = IF Exits(cfg, n) = {} THEN levels[n] ELSE Exits(cfg, n)]
      BY <1>3, <2>3 DEF TakeSwitch, TakeEnter, TakeSync, TakeOther
    <3> QED
      BY <1>2, <1>3, <2>1, <2>2, <2>3, <3>1
  <2>4. CASE m # n
    <3>1. m \in cfg /\ m \notin pending
      BY <1>1, <1>3, <2>4
    <3>2. levels'[m] = levels[m]
      BY <1>2, <2>1, <2>4 DEF TakeSwitch, TakeEnter, TakeSync, TakeOther
    <3> QED
      BY <1>3, <2>2, <3>1, <3>2 DEF LevelsKept
  <2> QED
    BY <2>3, <2>4
<1> QED
  BY <1>3 DEF LevelsKept

(* Once the analysis has ended nothing that Prune wrote, or read, changes. *)
LEMMA PruneStays ==
  ASSUME PruneInv, UNCHANGED optVars
  PROVE  PruneInv'
<1>1. UNCHANGED <<cfg, st, levels, newSucc, newChildren, phase>>
  BY DEF optVars
<1>2. \A e : Kept(e)' = Kept(e)
  BY <1>1 DEF Kept
<1>3. \A e, j : Nth(Kept(e), j)' = Nth(Kept(e), j)
  BY <1>2
<1>4. \A e : Alive(e)' = Alive(e)
  BY <1>2, <1>3 DEF Alive, Thinned
<1>5. \A n : Branches(n)' = Branches(n)
  BY <1>2, <1>3 DEF Branches, Thinned
<1>6. \A n : ArcsLeft(n)' = ArcsLeft(n)
  BY <1>1, <1>5 DEF ArcsLeft, Joins
<1>7. \A n : Deleted(ArcsLeft(n))' = Deleted(ArcsLeft(n))
  BY <1>1, <1>6 DEF Deleted
<1> QED
  BY <1>1, <1>4, <1>7 DEF PruneInv

(* Prune writes what is left: every Switch that was visited is the one its *)
(* exclusive node remembers.                                               *)
LEMMA PruneLeaves ==
  ASSUME OptInv, LevelsKept, Prune
  PROVE  LevelsKept' /\ PruneInv'
<1>1. /\ UNCHANGED <<cfg, st, levels, pending>> /\ cfg \subseteq Node
      /\ newChildren' = [e \in STExcl |-> IF e \in st THEN Alive(e) ELSE <<>>]
      /\ newSucc' = [n \in Node |->
            CASE n \notin cfg -> <<>>
              [] n \in cfg /\ Kind(n) = "switch" /\ switchFor[Graph[n].st] = n -> Deleted(Branches(n))
              [] n \in cfg /\ Kind(n) = "sync" /\ levels[n] # {} -> Deleted(Joins(n))
              [] OTHER -> Deleted(Succ(n))]
  BY DEF Prune, OptInv, OptTypeOK
<1>2. LevelsKept'
  BY <1>1 DEF LevelsKept, Exits
<1>3. ASSUME NEW n \in cfg
      PROVE  newSucc'[n] = Deleted(ArcsLeft(n))
  <2>1. Kind(n) = "switch" => switchFor[Graph[n].st] = n
    BY DEF OptInv, WorkInv, Explored
  <2>2. n \in Node
    BY <1>1
  <2> QED
    BY <1>1, <2>1, <2>2 DEF ArcsLeft
<1>4. \A e : Kept(e)' = Kept(e)
  BY <1>1 DEF Kept
<1>5. \A e, j : Nth(Kept(e), j)' = Nth(Kept(e), j)
  BY <1>4
<1>6. \A e : Alive(e)' = Alive(e)
  BY <1>4, <1>5 DEF Alive, Thinned
<1>7. \A n : ArcsLeft(n)' = ArcsLeft(n)
  BY <1>1, <1>4, <1>5 DEF ArcsLeft, Joins, Branches, Thinned
<1>8. \A n : Deleted(ArcsLeft(n))' = Deleted(ArcsLeft(n))
  BY <1>1, <1>7 DEF Deleted
<1> QED
  BY <1>1, <1>2, <1>3, <1>6, <1>8 DEF PruneInv

(* The invariant of what Prune leaves.                                     *)
LEMMA PruneIsSound == DeadSpec => [](LevelsKept /\ PruneInv)
<1>1. DeadInit => LevelsKept /\ PruneInv
  BY DEF DeadInit, OptInit, LevelsKept, PruneInv
<1>2. OptInv /\ LevelsKept /\ PruneInv /\ [DeadNext]_allVars => (LevelsKept /\ PruneInv)'
  <2> SUFFICES ASSUME OptInv, LevelsKept, PruneInv, [DeadNext]_allVars
               PROVE  LevelsKept' /\ PruneInv'
    OBVIOUS
  <2>1. CASE Analyse
    <3>1. PICK n \in pending : TakeSwitch(n) \/ TakeEnter(n) \/ TakeSync(n) \/ TakeOther(n)
      BY <2>1 DEF Analyse
    <3>2. LevelsKept'
      BY <3>1, TakeKeepsLevels
    <3>3. phase' # "pruned"
      BY <3>1, TakeFacts
    <3> QED
      BY <3>2, <3>3 DEF PruneInv
  <2>2. CASE UNCHANGED optVars
    <3>1. LevelsKept'
      BY <2>2 DEF optVars, LevelsKept, Exits
    <3> QED
      BY <2>2, <3>1, PruneStays
  <2> QED
    BY <2>1, <2>2, PruneLeaves DEF DeadNext, Optimize, Execute, OptNext, allVars, optVars
<1> QED
  BY <1>1, <1>2, WorkIsSound, PTL DEF DeadSpec

(* Of some nodes, one has the highest level: there are finitely many.      *)
LEMMA HighestLevel ==
  ASSUME NEW D \in SUBSET Node, D # {}
  PROVE  \E d \in D : \A u \in D : Code(u) <= Code(d)
<1> DEFINE T == {k \in Nat : \E b \in Nat : \A u \in D : u <= k => Code(u) <= b}
           B == {b \in Nat : \A u \in D : Code(u) <= b}
<1>1. /\ Len(Graph) \in Nat /\ \A u \in D : u \in 1..Len(Graph)
      /\ \A u \in D : Code(u) \in Nat
  BY GraphAssumption, Fields DEF Node
<1>2. Nat \subseteq T
  <2>1. ASSUME NEW k \in Nat, \A j \in Nat : j < k => j \in T
        PROVE  k \in T
    <3>1. CASE k = 0
      BY <3>1, <1>1
    <3>2. CASE k # 0
      <4>1. k - 1 \in T
        BY <2>1, <3>2
      <4>2. PICK b \in Nat : \A u \in D : u <= k - 1 => Code(u) <= b
        BY <4>1
      <4>3. CASE k \in D
        <5>1. PICK c \in Nat : b <= c /\ Code(k) <= c
          <6>1. b <= b + Code(k) /\ Code(k) <= b + Code(k) /\ b + Code(k) \in Nat
            BY <1>1, <4>3
          <6> QED
            BY <6>1
        <5>2. ASSUME NEW u \in D, u <= k
              PROVE  Code(u) <= c
          <6>1. u = k \/ u <= k - 1
            BY <5>2, <1>1
          <6>2. u <= k - 1 => Code(u) <= b /\ Code(u) \in Nat
            BY <4>2, <1>1
          <6> QED
            BY <5>1, <6>1, <6>2
        <5> QED
          BY <5>2
      <4>4. CASE k \notin D
        <5>1. \A u \in D : u <= k => u <= k - 1
          BY <4>4, <1>1
        <5> QED
          BY <4>2, <5>1
      <4> QED
        BY <4>3, <4>4
    <3> QED
      BY <3>1, <3>2
  <2> HIDE DEF T
  <2> QED
    BY <2>1, Induct
<1>3. B # {}
  <2>1. PICK b \in Nat : \A u \in D : u <= Len(Graph) => Code(u) <= b
    BY <1>1, <1>2
  <2>2. \A u \in D : u <= Len(Graph)
    BY <1>1
  <2>3. b \in B
    BY <2>1, <2>2
  <2> QED
    BY <2>3
<1>4. PICK b \in B : \A c \in B : b <= c
  <2> HIDE DEF B
  <2>1. B \in SUBSET Nat
    BY DEF B
  <2> QED
    BY <1>3, <2>1, LeastNat
<1>5. SUFFICES ASSUME \A d \in D : Code(d) # b PROVE FALSE
  BY <1>4
<1>6. \A u \in D : Code(u) <= b - 1
  BY <1>1, <1>4, <1>5
<1>7. b - 1 \in B
  BY <1>1, <1>4, <1>6
<1> QED
  BY <1>4, <1>7

(* A Sync that runs has a thread that has ended.                           *)
LEMMA SyncHasTop ==
  ASSUME TickInv, At("sync")
  PROVE  \E top \in Level(here) : IsTop(here, top)
<1>1. /\ mode = "tick" /\ pos > 0 /\ Kind(here) = "sync" /\ Lit(here)
      /\ here \in Node /\ sched \in [Node -> Control]
  BY HereFacts DEF At, Lit, cc, TickInv, SimInv, TypeOK
<1>2. PICK f \in ForksOf(here) : Opened(f)
  BY <1>1 DEF TickInv, NestInv, ThreadsOpened
<1>3. 1 \in DOMAIN Succ(f)
  <2>1. f \in Inner /\ Kind(f) = "fork"
    BY <1>2 DEF ForksOf, OfKind
  <2> QED
    BY <2>1, ForkPlaces, NestAssumption
<1>4. PICK t \in Data(here) : Lit(t)
  BY <1>1, <1>2, <1>3, SyncReady
<1>5. Data(here) \subseteq Node
  BY <1>1, Fields
<1>6. PICK d \in {u \in Data(here) : Lit(u)} :
        \A u \in {v \in Data(here) : Lit(v)} : Code(u) <= Code(d)
  <2>1. {u \in Data(here) : Lit(u)} \in SUBSET Node /\ {u \in Data(here) : Lit(u)} # {}
    BY <1>4, <1>5
  <2> QED
    BY <2>1, HighestLevel
<1>7. OrAll(here, Code(d)) # Off
  <2>1. sched[d] \in {On, Unk}
    BY <1>1, <1>5, <1>6 DEF Lit, Control
  <2> QED
    BY <2>1, <1>6 DEF OrAll, On, Off, Unk
<1>8. ASSUME NEW k \in Level(here), k > Code(d)
      PROVE  OrAll(here, k) = Off
  <2>1. ASSUME NEW u \in Data(here), Code(u) = k
        PROVE  sched[u] = Off
    BY <1>5, <1>6, <1>8, <2>1, Fields DEF Lit
  <2> QED
    BY <2>1 DEF OrAll, On, Off, Unk
<1> QED
  BY <1>6, <1>7, <1>8 DEF IsTop, Level

(* The exit that a Sync takes is not one that Prune cut off.               *)
THEOREM ExitsAreKept == DeadSpec => []KeepsExits
<1>1. DeadInv /\ LevelsKept /\ PruneInv => KeepsExits
  <2> SUFFICES ASSUME DeadInv, LevelsKept, PruneInv, phase = "pruned", At("sync")
               PROVE  \E top \in levels[here] : IsTop(here, top) /\ newSucc[here][top + 1] # 0
    BY DEF KeepsExits
  <2>1. PICK top \in Level(here) : IsTop(here, top)
    BY SyncHasTop DEF DeadInv
  <2>2. /\ top \in Exits(cfg, here)
        /\ top + 1 \in DOMAIN Succ(here) /\ Succ(here)[top + 1] # 0
    BY <2>1, ExitIsKnown
  <2>3. Kind(here) = "sync" /\ here \in Node /\ here \in cfg /\ pending = {}
    BY HereFacts DEF At, Lit, cc, DeadInv, TickInv, RunsKept, OptInv, WorkInv
  <2>4. levels[here] = Exits(cfg, here) /\ newSucc[here] = Deleted(Joins(here))
    BY <2>2, <2>3 DEF LevelsKept, PruneInv, ArcsLeft
  <2>5. Succ(here)[top + 1] \in cfg
    <3>1. top \in Nat /\ top < Len(Succ(here))
      <4>1. Data(here) \subseteq Node /\ Len(Succ(here)) \in Nat
            /\ DOMAIN Succ(here) = 1..Len(Succ(here))
        BY <2>3, Fields, Arcs
      <4>2. top \in Nat
        BY <2>1, <4>1, Fields DEF Level
      <4> QED
        BY <2>2, <4>1, <4>2
    <3>2. Succ(here)[top + 1] \in Opens(cfg, st, here)
      BY <2>2, <2>3, <3>1 DEF Opens, SyncOpens, Leaves
    <3> QED
      BY <2>3, <3>2 DEF DeadInv, OptInv, WorkInv, Explored, Reaches
  <2>6. Joins(here)[top + 1] = Succ(here)[top + 1] /\ top + 1 \in DOMAIN Joins(here)
    <3>1. top \in Nat
      BY <2>1, <2>3, Fields DEF Level
    <3>2. (top + 1) - 1 = top
      BY <3>1
    <3> QED
      BY <2>2, <2>4, <3>2 DEF Joins
  <2>7. newSucc[here][top + 1] # 0
    BY <2>2, <2>4, <2>5, <2>6 DEF Deleted
  <2> QED
    BY <2>1, <2>2, <2>4, <2>7
<1> QED
  BY <1>1, DeadIsSound, PruneIsSound, PTL

-----------------------------------------------------------------------------

(* The children of an exclusive node that are kept, in order.              *)
LEMMA KeptInOrder ==
  ASSUME NEW e \in STNode
  PROVE  /\ Cardinality(Kept(e)) \in Nat
         /\ \A j \in 1..Cardinality(Kept(e)) : Nth(Kept(e), j) \in Kept(e)
         /\ \A i \in Kept(e) : \E j \in 1..Cardinality(Kept(e)) : Nth(Kept(e), j) = i
<1>1. Len(Children(e)) \in Nat /\ Kept(e) \subseteq 1..Len(Children(e))
  BY TreeFields DEF Kept
<1> QED
  BY <1>1, NthFacts

(* What Prune leaves of a Switch that was visited: a branch, which was     *)
(* visited too, for each child that is kept.                               *)
LEMMA SwitchLeft ==
  ASSUME OptInv, PruneInv, phase = "pruned", NEW n \in cfg, Kind(n) = "switch"
  PROVE  LET e == Graph[n].st IN
           /\ e \in STNode /\ Cardinality(Kept(e)) \in Nat
           /\ newChildren[e] = [j \in 1..Cardinality(Kept(e)) |-> Children(e)[Nth(Kept(e), j)]]
           /\ newSucc[n] = [j \in 1..Cardinality(Kept(e)) |-> Succ(n)[Nth(Kept(e), j)]]
           /\ \A i \in Kept(e) : Succ(n)[i] \in cfg
<1> DEFINE e == Graph[n].st
<1>1. n \in Node /\ cfg \subseteq Node /\ pending = {}
  BY DEF OptInv, OptTypeOK, WorkInv
<1>2. e \in STExcl /\ e \in STNode /\ e \in st
  BY <1>1, MarkFacts, TreeFacts DEF OptInv, WorkInv, Explored
<1>3. ASSUME NEW i \in Kept(e)
      PROVE  Succ(n)[i] \in cfg
  <2>1. Succ(n)[i] \in SwitchOpens(st, n)
    BY DEF Kept, SwitchOpens
  <2>2. Opens(cfg, st, n) \subseteq cfg
    BY <1>1 DEF OptInv, WorkInv, Explored, Reaches
  <2> QED
    BY <2>1, <2>2 DEF Opens
<1>4. newChildren[e] = Alive(e) /\ newSucc[n] = Deleted(Branches(n))
  BY <1>2 DEF PruneInv, ArcsLeft
<1>5. Branches(n) = [j \in 1..Cardinality(Kept(e)) |-> Succ(n)[Nth(Kept(e), j)]]
  BY DEF Branches, Thinned
<1>6. \A j \in 1..Cardinality(Kept(e)) : Nth(Kept(e), j) \in Kept(e)
  BY <1>2, KeptInOrder
<1>7. Deleted(Branches(n)) = Branches(n)
  BY <1>3, <1>5, <1>6 DEF Deleted
<1>8. Cardinality(Kept(e)) \in Nat
  BY <1>2, KeptInOrder
<1> HIDE DEF e
<1> QED
  BY <1>2, <1>3, <1>4, <1>5, <1>7, <1>8 DEF Alive, Thinned, e

(* What Prune leaves is a graph: the only NULL successors are those of a   *)
(* Sync, and a Switch has a branch for each child of its exclusive node.   *)
THEOREM ArcsAreLeft == DeadSpec => []ArcsStay
<1>1. OptInv /\ PruneInv => ArcsStay
  <2> SUFFICES ASSUME OptInv, PruneInv, phase = "pruned", NEW n \in cfg
               PROVE  /\ \A i \in DOMAIN newSucc[n] : newSucc[n][i] = 0 => Kind(n) = "sync"
                      /\ Kind(n) = "switch" => Len(newSucc[n]) = Len(newChildren[Graph[n].st])
    BY DEF ArcsStay, OfKind
  <2>1. n \in Node /\ cfg \subseteq Node /\ pending = {} /\ 0 \notin cfg
    BY Arcs DEF OptInv, OptTypeOK, WorkInv
  <2>2. CASE Kind(n) = "switch"
    <3> DEFINE e == Graph[n].st
    <3>1. /\ e \in STNode /\ Cardinality(Kept(e)) \in Nat
          /\ newChildren[e] = [j \in 1..Cardinality(Kept(e)) |-> Children(e)[Nth(Kept(e), j)]]
          /\ newSucc[n] = [j \in 1..Cardinality(Kept(e)) |-> Succ(n)[Nth(Kept(e), j)]]
          /\ \A i \in Kept(e) : Succ(n)[i] \in cfg
      BY <2>2, SwitchLeft
    <3>2. \A j \in 1..Cardinality(Kept(e)) : Nth(Kept(e), j) \in Kept(e)
      BY <3>1, KeptInOrder
    <3>3. \A i \in DOMAIN newSucc[n] : newSucc[n][i] # 0
      BY <2>1, <3>1, <3>2
    <3>4. Len(newSucc[n]) = Cardinality(Kept(e)) /\ Len(newChildren[e]) = Cardinality(Kept(e))
      BY <3>1
    <3> QED
      BY <3>3, <3>4
  <2>3. CASE Kind(n) \notin {"switch", "sync"}
    <3>1. newSucc[n] = Deleted(Succ(n))
      BY <2>3 DEF PruneInv, ArcsLeft
    <3>2. \A i \in DOMAIN Succ(n) : Succ(n)[i] # 0 /\ Succ(n)[i] \in SuccSet(n)
      BY <2>1, <2>3, VisitAssumption, Arcs
    <3>3. SuccSet(n) \subseteq cfg
      BY <2>1, <2>3 DEF OptInv, WorkInv, Explored, Reaches, Opens
    <3>4. \A i \in DOMAIN Succ(n) : newSucc[n][i] # 0
      BY <2>1, <3>1, <3>2, <3>3 DEF Deleted
    <3> QED
      BY <2>3, <3>1, <3>4 DEF Deleted
  <2> QED
    BY <2>2, <2>3
<1> QED
  BY <1>1, WorkIsSound, PruneIsSound, PTL

(* Prune moves the branches of a Switch with the children it keeps.        *)
THEOREM BranchesAreKept == DeadSpec => []KeepsBranches
<1>1. OptInv /\ PruneInv => KeepsBranches
  <2> SUFFICES ASSUME OptInv, PruneInv, phase = "pruned", NEW n \in cfg, Kind(n) = "switch",
                      NEW i \in DOMAIN Children(Graph[n].st), Children(Graph[n].st)[i] \in st
               PROVE  \E k \in DOMAIN newChildren[Graph[n].st] :
                        /\ newChildren[Graph[n].st][k] = Children(Graph[n].st)[i]
                        /\ newSucc[n][k] = Succ(n)[i]
    BY DEF KeepsBranches, OfKind
  <2> DEFINE e == Graph[n].st
  <2>1. /\ e \in STNode
        /\ newChildren[e] = [j \in 1..Cardinality(Kept(e)) |-> Children(e)[Nth(Kept(e), j)]]
        /\ newSucc[n] = [j \in 1..Cardinality(Kept(e)) |-> Succ(n)[Nth(Kept(e), j)]]
    BY SwitchLeft
  <2>2. i \in Kept(e)
    BY DEF Kept
  <2>3. PICK k \in 1..Cardinality(Kept(e)) : Nth(Kept(e), k) = i
    BY <2>1, <2>2, KeptInOrder
  <2> HIDE DEF e
  <2>4. /\ k \in DOMAIN newChildren[e] /\ newChildren[e][k] = Children(e)[i]
        /\ newSucc[n][k] = Succ(n)[i]
    BY <2>1, <2>3
  <2> QED
    BY <2>4 DEF e
<1> QED
  BY <1>1, WorkIsSound, PruneIsSound, PTL

=============================================================================
