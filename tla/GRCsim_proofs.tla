---------------------------- MODULE GRCsim_proofs ----------------------------
(***************************************************************************)
(* The simulator computes what a tick means: for every graph that meets    *)
(* the assumptions of GRC, whatever order the search finds,                *)
(*   - dotick never goes back on the control value of a node it passed,    *)
(*   - no signal changes once a test of the tick has read it,              *)
(*   - a tick that has met nothing unknown computes with On and Off.       *)
(* They rest on SearchInv, the invariant of the search.                    *)
(*                                                                         *)
(* And a tick joins its threads.  In every graph whose threads nest        *)
(* (NestAssumption), a Sync that runs hears from a Terminate of each       *)
(* thread of the Fork that started it, and a tick never loses control: it  *)
(* ends in the node that ExitGRC is.                                       *)
(*                                                                         *)
(* Neither of these is inductive.  NestInv says who has the control of a   *)
(* place, which is Main or a thread of a Sync.  What runs has a place      *)
(* (InPlace); a thread and a Sync run only when a Fork has started them    *)
(* (ThreadsOpened); a thread that has ended has started its Sync           *)
(* (ThreadsEnd); Main, and each thread of a Fork that was visited, has a   *)
(* node with control (AllCarried), and in a two-valued tick only one       *)
(* (OneCarries).                                                           *)
(***************************************************************************)
EXTENDS GRCsim, Dfs_proofs

(* What the assumptions say of the fields of a node and of the tree.       *)
LEMMA Fields ==
  /\ \A n \in Node :
       /\ Reads(n) \subseteq Signal
       /\ Code(n) \in Nat /\ Graph[n].op \in Predicates
       /\ Kind(n) \in {"emit", "exit", "define"} => Sig(n) \in Signal
       /\ Kind(n) = "test" => Len(Succ(n)) = 2 /\ Reads(n) # {}
       /\ Data(n) \subseteq Node
       /\ Kind(n) = "enter" => Graph[n].st \in STNode
  /\ Len(Children(1)) \in Nat
<1>1. ASSUME NEW n \in Node
      PROVE  Graph[n] \in NodeRecord
  BY GraphAssumption DEF Node
<1>2. Len(Children(1)) \in Nat
  <2>1. Tree \in Seq(TreeRecord) /\ 1 \in 1..Len(Tree)
    BY GraphAssumption, TreeAssumption DEF STExcl, STNode
  <2>2. Tree[1] \in TreeRecord
    BY <2>1
  <2> QED
    BY <2>2 DEF TreeRecord, Children
<1>3. ASSUME NEW n \in Node
      PROVE  Reads(n) \subseteq Signal /\ Code(n) \in Nat /\ Graph[n].op \in Predicates
  BY <1>1 DEF NodeRecord, Reads, Code
<1> QED
  BY <1>2, <1>3, ArcAssumption

(* The modes of dotick follow the search: topo is complete in every mode   *)
(* but "init", and then it is not empty.                                   *)
ModeInv ==
  /\ mode = "init" => pos = 0
  /\ mode \in {"idle", "tick"} => dfs = "done"
SimInv == SearchInv /\ TypeOK /\ ModeInv

(* The simulator starts with the search.                                   *)
LEMMA SimStarts == Init => SimInv
<1> SUFFICES ASSUME Init PROVE SimInv
  OBVIOUS
<1>1. SearchInv
  BY SearchStarts DEF Init
<1>2. TypeOK
  <2>1. DfsTypeOK /\ Len(topo) \in Nat
    BY <1>1 DEF SearchInv, DfsTypeOK
  <2>2. state \in [STExcl -> Nat] /\ nextstate \in [STExcl -> Nat]
    BY Fields DEF Init
  <2>3. sched \in [Node -> Control] /\ signals \in [Signal -> Control]
    BY DEF Init, Control, Off
  <2>4. mode = "init" /\ pos = 0 /\ ternary = FALSE /\ isFinal = FALSE
    BY DEF Init
  <2>5. pos \in 0..Len(topo)
    BY <2>1, <2>4
  <2> QED
    BY <2>1, <2>2, <2>3, <2>4, <2>5 DEF TypeOK
<1> QED
  BY <1>1, <1>2 DEF SimInv, ModeInv, Init

(* The facts about the node that dotick visits.                            *)
LEMMA HereFacts ==
  ASSUME SimInv, mode = "tick", pos > 0
  PROVE  /\ pos \in 1..Len(topo) /\ Len(topo) \in Nat /\ DOMAIN topo = 1..Len(topo)
         /\ here \in Node /\ here \in Live /\ cc \in Control
<1>1. topo \in Seq(Node) /\ pos \in 0..Len(topo) /\ sched \in [Node -> Control]
  BY DEF SimInv, TypeOK, DfsTypeOK
<1>2. Len(topo) \in Nat /\ DOMAIN topo = 1..Len(topo) /\ pos \in 1..Len(topo)
  BY <1>1
<1>3. here \in Node
  BY <1>1, <1>2 DEF here
<1>4. here \in Live
  BY <1>2 DEF here, SimInv, SearchInv, TopoInv, StackInv, RootInv, InTopo
<1> QED
  BY <1>1, <1>2, <1>3, <1>4 DEF cc

(* schedule() gives control values.                                        *)
LEMMA ScheduleType ==
  ASSUME NEW S, NEW c \in Control, sched \in [Node -> Control]
  PROVE  Schedule(S, c) \in [Node -> Control]
BY DEF Schedule

(* The value of an expression is 0, 1 or x.                                *)
LEMMA ValueType ==
  ASSUME SimInv, NEW n \in OfKind("test")
  PROVE  Value(n) \in Control
<1>1. n \in Node /\ Reads(n) \subseteq Signal /\ Reads(n) # {} /\ Graph[n].op \in Predicates
  BY Fields DEF OfKind
<1>2. (CHOOSE s \in Reads(n) : TRUE) \in Signal
  BY <1>1
<1>3. signals \in [Signal -> Control]
  BY DEF SimInv, TypeOK
<1> QED
  BY <1>1, <1>2, <1>3 DEF Value, Predicates, Control, On, Off

(* A node that dotick visits gives control to its successors alone.        *)
LEMMA VisitSchedules ==
  ASSUME SimInv, Visit
  PROVE  \E S \in SUBSET SuccSet(here), c \in Control : sched' = Schedule(S, c)
<1>1. mode = "tick" /\ pos > 0
  BY DEF Visit, VisitPlain, VisitSync, VisitTest, VisitSwitch, VisitEnter,
         VisitEmit, VisitExit, VisitDefine, At
<1>2. here \in Node /\ cc \in Control /\ Unk \in Control
  BY <1>1, HereFacts DEF Control
<1>3. CASE sched' = Schedule(SuccSet(here), cc)
  BY <1>2, <1>3
<1>4. CASE VisitSync
  <2>1. PICK top \in Level(here) :
          /\ IsTop(here, top) /\ top < Len(Succ(here))
          /\ sched' = Schedule({Succ(here)[l + 1] : l \in LeaveLevels(here)} \ {0},
                               IF OrAll(here, top) = Unk THEN Unk ELSE cc)
    BY <1>4 DEF VisitSync
  <2>2. Level(here) \subseteq Nat
    BY <1>2, Fields DEF Level
  <2>3. ASSUME NEW l \in LeaveLevels(here), Succ(here)[l + 1] # 0
        PROVE  Succ(here)[l + 1] \in SuccSet(here)
    <3>1. l \in Nat /\ top \in Nat /\ l <= top
      BY <2>1, <2>2 DEF LeaveLevels, IsTop
    <3>2. l + 1 \in 1..Len(Succ(here))
      BY <3>1, <2>1, <1>2, Arcs
    <3> QED
      BY <3>2, <2>3, <1>2, Arcs
  <2>4. {Succ(here)[l + 1] : l \in LeaveLevels(here)} \ {0} \subseteq SuccSet(here)
    BY <2>3
  <2> QED
    BY <2>1, <2>4, <1>2
<1>5. CASE VisitTest
  <2>1. here \in OfKind("test") /\ Len(Succ(here)) = 2
    BY <1>2, <1>5, Fields DEF VisitTest, At, OfKind
  <2>2. Value(here) \in Control
    BY <2>1, ValueType
  <2>3. CASE Value(here) = Unk
    BY <2>3, <1>2, <1>5 DEF VisitTest
  <2>4. CASE Value(here) # Unk
    <3>1. Value(here) + 1 \in 1..Len(Succ(here))
      BY <2>1, <2>2, <2>4 DEF Control, On, Off
    <3>2. {Succ(here)[Value(here) + 1]} \ {0} \subseteq SuccSet(here)
      BY <3>1, <1>2, Arcs
    <3> QED
      BY <3>2, <2>4, <1>2, <1>5 DEF VisitTest
  <2> QED
    BY <2>3, <2>4
<1>6. CASE VisitSwitch
  <2>1. {Succ(here)[state[Graph[here].st]]} \ {0} \subseteq SuccSet(here)
    BY <1>6 DEF VisitSwitch, SuccSet
  <2> QED
    BY <2>1, <1>2, <1>6 DEF VisitSwitch
<1> QED
  BY <1>3, <1>4, <1>5, <1>6 DEF Visit, VisitPlain, VisitEnter, VisitEmit, VisitExit, VisitDefine

(* A turn of the search keeps the invariant.                               *)
LEMMA OrderKeeps ==
  ASSUME SimInv, Order
  PROVE  SimInv'
<1>1. /\ mode = "init" /\ pos = 0 /\ DfsNext
      /\ mode' \in {"idle", "done", "init"} /\ (mode' = "idle" => dfs' = "done")
      /\ UNCHANGED <<pos, sched, signals, state, nextstate, ternary, isFinal>>
  BY DEF Order, SimInv, ModeInv
<1>2. SearchInv'
  BY <1>1, SearchKeeps DEF SimInv
<1>3. DfsTypeOK' /\ Len(topo') \in Nat
  BY <1>2 DEF SearchInv, DfsTypeOK
<1>4. pos' \in 0..Len(topo')
  BY <1>1, <1>3
<1>5. TypeOK'
  BY <1>1, <1>3, <1>4 DEF SimInv, TypeOK
<1> QED
  BY <1>1, <1>2, <1>5 DEF SimInv, ModeInv

(* What leaves the search's variables alone keeps its invariant.           *)
LEMMA SearchUnchanged ==
  ASSUME SearchInv, UNCHANGED dfsVars
  PROVE  SearchInv'
BY SearchKeeps

(* What the visits leave alone, and what they write.                       *)
LEMMA VisitWrites ==
  ASSUME SimInv, Step
  PROVE  /\ mode = "tick" /\ pos > 0 /\ pos' = pos - 1
         /\ UNCHANGED <<dfsVars, mode, state>>
         /\ signals' \in [Signal -> Control]
         /\ nextstate' \in [STExcl -> Nat]
         /\ ternary' \in BOOLEAN /\ isFinal' \in BOOLEAN
<1>1. mode = "tick" /\ pos > 0 /\ pos' = pos - 1 /\ UNCHANGED <<dfsVars, mode, state>>
  BY DEF Step, Skip, Visit, VisitPlain, VisitSync, VisitTest, VisitSwitch, VisitEnter,
         VisitEmit, VisitExit, VisitDefine, At, Advance
<1>2. here \in Node /\ cc \in Control
  BY <1>1, HereFacts
<1>3. signals \in [Signal -> Control] /\ nextstate \in [STExcl -> Nat]
      /\ ternary \in BOOLEAN /\ isFinal \in BOOLEAN
  BY DEF SimInv, TypeOK
<1>4. ternary' \in BOOLEAN
  BY <1>3 DEF Step, Skip, Visit, VisitPlain, VisitSync, VisitTest, VisitSwitch, VisitEnter,
              VisitEmit, VisitExit, VisitDefine
<1>5. signals' \in [Signal -> Control]
  <2>1. ASSUME Kind(here) \in {"emit", "exit", "define"}
        PROVE  Sig(here) \in Signal
    BY <2>1, <1>2, Fields
  <2>2. CASE VisitEmit
    BY <2>1, <2>2, <1>2, <1>3 DEF VisitEmit, At
  <2>3. CASE VisitExit
    BY <2>1, <2>3, <1>2, <1>3 DEF VisitExit, At
  <2>4. CASE VisitDefine
    BY <2>1, <2>4, <1>2, <1>3 DEF VisitDefine, At, Control
  <2>5. CASE UNCHANGED signals
    BY <2>5, <1>3
  <2> QED
    BY <2>2, <2>3, <2>4, <2>5
       DEF Step, Skip, Visit, VisitPlain, VisitSync, VisitTest, VisitSwitch, VisitEnter
<1>6. nextstate' \in [STExcl -> Nat] /\ isFinal' \in BOOLEAN
  <2>1. CASE VisitEnter
    <3> DEFINE c == Settled[Graph[here].st]
    <3> HIDE DEF c
    <3>1. /\ nextstate' = IF c = 0 THEN nextstate
                          ELSE [nextstate EXCEPT ![Parent(c)] = ChildNum(c)]
          /\ isFinal' = (isFinal \/ (c # 0 /\ Parent(c) = 1 /\ Tree[c].final))
      BY <2>1 DEF VisitEnter, c
    <3>2. Graph[here].st \in STNode
      BY <2>1, <1>2, Fields DEF VisitEnter, At
    <3>3. c # 0 => Parent(c) \in STExcl /\ ChildNum(c) \in Nat
      BY <3>2, TreeAssumption DEF c
    <3>4. nextstate' \in [STExcl -> Nat]
      BY <3>1, <3>3, <1>3
    <3> QED
      BY <3>1, <3>4
  <2>2. CASE UNCHANGED <<nextstate, isFinal>>
    BY <2>2, <1>3
  <2> QED
    BY <2>1, <2>2 DEF Step, Skip, Visit, VisitPlain, VisitSync, VisitTest, VisitSwitch,
                      VisitEmit, VisitExit, VisitDefine
<1> QED
  BY <1>1, <1>4, <1>5, <1>6

(* Every visit of a node keeps the invariant.                              *)
LEMMA StepKeeps ==
  ASSUME SimInv, Step
  PROVE  SimInv'
<1>1. mode = "tick" /\ pos > 0 /\ pos' = pos - 1 /\ UNCHANGED <<dfsVars, mode, state>>
  BY VisitWrites
<1>2. SearchInv'
  BY <1>1, SearchUnchanged DEF SimInv
<1>3. sched' \in [Node -> Control]
  <2>1. sched \in [Node -> Control]
    BY DEF SimInv, TypeOK
  <2>2. CASE Skip
    BY <2>1, <2>2 DEF Skip
  <2>3. CASE Visit
    BY <2>1, <2>3, VisitSchedules, ScheduleType
  <2> QED
    BY <2>2, <2>3 DEF Step
<1>4. UNCHANGED <<topo, dfs>> /\ pos' \in 0..Len(topo)
  BY <1>1, HereFacts DEF dfsVars
<1>5. TypeOK'
  BY <1>1, <1>2, <1>3, <1>4, VisitWrites DEF TypeOK, SearchInv, SimInv
<1>6. ModeInv'
  BY <1>1, <1>4 DEF ModeInv, SimInv
<1> QED
  BY <1>2, <1>5, <1>6 DEF SimInv

(* An input line and the head of dotick keep the invariant.                *)
LEMMA StartKeeps ==
  ASSUME SimInv, NEW in \in [Input -> Control], TickStart(in)
  PROVE  SimInv'
<1>1. /\ mode = "idle" /\ mode' = "tick" /\ pos' = Len(topo)
      /\ UNCHANGED <<dfsVars, state, nextstate, isFinal>>
  BY DEF TickStart
<1>2. SearchInv' /\ UNCHANGED <<topo, dfs>>
  BY <1>1, SearchUnchanged DEF SimInv, dfsVars
<1>3. sched' \in [Node -> Control] /\ signals' \in [Signal -> Control]
  BY GraphAssumption DEF TickStart, Control
<1>4. pos' \in 0..Len(topo')
  <2>1. Len(topo) \in Nat
    BY DEF SimInv, SearchInv, DfsTypeOK
  <2> QED
    BY <2>1, <1>1, <1>2
<1>5. ternary' \in BOOLEAN
  BY DEF TickStart
<1>6. TypeOK'
  BY <1>1, <1>2, <1>3, <1>4, <1>5 DEF TypeOK, SearchInv, SimInv
<1> QED
  BY <1>1, <1>2, <1>6 DEF SimInv, ModeInv

(* The tail of dotick keeps the invariant.                                 *)
LEMMA EndKeeps ==
  ASSUME SimInv, TickEnd
  PROVE  SimInv'
<1>1. /\ mode = "tick" /\ mode' \in {"idle", "done"} /\ ternary' = FALSE
      /\ UNCHANGED <<dfsVars, pos, sched, signals, isFinal>>
  BY DEF TickEnd
<1>2. SearchInv' /\ UNCHANGED <<topo, dfs>>
  BY <1>1, SearchUnchanged DEF SimInv, dfsVars
<1>3. state' \in [STExcl -> Nat] /\ nextstate' \in [STExcl -> Nat]
  BY DEF TickEnd, SimInv, TypeOK
<1>4. TypeOK'
  BY <1>1, <1>2, <1>3 DEF TypeOK, SearchInv, SimInv
<1> QED
  BY <1>1, <1>2, <1>4 DEF SimInv, ModeInv

(* The invariant behind every theorem of this module.                      *)
LEMMA SimKeeps == SimInv /\ [Next]_vars => SimInv'
<1> SUFFICES ASSUME SimInv, [Next]_vars PROVE SimInv'
  OBVIOUS
<1>1. CASE UNCHANGED vars
  <2>1. UNCHANGED dfsVars /\ UNCHANGED simVars
    BY <1>1 DEF vars
  <2>2. SearchInv' /\ UNCHANGED <<topo, dfs>>
    BY <2>1, SearchUnchanged DEF SimInv, dfsVars
  <2> QED
    BY <2>1, <2>2 DEF SimInv, simVars, TypeOK, ModeInv, SearchInv
<1>2. CASE Order
  BY <1>2, OrderKeeps
<1>3. CASE \E in \in [Input -> Control] : TickStart(in)
  BY <1>3, StartKeeps
<1>4. CASE Step
  BY <1>4, StepKeeps
<1>5. CASE TickEnd
  BY <1>5, EndKeeps
<1>6. CASE Stop
  <2>1. /\ mode' = "done"
        /\ UNCHANGED <<dfsVars, pos, sched, signals, state, nextstate, ternary, isFinal>>
    BY <1>6 DEF Stop
  <2>2. SearchInv' /\ UNCHANGED <<topo, dfs>>
    BY <2>1, SearchUnchanged DEF SimInv, dfsVars
  <2> QED
    BY <2>1, <2>2 DEF SimInv, TypeOK, ModeInv, SearchInv
<1> QED
  BY <1>1, <1>2, <1>3, <1>4, <1>5, <1>6 DEF Next, Halted

(* The invariant of the simulator: its search, its types and its mode.     *)
LEMMA SimIsSound == Spec => []SimInv
BY SimStarts, SimKeeps, PTL DEF Spec

(* Type correctness: in particular dotick never leaves topo, and every     *)
(* control value and status is 0, 1 or -1.                                 *)
THEOREM SimTypes == Spec => []TypeOK
BY SimIsSound, PTL DEF SimInv

(* The order of topo puts what here leads to before here, so dotick, which *)
(* goes down, has not passed it.                                           *)
LEMMA NotPassed ==
  ASSUME SimInv, mode = "tick", pos > 0, NEW n \in LeadsTo(here)
  PROVE  ~Passed(n)
<1>1. pos \in 1..Len(topo) /\ Len(topo) \in Nat /\ DOMAIN topo = 1..Len(topo)
  BY HereFacts
<1>2. PICK j \in 1..(pos - 1) : topo[j] = n
  BY <1>1 DEF SimInv, SearchInv, TopoInv, InTopo, here
<1>3. ASSUME NEW i \in DOMAIN topo, i > pos, topo[i] = n
      PROVE  FALSE
  <2>1. i = j
    BY <1>1, <1>2, <1>3 DEF SimInv, SearchInv, TopoInv
  <2> QED
    BY <2>1, <1>1, <1>2, <1>3
<1> QED
  BY <1>3 DEF Passed

(* Only a visit, or the start of a tick, gives a node a control value.     *)
LEMMA OtherSteps ==
  ASSUME SimInv, Next, mode = "tick"
  PROVE  Step \/ UNCHANGED <<sched, signals>>
<1>1. CASE Order
  BY <1>1 DEF Order
<1>2. CASE \E in \in [Input -> Control] : TickStart(in)
  BY <1>2 DEF TickStart
<1>3. CASE TickEnd
  BY <1>3 DEF TickEnd
<1>4. CASE Stop
  BY <1>4 DEF Stop
<1>5. CASE Halted
  BY <1>5 DEF Halted, vars, simVars
<1> QED
  BY <1>1, <1>2, <1>3, <1>4, <1>5 DEF Next

ControlKept == \A n \in Node : mode = "tick" /\ Passed(n) => sched'[n] = sched[n]

(* No step changes the control value of a node that was passed.            *)
LEMMA StepKeepsControl ==
  ASSUME SimInv, Next
  PROVE  ControlKept
<1> SUFFICES ASSUME NEW n \in Node, mode = "tick", Passed(n)
             PROVE  sched'[n] = sched[n]
  BY DEF ControlKept
<1>1. CASE Visit
  <2>1. mode = "tick" /\ pos > 0
    BY <1>1, VisitWrites DEF Step
  <2>2. PICK S \in SUBSET SuccSet(here), c \in Control : sched' = Schedule(S, c)
    BY <1>1, VisitSchedules
  <2>3. n \notin S
    BY <2>1, NotPassed DEF LeadsTo
  <2> QED
    BY <2>2, <2>3 DEF Schedule
<1>2. CASE Skip
  BY <1>2 DEF Skip
<1>3. CASE UNCHANGED sched
  BY <1>3
<1> QED
  BY <1>1, <1>2, <1>3, OtherSteps DEF Step

(* The search is a schedule: dotick visits a node when its control value   *)
(* for the tick is settled, in every order the search may find.            *)
THEOREM SimSchedules == Spec => NoLateControl
<1>1. SimInv /\ [Next]_vars => [ControlKept]_vars
  BY StepKeepsControl
<1> QED
  BY <1>1, SimIsSound, PTL DEF Spec, NoLateControl, ControlKept

ReadsKept ==
  \A n \in Node : \A s \in Reads(n) :
    mode = "tick" /\ Passed(n) /\ sched[n] # Off => signals'[s] = signals[s]

(* No step changes a signal that a passed Test has read.                   *)
LEMMA StepKeepsReads ==
  ASSUME SimInv, Next
  PROVE  ReadsKept
<1> SUFFICES ASSUME NEW n \in Node, NEW s \in Reads(n), mode = "tick", Passed(n)
             PROVE  signals'[s] = signals[s]
  BY DEF ReadsKept
<1>1. CASE UNCHANGED signals
  BY <1>1
<1>2. CASE VisitEmit \/ VisitExit \/ VisitDefine
  <2>1. Visit /\ Kind(here) \in {"emit", "exit", "define"}
    BY <1>2 DEF Visit, VisitEmit, VisitExit, VisitDefine, At
  <2>2. mode = "tick" /\ pos > 0
    BY <2>1, VisitWrites DEF Step
  <2>3. here \in Node /\ here \in Live
    BY <2>2, HereFacts
  <2>4. n \in Live
    <3>1. n \in black
      BY DEF Passed, SimInv, SearchInv, TopoInv, InTopo, DfsTypeOK
    <3> QED
      BY <3>1 DEF SimInv, SearchInv, StackInv, RootInv
  <2>5. Sig(here) # s
    <3>1. SUFFICES ASSUME Sig(here) = s PROVE FALSE
      OBVIOUS
    <3>2. here \in Writers(s)
      BY <3>1, <2>1, <2>3 DEF Writers
    <3>3. here \in Data(n)
      BY <3>2, <2>3, <2>4, DataAssumption
    <3>4. n \in LeadsTo(here)
      BY <3>3 DEF LeadsTo, DataSucc
    <3> QED
      BY <3>4, <2>2, NotPassed
  <2>6. signals \in [Signal -> Control]
    BY DEF SimInv, TypeOK
  <2>7. s \in Signal
    BY Fields
  <2> QED
    BY <1>2, <2>5, <2>6, <2>7 DEF VisitEmit, VisitExit, VisitDefine
<1>3. Step => UNCHANGED signals \/ VisitEmit \/ VisitExit \/ VisitDefine
  BY DEF Step, Skip, Visit, VisitPlain, VisitSync, VisitTest, VisitSwitch, VisitEnter
<1> QED
  BY <1>1, <1>2, <1>3, OtherSteps

(* Causality: everything that may write a signal in a tick has been        *)
(* visited before a test reads it.                                         *)
THEOREM SimIsCausal == Spec => NoLateWrite
<1>1. SimInv /\ [Next]_vars => [ReadsKept]_vars
  BY StepKeepsReads
<1> QED
  BY <1>1, SimIsSound, PTL DEF Spec, NoLateWrite, ReadsKept

-----------------------------------------------------------------------------

(* Without an unknown value there is nothing to compute one from.          *)
LEMMA TwoValuedStep ==
  ASSUME SimInv, TwoValued, Step
  PROVE  TwoValued'
<1> SUFFICES ASSUME ~ternary'
             PROVE  /\ \A n \in Node : sched'[n] # Unk
                    /\ \A s \in Signal : signals'[s] # Unk
  BY DEF TwoValued
<1>1. mode = "tick" /\ pos > 0
  BY VisitWrites
<1>2. here \in Node /\ cc \in Control
  BY <1>1, HereFacts
<1>3. ~ternary
  BY DEF Step, Skip, Visit, VisitPlain, VisitSync, VisitTest, VisitSwitch, VisitEnter,
         VisitEmit, VisitExit, VisitDefine
<1>4. /\ \A n \in Node : sched[n] # Unk
      /\ \A s \in Signal : signals[s] # Unk
      /\ cc # Unk
  BY <1>1, <1>2, <1>3 DEF TwoValued, cc
<1>5. signals \in [Signal -> Control] /\ sched \in [Node -> Control]
  BY DEF SimInv, TypeOK
<1>6. \A s \in Signal : signals'[s] # Unk
  BY <1>4, <1>5 DEF Step, Skip, Visit, VisitPlain, VisitSync, VisitTest, VisitSwitch, VisitEnter,
         VisitEmit, VisitExit, VisitDefine, Unk, Off
<1>7. \A S : \A n \in Node : Schedule(S, cc)[n] # Unk
  BY <1>4 DEF Schedule
<1>8. CASE VisitSync
  <2>1. PICK top \in Level(here) :
          \E S : sched' = Schedule(S, IF OrAll(here, top) = Unk THEN Unk ELSE cc)
    BY <1>8 DEF VisitSync
  <2>2. OrAll(here, top) # Unk
    <3>1. \A d \in Data(here) : sched[d] # Unk
      BY <1>2, <1>4, Fields
    <3> QED
      BY <3>1 DEF OrAll, On, Off, Unk
  <2> QED
    BY <2>1, <2>2, <1>6, <1>7
<1>9. CASE VisitTest
  <2>1. Value(here) # Unk
    BY <1>9 DEF VisitTest
  <2>2. \E S : sched' = Schedule(S, cc)
    BY <1>9, <2>1 DEF VisitTest
  <2> QED
    BY <2>2, <1>6, <1>7
<1>10. CASE Skip
  BY <1>10, <1>4, <1>6 DEF Skip
<1>11. CASE \E S : sched' = Schedule(S, cc)
  BY <1>11, <1>6, <1>7
<1> QED
  BY <1>8, <1>9, <1>10, <1>11
     DEF Step, Visit, VisitPlain, VisitSwitch, VisitEnter, VisitEmit, VisitExit, VisitDefine

(* A tick that has met nothing unknown is a two-valued execution.          *)
THEOREM SimIsTwoValued == Spec => []TwoValued
<1>1. Init => TwoValued
  BY DEF Init, TwoValued
<1>2. ASSUME SimInv, TwoValued, [Next]_vars
      PROVE  TwoValued'
  <2>1. CASE UNCHANGED vars
    BY <2>1, <1>2 DEF vars, simVars, TwoValued
  <2>2. CASE Step
    BY <2>2, <1>2, TwoValuedStep
  <2>3. ASSUME NEW in \in [Input -> Control], TickStart(in)
        PROVE  TwoValued'
    <3>1. SUFFICES ASSUME ~ternary'
                   PROVE  /\ \A n \in Node : sched'[n] # Unk
                          /\ \A s \in Signal : signals'[s] # Unk
      BY DEF TwoValued
    <3>2. \A s \in Input : in[s] # Unk
      BY <2>3, <3>1 DEF TickStart
    <3>3. \A n \in Node : sched'[n] # Unk
      BY <2>3 DEF TickStart, On, Off, Unk
    <3>4. ASSUME NEW s \in Signal
          PROVE  signals'[s] # Unk
      BY <2>3, <3>2 DEF TickStart, On, Off, Unk
    <3> QED
      BY <3>3, <3>4
  <2>4. CASE mode' # "tick"
    BY <2>4 DEF TwoValued
  <2>5. Order \/ TickEnd \/ Stop => mode' # "tick"
    BY DEF Order, TickEnd, Stop
  <2> QED
    BY <1>2, <2>1, <2>2, <2>3, <2>4, <2>5 DEF Next, Halted
<1> QED
  BY <1>1, <1>2, SimIsSound, PTL DEF Spec

-----------------------------------------------------------------------------
(* Who has the control of a place.  A node has control from the visit that *)
(* gave it a value other than Off until its own visit, except that a Fork  *)
(* has it until its Sync is visited, and what ends a place keeps it.  A    *)
(* Sync has none: its Fork has it.                                         *)

Lit(n) == sched[n] # Off
Opened(f) == Kind(f) = "fork" /\ Lit(f) /\ Passed(f)
HasControl(n) ==
  /\ Lit(n)
  /\ ~Passed(n) => Kind(n) # "sync"
  /\ Passed(n) => \/ Kind(n) = "term" /\ Home(n) # Main
                  \/ Kind(n) = "pass" /\ Succ(n) = <<>>
                  \/ Kind(n) = "fork" /\ ~Passed(Graph[n].sync)
Carries(p) == \E n \in Inner : Home(n) = p /\ HasControl(n)

(* The invariant of a tick.  What runs has a place; a thread, and a Sync,  *)
(* run only when a Fork has started them; a thread that has ended has      *)
(* started its Sync; the main place, and every thread of a Fork that was   *)
(* visited, has a node with control, and in a two-valued tick only one.    *)
InPlace == \A n \in Node : Lit(n) => n \in InTopo(Len(topo)) /\ n \in Inner
ThreadsOpened ==
  \A n \in Node : Lit(n) =>
    /\ Home(n) # Main => \E f \in ForksOf(Home(n).sync) : Opened(f)
    /\ Kind(n) = "sync" => \E f \in ForksOf(n) : Opened(f)
ThreadsEnd ==
  \A n \in Node : Lit(n) /\ Passed(n) /\ Kind(n) = "term" /\ Home(n) # Main => Lit(Home(n).sync)
AllCarried ==
  /\ Carries(Main)
  /\ \A f \in Inner : Opened(f) => \A j \in DOMAIN Succ(f) : Carries(PlaceOf(f, j))
OneCarries ==
  ~ternary =>
    \A n, m \in Inner : HasControl(n) /\ HasControl(m) /\ Home(n) = Home(m) => n = m
NestInv ==
  mode = "tick" => InPlace /\ ThreadsOpened /\ ThreadsEnd /\ AllCarried /\ OneCarries

(* Where dotick stands in topo, whose nodes are in one place each.         *)
LEMMA Position ==
  ASSUME SimInv
  PROVE  /\ Len(topo) \in Nat /\ DOMAIN topo = 1..Len(topo) /\ pos \in 0..Len(topo)
         /\ \A i \in DOMAIN topo : topo[i] \in Node /\ (Passed(topo[i]) <=> i > pos)
         /\ \A i, j \in DOMAIN topo : topo[i] = topo[j] => i = j
         /\ \A i \in DOMAIN topo : LeadsTo(topo[i]) \subseteq InTopo(i - 1)
<1>1. topo \in Seq(Node) /\ pos \in 0..Len(topo)
  BY DEF SimInv, TypeOK, DfsTypeOK
<1>2. /\ \A i, j \in DOMAIN topo : topo[i] = topo[j] => i = j
      /\ \A i \in DOMAIN topo : LeadsTo(topo[i]) \subseteq InTopo(i - 1)
  BY DEF SimInv, SearchInv, TopoInv
<1>3. ASSUME NEW i \in DOMAIN topo
      PROVE  topo[i] \in Node /\ (Passed(topo[i]) <=> i > pos)
  BY <1>1, <1>2 DEF Passed
<1> QED
  BY <1>1, <1>2, <1>3

(* Since the order of topo puts what a node leads to before it, the Sync   *)
(* of a thread stands before every node of the thread, and before the Fork.*)
LEMMA SyncFirst ==
  ASSUME SimInv, NEW i \in DOMAIN topo, topo[i] \in Inner
  PROVE  /\ Home(topo[i]) # Main => Home(topo[i]).sync \in InTopo(i - 1)
         /\ Kind(topo[i]) = "fork" => Graph[topo[i]].sync \in InTopo(i - 1)
<1> DEFINE Before(k) == topo[k] \in Inner /\ Home(topo[k]) # Main
                          => Home(topo[k]).sync \in InTopo(k - 1)
           T == {k \in DOMAIN topo : Before(k)}
<1>1. /\ Len(topo) \in Nat /\ DOMAIN topo = 1..Len(topo) /\ DOMAIN topo \subseteq Nat
      /\ \A k \in DOMAIN topo : topo[k] \in Node /\ LeadsTo(topo[k]) \subseteq InTopo(k - 1)
  BY Position
<1>2. ASSUME NEW k \in DOMAIN topo, NEW m \in InTopo(k - 1)
      PROVE  \E j \in DOMAIN topo : j < k /\ topo[j] = m
  BY <1>1 DEF InTopo
<1>3. ASSUME NEW k \in DOMAIN topo, NEW j \in DOMAIN topo, j < k
      PROVE  topo[j] \in InTopo(k - 1) /\ InTopo(j - 1) \subseteq InTopo(k - 1)
  BY <1>1, <1>3 DEF InTopo
<1>4. ASSUME NEW k \in DOMAIN topo, \A j \in DOMAIN topo : j < k => Before(j),
             topo[k] \in Inner, Kind(topo[k]) = "fork"
      PROVE  \E j \in DOMAIN topo : j < k /\ topo[j] = Graph[topo[k]].sync
  <2> DEFINE f == topo[k]
             b == Succ(f)[1]
  <2>1. /\ b \in SuccSet(f) /\ b \in Inner /\ Home(b) = PlaceOf(f, 1)
        /\ PlaceOf(f, 1) # Main /\ PlaceOf(f, 1).sync = Graph[f].sync
    BY <1>4, ForkPlaces, NestAssumption
  <2>2. b \in InTopo(k - 1)
    BY <2>1, <1>1 DEF LeadsTo
  <2>3. PICK j \in DOMAIN topo : j < k /\ topo[j] = b
    BY <2>2, <1>2
  <2>4. Graph[f].sync \in InTopo(j - 1)
    BY <2>1, <2>3, <1>4
  <2>5. PICK h \in DOMAIN topo : h < j /\ topo[h] = Graph[f].sync
    BY <2>4, <1>2
  <2>6. h < k
    BY <2>3, <2>5, <1>1
  <2> QED
    BY <2>5, <2>6
<1>5. ASSUME NEW k \in DOMAIN topo, \A j \in DOMAIN topo : j < k => Before(j)
      PROVE  Before(k)
  <2> DEFINE n == topo[k]
  <2> SUFFICES ASSUME n \in Inner, Home(n) # Main
               PROVE  Home(n).sync \in InTopo(k - 1)
    OBVIOUS
  <2>1. ASSUME NEW m \in InTopo(k - 1), m \in Inner, Home(m) = Home(n)
        PROVE  Home(n).sync \in InTopo(k - 1)
    <3>1. PICK j \in DOMAIN topo : j < k /\ topo[j] = m
      BY <1>2
    <3>2. Home(m).sync \in InTopo(j - 1)
      BY <3>1, <2>1, <1>5
    <3> QED
      BY <3>1, <3>2, <2>1, <1>3
  <2>2. CASE Kind(n) = "fork"
    <3>1. PICK j \in DOMAIN topo : j < k /\ topo[j] = Graph[n].sync
      BY <2>2, <1>4, <1>5
    <3>2. Graph[n].sync \in Inner /\ Home(Graph[n].sync) = Home(n)
      BY <2>2, ForkPlaces, NestAssumption
    <3>3. Graph[n].sync \in InTopo(k - 1)
      BY <3>1, <1>3
    <3> QED
      BY <3>2, <3>3, <2>1
  <2>3. CASE Kind(n) = "term"
    <3>1. Home(n).sync \in SuccSet(n)
      BY <2>3, Ends, NestAssumption
    <3> QED
      BY <3>1, <1>1 DEF LeadsTo
  <2>4. CASE Kind(n) # "fork" /\ Kind(n) # "term"
    <3>1. PICK m : m \in SuccSet(n) /\ (Kind(n) # "sync" \/ m \in Inner)
      BY Ends, SyncPlaces, NestAssumption
    <3>2. m \in Inner /\ Home(m) = Home(n)
      BY <2>4, <3>1, OtherPlaces, NestAssumption
    <3>3. m \in InTopo(k - 1)
      BY <3>1, <1>1 DEF LeadsTo
    <3> QED
      BY <3>2, <3>3, <2>1
  <2> QED
    BY <2>2, <2>3, <2>4
<1>6. DOMAIN topo \subseteq T
  <2>1. \A k \in DOMAIN topo : (\A j \in DOMAIN topo : j < k => j \in T) => k \in T
    BY <1>5
  <2> HIDE DEF T
  <2> QED
    BY <2>1, <1>1, Induct
<1>7. \A k \in DOMAIN topo : Before(k)
  BY <1>6
<1>8. Kind(topo[i]) = "fork" => Graph[topo[i]].sync \in InTopo(i - 1)
  <2> SUFFICES ASSUME Kind(topo[i]) = "fork"
               PROVE  Graph[topo[i]].sync \in InTopo(i - 1)
    OBVIOUS
  <2>1. PICK j \in DOMAIN topo : j < i /\ topo[j] = Graph[topo[i]].sync
    BY <1>4, <1>7
  <2> QED
    BY <2>1, <1>3
<1> QED
  BY <1>7, <1>8

(* When dotick stands at a Sync, every node of its threads was passed; and *)
(* while it stands at a Fork, the Sync of the Fork was not.                *)
LEMMA ThreadsPassed ==
  ASSUME SimInv, mode = "tick", pos > 0, NEW n \in Inner, n \in InTopo(Len(topo))
  PROVE  /\ Home(n) # Main /\ (Home(n).sync = here \/ Passed(Home(n).sync)) => Passed(n)
         /\ Kind(n) = "fork" /\ (Graph[n].sync = here \/ Passed(Graph[n].sync)) => Passed(n)
<1>1. /\ Len(topo) \in Nat /\ DOMAIN topo = 1..Len(topo) /\ pos \in DOMAIN topo
      /\ \A i \in DOMAIN topo : Passed(topo[i]) <=> i > pos
      /\ \A i, j \in DOMAIN topo : topo[i] = topo[j] => i = j
  BY Position
<1>2. PICK i \in DOMAIN topo : topo[i] = n
  BY <1>1 DEF InTopo
<1>3. ASSUME NEW s \in InTopo(i - 1), s = here \/ Passed(s)
      PROVE  Passed(n)
  <2>1. PICK j \in DOMAIN topo : j < i /\ topo[j] = s
    BY <1>1 DEF InTopo
  <2>2. j >= pos
    BY <2>1, <1>1, <1>3 DEF here
  <2> QED
    BY <2>1, <2>2, <1>1, <1>2
<1> QED
  BY <1>2, <1>3, SyncFirst

TickInv == SimInv /\ TwoValued /\ NestInv

(* At a Sync that a Fork has started, every thread of the Fork has ended.  *)
LEMMA SyncReady ==
  ASSUME TickInv, mode = "tick", pos > 0, Kind(here) = "sync",
         NEW f \in ForksOf(here), Opened(f)
  PROVE  /\ here \in Inner /\ Lit(here)
         /\ \A j \in DOMAIN Succ(f) :
              \E d \in Data(here) \cap Inner :
                /\ Kind(d) = "term" /\ Lit(d) /\ Passed(d) /\ HasControl(d)
                /\ Home(d) = PlaceOf(f, j) /\ Thread(d) = j - 1
<1>1. /\ f \in Inner /\ Kind(f) = "fork" /\ Graph[f].sync = here
      /\ here \in Inner /\ 1 \in DOMAIN Succ(f)
  BY ForkPlaces, NestAssumption DEF ForksOf, OfKind
<1>2. ASSUME NEW j \in DOMAIN Succ(f)
      PROVE  \E d \in Data(here) \cap Inner :
                /\ Kind(d) = "term" /\ Lit(d) /\ Passed(d) /\ HasControl(d)
                /\ Home(d) = PlaceOf(f, j) /\ Thread(d) = j - 1
  <2>1. PICK d \in Inner : Home(d) = PlaceOf(f, j) /\ HasControl(d)
    BY <1>1 DEF TickInv, NestInv, AllCarried, Carries
  <2>2. Home(d) # Main /\ Home(d).sync = here
    BY <2>1, <1>1, ForkPlaces, NestAssumption
  <2>3. Lit(d) /\ d \in InTopo(Len(topo))
    BY <2>1, Places, NestAssumption DEF HasControl, TickInv, NestInv, InPlace
  <2>4. Passed(d)
    BY <2>2, <2>3, ThreadsPassed DEF TickInv
  <2>5. Kind(d) = "term"
    <3>1. CASE Kind(d) = "pass" /\ Succ(d) = <<>>
      <4>1. SuccSet(d) = {}
        BY <3>1 DEF SuccSet
      <4> QED
        BY <4>1, <2>2, Ends, NestAssumption
    <3>2. CASE Kind(d) = "fork" /\ ~Passed(Graph[d].sync)
      <4>1. Graph[d].sync \in Inner /\ Home(Graph[d].sync) = Home(d)
        BY <3>2, ForkPlaces, NestAssumption
      <4>2. Graph[d].sync \in InTopo(Len(topo))
        <5>1. PICK i \in DOMAIN topo : topo[i] = d
          BY <2>3, Position DEF InTopo, TickInv
        <5>2. Graph[d].sync \in InTopo(i - 1) /\ InTopo(i - 1) \subseteq InTopo(Len(topo))
          BY <5>1, <3>2, SyncFirst, Position DEF InTopo, TickInv
        <5> QED
          BY <5>2
      <4>3. Passed(Graph[d].sync)
        BY <4>1, <4>2, <2>2, ThreadsPassed DEF TickInv
      <4> QED
        BY <4>3, <3>2
    <3> QED
      BY <2>1, <2>4, <3>1, <3>2 DEF HasControl
  <2>6. d \in Data(here) /\ Thread(d) = Home(d).thread
    BY <2>5, <2>2, Ends, NestAssumption
  <2>7. PlaceOf(f, j).thread = j - 1
    BY DEF PlaceOf
  <2> QED
    BY <2>1, <2>3, <2>4, <2>5, <2>6, <2>7
<1>3. Lit(here)
  <2>1. PICK d \in Data(here) \cap Inner :
          Kind(d) = "term" /\ Lit(d) /\ Passed(d) /\ Home(d) = PlaceOf(f, 1)
    BY <1>1, <1>2
  <2>2. Home(d) # Main /\ Home(d).sync = here
    BY <2>1, <1>1, ForkPlaces, NestAssumption
  <2> QED
    BY <2>1, <2>2, Places, NestAssumption DEF TickInv, NestInv, ThreadsEnd
<1> QED
  BY <1>1, <1>2, <1>3

(* What a step of dotick gives control to: some successors of here when it *)
(* is lit, at least one if it has any; every one at a Fork and a Terminate;*)
(* not more than one elsewhere in a two-valued tick.                       *)
Gives(S) ==
  /\ S \subseteq SuccSet(here) /\ (Kind(here) = "sync" => S \subseteq Inner)
  /\ \A n \in Node : sched'[n] # Off <=> Lit(n) \/ n \in S
  /\ ~Lit(here) => S = {}
  /\ Lit(here) /\ Kind(here) \in {"fork", "term"} => S = SuccSet(here)
  /\ Lit(here) /\ SuccSet(here) # {} => S # {}
  /\ Kind(here) # "fork" /\ ~ternary' => \A m, n \in S : m = n
  /\ ternary => ternary'

(* schedule() lights the nodes it is given, and no other.                  *)
LEMMA ScheduleLights ==
  ASSUME sched \in [Node -> Control], NEW S, NEW c \in Control, c # Off, sched' = Schedule(S, c)
  PROVE  \A n \in Node : sched'[n] # Off <=> Lit(n) \/ n \in S
BY DEF Schedule, Lit, On, Off, Unk, Control

(* Threads are numbered from 0.                                            *)
LEMMA ThreadNumbers == \A n \in Node : Thread(n) \in Nat
<1> SUFFICES ASSUME NEW n \in Node PROVE Thread(n) \in Nat
  OBVIOUS
<1>1. Graph[n] \in NodeRecord
  BY GraphAssumption DEF Node
<1>2. Graph[n].thread \in Nat
  BY <1>1 DEF NodeRecord
<1> QED
  BY <1>2 DEF Thread

(* The scan of a Sync ends at an exit that it has.                         *)
LEMMA SyncGives ==
  ASSUME TickInv, VisitSync
  PROVE  \E S : Gives(S)
<1>1. /\ mode = "tick" /\ pos > 0 /\ cc # Off /\ Kind(here) = "sync"
      /\ UNCHANGED ternary
  BY DEF VisitSync, At
<1>2. /\ here \in Node /\ cc \in Control /\ sched \in [Node -> Control] /\ Lit(here)
      /\ here \in Inner
  <2>1. here \in Node /\ cc \in Control /\ sched \in [Node -> Control]
    BY <1>1, HereFacts DEF TickInv, SimInv, TypeOK
  <2>2. Lit(here)
    BY <1>1 DEF Lit, cc
  <2> QED
    BY <2>1, <2>2, <1>1 DEF TickInv, NestInv, InPlace
<1>3. PICK top \in Level(here) :
        /\ IsTop(here, top) /\ top < Len(Succ(here))
        /\ sched' = Schedule({Succ(here)[l + 1] : l \in LeaveLevels(here)} \ {0},
                             IF OrAll(here, top) = Unk THEN Unk ELSE cc)
  BY DEF VisitSync
<1> DEFINE S == {Succ(here)[l + 1] : l \in LeaveLevels(here)} \ {0}
<1>4. /\ Level(here) \subseteq Nat /\ LeaveLevels(here) \subseteq Level(here)
      /\ \A d \in Data(here) : d \in Node /\ Code(d) \in Level(here)
  BY <1>2, Fields DEF Level, LeaveLevels
<1>5. ASSUME NEW l \in LeaveLevels(here)
      PROVE  l <= top /\ l + 1 \in DOMAIN Succ(here)
  <2>1. l <= top
    BY <1>3, <1>4 DEF LeaveLevels, IsTop
  <2> QED
    BY <2>1, <1>2, <1>3, <1>4, Arcs
<1>6. S \subseteq SuccSet(here) /\ S \subseteq Inner
  <2>1. ASSUME NEW l \in LeaveLevels(here), Succ(here)[l + 1] # 0
        PROVE  Succ(here)[l + 1] \in Inner
    <3>1. PICK d \in Data(here) : Code(d) = l /\ Lit(d)
      BY <2>1 DEF LeaveLevels, OrAll, On, Off, Unk, Lit
    <3>2. d \in Inner
      BY <3>1, <1>1, <1>4 DEF TickInv, NestInv, InPlace
    <3> QED
      BY <1>1, <1>2, <1>5, <2>1, <3>1, <3>2, SyncPlaces, NestAssumption
  <2>2. S \subseteq SuccSet(here)
    BY <1>5 DEF SuccSet
  <2> QED
    BY <2>1, <2>2
<1>7. \A n \in Node : sched'[n] # Off <=> Lit(n) \/ n \in S
  <2> DEFINE c == IF OrAll(here, top) = Unk THEN Unk ELSE cc
  <2>1. c \in Control /\ c # Off
    BY <1>1, <1>2 DEF Control, Unk, Off
  <2>2. sched' = Schedule(S, c)
    BY <1>3
  <2> HIDE DEF c, S
  <2> QED
    BY <2>1, <2>2, <1>2, ScheduleLights
<1>8. top \in LeaveLevels(here)
  BY <1>3, <1>4 DEF LeaveLevels, IsTop, On, Off
<1>9. S # {}
  <2>1. PICK d \in Data(here) : Code(d) = top /\ Lit(d)
    BY <1>3 DEF IsTop, OrAll, On, Off, Unk, Lit
  <2>2. ASSUME NEW u \in Data(here), Lit(u)
        PROVE  u \in Inner /\ Code(u) <= top
    <3>1. u \in Inner
      BY <2>2, <1>1, <1>4 DEF TickInv, NestInv, InPlace
    <3>2. OrAll(here, Code(u)) # Off
      <4>1. sched[u] \in {On, Unk}
        BY <2>2, <1>2, <1>4 DEF Lit, Control
      <4> QED
        BY <4>1 DEF OrAll, On, Off, Unk
    <3>3. Code(u) \in Level(here) /\ Code(u) \in Nat /\ top \in Nat
      BY <1>4
    <3> QED
      BY <3>1, <3>2, <3>3, <1>3 DEF IsTop
  <2>3. PICK f \in ForksOf(here) : Opened(f)
    BY <1>1, <1>2 DEF TickInv, NestInv, ThreadsOpened
  <2>4. ASSUME NEW q \in Data(here) \cap Inner
        PROVE  \E u \in Data(here) \cap Inner : Thread(u) = Thread(q) /\ Code(u) <= Code(d)
    <3>1. Thread(q) + 1 \in DOMAIN Succ(f)
      BY <1>1, <1>2, <2>3, NestAssumption DEF OfKind, Nested
    <3>2. PICK u \in Data(here) \cap Inner : Lit(u) /\ Thread(u) = (Thread(q) + 1) - 1
      BY <3>1, <1>1, <2>3, SyncReady
    <3>3. Thread(q) \in Nat
      BY Places, NestAssumption, ThreadNumbers
    <3> QED
      BY <3>2, <3>3, <2>1, <2>2
  <2>5. Code(d) + 1 \in DOMAIN Succ(here) /\ Succ(here)[Code(d) + 1] # 0
    BY <2>1, <2>2, <2>4, <1>1, <1>2, NestAssumption DEF OfKind, Nested
  <2> QED
    BY <2>1, <2>5, <1>8
<1>10. ~ternary' => \A m, n \in S : m = n
  <2> SUFFICES ASSUME ~ternary'
               PROVE  \A l \in LeaveLevels(here) : l = top
    OBVIOUS
  <2>1. \A n \in Node : sched[n] # Unk
    BY <1>1 DEF TickInv, TwoValued
  <2>2. OrAll(here, top) = On
    <3>1. OrAll(here, top) # Unk
      BY <2>1, <1>4 DEF OrAll, On, Off, Unk
    <3> QED
      BY <3>1, <1>3 DEF OrAll, IsTop
  <2>3. ASSUME NEW l \in LeaveLevels(here)
        PROVE  l = top
    <3>1. ~(top > l)
      BY <2>2, <1>3 DEF LeaveLevels
    <3> QED
      BY <3>1, <1>4, <1>5
  <2> QED
    BY <2>3
<1>11. Gives(S)
  <2> HIDE DEF S
  <2> QED
    BY <1>1, <1>2, <1>6, <1>7, <1>9, <1>10 DEF Gives
<1> QED
  BY <1>11

(* Every step of dotick gives control as Gives says.                       *)
LEMMA StepGives ==
  ASSUME TickInv, Step
  PROVE  \E S : Gives(S)
<1>1. mode = "tick" /\ pos > 0
  BY VisitWrites DEF TickInv
<1>2. here \in Node /\ cc \in Control /\ sched \in [Node -> Control]
  BY <1>1, HereFacts DEF TickInv, SimInv, TypeOK
<1>3. Lit(here) <=> cc # Off
  BY DEF Lit, cc
<1>4. CASE Skip
  <2>1. cc = Off /\ UNCHANGED <<sched, ternary>>
    BY <1>4 DEF Skip
  <2>2. Gives({})
    BY <2>1, <1>3 DEF Gives, Lit
  <2> QED
    BY <2>2
<1>5. CASE VisitSync
  BY <1>5, SyncGives
<1>6. ASSUME Visit, ~VisitSync
      PROVE  \E S : Gives(S)
  <2>1. cc # Off /\ Kind(here) # "sync"
    BY <1>6 DEF Visit, VisitPlain, VisitTest, VisitSwitch, VisitEnter, VisitEmit,
                VisitExit, VisitDefine, At
  <2>2. here \in Inner
    BY <1>1, <1>2, <1>3, <2>1 DEF TickInv, NestInv, InPlace
  <2>3. \A i \in DOMAIN Succ(here) : Succ(here)[i] # 0 /\ Succ(here)[i] \in SuccSet(here)
    BY <2>1, <2>2, NestAssumption DEF SuccSet, Nested
  <2>4. \A S : sched' = Schedule(S, cc) => \A n \in Node : sched'[n] # Off <=> Lit(n) \/ n \in S
    BY <1>2, <2>1, ScheduleLights
  <2>5. \A S : sched' = Schedule(S, Unk) => \A n \in Node : sched'[n] # Off <=> Lit(n) \/ n \in S
    BY <1>2, ScheduleLights DEF Unk, Off, Control
  <2>6. ASSUME Kind(here) \in {"term", "enter", "emit", "exit", "define", "pass"}
        PROVE  \A m, n \in SuccSet(here) : m = n
    <3>1. Len(Succ(here)) <= 1
      BY <2>6, <1>2, ArcAssumption
    <3>2. \A i, j \in DOMAIN Succ(here) : i = j
      BY <3>1, <1>2, Arcs
    <3> QED
      BY <3>2 DEF SuccSet
  <2>7. CASE VisitTest
    <3>1. Kind(here) = "test" /\ here \in OfKind("test") /\ Len(Succ(here)) = 2
      BY <1>2, <2>7, Fields DEF VisitTest, At, OfKind
    <3>2. Value(here) \in Control
      BY <3>1, ValueType DEF TickInv
    <3>3. CASE Value(here) = Unk
      <4>1. sched' = Schedule(SuccSet(here), Unk) /\ ternary'
        BY <2>7, <3>3 DEF VisitTest
      <4>2. Gives(SuccSet(here))
        BY <4>1, <2>1, <2>5, <1>3, <3>1 DEF Gives
      <4> QED
        BY <4>2
    <3>4. CASE Value(here) # Unk
      <4> DEFINE m == Succ(here)[Value(here) + 1]
      <4>1. Value(here) + 1 \in DOMAIN Succ(here)
        BY <3>1, <3>2, <3>4, <1>2, Arcs DEF Control, On, Off
      <4>2. m # 0 /\ m \in SuccSet(here)
        BY <4>1, <2>3
      <4>3. sched' = Schedule({m}, cc) /\ (ternary => ternary')
        <5>1. {m} \ {0} = {m}
          BY <4>2
        <5> QED
          BY <2>7, <3>4, <5>1 DEF VisitTest
      <4>4. Gives({m})
        <5> HIDE DEF m
        <5> QED
          BY <4>2, <4>3, <2>1, <2>4, <1>3, <3>1 DEF Gives
      <4> QED
        BY <4>4
    <3> QED
      BY <3>3, <3>4
  <2>8. CASE VisitSwitch
    <3> DEFINE m == Succ(here)[state[Graph[here].st]]
    <3>1. state[Graph[here].st] \in DOMAIN Succ(here) /\ Kind(here) = "switch"
      BY <2>8 DEF VisitSwitch, At
    <3>2. m # 0 /\ m \in SuccSet(here)
      BY <3>1, <2>3
    <3>3. sched' = Schedule({m}, cc) /\ UNCHANGED ternary
      <4>1. {m} \ {0} = {m}
        BY <3>2
      <4> QED
        BY <2>8, <4>1 DEF VisitSwitch
    <3>4. Gives({m})
      <4> HIDE DEF m
      <4> QED
        BY <3>1, <3>2, <3>3, <2>1, <2>4, <1>3 DEF Gives
    <3> QED
      BY <3>4
  <2>9. CASE VisitPlain \/ VisitEnter \/ VisitEmit \/ VisitExit \/ VisitDefine
    <3>1. /\ sched' = Schedule(SuccSet(here), cc) /\ UNCHANGED ternary
          /\ Kind(here) \in {"fork", "term", "enter", "emit", "exit", "define", "pass"}
      BY <2>9 DEF VisitPlain, VisitEnter, VisitEmit, VisitExit, VisitDefine, At
    <3>2. Kind(here) # "fork" => \A m, n \in SuccSet(here) : m = n
      BY <3>1, <2>6
    <3>3. Gives(SuccSet(here))
      BY <3>1, <3>2, <2>1, <2>4, <1>3 DEF Gives
    <3> QED
      BY <3>3
  <2> QED
    BY <1>6, <2>7, <2>8, <2>9 DEF Visit
<1> QED
  BY <1>4, <1>5, <1>6 DEF Step

(* What a step changes: here is passed, S is lit, and what it lights was   *)
(* not passed and is not here.                                             *)
LEMMA StepMoves ==
  ASSUME TickInv, Step, NEW S, Gives(S)
  PROVE  /\ mode = "tick" /\ pos > 0 /\ UNCHANGED <<topo, mode>>
         /\ here \in Node /\ here \in InTopo(Len(topo)) /\ ~Passed(here)
         /\ \A n \in Node : Lit(n)' <=> Lit(n) \/ n \in S
         /\ \A n \in Node : Passed(n)' <=> Passed(n) \/ n = here
         /\ S \subseteq Node
         /\ \A n \in S : n \in InTopo(Len(topo)) /\ ~Passed(n) /\ n # here
<1>1. mode = "tick" /\ pos > 0 /\ pos' = pos - 1 /\ UNCHANGED <<topo, mode>>
  BY VisitWrites DEF TickInv, dfsVars
<1>2. /\ Len(topo) \in Nat /\ DOMAIN topo = 1..Len(topo) /\ pos \in DOMAIN topo /\ pos \in Nat
      /\ \A i \in DOMAIN topo : Passed(topo[i]) <=> i > pos
      /\ \A i, j \in DOMAIN topo : topo[i] = topo[j] => i = j
      /\ LeadsTo(here) \subseteq InTopo(pos - 1)
  BY <1>1, Position DEF TickInv, here
<1>3. here \in Node /\ here \in InTopo(Len(topo)) /\ ~Passed(here)
  BY <1>1, <1>2, HereFacts DEF TickInv, here, InTopo
<1>4. ASSUME NEW n \in Node
      PROVE  Passed(n)' <=> Passed(n) \/ n = here
  <2>1. \A i \in DOMAIN topo : i > pos - 1 <=> i > pos \/ i = pos
    BY <1>2
  <2>2. Passed(n)' <=> \E i \in DOMAIN topo : i > pos - 1 /\ topo[i] = n
    BY <1>1 DEF Passed
  <2> QED
    BY <2>1, <2>2, <1>2 DEF Passed, here
<1>5. \A n \in Node : Lit(n)' <=> Lit(n) \/ n \in S
  BY DEF Gives, Lit
<1>6. ASSUME NEW n \in S
      PROVE  n \in Node /\ n \in InTopo(Len(topo)) /\ ~Passed(n) /\ n # here
  <2>1. n \in SuccSet(here) /\ n \in Node
    BY <1>3, Arcs DEF Gives
  <2>2. ~Passed(n)
    BY <2>1, <1>1, NotPassed DEF TickInv, LeadsTo
  <2>3. PICK j \in 1..(pos - 1) : topo[j] = n
    BY <2>1, <1>2 DEF LeadsTo, InTopo
  <2>4. j \in DOMAIN topo /\ j # pos
    BY <2>3, <1>2
  <2>5. n \in InTopo(Len(topo))
    BY <2>3, <2>4, <1>2 DEF InTopo
  <2>6. n # here
    BY <2>3, <2>4, <1>2 DEF here
  <2> QED
    BY <2>1, <2>2, <2>5, <2>6
<1>7. S \subseteq Node
  BY <1>6
<1>8. \A n \in Node : Passed(n)' <=> Passed(n) \/ n = here
  BY <1>4
<1> QED
  BY <1>1, <1>3, <1>5, <1>6, <1>7, <1>8

(* Where the nodes are that a step gives control to.                       *)
LEMMA HandedOn ==
  ASSUME TickInv, Step, NEW S, Gives(S), NEW n \in S
  PROVE  /\ here \in Inner /\ Lit(here) /\ n \in Inner
         /\ Kind(here) = "fork" =>
              \E j \in DOMAIN Succ(here) : n = Succ(here)[j] /\ Home(n) = PlaceOf(here, j)
         /\ Kind(here) = "term" /\ Home(here) # Main =>
              n = Home(here).sync /\ \E f \in ForksOf(n) : Opened(f) /\ Home(n) = Home(f)
         /\ Kind(here) # "fork" /\ (Kind(here) # "term" \/ Home(here) = Main) =>
              Home(n) = Home(here)
         /\ Kind(here) # "term" \/ Home(here) = Main => Kind(n) # "sync"
<1>1. mode = "tick" /\ here \in Node /\ n \in SuccSet(here) /\ Lit(here)
  BY StepMoves DEF Gives
<1>2. here \in Inner
  BY <1>1 DEF TickInv, NestInv, InPlace
<1>3. CASE Kind(here) = "fork"
  <2>1. PICK j \in DOMAIN Succ(here) : n = Succ(here)[j]
    BY <1>1 DEF SuccSet
  <2> QED
    BY <2>1, <1>1, <1>2, <1>3, ForkPlaces, NestAssumption
<1>4. CASE Kind(here) = "term" /\ Home(here) # Main
  <2>1. n = Home(here).sync
    BY <1>1, <1>2, <1>4, Ends, NestAssumption
  <2>2. PICK f \in ForksOf(n) : Opened(f)
    BY <1>1, <1>4, <2>1 DEF TickInv, NestInv, ThreadsOpened
  <2>3. f \in Inner /\ Kind(f) = "fork" /\ Graph[f].sync = n
    BY <2>2 DEF ForksOf, OfKind
  <2>4. n \in Inner /\ Home(n) = Home(f)
    BY <2>3, ForkPlaces, NestAssumption
  <2> QED
    BY <1>1, <1>2, <1>4, <2>1, <2>2, <2>4
<1>5. CASE Kind(here) # "fork" /\ (Kind(here) # "term" \/ Home(here) = Main)
  <2>1. Kind(here) # "sync" \/ n \in Inner
    BY DEF Gives
  <2> QED
    BY <1>1, <1>2, <1>5, <2>1, OtherPlaces, NestAssumption
<1> QED
  BY <1>3, <1>4, <1>5

(* A Fork stays open for the rest of the tick; a step opens the Fork it    *)
(* visits.                                                                 *)
LEMMA OpenedNext ==
  ASSUME TickInv, Step, NEW S, Gives(S), NEW f \in Node
  PROVE  Opened(f)' <=> Opened(f) \/ (f = here /\ Kind(f) = "fork" /\ Lit(f))
<1>1. /\ Lit(f)' <=> Lit(f) \/ f \in S
      /\ Passed(f)' <=> Passed(f) \/ f = here
      /\ f \in S => ~Passed(f) /\ f # here
  BY StepMoves
<1> QED
  BY <1>1 DEF Opened

(* A step that gives control along the arcs of its node, into the places   *)
(* where their targets lie, keeps the invariant's parts about places.      *)
LEMMA KeepsPlaces ==
  ASSUME TickInv, Step, NEW S, Gives(S)
  PROVE  InPlace' /\ ThreadsOpened' /\ ThreadsEnd'
<1>1. /\ mode = "tick" /\ UNCHANGED topo /\ here \in Node
      /\ \A n \in Node : Lit(n)' <=> Lit(n) \/ n \in S
      /\ \A n \in Node : Passed(n)' <=> Passed(n) \/ n = here
      /\ \A n \in S : n \in InTopo(Len(topo)) /\ ~Passed(n) /\ n # here
  BY StepMoves
<1>2. InPlace /\ ThreadsOpened /\ ThreadsEnd
  BY <1>1 DEF TickInv, NestInv
<1>3. InPlace'
  <2> SUFFICES ASSUME NEW n \in Node, Lit(n)'
               PROVE  n \in InTopo(Len(topo))' /\ n \in Inner
    BY DEF InPlace
  <2>1. n \in InTopo(Len(topo)) /\ n \in Inner
    BY <1>1, <1>2, HandedOn DEF InPlace
  <2> QED
    BY <2>1, <1>1 DEF InTopo
<1>4. \A f \in Node : Opened(f) => Opened(f)'
  BY OpenedNext
<1>5. ASSUME NEW s, \E f \in ForksOf(s) : Opened(f)
      PROVE  \E f \in ForksOf(s) : Opened(f)'
  BY <1>4, <1>5, Places, NestAssumption DEF ForksOf
<1>6. ThreadsOpened'
  <2> SUFFICES ASSUME NEW n \in Node, Lit(n)'
               PROVE  /\ Home(n) # Main => \E f \in ForksOf(Home(n).sync) : Opened(f)'
                      /\ Kind(n) = "sync" => \E f \in ForksOf(n) : Opened(f)'
    BY DEF ThreadsOpened
  <2>1. CASE Lit(n)
    BY <2>1, <1>2, <1>5 DEF ThreadsOpened
  <2>2. CASE n \in S
    <3>1. here \in Inner /\ Lit(here) /\ n \in Inner
      BY <2>2, HandedOn
    <3>2. CASE Kind(here) = "fork"
      <4>1. PICK j \in DOMAIN Succ(here) : n = Succ(here)[j] /\ Home(n) = PlaceOf(here, j)
        BY <2>2, <3>2, HandedOn
      <4>2. Home(n).sync = Graph[here].sync /\ Kind(n) # "sync" /\ here \in ForksOf(Graph[here].sync)
        BY <4>1, <3>1, <3>2, ForkPlaces, NestAssumption
      <4>3. PICK f \in Node : f = here
        BY <1>1
      <4>4. Opened(f)'
        BY <3>1, <3>2, <4>3, OpenedNext
      <4> QED
        BY <4>2, <4>3, <4>4
    <3>3. CASE Kind(here) = "term" /\ Home(here) # Main
      <4>1. PICK f \in ForksOf(n) : Opened(f) /\ Home(n) = Home(f)
        BY <2>2, <3>3, HandedOn
      <4>2. f \in Node /\ Lit(f)
        BY <4>1, Places, NestAssumption DEF ForksOf, Opened
      <4>3. Home(f) # Main => \E g \in ForksOf(Home(f).sync) : Opened(g)
        BY <4>2, <1>2 DEF ThreadsOpened
      <4> QED
        BY <4>1, <4>3, <1>5
    <3>4. CASE Kind(here) # "fork" /\ (Kind(here) # "term" \/ Home(here) = Main)
      <4>1. Home(n) = Home(here) /\ Kind(n) # "sync"
        BY <2>2, <3>4, HandedOn
      <4> QED
        BY <4>1, <3>1, <1>1, <1>2, <1>5 DEF ThreadsOpened
    <3> QED
      BY <3>2, <3>3, <3>4
  <2> QED
    BY <2>1, <2>2, <1>1
<1>7. ThreadsEnd'
  <2> SUFFICES ASSUME NEW n \in Node, Lit(n)', Passed(n)', Kind(n) = "term", Home(n) # Main
               PROVE  Lit(Home(n).sync)'
    BY DEF ThreadsEnd
  <2>1. Lit(n) /\ (Passed(n) \/ n = here) /\ n \in Inner
    BY <1>1, <1>2 DEF InPlace
  <2>2. Home(n).sync \in Node /\ SuccSet(n) = {Home(n).sync}
    BY <2>1, Ends, NestAssumption, Arcs
  <2>3. Passed(n) => Lit(Home(n).sync)
    BY <2>1, <1>2 DEF ThreadsEnd
  <2>4. n = here => Home(n).sync \in S
    BY <2>1, <2>2 DEF Gives
  <2> QED
    BY <2>1, <2>2, <2>3, <2>4, <1>1
<1> QED
  BY <1>3, <1>6, <1>7

(* How control moves.  What has control keeps it unless it is visited, or  *)
(* is the Fork of the Sync that is visited; a visited node keeps control   *)
(* when it is a Fork or an end; what gains control was given it now.       *)
LEMMA ControlMoves ==
  ASSUME TickInv, Step, NEW S, Gives(S), NEW n \in Inner
  PROVE  /\ HasControl(n) /\ n # here /\ ~(Kind(n) = "fork" /\ Graph[n].sync = here) => HasControl(n)'
         /\ n \in S /\ Kind(n) # "sync" => HasControl(n)'
         /\ n = here /\ Lit(n) =>
              (HasControl(n)' <=> \/ Kind(n) = "term" /\ Home(n) # Main
                                  \/ Kind(n) = "pass" /\ Succ(n) = <<>>
                                  \/ Kind(n) = "fork")
         /\ HasControl(n)' /\ n # here => HasControl(n) \/ (n \in S /\ Kind(n) # "sync")
         /\ HasControl(n)' => Lit(n) \/ n \in S
         /\ HasControl(n)' /\ Kind(n) = "fork" => Graph[n].sync # here
<1>1. /\ mode = "tick" /\ pos > 0 /\ n \in Node
      /\ Lit(n)' <=> Lit(n) \/ n \in S
      /\ \A m \in Node : Passed(m)' <=> Passed(m) \/ m = here
      /\ n \in S => ~Passed(n) /\ n # here
      /\ here \in InTopo(Len(topo)) /\ ~Passed(here)
  BY StepMoves, Places, NestAssumption
<1>2. ASSUME Kind(n) = "fork"
      PROVE  /\ Graph[n].sync \in Node
             /\ n = here => Graph[n].sync # here /\ ~Passed(Graph[n].sync)
             /\ Lit(n) \/ n \in S => n \in InTopo(Len(topo))
             /\ n \in InTopo(Len(topo)) /\ Graph[n].sync = here => Passed(n)
  <2>1. Graph[n].sync \in Node /\ Kind(Graph[n].sync) = "sync"
    BY <1>2, ForkPlaces, NestAssumption, Places
  <2>2. n = here => Graph[n].sync # here
    BY <1>2, <2>1
  <2>3. n \in InTopo(Len(topo)) /\ (Graph[n].sync = here \/ Passed(Graph[n].sync)) => Passed(n)
    BY <1>1, <1>2, ThreadsPassed DEF TickInv
  <2>4. Lit(n) \/ n \in S => n \in InTopo(Len(topo))
    BY <1>1, StepMoves DEF TickInv, NestInv, InPlace
  <2> QED
    BY <1>1, <2>1, <2>2, <2>3, <2>4
<1>3. Passed(n)' <=> Passed(n) \/ n = here
  BY <1>1
<1>4. ASSUME Kind(n) = "fork"
      PROVE  Passed(Graph[n].sync)' <=> Passed(Graph[n].sync) \/ Graph[n].sync = here
  BY <1>1, <1>2, <1>4
<1>5. HasControl(n)' <=> /\ Lit(n)'
                         /\ ~Passed(n)' => Kind(n) # "sync"
                         /\ Passed(n)' => \/ Kind(n) = "term" /\ Home(n) # Main
                                          \/ Kind(n) = "pass" /\ Succ(n) = <<>>
                                          \/ Kind(n) = "fork" /\ ~Passed(Graph[n].sync)'
  BY DEF HasControl
<1>6. HasControl(n) /\ n # here /\ ~(Kind(n) = "fork" /\ Graph[n].sync = here) => HasControl(n)'
  BY <1>1, <1>2, <1>3, <1>4, <1>5 DEF HasControl
<1>7. n \in S /\ Kind(n) # "sync" => HasControl(n)'
  BY <1>1, <1>3, <1>5
<1>8. n = here /\ Lit(n) =>
        (HasControl(n)' <=> \/ Kind(n) = "term" /\ Home(n) # Main
                            \/ Kind(n) = "pass" /\ Succ(n) = <<>>
                            \/ Kind(n) = "fork")
  BY <1>1, <1>2, <1>3, <1>4, <1>5
<1>9. HasControl(n)' /\ n # here => HasControl(n) \/ (n \in S /\ Kind(n) # "sync")
  BY <1>1, <1>3, <1>4, <1>5 DEF HasControl
<1>10. HasControl(n)' => Lit(n) \/ n \in S
  BY <1>1, <1>5
<1>11. HasControl(n)' /\ Kind(n) = "fork" => Graph[n].sync # here
  <2> SUFFICES ASSUME HasControl(n)', Kind(n) = "fork", Graph[n].sync = here PROVE FALSE
    OBVIOUS
  <2>1. Passed(n) /\ Passed(Graph[n].sync)'
    BY <1>2, <1>4, <1>10
  <2> QED
    BY <2>1, <1>3, <1>5
<1> QED
  BY <1>6, <1>7, <1>8, <1>9, <1>10, <1>11

(* No place loses its control.                                             *)
LEMMA KeepsCarried ==
  ASSUME TickInv, Step, NEW S, Gives(S)
  PROVE  AllCarried'
<1>1. /\ mode = "tick" /\ pos > 0 /\ here \in Node /\ ~Passed(here)
      /\ \A n \in Node : Lit(n)' <=> Lit(n) \/ n \in S
  BY StepMoves
<1>2. AllCarried /\ InPlace
  BY <1>1 DEF TickInv, NestInv
<1>3. ASSUME here \in Inner, Lit(here), SuccSet(here) # {},
             Kind(here) # "fork", Kind(here) # "term" \/ Home(here) = Main,
             NEW p, p = Home(here)
      PROVE  Carries(p)'
  <2>1. PICK m \in S : TRUE
    BY <1>3 DEF Gives
  <2>2. m \in Inner /\ Home(m) = Home(here) /\ Kind(m) # "sync"
    BY <1>3, HandedOn
  <2>3. HasControl(m)'
    BY <2>2, ControlMoves
  <2> QED
    BY <2>2, <2>3, <1>3 DEF Carries
<1>4. ASSUME NEW p, Carries(p)
      PROVE  Carries(p)'
  <2>1. PICK n \in Inner : Home(n) = p /\ HasControl(n)
    BY <1>4 DEF Carries
  <2>2. CASE Kind(n) = "fork" /\ Graph[n].sync = here
    <3>1. /\ here \in Inner /\ Kind(here) = "sync" /\ Home(here) = Home(n) /\ n \in ForksOf(here)
      BY <2>2, ForkPlaces, NestAssumption
    <3>2. Opened(n)
      <4>1. n \in InTopo(Len(topo)) /\ Lit(n)
        BY <2>1, <1>2, Places, NestAssumption DEF HasControl, InPlace
      <4>2. Passed(n)
        BY <4>1, <2>2, <1>1, ThreadsPassed DEF TickInv
      <4> QED
        BY <4>1, <4>2, <2>2 DEF Opened
    <3>3. Lit(here)
      BY <3>1, <3>2, <1>1, SyncReady
    <3>4. SuccSet(here) # {}
      BY <3>1, NestAssumption DEF Nested
    <3>5. p = Home(here)
      BY <3>1, <2>1
    <3> QED
      BY <3>1, <3>3, <3>4, <3>5, <1>3
  <2>3. CASE n = here
    <3>1. Lit(n)
      BY <2>1 DEF HasControl
    <3>2. CASE Kind(n) = "fork" \/ (Kind(n) = "term" /\ Home(n) # Main)
               \/ (Kind(n) = "pass" /\ Succ(n) = <<>>)
      <4>1. HasControl(n)'
        BY <2>3, <3>1, <3>2, ControlMoves
      <4> QED
        BY <4>1, <2>1 DEF Carries
    <3>3. CASE ~(Kind(n) = "fork" \/ (Kind(n) = "term" /\ Home(n) # Main)
                 \/ (Kind(n) = "pass" /\ Succ(n) = <<>>))
      <4>1. SuccSet(n) # {}
        BY <3>3, Ends, NestAssumption
      <4>2. p = Home(here)
        BY <2>1, <2>3
      <4> QED
        BY <2>3, <3>1, <3>3, <4>1, <4>2, <1>3
    <3> QED
      BY <3>2, <3>3
  <2>4. CASE n # here /\ ~(Kind(n) = "fork" /\ Graph[n].sync = here)
    <3>1. HasControl(n)'
      BY <2>1, <2>4, ControlMoves
    <3> QED
      BY <3>1, <2>1 DEF Carries
  <2> QED
    BY <2>2, <2>3, <2>4
<1>5. ASSUME NEW f \in Inner, Opened(f)', NEW j \in DOMAIN Succ(f)
      PROVE  Carries(PlaceOf(f, j))'
  <2>1. CASE Opened(f)
    BY <2>1, <1>2, <1>4 DEF AllCarried
  <2>2. CASE ~Opened(f)
    <3>1. f = here /\ Kind(f) = "fork" /\ Lit(f)
      BY <2>2, <1>5, Places, NestAssumption, OpenedNext
    <3>2. PICK m : m = Succ(f)[j]
      OBVIOUS
    <3>3. m \in S /\ m \in Inner /\ Kind(m) # "sync" /\ Home(m) = PlaceOf(f, j)
      BY <3>1, <3>2, ForkPlaces, NestAssumption DEF Gives
    <3>4. HasControl(m)'
      BY <3>3, ControlMoves
    <3> QED
      BY <3>3, <3>4 DEF Carries
  <2> QED
    BY <2>1, <2>2
<1>6. Carries(Main)'
  BY <1>2, <1>4 DEF AllCarried
<1> QED
  BY <1>5, <1>6 DEF AllCarried

(* In a two-valued tick no place is given control twice.                   *)
LEMMA KeepsOne ==
  ASSUME TickInv, Step, NEW S, Gives(S)
  PROVE  OneCarries'
<1> SUFFICES ASSUME ~ternary', NEW n \in Inner, NEW m \in Inner, HasControl(n)',
                    HasControl(m)', Home(n) = Home(m), n # m
             PROVE  FALSE
  BY DEF OneCarries
<1>1. /\ mode = "tick" /\ pos > 0 /\ here \in Node /\ ~Passed(here)
      /\ here \in InTopo(Len(topo))
  BY StepMoves
<1>2. /\ InPlace /\ ThreadsOpened /\ SimInv
      /\ \A a, b \in Inner : HasControl(a) /\ HasControl(b) /\ Home(a) = Home(b) => a = b
  BY <1>1 DEF TickInv, NestInv, OneCarries, Gives
<1>3. ASSUME NEW q \in Inner, HasControl(q)', q # here
      PROVE  HasControl(q) \/ (q \in S /\ Kind(q) # "sync")
  BY <1>3, ControlMoves
<1>4. ASSUME here \in Inner, Lit(here), Kind(here) # "sync"
      PROVE  HasControl(here)
  BY <1>1, <1>4 DEF HasControl
<1>5. ASSUME NEW a \in Inner, NEW b \in Inner, HasControl(a)', HasControl(b)',
             Home(a) = Home(b), a # b, a \in S, Kind(a) # "sync"
      PROVE  FALSE
  <2>1. here \in Inner /\ Lit(here) /\ a # here
    BY <1>5, HandedOn, StepMoves
  <2>2. CASE Kind(here) = "fork"
    <3>1. PICK j \in DOMAIN Succ(here) : a = Succ(here)[j] /\ Home(a) = PlaceOf(here, j)
      BY <2>2, <1>5, HandedOn
    <3>2. /\ Home(a) # Main /\ Home(a).sync = Graph[here].sync
          /\ Home(Graph[here].sync) = Home(here) /\ Graph[here].sync \in Inner
      BY <2>1, <2>2, <3>1, ForkPlaces, NestAssumption
    <3>3. HasControl(here) /\ ~Passed(Graph[here].sync)
      <4>1. ~Passed(Graph[here].sync)
        BY <1>1, <1>2, <2>1, <2>2, ThreadsPassed
      <4> QED
        BY <4>1, <2>1, <2>2, <1>4
    <3>4. CASE b \in S
      <4>1. PICK k \in DOMAIN Succ(here) : b = Succ(here)[k] /\ Home(b) = PlaceOf(here, k)
        BY <2>2, <3>4, HandedOn
      <4>2. j - 1 = k - 1
        BY <3>1, <4>1, <1>5 DEF PlaceOf
      <4>3. j \in Nat /\ k \in Nat
        BY <3>1, <4>1, <1>1, Arcs
      <4> QED
        BY <4>2, <4>3, <3>1, <4>1, <1>5
    <3>5. CASE b = here \/ HasControl(b)
      <4>0. Lit(b) /\ b \in Node
        BY <3>5, <2>1, Places, NestAssumption DEF HasControl
      <4>1. PICK f \in ForksOf(Graph[here].sync) : Opened(f)
        BY <4>0, <3>2, <1>2, <1>5 DEF ThreadsOpened
      <4>2. f \in Inner /\ Kind(f) = "fork" /\ Graph[f].sync = Graph[here].sync
        BY <4>1 DEF ForksOf, OfKind
      <4>3. HasControl(f)
        BY <4>1, <4>2, <3>3 DEF HasControl, Opened
      <4>4. Home(f) = Home(here)
        BY <4>2, <3>2, ForkPlaces, NestAssumption
      <4>5. f = here
        BY <4>2, <4>3, <4>4, <3>3, <2>1, <1>2
      <4> QED
        BY <4>1, <4>5, <1>1 DEF Opened
    <3> QED
      BY <3>4, <3>5, <1>3, <1>5
  <2>3. CASE Kind(here) # "fork"
    <3>1. \A x, y \in S : x = y
      BY <2>3 DEF Gives
    <3>2. Kind(here) # "term" \/ Home(here) = Main
      <4>1. CASE Kind(here) = "term" /\ Home(here) # Main
        <5>1. PICK f \in ForksOf(a) : Opened(f)
          BY <4>1, <1>5, HandedOn
        <5>2. Kind(a) = "sync"
          BY <5>1, ForkPlaces, NestAssumption DEF ForksOf, OfKind
        <5> QED
          BY <5>2, <1>5
      <4> QED
        BY <4>1
    <3>3. Home(a) = Home(here)
      BY <2>3, <3>2, <1>5, HandedOn
    <3>4. b \notin S
      BY <3>1, <1>5
    <3>5. CASE b = here
      <4>1. Kind(b) = "pass" /\ Succ(b) = <<>>
        BY <3>5, <2>1, <2>3, <3>2, <1>5, ControlMoves
      <4>2. SuccSet(here) = {}
        BY <4>1, <3>5 DEF SuccSet
      <4> QED
        BY <4>2, <1>5 DEF Gives
    <3>6. CASE b # here
      <4>1. HasControl(b)
        BY <3>6, <3>4, <1>3, <1>5
      <4>2. CASE Kind(here) # "sync"
        BY <4>1, <4>2, <3>3, <3>6, <2>1, <1>2, <1>4, <1>5
      <4>3. CASE Kind(here) = "sync"
        <5>1. PICK f \in ForksOf(here) : Opened(f)
          BY <4>3, <2>1, <1>1, <1>2 DEF ThreadsOpened
        <5>2. f \in Inner /\ Kind(f) = "fork" /\ Graph[f].sync = here
          BY <5>1 DEF ForksOf, OfKind
        <5>3. HasControl(f) /\ Home(f) = Home(here)
          <6>1. HasControl(f)
            BY <5>1, <5>2, <1>1 DEF HasControl, Opened
          <6> QED
            BY <6>1, <5>2, ForkPlaces, NestAssumption
        <5>4. b = f
          BY <5>2, <5>3, <4>1, <3>3, <1>2, <1>5
        <5> QED
          BY <5>2, <5>4, <1>5, ControlMoves
      <4> QED
        BY <4>2, <4>3
    <3> QED
      BY <3>5, <3>6
  <2> QED
    BY <2>2, <2>3
<1>6. CASE n \in S /\ Kind(n) # "sync"
  BY <1>5, <1>6
<1>7. CASE m \in S /\ Kind(m) # "sync"
  BY <1>5, <1>7
<1>8. CASE (n = here \/ HasControl(n)) /\ (m = here \/ HasControl(m))
  <2>1. ASSUME NEW q \in Inner, q = here, HasControl(q)', q \notin S
        PROVE  HasControl(q)
    <3>1. Lit(q)
      BY <2>1, ControlMoves
    <3>2. Kind(q) # "sync"
      BY <2>1, <3>1, ControlMoves
    <3> QED
      BY <2>1, <3>1, <3>2, <1>4
  <2>2. here \notin S
    BY StepMoves
  <2> QED
    BY <2>1, <2>2, <1>2, <1>8
<1> QED
  BY <1>3, <1>6, <1>7, <1>8

(* A tick starts with the control of the main place at Root.               *)
LEMMA StartsNest ==
  ASSUME SimInv, NEW in \in [Input -> Control], TickStart(in)
  PROVE  NestInv'
<1>1. /\ mode = "idle" /\ pos' = Len(topo) /\ UNCHANGED topo
      /\ sched' = [n \in Node |-> IF n = topo[Len(topo)] THEN On ELSE Off]
  BY DEF TickStart, dfsVars
<1>2. topo # <<>> /\ topo[Len(topo)] = Root /\ topo \in Seq(Node)
  BY <1>1 DEF SimInv, ModeInv, SearchInv, RootInv, DfsTypeOK
<1>3. Len(topo) \in Nat /\ DOMAIN topo = 1..Len(topo) /\ Len(topo) \in DOMAIN topo
  BY <1>2
<1>4. \A n \in Node : Lit(n)' <=> n = Root
  BY <1>1, <1>2 DEF Lit, On, Off
<1>5. \A n : ~Passed(n)'
  BY <1>1, <1>3 DEF Passed
<1>6. Root \in InTopo(Len(topo))' /\ Root \in Node
  BY <1>1, <1>2, <1>3, Places, NestAssumption DEF InTopo
<1>7. InPlace' /\ ThreadsOpened' /\ ThreadsEnd'
  BY <1>4, <1>5, <1>6, Places, NestAssumption DEF InPlace, ThreadsOpened, ThreadsEnd
<1>8. HasControl(Root)'
  BY <1>4, <1>5, <1>6, Places, NestAssumption DEF HasControl
<1>9. AllCarried'
  BY <1>5, <1>8, Places, NestAssumption DEF AllCarried, Carries, Opened
<1>10. OneCarries'
  BY <1>4, Places, NestAssumption DEF OneCarries, HasControl
<1> QED
  BY <1>7, <1>9, <1>10 DEF NestInv

(* Before the first tick nothing runs.                                     *)
LEMMA TickStarts == Init => TickInv
BY SimStarts DEF Init, TickInv, TwoValued, NestInv

(* The start of a tick, each visit and its end keep the invariant.         *)
LEMMA TickKeeps == SimInv' /\ TwoValued' /\ TickInv /\ [Next]_vars => TickInv'
<1> SUFFICES ASSUME SimInv', TwoValued', TickInv, [Next]_vars
             PROVE  NestInv'
  BY DEF TickInv
<1>1. CASE UNCHANGED vars
  <2>1. UNCHANGED <<mode, pos, sched, ternary, topo>>
    BY <1>1 DEF vars, simVars, dfsVars
  <2> QED
    BY <2>1 DEF TickInv, NestInv, InPlace, ThreadsOpened, ThreadsEnd, AllCarried, OneCarries,
                Carries, HasControl, Opened, Lit, Passed, InTopo
<1>2. CASE Step
  <2>1. PICK S : Gives(S)
    BY <1>2, StepGives
  <2> QED
    BY <1>2, <2>1, KeepsPlaces, KeepsCarried, KeepsOne DEF NestInv
<1>3. ASSUME NEW in \in [Input -> Control], TickStart(in)
      PROVE  NestInv'
  BY <1>3, StartsNest DEF TickInv
<1>4. CASE Order \/ TickEnd \/ Stop
  <2>1. mode' # "tick"
    BY <1>4 DEF Order, TickEnd, Stop
  <2> QED
    BY <2>1 DEF NestInv
<1> QED
  BY <1>1, <1>2, <1>3, <1>4 DEF Next, Halted

(* The invariant holds in every state of the simulator.                    *)
LEMMA TickIsSound == Spec => []TickInv
BY TickStarts, TickKeeps, SimIsSound, SimIsTwoValued, PTL DEF Spec

(* A Sync of a two-valued tick joins every thread: each has run exactly    *)
(* one of its Terminates.                                                  *)
THEOREM SyncJoins == Spec => []JoinsEveryThread
<1>1. ASSUME TickInv
      PROVE  JoinsEveryThread
  <2> SUFFICES ASSUME At("sync"), ~ternary, NEW d \in Data(here)
               PROVE  Cardinality({t \in Data(here) : Thread(t) = Thread(d) /\ sched[t] = On}) = 1
    BY DEF JoinsEveryThread
  <2>1. /\ mode = "tick" /\ pos > 0 /\ Kind(here) = "sync" /\ Lit(here)
        /\ here \in Node
    BY <1>1, HereFacts DEF At, Lit, cc, TickInv
  <2>2. /\ InPlace /\ ThreadsOpened /\ OneCarries /\ TwoValued /\ SimInv /\ here \in Inner
        /\ sched \in [Node -> Control]
    BY <1>1, <2>1 DEF TickInv, NestInv, InPlace, SimInv, TypeOK
  <2>3. PICK f \in ForksOf(here) : Opened(f)
    BY <2>1, <2>2 DEF ThreadsOpened
  <2>4. Thread(d) + 1 \in DOMAIN Succ(f) /\ Thread(d) \in Nat /\ Data(here) \subseteq Node
    BY <2>1, <2>2, NestAssumption, Fields, ThreadNumbers DEF OfKind, Nested
  <2>5. PICK t \in Data(here) \cap Inner : Lit(t) /\ Thread(t) = (Thread(d) + 1) - 1
    BY <1>1, <2>1, <2>3, <2>4, SyncReady
  <2>6. ASSUME NEW u \in Data(here), sched[u] = On
        PROVE  u \in Inner /\ HasControl(u) /\ Home(u) = [sync |-> here, thread |-> Thread(u)]
    <3>1. u \in Node /\ Lit(u) /\ Kind(u) = "term"
      BY <2>1, <2>4, <2>6, ArcAssumption DEF Lit, On, Off
    <3>2. u \in Inner /\ u \in InTopo(Len(topo))
      BY <3>1, <2>2 DEF InPlace
    <3>3. Home(u) = [sync |-> here, thread |-> Thread(u)]
      BY <3>2, <2>1, <2>2, NestAssumption DEF OfKind, Nested
    <3>4. Home(u).sync = here /\ Home(u) # Main
      <4>1. here # 0
        BY <2>1, Arcs
      <4> QED
        BY <3>3, <4>1 DEF Main
    <3>5. Passed(u)
      BY <3>2, <3>4, <2>1, <2>2, ThreadsPassed
    <3> QED
      BY <3>1, <3>2, <3>3, <3>4, <3>5 DEF HasControl
  <2>7. sched[t] = On
    BY <2>1, <2>2, <2>4, <2>5 DEF TwoValued, Lit, Control
  <2>8. ASSUME NEW u \in Data(here), Thread(u) = Thread(d), sched[u] = On
        PROVE  u = t
    <3>1. Thread(t) = Thread(u)
      BY <2>4, <2>5, <2>8
    <3>2. /\ u \in Inner /\ HasControl(u) /\ t \in Inner /\ HasControl(t)
          /\ Home(u) = Home(t)
      BY <2>5, <2>6, <2>7, <2>8, <3>1
    <3> QED
      BY <3>2, <2>2 DEF OneCarries
  <2>9. {u \in Data(here) : Thread(u) = Thread(d) /\ sched[u] = On} = {t}
    BY <2>4, <2>5, <2>7, <2>8
  <2> QED
    BY <2>9, FS_Singleton
<1> QED
  BY <1>1, TickIsSound, PTL

(* No tick loses its control: when the last node was visited, an ExitGRC   *)
(* has been reached.                                                       *)
THEOREM TickReachesExit == Spec => []ControlReachesExit
<1>1. ASSUME TickInv
      PROVE  ControlReachesExit
  <2> SUFFICES ASSUME mode = "tick", pos = 0
               PROVE  \E n \in OfKind("pass") : Succ(n) = <<>> /\ sched[n] # Off
    BY DEF ControlReachesExit
  <2>1. InPlace /\ AllCarried /\ SimInv
    BY <1>1 DEF TickInv, NestInv
  <2>2. PICK n \in Inner : Home(n) = Main /\ HasControl(n)
    BY <2>1 DEF AllCarried, Carries
  <2>3. n \in Node /\ Lit(n) /\ n \in InTopo(Len(topo))
    BY <2>1, <2>2, Places, NestAssumption DEF InPlace, HasControl
  <2>4. \A m \in InTopo(Len(topo)) : Passed(m)
    BY <2>1, Position DEF InTopo
  <2>5. Kind(n) = "fork" => Passed(Graph[n].sync)
    <3> SUFFICES ASSUME Kind(n) = "fork" PROVE Passed(Graph[n].sync)
      OBVIOUS
    <3>1. PICK i \in DOMAIN topo : topo[i] = n
      BY <2>1, <2>3, Position DEF InTopo
    <3>2. Graph[n].sync \in InTopo(i - 1)
      BY <3>1, <2>1, SyncFirst
    <3>3. InTopo(i - 1) \subseteq InTopo(Len(topo))
      BY <2>1, Position DEF InTopo
    <3> QED
      BY <3>2, <3>3, <2>4
  <2>6. Kind(n) = "pass" /\ Succ(n) = <<>>
    BY <2>2, <2>3, <2>4, <2>5 DEF HasControl
  <2> QED
    BY <2>3, <2>6 DEF OfKind, Lit
<1> QED
  BY <1>1, TickIsSound, PTL

=============================================================================
