-------------------------- MODULE GRCsimCover_proofs --------------------------
(***************************************************************************)
(* The three-valued tick is sound: for every graph whose tests are plain   *)
(* loads, what a run with unknown inputs takes for certain holds of every  *)
(* run with known inputs that it stands for (CoverIsSound).                *)
(*                                                                         *)
(* The tick of the first run has a meaning that no order is part of.  In a *)
(* graph that the search finds an order for, the equations of a tick have  *)
(* one solution at most (OneSolution), by induction down topo; and what    *)
(* has run when the tick is over is one (TickSolves).  The invariant of    *)
(* this is LogicInv: at every node of the tick, what is On is what the     *)
(* visited nodes hand control to (Reasons), what is present is what they   *)
(* emit, and each entry of nextstate is the child of the last Enter among  *)
(* them (Marks).  Nothing that a visited node has read changes any more,   *)
(* as the order of the nodes follows control and data.                     *)
(***************************************************************************)
EXTENDS GRCsimCover, GRCsim_proofs

(* The first of the two runs is a run of the simulator.                    *)
LEMMA CoverRuns == CoverSpec => Spec
<1>1. CoverInit => Init
  BY DEF CoverInit
<1>2. [CoverNext]_coverVars => [Next]_vars
  <2>1. CoverNext => Next \/ UNCHANGED vars
    BY DEF CoverNext, CoverStarts, CoverOrder, CoverStart, CoverStep, CoverEnd, CoverStop, CoverHalted,
           Next, Known, Control, On, Off, Unk
  <2>2. UNCHANGED coverVars => UNCHANGED vars
    BY DEF coverVars
  <2> QED
    BY <2>1, <2>2
<1> QED
  BY <1>1, <1>2, PTL DEF CoverSpec, Spec

(* Beside Covers: the known run stays known, and the other keeps its types.*)
CoverInv ==
  /\ ~ternary
  /\ msched \in [Node -> Control] /\ msignals \in [Signal -> Control]
  /\ Covers

(* The facts about the two runs inside a tick.                             *)
LEMMA BothHere ==
  ASSUME SimInv, TwoValued, CoverInv, mode = "tick", pos > 0
  PROVE  /\ here \in Node /\ cc \in {On, Off} /\ May!cc \in Control
         /\ Stands(May!cc, cc)
         /\ sched \in [Node -> {On, Off}] /\ signals \in [Signal -> {On, Off}]
         /\ msched \in [Node -> Control] /\ msignals \in [Signal -> Control]
         /\ \A n \in Node : Stands(msched[n], sched[n])
         /\ \A s \in Signal : Stands(msignals[s], signals[s])
<1>1. here \in Node
  BY HereFacts
<1>2. sched \in [Node -> Control] /\ signals \in [Signal -> Control]
  BY DEF SimInv, TypeOK
<1>3. sched \in [Node -> {On, Off}] /\ signals \in [Signal -> {On, Off}]
  BY <1>2 DEF CoverInv, TwoValued, Control
<1>4. cc = sched[here] /\ May!cc = msched[here]
  BY DEF cc, May!cc, here, May!here
<1> QED
  BY <1>1, <1>3, <1>4 DEF CoverInv, Covers

(* Values are compared with On, Off and Unk alone.                         *)
LEMMA Values == Off # On /\ Off # Unk /\ On # Unk
BY DEF On, Off, Unk

(* The graph is the same in both runs.                                     *)
LEMMA Same ==
  /\ May!Node = Node /\ May!On = On /\ May!Off = Off /\ May!Unk = Unk /\ May!here = here
  /\ \A n : /\ May!Kind(n) = Kind(n) /\ May!Sig(n) = Sig(n) /\ May!Reads(n) = Reads(n)
            /\ May!Succ(n) = Succ(n) /\ May!SuccSet(n) = SuccSet(n)
            /\ May!Data(n) = Data(n) /\ May!Level(n) = Level(n) /\ May!Code(n) = Code(n)
<1>1. May!Node = Node /\ May!On = On /\ May!Off = Off /\ May!Unk = Unk /\ May!here = here
  BY DEF May!Node, Node, May!On, On, May!Off, Off, May!Unk, Unk, May!here, here
<1>2. \A n : /\ May!Kind(n) = Kind(n) /\ May!Sig(n) = Sig(n) /\ May!Reads(n) = Reads(n)
             /\ May!Succ(n) = Succ(n) /\ May!Data(n) = Data(n) /\ May!Code(n) = Code(n)
  BY DEF May!Kind, Kind, May!Sig, Sig, May!Reads, Reads, May!Succ, Succ, May!Data, Data,
         May!Code, Code
<1>3. \A n : May!SuccSet(n) = SuccSet(n)
  BY <1>2 DEF May!SuccSet, SuccSet
<1>4. \A n : May!Level(n) = Level(n)
  BY <1>2 DEF May!Level, Level
<1> QED
  BY <1>1, <1>2, <1>3, <1>4

(* Giving more nodes a value that stands for the other, or a value that    *)
(* stands for every other, keeps one run standing for the other.           *)
LEMMA ScheduleStands ==
  ASSUME NEW S, NEW T, NEW mc \in {On, Unk},
         sched \in [Node -> {On, Off}], msched \in [Node -> Control],
         \A n \in Node : Stands(msched[n], sched[n]),
         S \subseteq T, mc = On => S = T
  PROVE  \A n \in Node : Stands(May!Schedule(T, mc)[n], Schedule(S, On)[n])
BY Values, Same DEF Stands, Schedule, May!Schedule, Control

(* Scheduling under an unknown control value stands for scheduling         *)
(* nothing.                                                                *)
LEMMA MayScheduleStands ==
  ASSUME NEW T, sched \in [Node -> {On, Off}], msched \in [Node -> Control],
         \A n \in Node : Stands(msched[n], sched[n])
  PROVE  \A n \in Node : Stands(May!Schedule(T, Unk)[n], sched[n])
BY Values, Same DEF Stands, May!Schedule, Control

(* The two runs visit here; which of their actions do depends on its kind. *)
Both ==
  /\ Supported /\ DefinedFirst /\ SimInv /\ TwoValued /\ CoverInv
  /\ mode = "tick" /\ pos > 0 /\ Step /\ May!Step

(* Each of the two runs visits the node or skips it.                       *)
LEMMA BothSteps ==
  ASSUME Both
  PROVE  /\ cc = Off => Skip
         /\ cc = On => Visit
         /\ May!cc = Off => May!Skip
         /\ May!cc # Off => May!Visit
<1>1. cc = Off => Skip
  BY DEF Both, Step, Visit, VisitPlain, VisitSync, VisitTest, VisitSwitch, VisitEnter, VisitEmit,
         VisitExit, VisitDefine, At
<1>2. cc = On => Visit
  BY Values DEF Both, Step, Skip
<1>3. May!cc = Off => May!Skip
  BY Same DEF Both, May!Step, May!Visit, May!VisitPlain, May!VisitSync, May!VisitTest,
         May!VisitSwitch, May!VisitEnter, May!VisitEmit, May!VisitExit, May!VisitDefine, May!At
<1>4. May!cc # Off => May!Visit
  BY Same DEF Both, May!Step, May!Skip
<1> QED
  BY <1>1, <1>2, <1>3, <1>4

(* The second run schedules with its own control value, or with Unk.       *)
LEMMA MaySchedules ==
  ASSUME Both, May!Visit
  PROVE  /\ May!cc \in {On, Unk}
         /\ \E T : \/ msched' = May!Schedule(T, May!cc)
                   \/ msched' = May!Schedule(T, Unk)
<1>1. May!cc \in Control /\ May!cc # Off
  BY BothHere, Same DEF Both, May!Visit, May!VisitPlain, May!VisitSync, May!VisitTest,
         May!VisitSwitch, May!VisitEnter, May!VisitEmit, May!VisitExit, May!VisitDefine, May!At
<1>2. May!cc \in {On, Unk}
  BY <1>1 DEF Control
<1>3. CASE May!VisitSync
  <2>1. \E T : \E c \in {Unk, May!cc} : msched' = May!Schedule(T, c)
    BY <1>3, Same DEF May!VisitSync
  <2> QED
    BY <2>1, <1>2
<1>4. CASE May!VisitTest
  <2>1. \E T : \E c \in {Unk, May!cc} : msched' = May!Schedule(T, c)
    BY <1>4, Same DEF May!VisitTest
  <2> QED
    BY <2>1, <1>2
<1> QED
  BY <1>2, <1>3, <1>4, Same DEF May!Visit, May!VisitPlain, May!VisitSwitch, May!VisitEnter,
         May!VisitEmit, May!VisitExit, May!VisitDefine

(* Statuses: an Emit or an Exit that may run makes its signal unknown; a   *)
(* Define that may run finds it Off already.                               *)
LEMMA SignalsStand ==
  ASSUME Both
  PROVE  /\ msignals' \in [Signal -> Control]
         /\ \A s \in Signal : Stands(msignals'[s], signals'[s])
<1>1. /\ here \in Node /\ cc \in {On, Off} /\ May!cc \in Control /\ Stands(May!cc, cc)
      /\ signals \in [Signal -> {On, Off}] /\ msignals \in [Signal -> Control]
      /\ \A s \in Signal : Stands(msignals[s], signals[s])
  BY BothHere DEF Both
<1>2. CASE Kind(here) \notin {"emit", "exit", "define"}
  <2>1. UNCHANGED signals
    BY <1>2 DEF Both, Step, Skip, Visit, VisitPlain, VisitSync, VisitTest, VisitSwitch, VisitEnter,
         VisitEmit, VisitExit, VisitDefine, At
  <2>2. UNCHANGED msignals
    BY <1>2, Same DEF Both, May!Step, May!Skip, May!Visit, May!VisitPlain, May!VisitSync,
         May!VisitTest, May!VisitSwitch, May!VisitEnter, May!VisitEmit, May!VisitExit,
         May!VisitDefine, May!At
  <2> QED
    BY <2>1, <2>2, <1>1
<1>3. CASE Kind(here) \in {"emit", "exit", "define"}
  <2> DEFINE sg == Sig(here)
  <2>1. sg \in Signal
    BY <1>1, <1>3, Fields
  <2>2. CASE Kind(here) = "emit"
    <3>1. signals' = IF cc = Off \/ signals[sg] = On THEN signals ELSE [signals EXCEPT ![sg] = cc]
      BY <2>2, <1>1, BothSteps DEF Skip, Visit, VisitPlain, VisitSync, VisitTest, VisitSwitch,
             VisitEnter, VisitEmit, VisitExit, VisitDefine, At
    <3>2. msignals' = IF May!cc = Off \/ msignals[sg] = On THEN msignals
                      ELSE [msignals EXCEPT ![sg] = May!cc]
      BY <2>2, BothSteps, Same DEF May!Skip, May!Visit, May!VisitPlain, May!VisitSync,
         May!VisitTest, May!VisitSwitch, May!VisitEnter, May!VisitEmit, May!VisitExit,
         May!VisitDefine, May!At
    <3> QED
      BY <3>1, <3>2, <2>1, <1>1, Values DEF Stands, Control
  <2>3. CASE Kind(here) = "exit"
    <3>1. signals' = IF cc = Off THEN signals ELSE [signals EXCEPT ![sg] = cc]
      BY <2>3, <1>1, BothSteps DEF Skip, Visit, VisitPlain, VisitSync, VisitTest, VisitSwitch,
             VisitEnter, VisitEmit, VisitExit, VisitDefine, At
    <3>2. msignals' = IF May!cc = Off THEN msignals ELSE [msignals EXCEPT ![sg] = May!cc]
      BY <2>3, BothSteps, Same DEF May!Skip, May!Visit, May!VisitPlain, May!VisitSync,
         May!VisitTest, May!VisitSwitch, May!VisitEnter, May!VisitEmit, May!VisitExit,
         May!VisitDefine, May!At
    <3> QED
      BY <3>1, <3>2, <2>1, <1>1, Values DEF Stands, Control
  <2>4. CASE Kind(here) = "define"
    <3>1. msignals[sg] = Off
      BY <2>4, <1>1 DEF Both, DefinedFirst, OfKind
    <3>2. signals[sg] = Off
      BY <3>1, <2>1, <1>1, Values DEF Stands
    <3>3. signals' = signals \/ signals' = [signals EXCEPT ![sg] = Off]
      BY <2>4, <1>1, BothSteps DEF Skip, Visit, VisitPlain, VisitSync, VisitTest, VisitSwitch,
             VisitEnter, VisitEmit, VisitExit, VisitDefine, At
    <3>4. msignals' = msignals \/ msignals' = [msignals EXCEPT ![sg] = Off]
      BY <2>4, BothSteps, Same DEF May!Skip, May!Visit, May!VisitPlain, May!VisitSync,
         May!VisitTest, May!VisitSwitch, May!VisitEnter, May!VisitEmit, May!VisitExit,
         May!VisitDefine, May!At
    <3>5. signals' = signals /\ msignals' = msignals
      BY <3>1, <3>2, <3>3, <3>4, <2>1, <1>1
    <3> QED
      BY <3>5, <1>1
  <2> QED
    BY <2>2, <2>3, <2>4, <1>3
<1> QED
  BY <1>2, <1>3

(* A Sync of the known run leaves at one level, which is one of those that *)
(* the other run may leave at; and if that is certain, it is the only one. *)
LEMMA LevelsStand ==
  ASSUME Both, VisitSync, May!VisitSync, cc = On
  PROVE  \E S, T : \E mc \in {On, Unk} :
           /\ sched' = Schedule(S, On) /\ msched' = May!Schedule(T, mc)
           /\ S \subseteq T /\ (mc = On => S = T)
<1>1. /\ here \in Node /\ May!cc \in Control
      /\ sched \in [Node -> {On, Off}] /\ msched \in [Node -> Control]
      /\ \A n \in Node : Stands(msched[n], sched[n])
  BY BothHere DEF Both
<1>2. Level(here) \subseteq Nat /\ Data(here) \subseteq Node
  BY <1>1, Fields DEF Level
<1>3. \A l \in Level(here) :
        /\ OrAll(here, l) \in {On, Off}
        /\ May!OrAll(here, l) \in Control /\ Stands(May!OrAll(here, l), OrAll(here, l))
  <2>1. ASSUME NEW l \in Level(here)
        PROVE  OrAll(here, l) = IF \E d \in Data(here) : Code(d) = l /\ sched[d] = On
                                THEN On ELSE Off
    BY <1>1, <1>2, Values DEF OrAll
  <2>2. ASSUME NEW l \in Level(here)
        PROVE  May!OrAll(here, l) =
                 IF \E d \in Data(here) : Code(d) = l /\ msched[d] = On THEN On
                 ELSE IF \E d \in Data(here) : Code(d) = l /\ msched[d] = Unk THEN Unk
                 ELSE Off
    BY <1>1, <1>2, Values, Same DEF May!OrAll
  <2>3. ASSUME NEW d \in Data(here)
        PROVE  /\ msched[d] = On => sched[d] = On
               /\ sched[d] = On => msched[d] \in {On, Unk}
    BY <1>1, <1>2, Values DEF Stands
  <2> QED
    BY <2>1, <2>2, <2>3, Values DEF Stands, Control
<1>4. PICK top \in Level(here) :
        /\ IsTop(here, top)
        /\ sched' = Schedule({Succ(here)[l + 1] : l \in LeaveLevels(here)} \ {0},
                             IF OrAll(here, top) = Unk THEN Unk ELSE cc)
  BY DEF VisitSync
<1>5. PICK mtop \in Level(here) :
        /\ May!IsTop(here, mtop)
        /\ msched' = May!Schedule({Succ(here)[l + 1] : l \in May!LeaveLevels(here)} \ {0},
                                  IF May!OrAll(here, mtop) = Unk THEN Unk ELSE May!cc)
  BY Same DEF May!VisitSync
<1>6. OrAll(here, top) = On /\ LeaveLevels(here) = {top}
  <2>1. OrAll(here, top) = On
    BY <1>3, <1>4 DEF IsTop
  <2> QED
    BY <2>1, <1>2, <1>3, <1>4, Values DEF IsTop, LeaveLevels
<1>7. top \in May!LeaveLevels(here)
  BY <1>2, <1>3, <1>4, <1>6, Values, Same DEF IsTop, May!LeaveLevels, Stands
<1>8. ASSUME May!OrAll(here, mtop) # Unk
      PROVE  May!LeaveLevels(here) = {top}
  <2>1. May!OrAll(here, mtop) = On /\ OrAll(here, mtop) = On
    BY <1>3, <1>5, <1>8, Values, Same DEF May!IsTop, Stands, Control
  <2>2. May!OrAll(here, top) # Off
    BY <1>3, <1>6, Values DEF Stands
  <2>3. mtop = top
    BY <2>1, <2>2, <1>2, <1>4, <1>5, Values, Same DEF IsTop, May!IsTop
  <2> QED
    BY <2>1, <2>3, <1>2, <1>5, <1>7, Same, Values DEF May!LeaveLevels, May!IsTop
<1>9. May!cc \in {On, Unk}
  BY <1>1, Same DEF May!VisitSync, May!At, Control
<1> DEFINE S == {Succ(here)[l + 1] : l \in LeaveLevels(here)} \ {0}
           T == {Succ(here)[l + 1] : l \in May!LeaveLevels(here)} \ {0}
           mc == IF May!OrAll(here, mtop) = Unk THEN Unk ELSE May!cc
<1>10. S \subseteq T /\ (mc = On => S = T)
  BY <1>6, <1>7, <1>8, Values
<1>11. sched' = Schedule(S, On) /\ msched' = May!Schedule(T, mc) /\ mc \in {On, Unk}
  BY <1>4, <1>5, <1>6, <1>9, Values
<1> QED
  BY <1>10, <1>11

(* A Test of the known run takes one branch; one of an unknown signal in   *)
(* the other run takes both.                                               *)
LEMMA BranchesStand ==
  ASSUME Both, VisitTest, May!VisitTest, cc = On
  PROVE  \E S, T : \E mc \in {On, Unk} :
           /\ sched' = Schedule(S, On) /\ msched' = May!Schedule(T, mc)
           /\ S \subseteq T /\ (mc = On => S = T)
<1>1. /\ here \in Node /\ May!cc \in {On, Unk}
      /\ signals \in [Signal -> {On, Off}] /\ msignals \in [Signal -> Control]
      /\ \A s \in Signal : Stands(msignals[s], signals[s])
  BY BothHere, Same DEF Both, May!VisitTest, May!At, Control
<1>2. PICK s \in Signal : Reads(here) = {s} /\ Graph[here].op = "load"
  BY <1>1 DEF Both, Supported, VisitTest, At, OfKind
<1>3. Value(here) = signals[s] /\ May!Value(here) = msignals[s]
  BY <1>2, Same DEF Value, May!Value
<1>4. Value(here) \in {On, Off} /\ Stands(May!Value(here), Value(here))
  BY <1>1, <1>3
<1> DEFINE S == {Succ(here)[Value(here) + 1]} \ {0}
<1>5. sched' = Schedule(S, On)
  BY <1>4, Values DEF VisitTest
<1>6. S \subseteq SuccSet(here)
  <2>1. Value(here) + 1 \in 1..Len(Succ(here))
    BY <1>1, <1>4, Fields DEF VisitTest, At, On, Off
  <2> QED
    BY <2>1, <1>1, Arcs
<1>7. CASE May!Value(here) = Unk
  <2>1. msched' = May!Schedule(SuccSet(here), Unk)
    BY <1>7, Same DEF May!VisitTest
  <2> QED
    BY <2>1, <1>5, <1>6, Values
<1>8. CASE May!Value(here) # Unk
  <2>1. msched' = May!Schedule(S, May!cc)
    BY <1>8, <1>4, Same DEF May!VisitTest, Stands
  <2> QED
    BY <2>1, <1>1, <1>5
<1> QED
  BY <1>7, <1>8

(* After both runs have treated a node, the control values of the one      *)
(* stand for those of the other.                                           *)
LEMMA ControlStands ==
  ASSUME Both
  PROVE  /\ msched' \in [Node -> Control]
         /\ \A n \in Node : Stands(msched'[n], sched'[n])
<1>1. /\ here \in Node /\ cc \in {On, Off} /\ May!cc \in Control /\ Stands(May!cc, cc)
      /\ sched \in [Node -> {On, Off}] /\ msched \in [Node -> Control]
      /\ \A n \in Node : Stands(msched[n], sched[n])
  BY BothHere DEF Both
<1>2. msched' \in [Node -> Control]
  <2>1. CASE May!cc = Off
    BY <2>1, <1>1, BothSteps DEF May!Skip
  <2>2. CASE May!cc # Off
    <3>1. PICK T : msched' = May!Schedule(T, May!cc) \/ msched' = May!Schedule(T, Unk)
      BY <2>2, BothSteps, MaySchedules
    <3> QED
      BY <3>1, <1>1, Same DEF May!Schedule, Control
  <2> QED
    BY <2>1, <2>2
<1>3. CASE May!cc = Off
  <2>1. cc = Off
    BY <1>1, <1>3, Values DEF Stands
  <2>2. UNCHANGED <<sched, msched>>
    BY <2>1, <1>3, BothSteps DEF Skip, May!Skip
  <2> QED
    BY <2>2, <1>1
<1>4. CASE May!cc # Off /\ cc = Off
  <2>1. May!cc = Unk
    BY <1>1, <1>4, Values DEF Stands
  <2>2. PICK T : msched' = May!Schedule(T, Unk)
    BY <2>1, <1>4, BothSteps, MaySchedules
  <2>3. UNCHANGED sched
    BY <1>4, BothSteps DEF Skip
  <2>4. \A n \in Node : Stands(May!Schedule(T, Unk)[n], sched[n])
    BY <1>1, MayScheduleStands
  <2> QED
    BY <1>2, <2>2, <2>3, <2>4
<1>5. CASE May!cc # Off /\ cc = On
  <2>1. Visit /\ May!Visit /\ May!cc \in {On, Unk}
    BY <1>5, BothSteps, MaySchedules
  <2> DEFINE Pair(S, T, mc) ==
        /\ sched' = Schedule(S, On) /\ msched' = May!Schedule(T, mc)
        /\ S \subseteq T /\ (mc = On => S = T)
  <2>2. \E S, T : \E mc \in {On, Unk} : Pair(S, T, mc)
    <3>1. CASE VisitSync
      <4>1. May!VisitSync
        BY <2>1, <3>1, Same DEF May!Visit, May!VisitPlain, May!VisitTest, May!VisitSwitch,
           May!VisitEnter, May!VisitEmit, May!VisitExit, May!VisitDefine, May!At, VisitSync, At
      <4> QED
        BY <3>1, <4>1, <1>5, LevelsStand
    <3>2. CASE VisitTest
      <4>1. May!VisitTest
        BY <2>1, <3>2, Same DEF May!Visit, May!VisitPlain, May!VisitSync, May!VisitSwitch,
           May!VisitEnter, May!VisitEmit, May!VisitExit, May!VisitDefine, May!At, VisitTest, At
      <4> QED
        BY <3>2, <4>1, <1>5, BranchesStand
    <3>3. CASE VisitSwitch
      <4>1. May!VisitSwitch
        BY <2>1, <3>3, Same DEF May!Visit, May!VisitPlain, May!VisitSync, May!VisitTest,
           May!VisitEnter, May!VisitEmit, May!VisitExit, May!VisitDefine, May!At, VisitSwitch, At
      <4> DEFINE S == {Succ(here)[state[Graph[here].st]]} \ {0}
      <4>2. sched' = Schedule(S, On) /\ msched' = May!Schedule(S, May!cc)
        BY <3>3, <4>1, <1>5, Same DEF VisitSwitch, May!VisitSwitch
      <4> HIDE DEF S
      <4> QED
        BY <4>2, <2>1
    <3>4. CASE ~(VisitSync \/ VisitTest \/ VisitSwitch)
      <4>1. sched' = Schedule(SuccSet(here), On) /\ Kind(here) \notin {"sync", "test", "switch"}
        BY <2>1, <3>4, <1>5 DEF Visit, VisitPlain, VisitEnter, VisitEmit, VisitExit,
           VisitDefine, At
      <4>2. msched' = May!Schedule(SuccSet(here), May!cc)
        BY <2>1, <4>1, Same DEF May!Visit, May!VisitPlain, May!VisitSync, May!VisitTest,
           May!VisitSwitch, May!VisitEnter, May!VisitEmit, May!VisitExit, May!VisitDefine, May!At
      <4> QED
        BY <4>1, <4>2, <2>1
    <3> QED
      BY <3>1, <3>2, <3>3, <3>4
  <2>3. PICK S, T : \E mc \in {On, Unk} : Pair(S, T, mc)
    BY <2>2
  <2>4. PICK mc \in {On, Unk} : Pair(S, T, mc)
    BY <2>3
  <2>5. \A n \in Node : Stands(May!Schedule(T, mc)[n], Schedule(S, On)[n])
    BY <2>4, <1>1, ScheduleStands
  <2> QED
    BY <1>2, <2>4, <2>5
<1> QED
  BY <1>1, <1>3, <1>4, <1>5, <1>2

(* A known run stays known through a tick.                                 *)
LEMMA StaysKnown ==
  ASSUME Both
  PROVE  ~ternary'
<1>1. ~ternary /\ mode = "tick" /\ pos > 0
  BY DEF Both, CoverInv
<1>2. here \in Node /\ signals \in [Signal -> {On, Off}]
  BY BothHere DEF Both
<1>3. CASE VisitTest
  <2>1. PICK s \in Signal : Reads(here) = {s} /\ Graph[here].op = "load"
    BY <1>2, <1>3 DEF Both, Supported, VisitTest, At, OfKind
  <2>2. Value(here) = signals[s]
    BY <2>1 DEF Value
  <2>3. Value(here) # Unk
    BY <2>2, <1>2, Values
  <2> QED
    BY <1>1, <1>3, <2>3 DEF VisitTest
<1> QED
  BY <1>1, <1>3 DEF Both, Step, Skip, Visit, VisitPlain, VisitSync, VisitSwitch, VisitEnter,
         VisitEmit, VisitExit, VisitDefine

(* Every step of the pair of runs keeps the invariant.                     *)
LEMMA CoverKeeps ==
  ASSUME Supported, DefinedFirst, SimInv, TwoValued, CoverInv, [CoverNext]_coverVars
  PROVE  CoverInv'
<1>1. CASE UNCHANGED coverVars
  BY <1>1 DEF coverVars, vars, simVars, mayVars, CoverInv, Covers
<1>2. CASE CoverOrder
  <2>1. mode' # "tick" /\ UNCHANGED <<ternary, msched, msignals>> /\ mode = "init"
    BY <1>2 DEF CoverOrder, Order, May!Order
  <2> QED
    BY <2>1 DEF CoverInv, Covers
<1>3. ASSUME NEW in \in Known, NEW min \in [Input -> Control], CoverStart(in, min)
      PROVE  CoverInv'
  <2>1. /\ mode = "idle" /\ mode' = "tick" /\ ~ternary
        /\ ternary' = (ternary \/ \E s \in Input : in[s] = Unk)
        /\ signals' = [s \in Signal |-> IF s \in Input THEN in[s]
                                       ELSE IF s = "tick" THEN On ELSE Off]
        /\ sched' = [n \in Node |-> IF n = topo[Len(topo)] THEN On ELSE Off]
    BY <1>3 DEF CoverStart, TickStart, CoverInv
  <2>2. /\ msignals' = [s \in Signal |-> IF s \in Input THEN min[s]
                                        ELSE IF s = "tick" THEN On ELSE Off]
        /\ msched' = sched'
    BY <1>3, <2>1, Same DEF CoverStart, May!TickStart
  <2>3. ~ternary'
    BY <2>1, Values DEF Known
  <2>4. msched' \in [Node -> Control] /\ msignals' \in [Signal -> Control]
    BY <2>1, <2>2 DEF Control
  <2>5. \A n \in Node : Stands(msched'[n], sched'[n])
    BY <2>2 DEF Stands
  <2>6. \A s \in Signal : Stands(msignals'[s], signals'[s])
    BY <1>3, <2>1, <2>2 DEF CoverStart, Stands
  <2> QED
    BY <2>1, <2>3, <2>4, <2>5, <2>6 DEF CoverInv, Covers
<1>4. CASE CoverStep
  <2>1. Both /\ mode' = mode
    BY <1>4, VisitWrites DEF CoverStep, Both
  <2>2. mode = "tick"
    BY <2>1 DEF Both
  <2> QED
    BY <2>1, <2>2, SignalsStand, ControlStands, StaysKnown DEF CoverInv, Covers
<1>5. CASE CoverEnd
  BY <1>5 DEF CoverEnd, TickEnd, CoverInv, Covers
<1>6. CASE CoverStop
  BY <1>6 DEF CoverStop, Stop, mayVars, CoverInv, Covers
<1>7. CASE CoverHalted
  BY <1>7 DEF CoverHalted, Halted, vars, simVars, mayVars, CoverInv, Covers
<1> QED
  BY <1>1, <1>2, <1>3, <1>4, <1>5, <1>6, <1>7 DEF CoverNext, CoverStarts

(* A tick with unknown inputs speaks for every tick with known ones: in    *)
(* every program the simulator supports, and in which no signal is set     *)
(* before the node that clears it, what it takes for certain is certain.   *)
THEOREM CoverIsSound ==
  ASSUME Supported
  PROVE  CoverSpec /\ []DefinedFirst => []Covers
<1>1. CoverInit => CoverInv
  BY Same DEF CoverInit, Init, May!Init, CoverInv, Covers, Control
<1>2. Supported /\ DefinedFirst /\ SimInv /\ TwoValued /\ CoverInv /\ [CoverNext]_coverVars
        => CoverInv'
  BY CoverKeeps
<1>3. CoverInv => Covers
  BY DEF CoverInv
<1>4. DefinedFirst /\ SimInv /\ TwoValued /\ CoverInv /\ [CoverNext]_coverVars => CoverInv'
  BY <1>2
<1> QED
  BY <1>1, <1>3, <1>4, CoverRuns, SimIsSound, SimIsTwoValued, PTL DEF CoverSpec

-----------------------------------------------------------------------------
(* What a tick solves.                                                     *)

(* Equations is about the same graph.                                      *)
LEMMA SameGraph ==
  /\ Logical!Node = Node /\ Logical!Live = Live /\ Logical!STExcl = STExcl
  /\ \A n : /\ Logical!Kind(n) = Kind(n) /\ Logical!Sig(n) = Sig(n)
            /\ Logical!SuccSet(n) = SuccSet(n) /\ Logical!Child(n) = Settled[Graph[n].st]
            /\ Logical!Parent(n) = Parent(n) /\ Logical!ChildNum(n) = ChildNum(n)
  /\ \A n, C, X, R : Logical!Leads(n, C, X, R) = Leads(n, C, X, R)
<1>1. Logical!Node = Node /\ Logical!STNode = STNode
  BY DEF Logical!Node, Node, Logical!STNode, STNode
<1>2. \A n : /\ Logical!Kind(n) = Kind(n) /\ Logical!Sig(n) = Sig(n) /\ Logical!Succ(n) = Succ(n)
             /\ Logical!Data(n) = Data(n) /\ Logical!Reads(n) = Reads(n)
             /\ Logical!Code(n) = Code(n)
             /\ Logical!Parent(n) = Parent(n) /\ Logical!Children(n) = Children(n)
  BY DEF Logical!Kind, Kind, Logical!Sig, Sig, Logical!Succ, Succ, Logical!Data, Data,
         Logical!Reads, Reads, Logical!Code, Code, Logical!Parent, Parent,
         Logical!Children, Children
<1>3. \A n : Logical!SuccSet(n) = SuccSet(n)
  BY <1>2 DEF Logical!SuccSet, SuccSet
<1>4. Logical!Reached = Reached
  BY DEF Logical!Reached, Reached, Logical!SuccSet, SuccSet, Logical!Succ, Succ
<1>5. Logical!Live = Live
  BY <1>4 DEF Logical!Live, Live
<1>6. Logical!STExcl = STExcl
  BY <1>1 DEF Logical!STExcl, STExcl
<1>7. \A c : Logical!ChildNum(c) = ChildNum(c)
  BY <1>2 DEF Logical!ChildNum, ChildNum
<1>8. Logical!Settled = Settled
  BY <1>1, <1>2 DEF Logical!Settled, Settled
<1>9. \A n : Logical!Child(n) = Settled[Graph[n].st]
  BY <1>8 DEF Logical!Child
<1>10. \A n, C, X, R : Logical!Takes(n, C, X, R) = Takes(n, C, X, R)
  <2>1. \A n, R : Logical!Completion(n, R) = Completion(n, R)
    BY <1>2 DEF Logical!Completion, Completion, Logical!Exited, Exited
  <2>2. \A n, X : Logical!Holds(n, X) = Holds(n, X)
    BY <1>2 DEF Logical!Holds, Holds
  <2> QED
    BY <1>2, <2>1, <2>2 DEF Logical!Takes, Takes
<1>11. \A n, C, X, R : Logical!Leads(n, C, X, R) = Leads(n, C, X, R)
  BY <1>2, <1>10 DEF Logical!Leads, Leads
<1> QED
  BY <1>1, <1>2, <1>3, <1>5, <1>6, <1>7, <1>9, <1>11

(* Control goes to successors.                                             *)
LEMMA LeadsOut ==
  ASSUME NEW n \in Node, NEW C, NEW X, NEW R
  PROVE  Leads(n, C, X, R) \subseteq SuccSet(n)
BY DEF Leads, SuccSet

(* It depends on what the node reads and on what ends in it.               *)
LEMMA LeadsSame ==
  ASSUME NEW n \in Node, NEW C, NEW X, NEW Y, NEW Q, NEW R,
         Kind(n) = "test" => \A s \in Reads(n) : s \in X <=> s \in Y,
         Kind(n) = "sync" => \A d \in Data(n) : d \in Q <=> d \in R
  PROVE  Leads(n, C, X, Q) = Leads(n, C, Y, R)
<1>1. Kind(n) = "test" => Holds(n, X) = Holds(n, Y)
  <2> SUFFICES ASSUME Kind(n) = "test" PROVE Holds(n, X) = Holds(n, Y)
    OBVIOUS
  <2>1. Reads(n) \subseteq X <=> Reads(n) \subseteq Y
    OBVIOUS
  <2>2. Reads(n) \cap X = Reads(n) \cap Y
    OBVIOUS
  <2> QED
    BY <2>1, <2>2 DEF Holds
<1>2. Kind(n) = "sync" => Completion(n, Q) = Completion(n, R)
  <2> SUFFICES ASSUME Kind(n) = "sync" PROVE Completion(n, Q) = Completion(n, R)
    OBVIOUS
  <2>1. Data(n) \cap Q = Data(n) \cap R
    OBVIOUS
  <2> QED
    BY <2>1 DEF Completion, Exited
<1>3. Takes(n, C, X, Q) = Takes(n, C, Y, R)
  BY <1>1, <1>2 DEF Takes
<1> QED
  BY <1>3 DEF Leads

(* A finished search has found every live node.                            *)
LEMMA LiveIsOrdered ==
  ASSUME SearchInv, dfs = "done"
  PROVE  /\ Len(topo) \in Nat \ {0} /\ topo[Len(topo)] = Root
         /\ \A n \in Live : \E i \in 1..Len(topo) : topo[i] = n
         /\ \A i \in 1..Len(topo) : topo[i] \in Live /\ topo[i] \in Node
         /\ \A i, j \in 1..Len(topo) : topo[j] \in LeadsTo(topo[i]) => j < i
         /\ \A i \in 1..Len(topo) : \A n \in LeadsTo(topo[i]) : \E j \in 1..(i - 1) : topo[j] = n
<1>1. topo \in Seq(Node) /\ topo # <<>> /\ topo[Len(topo)] = Root
  BY DEF SearchInv, DfsTypeOK, RootInv
<1>2. Len(topo) \in Nat \ {0} /\ DOMAIN topo = 1..Len(topo)
  BY <1>1
<1>3. /\ black = InTopo(Len(topo)) /\ black \subseteq Live
      /\ \A i, j \in DOMAIN topo : topo[i] = topo[j] => i = j
      /\ \A i \in DOMAIN topo : LeadsTo(topo[i]) \subseteq InTopo(i - 1)
  BY DEF SearchInv, TopoInv, StackInv, RootInv
<1>4. \A i \in 1..Len(topo) : topo[i] \in InTopo(Len(topo)) /\ topo[i] \in Node
  BY <1>1, <1>2 DEF InTopo
<1>5. \A i \in 1..Len(topo) : \A n \in LeadsTo(topo[i]) : \E j \in 1..(i - 1) : topo[j] = n
  BY <1>2, <1>3 DEF InTopo
<1>6. ASSUME NEW i \in 1..Len(topo), NEW j \in 1..Len(topo), topo[j] \in LeadsTo(topo[i])
      PROVE  j < i
  <2>1. PICK k \in 1..(i - 1) : topo[k] = topo[j]
    BY <1>5, <1>6
  <2>2. k \in DOMAIN topo /\ j \in DOMAIN topo
    BY <1>2
  <2> QED
    BY <2>1, <2>2, <1>3
<1>7. Live \subseteq InTopo(Len(topo))
  <2>1. Root \in InTopo(Len(topo))
    BY <1>1, <1>2, <1>4
  <2>2. ASSUME NEW n \in InTopo(Len(topo))
        PROVE  SuccSet(n) \subseteq InTopo(Len(topo))
    <3>1. PICK i \in 1..Len(topo) : topo[i] = n
      BY DEF InTopo
    <3>2. \A m \in SuccSet(n) : \E j \in 1..(i - 1) : topo[j] = m
      BY <3>1, <1>5 DEF LeadsTo
    <3> QED
      BY <3>2, <1>2 DEF InTopo
  <2> QED
    BY <2>1, <2>2, LiveStays
<1> QED
  BY <1>1, <1>2, <1>3, <1>4, <1>5, <1>6, <1>7 DEF InTopo

(* What runs first runs in every solution, if all before it does.          *)
LEMMA SolutionGrows ==
  ASSUME SearchInv, dfs = "done", NEW C, NEW I, NEW R, NEW S,
         Logical!Solution(C, I, R), Logical!Solution(C, I, S),
         NEW j \in 1..Len(topo), topo[j] \in R,
         \A i \in 1..Len(topo) : j < i => (topo[i] \in R <=> topo[i] \in S)
  PROVE  topo[j] \in S
<1>1. /\ R \subseteq Live /\ S \subseteq Live /\ Live \subseteq Node
      /\ R = {Root} \cup UNION {Leads(n, C, Logical!Present(I, R), R) : n \in R}
      /\ S = {Root} \cup UNION {Leads(n, C, Logical!Present(I, S), S) : n \in S}
  BY SameGraph, DataAssumption DEF Logical!Solution
<1>2. CASE topo[j] = Root
  BY <1>1, <1>2
<1>3. CASE topo[j] # Root
  <2>1. PICK p \in R : topo[j] \in Leads(p, C, Logical!Present(I, R), R)
    BY <1>1, <1>3
  <2>2. p \in Live /\ p \in Node
    BY <1>1
  <2>3. PICK i \in 1..Len(topo) : topo[i] = p
    BY <2>2, LiveIsOrdered
  <2>4. topo[j] \in LeadsTo(topo[i])
    BY <2>1, <2>2, <2>3, LeadsOut DEF LeadsTo
  <2>5. j < i
    BY <2>4, LiveIsOrdered
  <2>6. p \in S
    BY <2>3, <2>5
  <2>7. ASSUME NEW q \in Data(p)
        PROVE  q \in R <=> q \in S
    <3> SUFFICES ASSUME q \in Live PROVE q \in R <=> q \in S
      BY <1>1
    <3>1. PICK k \in 1..Len(topo) : topo[k] = q
      BY LiveIsOrdered
    <3>2. p \in LeadsTo(q)
      BY <2>2, <2>7 DEF LeadsTo, DataSucc
    <3>3. i < k
      BY <3>1, <3>2, <2>3, LiveIsOrdered
    <3>4. j < k
      <4>1. Len(topo) \in Nat
        BY LiveIsOrdered
      <4> QED
        BY <4>1, <3>3, <2>5
    <3> QED
      BY <3>1, <3>4
  <2>8. ASSUME NEW s \in Reads(p)
        PROVE  s \in Logical!Present(I, R) <=> s \in Logical!Present(I, S)
    <3>1. ASSUME NEW w \in Live, Kind(w) \in {"emit", "exit"}, Sig(w) = s
          PROVE  w \in R <=> w \in S
      <4>1. w \in Writers(s)
        BY <3>1, <1>1 DEF Writers
      <4>2. w \in Data(p)
        BY <4>1, <2>2, DataAssumption
      <4> QED
        BY <4>2, <2>7
    <3>2. s \in Logical!Emitted(R) <=> s \in Logical!Emitted(S)
      BY <3>1, <1>1, SameGraph DEF Logical!Emitted
    <3> QED
      BY <3>2 DEF Logical!Present
  <2>9. Leads(p, C, Logical!Present(I, R), R) = Leads(p, C, Logical!Present(I, S), S)
    BY <2>2, <2>7, <2>8, LeadsSame
  <2> QED
    BY <2>1, <2>6, <2>9, <1>1
<1> QED
  BY <1>2, <1>3

(* Two solutions for the same state and inputs are the same.               *)
OneAnswer ==
  dfs = "done" =>
    \A C, I, R, S : Logical!Solution(C, I, R) /\ Logical!Solution(C, I, S) => R = S

(* A tick has one meaning: in a graph that the search finds an order for,  *)
(* what runs in a state on some inputs is determined, and with it every    *)
(* status.                                                                 *)
THEOREM OneSolution == Spec => []OneAnswer
<1>1. ASSUME SearchInv
      PROVE  OneAnswer
  <2> SUFFICES ASSUME dfs = "done", NEW C, NEW I, NEW R, NEW S,
                      Logical!Solution(C, I, R), Logical!Solution(C, I, S)
               PROVE  R = S
    BY DEF OneAnswer
  <2> DEFINE T == {k \in Nat : k < Len(topo) => (topo[Len(topo) - k] \in R
                                               <=> topo[Len(topo) - k] \in S)}
  <2>1. Len(topo) \in Nat
    BY <1>1, LiveIsOrdered
  <2>2. ASSUME NEW k \in Nat, \A l \in Nat : l < k => l \in T
        PROVE  k \in T
    <3> SUFFICES ASSUME k < Len(topo)
                 PROVE  topo[Len(topo) - k] \in R <=> topo[Len(topo) - k] \in S
      OBVIOUS
    <3> DEFINE j == Len(topo) - k
    <3>1. j \in 1..Len(topo)
      BY <2>1
    <3>2. ASSUME NEW i \in 1..Len(topo), j < i
          PROVE  topo[i] \in R <=> topo[i] \in S
      <4> DEFINE l == Len(topo) - i
      <4>1. l \in Nat /\ l < k /\ l < Len(topo) /\ Len(topo) - l = i
        BY <2>1, <3>2
      <4>2. l \in T
        BY <4>1, <2>2
      <4> QED
        BY <4>1, <4>2
    <3> HIDE DEF j
    <3>3. topo[j] \in R => topo[j] \in S
      BY <3>1, <3>2, <1>1, SolutionGrows
    <3>4. topo[j] \in S => topo[j] \in R
      BY <3>1, <3>2, <1>1, SolutionGrows
    <3> QED
      BY <3>3, <3>4 DEF j
  <2>3. Nat \subseteq T
    <3> HIDE DEF T
    <3> QED
      BY <2>2, Induct
  <2>4. ASSUME NEW n \in Live
        PROVE  n \in R <=> n \in S
    <3>1. PICK i \in 1..Len(topo) : topo[i] = n
      BY <1>1, LiveIsOrdered
    <3>2. Len(topo) - i \in Nat /\ Len(topo) - i < Len(topo) /\ Len(topo) - (Len(topo) - i) = i
      BY <2>1
    <3>3. Len(topo) - i \in T
      BY <3>2, <2>3
    <3> QED
      BY <3>1, <3>2, <3>3
  <2>5. R \subseteq Live /\ S \subseteq Live
    BY SameGraph DEF Logical!Solution
  <2> QED
    BY <2>4, <2>5
<1>2. SimInv => OneAnswer
  BY <1>1 DEF SimInv
<1> QED
  BY <1>2, SimIsSound, PTL

-----------------------------------------------------------------------------
(* The first run while a tick is computed: what is On, what of it has been *)
(* visited, and the signals that are On.                                   *)

Ran == {n \in Node : sched[n] = On}
Visited == {n \in Ran : Passed(n)}
Lights == {s \in Signal : signals[s] = On}

(* R is what nodes of V hand control to, and Root.                         *)
Reasons(C, X, R, V) ==
  \A n \in Node : n \in R <=> n = Root \/ \E p \in V : n \in Leads(p, C, X, R)

(* N is what the Enters of V have left in nextstate.                       *)
Marks(V, N) ==
  \A e \in STExcl :
    IF Logical!Enters(V, e) = {} THEN N[e] = 0
    ELSE \E n \in Logical!LastEnters(V, e) : N[e] = ChildNum(Logical!Child(n))

Unmarked == \A e \in STExcl : nextstate[e] = 0
InTick ==
  /\ Reasons(state, Lights, Ran, Visited)
  /\ Lights = Logical!Present(given, Visited)
  /\ Marks(Visited, nextstate)
  /\ isFinal <=> Logical!Ends(Visited)
LogicInv ==
  /\ ~ternary /\ given \subseteq Input
  /\ mode = "init" => Ran = {} /\ Lights = {}
  /\ mode \in {"init", "idle"} => Unmarked /\ ~isFinal
  /\ mode = "tick" => InTick

(* Inside a tick of the first run everything is On or Off.                 *)
LEMMA KnownHere ==
  ASSUME SimInv, TwoValued, ~ternary, mode = "tick"
  PROVE  /\ sched \in [Node -> {On, Off}] /\ signals \in [Signal -> {On, Off}]
         /\ Ran \subseteq Node /\ Visited \subseteq Ran
         /\ \A n \in Node : Lit(n) <=> n \in Ran
<1>1. sched \in [Node -> Control] /\ signals \in [Signal -> Control]
  BY DEF SimInv, TypeOK
<1>2. sched \in [Node -> {On, Off}] /\ signals \in [Signal -> {On, Off}]
  BY <1>1 DEF TwoValued, Control
<1> QED
  BY <1>2, Values DEF Ran, Visited, Lit

(* A visit keeps the first run known.                                      *)
LEMMA KnownStays ==
  ASSUME SimInv, TwoValued, ~ternary, Step
  PROVE  ~ternary'
<1>1. mode = "tick" /\ pos > 0
  BY VisitWrites
<1>2. here \in Node /\ signals \in [Signal -> {On, Off}]
  BY <1>1, HereFacts, KnownHere
<1>3. CASE VisitTest
  <2>1. Reads(here) \subseteq Signal /\ Reads(here) # {} /\ Graph[here].op \in Predicates
    BY <1>2, <1>3, Fields DEF VisitTest, At
  <2>2. (CHOOSE s \in Reads(here) : TRUE) \in Signal
    BY <2>1
  <2>3. Value(here) \in {On, Off}
    BY <2>1, <2>2, <1>2 DEF Value, Predicates
  <2> QED
    BY <1>3, <2>3, Values DEF VisitTest
<1> QED
  BY <1>3 DEF Step, Skip, Visit, VisitPlain, VisitSync, VisitSwitch, VisitEnter, VisitEmit,
              VisitExit, VisitDefine

(* What scheduling under On does to what is On.                            *)
LEMMA ScheduleOn ==
  ASSUME NEW S \in SUBSET Node, sched \in [Node -> {On, Off}], sched' = Schedule(S, On)
  PROVE  Ran' = Ran \cup S
BY DEF Schedule, Ran

(* The branch a Test takes.                                                *)
LEMMA TestTakes ==
  ASSUME NEW n \in OfKind("test"), signals \in [Signal -> {On, Off}]
  PROVE  /\ Value(n) \in {On, Off}
         /\ {Succ(n)[Value(n) + 1]} \ {0} = Leads(n, state, Lights, Ran)
<1>1. n \in Node /\ Kind(n) = "test" /\ Reads(n) \subseteq Signal /\ Reads(n) # {}
      /\ Len(Succ(n)) = 2 /\ DOMAIN Succ(n) = 1..2 /\ Graph[n].op \in Predicates
  BY Fields, Arcs DEF OfKind
<1>2. \A s \in Reads(n) : signals[s] # Off <=> s \in Lights
  BY <1>1, Values DEF Lights
<1>3. Value(n) = IF Holds(n, Lights) THEN On ELSE Off
  <2>1. CASE Graph[n].op = "load"
    <3>1. PICK s \in Signal : Reads(n) = {s}
      BY <1>1, <2>1, ArcAssumption
    <3>2. Value(n) = signals[s]
      BY <2>1, <3>1 DEF Value
    <3>3. Holds(n, Lights) <=> s \in Lights
      BY <2>1, <3>1 DEF Holds
    <3>4. signals[s] = On <=> s \in Lights
      BY DEF Lights
    <3> QED
      BY <3>2, <3>3, <3>4
  <2>2. CASE Graph[n].op = "not"
    BY <2>2, <1>2 DEF Value, Holds
  <2>3. CASE Graph[n].op = "and"
    BY <2>3, <1>2 DEF Value, Holds
  <2>4. CASE Graph[n].op = "or"
    BY <2>4, <1>2 DEF Value, Holds
  <2> QED
    BY <2>1, <2>2, <2>3, <2>4, <1>1 DEF Predicates
<1>4. Takes(n, state, Lights, Ran) = {Value(n) + 1}
  BY <1>1, <1>3 DEF Takes, On, Off
<1>5. Value(n) + 1 \in DOMAIN Succ(n)
  BY <1>1, <1>3 DEF On, Off
<1> QED
  BY <1>3, <1>4, <1>5 DEF Leads

(* The level a Sync leaves at is the highest code that ran.                *)
LEMMA SyncTakes ==
  ASSUME SimInv, TwoValued, ~ternary, VisitSync
  PROVE  sched' = Schedule(Leads(here, state, Lights, Ran), On)
<1>1. mode = "tick" /\ pos > 0 /\ Kind(here) = "sync" /\ cc # Off
  BY DEF VisitSync, At
<1>2. here \in Node /\ sched \in [Node -> {On, Off}] /\ cc = On
  BY <1>1, HereFacts, KnownHere DEF cc
<1>3. Level(here) \subseteq Nat /\ Data(here) \subseteq Node /\ DOMAIN Succ(here) = 1..Len(Succ(here))
      /\ Len(Succ(here)) \in Nat
  BY <1>2, Fields, Arcs DEF Level
<1>4. PICK top \in Level(here) :
        /\ IsTop(here, top) /\ top < Len(Succ(here))
        /\ sched' = Schedule({Succ(here)[l + 1] : l \in LeaveLevels(here)} \ {0},
                             IF OrAll(here, top) = Unk THEN Unk ELSE cc)
  BY DEF VisitSync
<1>5. \A l : OrAll(here, l) = IF l \in Exited(here, Ran) THEN On ELSE Off
  BY <1>2, <1>3, Values DEF OrAll, Exited, Ran
<1>6. OrAll(here, top) = On /\ LeaveLevels(here) = {top}
  <2>1. OrAll(here, top) = On
    BY <1>4, <1>5 DEF IsTop
  <2> QED
    BY <2>1, <1>3, <1>4, <1>5, Values DEF IsTop, LeaveLevels
<1>7. Completion(here, Ran) = top
  <2>1. Exited(here, Ran) \subseteq Level(here)
    BY DEF Exited, Level
  <2>2. top \in Exited(here, Ran) /\ \A k \in Exited(here, Ran) : k <= top
    BY <1>3, <1>4, <1>5, <1>6, <2>1, Values DEF IsTop
  <2>3. \A l \in Exited(here, Ran) : (\A k \in Exited(here, Ran) : k <= l) => l = top
    BY <1>3, <2>1, <2>2
  <2> QED
    BY <2>2, <2>3 DEF Completion
<1>8. Leads(here, state, Lights, Ran) = {Succ(here)[top + 1]} \ {0}
  <2>1. top + 1 \in DOMAIN Succ(here)
    BY <1>3, <1>4
  <2>2. Takes(here, state, Lights, Ran) = {top + 1}
    BY <1>1, <1>7 DEF Takes
  <2> QED
    BY <2>1, <2>2 DEF Leads
<1>9. {Succ(here)[l + 1] : l \in LeaveLevels(here)} \ {0} = {Succ(here)[top + 1]} \ {0}
  BY <1>6
<1> QED
  BY <1>2, <1>4, <1>6, <1>8, <1>9, Values

(* A visit hands control to the nodes that the equations say.              *)
LEMMA VisitHands ==
  ASSUME SimInv, TwoValued, ~ternary, Step
  PROVE  /\ here \in Node
         /\ here \in Ran => Ran' = Ran \cup Leads(here, state, Lights, Ran)
         /\ here \notin Ran => Ran' = Ran
<1>1. mode = "tick" /\ pos > 0
  BY VisitWrites
<1>2. /\ here \in Node /\ cc = sched[here]
      /\ sched \in [Node -> {On, Off}] /\ signals \in [Signal -> {On, Off}]
      /\ here \in Ran <=> cc = On
  BY <1>1, HereFacts, KnownHere DEF cc, Ran
<1>3. CASE Skip
  BY <1>2, <1>3, Values DEF Skip, Ran
<1>4. CASE Visit
  <2>1. here \in Ran /\ cc = On
    BY <1>2, <1>4 DEF Visit, VisitPlain, VisitSync, VisitTest, VisitSwitch, VisitEnter,
                      VisitEmit, VisitExit, VisitDefine, At
  <2> DEFINE G == Leads(here, state, Lights, Ran)
  <2>2. G \subseteq Node
    BY <1>2, LeadsOut, Arcs
  <2>3. sched' = Schedule(G, On)
    <3>1. CASE VisitSync
      BY <3>1, SyncTakes
    <3>2. CASE VisitTest
      <4>1. here \in OfKind("test")
        BY <1>2, <3>2 DEF VisitTest, At, OfKind
      <4>2. Value(here) \in {On, Off} /\ {Succ(here)[Value(here) + 1]} \ {0} = G
        BY <4>1, <1>2, TestTakes
      <4> HIDE DEF G
      <4> QED
        BY <4>2, <3>2, <2>1, Values DEF VisitTest
    <3>3. CASE VisitSwitch
      <4>1. G = {Succ(here)[state[Graph[here].st]]} \ {0}
        BY <3>3 DEF VisitSwitch, At, Leads, Takes
      <4> HIDE DEF G
      <4> QED
        BY <4>1, <3>3, <2>1 DEF VisitSwitch
    <3>4. CASE VisitPlain \/ VisitEnter \/ VisitEmit \/ VisitExit \/ VisitDefine
      <4>1. /\ Kind(here) \notin {"switch", "test", "sync"}
            /\ sched' = Schedule(SuccSet(here), On)
        BY <3>4, <2>1 DEF VisitPlain, VisitEnter, VisitEmit, VisitExit, VisitDefine, At
      <4>2. G = SuccSet(here)
        BY <4>1 DEF Leads, Takes, SuccSet
      <4> QED
        BY <4>1, <4>2
    <3> QED
      BY <1>4, <3>1, <3>2, <3>3, <3>4 DEF Visit
  <2> HIDE DEF G
  <2>4. Ran' = Ran \cup G
    BY <2>2, <2>3, <1>2, ScheduleOn
  <2> QED
    BY <1>2, <2>1, <2>4 DEF G
<1> QED
  BY <1>3, <1>4 DEF Step

(* A visit adds its node to what was visited, if it runs.                  *)
LEMMA VisitAdds ==
  ASSUME SimInv, TwoValued, ~ternary, Step
  PROVE  /\ Visited' = Visited \cup ({here} \cap Ran)
         /\ \A n \in Node : Passed(n)' <=> Passed(n) \/ n = here
         /\ \A n \in Node : Passed(n) \/ n = here => (n \in Ran' <=> n \in Ran)
<1>1. mode = "tick" /\ pos > 0 /\ pos' = pos - 1 /\ UNCHANGED topo
  BY VisitWrites DEF dfsVars
<1>2. /\ pos \in 1..Len(topo) /\ Len(topo) \in Nat /\ DOMAIN topo = 1..Len(topo)
      /\ here \in Node /\ here = topo[pos]
  BY <1>1, HereFacts DEF here
<1>3. \A n \in Node : Passed(n)' <=> Passed(n) \/ n = here
  <2>1. \A i \in DOMAIN topo : i > pos' <=> i > pos \/ i = pos
    BY <1>1, <1>2
  <2> QED
    BY <2>1, <1>1, <1>2 DEF Passed
<1>4. here \notin SuccSet(here)
  <2>1. \A i, j \in DOMAIN topo : topo[i] = topo[j] => i = j
    BY Position
  <2>2. LeadsTo(here) \subseteq InTopo(pos - 1)
    BY <1>2, Position
  <2>3. ASSUME NEW j \in 1..(pos - 1), topo[j] = topo[pos]
        PROVE  FALSE
    <3>1. j \in DOMAIN topo /\ pos \in DOMAIN topo /\ j # pos
      BY <1>2
    <3> QED
      BY <2>1, <2>3, <3>1
  <2> QED
    BY <2>2, <2>3, <1>2 DEF InTopo, LeadsTo
<1>5. ASSUME NEW n \in Node, Passed(n) \/ n = here
      PROVE  n \in Ran' <=> n \in Ran
  <2>1. n \notin SuccSet(here)
    BY <1>1, <1>4, <1>5, NotPassed DEF LeadsTo
  <2>2. n \notin Leads(here, state, Lights, Ran)
    BY <2>1, <1>2, LeadsOut
  <2> QED
    BY <2>2, VisitHands
<1>6. Visited' = {n \in Ran' : Passed(n)'}
  BY DEF Visited
<1>7. Ran \subseteq Node /\ Ran' \subseteq Node
  BY DEF Ran
<1> QED
  BY <1>2, <1>3, <1>5, <1>6, <1>7 DEF Visited

(* A visit adds to the signals what its node emits, if it runs.            *)
LEMMA VisitLights ==
  ASSUME SimInv, TwoValued, ~ternary, DefinedFirst, Step
  PROVE  Lights' = Lights \cup Logical!Emitted({here} \cap Ran)
<1>1. mode = "tick" /\ pos > 0
  BY VisitWrites
<1>2. /\ here \in Node /\ cc = sched[here]
      /\ sched \in [Node -> {On, Off}] /\ signals \in [Signal -> {On, Off}]
      /\ here \in Ran <=> cc = On
  BY <1>1, HereFacts, KnownHere DEF cc, Ran
<1> DEFINE sg == Sig(here)
<1>3. CASE Step /\ (VisitEmit \/ VisitExit)
  <2>1. Kind(here) \in {"emit", "exit"} /\ cc = On
    BY <1>2, <1>3 DEF VisitEmit, VisitExit, At
  <2>2. sg \in Signal
    BY <1>2, <2>1, Fields
  <2>3. signals' = [signals EXCEPT ![sg] = On]
    BY <1>2, <1>3, <2>1, <2>2 DEF VisitEmit, VisitExit
  <2>4. Logical!Emitted({here} \cap Ran) = {sg}
    BY <1>2, <2>1, SameGraph DEF Logical!Emitted
  <2> HIDE DEF sg
  <2>5. Lights' = Lights \cup {sg}
    BY <1>2, <2>2, <2>3 DEF Lights
  <2> QED
    BY <2>4, <2>5
<1>4. CASE UNCHANGED signals /\ (here \in Ran => Kind(here) \notin {"emit", "exit"})
  <2>1. Logical!Emitted({here} \cap Ran) = {}
    BY <1>4, SameGraph DEF Logical!Emitted
  <2> QED
    BY <2>1, <1>4 DEF Lights
<1>5. CASE VisitDefine
  <2>1. Kind(here) = "define" /\ signals' = [signals EXCEPT ![sg] = Off]
    BY <1>5 DEF VisitDefine, At
  <2>2. signals[sg] = Off
    BY <1>1, <1>2, <2>1 DEF DefinedFirst, OfKind
  <2>3. UNCHANGED signals
    BY <2>1, <2>2, <1>2
  <2> QED
    BY <2>1, <2>3, <1>4
<1>6. CASE Skip
  BY <1>2, <1>4, <1>6, Values DEF Skip
<1>7. CASE VisitPlain \/ VisitSync \/ VisitTest \/ VisitSwitch \/ VisitEnter
  BY <1>4, <1>7 DEF VisitPlain, VisitSync, VisitTest, VisitSwitch, VisitEnter, At
<1> QED
  BY <1>3, <1>5, <1>6, <1>7 DEF Step, Visit

(* What a visited node hands on does not change any more.                  *)
LEMMA LeadsKept ==
  ASSUME SimInv, TwoValued, ~ternary, InPlace, Step,
         NEW p \in Visited \cup ({here} \cap Ran)
  PROVE  Leads(p, state', Lights', Ran') = Leads(p, state, Lights, Ran)
<1>1. mode = "tick" /\ pos > 0 /\ UNCHANGED <<state, topo>>
  BY VisitWrites DEF dfsVars
<1>2. here \in Node /\ p \in Node /\ p \in Ran /\ (Passed(p) \/ p = here)
  BY <1>1, HereFacts DEF Visited, Ran
<1>3. ASSUME Kind(p) = "test", NEW s \in Reads(p)
      PROVE  s \in Lights' <=> s \in Lights
  <2>1. CASE Passed(p)
    <3>1. sched[p] # Off
      BY <1>2, Values DEF Ran
    <3>2. Next
      BY DEF Next
    <3>3. signals'[s] = signals[s]
      BY <1>1, <1>2, <2>1, <3>1, <3>2, StepKeepsReads DEF ReadsKept
    <3> QED
      BY <3>3 DEF Lights
  <2>2. CASE p = here
    <3>1. UNCHANGED signals
      BY <1>3, <2>2 DEF Step, Skip, Visit, VisitPlain, VisitSync, VisitTest, VisitSwitch,
                        VisitEnter, VisitEmit, VisitExit, VisitDefine, At
    <3> QED
      BY <3>1 DEF Lights
  <2> QED
    BY <1>2, <2>1, <2>2
<1>4. ASSUME NEW d \in Data(p)
      PROVE  d \in Ran' <=> d \in Ran
  <2>1. d \in Node /\ p \in LeadsTo(d)
    BY <1>2, Fields DEF LeadsTo, DataSucc
  <2>2. CASE \E i \in DOMAIN topo : topo[i] = d
    <3>1. PICK i \in DOMAIN topo : topo[i] = d
      BY <2>2
    <3>2. PICK j \in 1..(i - 1) : topo[j] = p
      BY <2>1, <3>1, Position DEF InTopo
    <3>3. i \in 1..Len(topo) /\ Len(topo) \in Nat /\ pos \in 1..Len(topo) /\ DOMAIN topo = 1..Len(topo)
      BY <1>1, HereFacts
    <3>4. j \in DOMAIN topo /\ j < i
      BY <3>3
    <3>5. j >= pos
      <4>1. CASE Passed(p)
        <5>1. j > pos
          BY <4>1, <3>2, <3>4, Position
        <5> QED
          BY <5>1, <3>3, <3>4
      <4>2. CASE p = here
        <5>1. j = pos
          BY <4>2, <3>2, <3>3, <3>4, Position DEF here
        <5> QED
          BY <5>1, <3>3
      <4> QED
        BY <1>2, <4>1, <4>2
    <3>6. i > pos
      BY <3>3, <3>4, <3>5
    <3>7. Passed(d)
      BY <3>1, <3>6 DEF Passed
    <3> QED
      BY <2>1, <3>7, VisitAdds
  <2>3. CASE ~ \E i \in DOMAIN topo : topo[i] = d
    <3>1. \A n \in Node : n \in Ran => \E i \in DOMAIN topo : topo[i] = n
      <4>1. Len(topo) \in Nat /\ DOMAIN topo = 1..Len(topo)
        BY Position
      <4> QED
        BY <4>1, <1>1, KnownHere DEF InPlace, InTopo
    <3>2. d \notin Ran
      BY <2>1, <2>3, <3>1
    <3>3. d \notin SuccSet(here)
      <4>1. LeadsTo(here) \subseteq InTopo(pos - 1) /\ pos \in 1..Len(topo) /\ DOMAIN topo = 1..Len(topo)
            /\ Len(topo) \in Nat
        BY <1>1, HereFacts, Position DEF here
      <4>2. \A n \in InTopo(pos - 1) : \E i \in DOMAIN topo : topo[i] = n
        BY <4>1 DEF InTopo
      <4> QED
        BY <2>3, <4>1, <4>2 DEF LeadsTo
    <3>4. d \notin Leads(here, state, Lights, Ran)
      BY <3>3, <1>2, LeadsOut
    <3> QED
      BY <3>2, <3>4, VisitHands
  <2> QED
    BY <2>2, <2>3
<1>5. Leads(p, state, Lights', Ran') = Leads(p, state, Lights, Ran)
  <2>1. ASSUME NEW X, NEW Y, X = Lights', Y = Ran'
        PROVE  Leads(p, state, X, Y) = Leads(p, state, Lights, Ran)
    BY <1>2, <1>3, <1>4, <2>1, LeadsSame
  <2> QED
    BY <2>1
<1> QED
  BY <1>1, <1>5

(* A visit gives the nodes it starts a reason, and takes none away.        *)
LEMMA ReasonsNext ==
  ASSUME SimInv, TwoValued, ~ternary, InPlace, Step, Reasons(state, Lights, Ran, Visited)
  PROVE  Reasons(state', Lights', Ran', Visited')
<1> SUFFICES ASSUME NEW n \in Node
             PROVE  n \in Ran' <=> n = Root \/ \E p \in Visited' : n \in Leads(p, state', Lights', Ran')
  BY DEF Reasons
<1>1. Visited' = Visited \cup ({here} \cap Ran)
  BY VisitAdds
<1>2. (\E p \in Visited' : n \in Leads(p, state', Lights', Ran'))
        <=> \E p \in Visited \cup ({here} \cap Ran) : n \in Leads(p, state, Lights, Ran)
  BY <1>1, LeadsKept
<1>3. n \in Ran' <=> n \in Ran \/ (here \in Ran /\ n \in Leads(here, state, Lights, Ran))
  BY VisitHands
<1>4. n \in Ran <=> n = Root \/ \E p \in Visited : n \in Leads(p, state, Lights, Ran)
  BY DEF Reasons
<1> QED
  BY <1>2, <1>3, <1>4

(* What control may reach from a node stands before it in topo.            *)
LEMMA AfterStays ==
  ASSUME SimInv, NEW i \in DOMAIN topo
  PROVE  Logical!After(topo[i]) \subseteq InTopo(i - 1)
<1> DEFINE A == SuccSet(topo[i])
<1>1. topo[i] \in Node /\ Len(topo) \in Nat /\ DOMAIN topo = 1..Len(topo)
  BY Position
<1>2. A \subseteq InTopo(i - 1)
  BY Position DEF LeadsTo
<1>3. ASSUME NEW n \in InTopo(i - 1)
      PROVE  SuccSet(n) \subseteq InTopo(i - 1)
  <2>1. PICK j \in 1..(i - 1) : topo[j] = n
    BY DEF InTopo
  <2>2. j \in DOMAIN topo /\ j - 1 < i - 1 /\ i - 1 \in Nat /\ j - 1 \in Nat
    BY <1>1
  <2>3. SuccSet(n) \subseteq InTopo(j - 1)
    BY <2>1, <2>2, Position DEF LeadsTo
  <2>4. InTopo(j - 1) \subseteq InTopo(i - 1)
    BY <2>2 DEF InTopo
  <2> QED
    BY <2>3, <2>4
<1>4. \E f : Spreads(A, f)
  BY <1>1, Arcs, Spread
<1> DEFINE within == CHOOSE f : f = [k \in Nat |-> IF k = 0 THEN A
                                   ELSE f[k - 1] \cup UNION {SuccSet(m) : m \in f[k - 1]}]
<1>5. Spreads(A, within)
  <2> HIDE DEF A
  <2>1. PICK f : f = [k \in Nat |-> IF k = 0 THEN A
                                   ELSE f[k - 1] \cup UNION {SuccSet(m) : m \in f[k - 1]}]
    BY <1>4 DEF Spreads
  <2>2. within = [k \in Nat |-> IF k = 0 THEN A
                               ELSE within[k - 1] \cup UNION {SuccSet(m) : m \in within[k - 1]}]
    BY <2>1
  <2> HIDE DEF within
  <2> QED
    BY <2>2 DEF Spreads
<1>6. Logical!After(topo[i]) = within[Len(Graph)]
  BY DEF Logical!After, Logical!SuccSet, SuccSet, Logical!Succ, Succ
<1>7. \A k \in Nat : within[k] \subseteq InTopo(i - 1)
  <2> HIDE DEF within, A
  <2> QED
    BY <1>2, <1>3, <1>5, SpreadStays
<1>8. Len(Graph) \in Nat
  BY GraphAssumption
<1> HIDE DEF within
<1> QED
  BY <1>6, <1>7, <1>8

(* A mark is that of the last Enter: adding a node h that does not come    *)
(* after itself or a node that comes after it, which marks m if it is an   *)
(* Enter, and changes no other mark.                                       *)
LEMMA MarksNext ==
  ASSUME NEW V, NEW N, NEW M, NEW h, Marks(V, N),
         \A m \in V : m \notin Logical!After(h),
         \A e \in STExcl :
           M[e] = IF h \in Logical!Enters({h}, e) THEN ChildNum(Logical!Child(h)) ELSE N[e]
  PROVE  Marks(V \cup {h}, M)
<1> SUFFICES ASSUME NEW e \in STExcl
             PROVE  IF Logical!Enters(V \cup {h}, e) = {} THEN M[e] = 0
                    ELSE \E n \in Logical!LastEnters(V \cup {h}, e) : M[e] = ChildNum(Logical!Child(n))
  BY DEF Marks
<1>1. Logical!Enters(V \cup {h}, e) = Logical!Enters(V, e) \cup Logical!Enters({h}, e)
  BY DEF Logical!Enters
<1>2. \A E : Logical!Enters(E, e) \subseteq E
  BY DEF Logical!Enters
<1>3. CASE h \in Logical!Enters({h}, e)
  <2>1. h \in Logical!LastEnters(V \cup {h}, e)
    <3>1. \A m \in Logical!Enters(V \cup {h}, e) \ {h} : m \notin Logical!After(h)
      BY <1>2
    <3> QED
      BY <1>1, <1>3, <3>1 DEF Logical!LastEnters
  <2>2. M[e] = ChildNum(Logical!Child(h))
    BY <1>3
  <2> QED
    BY <2>1, <2>2, <1>1, <1>3
<1>4. CASE h \notin Logical!Enters({h}, e)
  <2>1. Logical!Enters({h}, e) = {}
    BY <1>2, <1>4
  <2>2. Logical!Enters(V \cup {h}, e) = Logical!Enters(V, e)
    BY <1>1, <2>1
  <2>3. Logical!LastEnters(V \cup {h}, e) = Logical!LastEnters(V, e)
    BY <2>2 DEF Logical!LastEnters
  <2>4. M[e] = N[e]
    BY <1>4
  <2> QED
    BY <2>2, <2>3, <2>4 DEF Marks
<1> QED
  BY <1>3, <1>4

(* A visit of an Enter leaves its mark, and that of an Enter of a final    *)
(* child of the root ends the program.                                     *)
LEMMA VisitMarks ==
  ASSUME SimInv, TwoValued, ~ternary, Step
  PROVE  /\ here \in Ran => \A e \in STExcl :
              nextstate'[e] = IF here \in Logical!Enters({here}, e)
                              THEN ChildNum(Logical!Child(here)) ELSE nextstate[e]
         /\ here \notin Ran => nextstate' = nextstate
         /\ isFinal' <=> isFinal \/ Logical!Ends({here} \cap Ran)
<1>1. mode = "tick" /\ pos > 0
  BY VisitWrites
<1>2. here \in Node /\ cc = sched[here] /\ sched \in [Node -> {On, Off}]
      /\ (here \in Ran <=> cc = On) /\ nextstate \in [STExcl -> Nat] /\ isFinal \in BOOLEAN
  BY <1>1, HereFacts, KnownHere DEF cc, Ran, SimInv, TypeOK
<1> DEFINE c == Settled[Graph[here].st]
<1>3. Logical!Child(here) = c
  BY SameGraph
<1>4. \A e : here \in Logical!Enters({here}, e)
                <=> Kind(here) = "enter" /\ c # 0 /\ Parent(c) = e
  BY <1>3, SameGraph DEF Logical!Enters
<1>5. Logical!Ends({here} \cap Ran)
        <=> here \in Ran /\ Kind(here) = "enter" /\ c # 0 /\ Parent(c) = 1 /\ Tree[c].final
  <2>1. Logical!Enters({here} \cap Ran, 1) = IF here \in Ran THEN Logical!Enters({here}, 1) ELSE {}
    BY DEF Logical!Enters
  <2>2. Logical!Enters({here}, 1) \subseteq {here}
    BY DEF Logical!Enters
  <2> HIDE DEF c
  <2> QED
    BY <2>1, <2>2, <1>3, <1>4 DEF Logical!Ends
<1> HIDE DEF c
<1>6. CASE VisitEnter
  <2>1. /\ Kind(here) = "enter" /\ cc = On
        /\ nextstate' = IF c = 0 THEN nextstate ELSE [nextstate EXCEPT ![Parent(c)] = ChildNum(c)]
        /\ isFinal' = (isFinal \/ (c # 0 /\ Parent(c) = 1 /\ Tree[c].final))
    BY <1>2, <1>6 DEF VisitEnter, At, c
  <2>2. ASSUME NEW e \in STExcl
        PROVE  nextstate'[e] = IF c # 0 /\ Parent(c) = e THEN ChildNum(c) ELSE nextstate[e]
    BY <2>1, <1>2
  <2> QED
    BY <2>1, <2>2, <1>2, <1>3, <1>4, <1>5
<1>7. CASE ~VisitEnter
  <2>1. UNCHANGED <<nextstate, isFinal>>
    BY <1>7 DEF Step, Skip, Visit, VisitPlain, VisitSync, VisitTest, VisitSwitch,
                VisitEmit, VisitExit, VisitDefine
  <2>2. here \in Ran => Kind(here) # "enter"
    BY <1>2, <1>7, Values DEF Step, Skip, Visit, VisitPlain, VisitSync, VisitTest, VisitSwitch,
                VisitEmit, VisitExit, VisitDefine, At
  <2> QED
    BY <2>1, <2>2, <1>4, <1>5
<1> QED
  BY <1>6, <1>7

(* Every visit keeps the invariant.                                        *)
LEMMA VisitKeeps ==
  ASSUME TickInv, DefinedFirst, LogicInv, Step, given' = given
  PROVE  LogicInv'
<1>1. /\ SimInv /\ TwoValued /\ ~ternary /\ InTick /\ InPlace /\ here \in Node
      /\ mode = "tick" /\ mode' = "tick" /\ pos > 0 /\ pos \in DOMAIN topo /\ here = topo[pos]
  <2>1. SimInv /\ TwoValued /\ ~ternary /\ mode = "tick" /\ mode' = mode /\ pos > 0
    BY VisitWrites DEF TickInv, LogicInv
  <2> QED
    BY <2>1, HereFacts DEF TickInv, NestInv, LogicInv, here
<1>2. ~ternary'
  BY <1>1, KnownStays
<1>3. Visited' = Visited \cup ({here} \cap Ran)
  BY <1>1, VisitAdds
<1>4. Reasons(state', Lights', Ran', Visited')
  BY <1>1, ReasonsNext DEF InTick
<1>5. Lights' = Logical!Present(given', Visited')
  <2>1. Lights' = Lights \cup Logical!Emitted({here} \cap Ran)
    BY <1>1, VisitLights
  <2>2. \A V, W : Logical!Emitted(V \cup W) = Logical!Emitted(V) \cup Logical!Emitted(W)
    BY DEF Logical!Emitted
  <2>3. Logical!Emitted(Visited \cup ({here} \cap Ran))
          = Logical!Emitted(Visited) \cup Logical!Emitted({here} \cap Ran)
    BY <2>2
  <2>4. Logical!Present(given, Visited \cup ({here} \cap Ran))
          = Logical!Present(given, Visited) \cup Logical!Emitted({here} \cap Ran)
    BY <2>3 DEF Logical!Present
  <2>5. ASSUME NEW V, V = Visited'
        PROVE  Lights' = Logical!Present(given, V)
    BY <2>1, <2>4, <2>5, <1>1, <1>3 DEF InTick
  <2> QED
    BY <2>5
<1>6. Marks(Visited', nextstate')
  <2>1. CASE here \in Ran
    <3>1. ASSUME NEW m \in Visited
          PROVE  m \notin Logical!After(here)
      <4>1. Logical!After(here) \subseteq InTopo(pos - 1)
        BY <1>1, AfterStays
      <4>2. Passed(m) /\ m \in Node
        BY DEF Visited, Ran
      <4>3. PICK i \in DOMAIN topo : i > pos /\ topo[i] = m
        BY <4>2 DEF Passed
      <4>4. Len(topo) \in Nat /\ DOMAIN topo = 1..Len(topo)
            /\ \A k, j \in DOMAIN topo : topo[k] = topo[j] => k = j
        BY <1>1, Position
      <4>5. m \notin InTopo(pos - 1)
        <5> SUFFICES ASSUME NEW j \in 1..(pos - 1), topo[j] = m PROVE FALSE
          BY DEF InTopo
        <5>1. j \in DOMAIN topo /\ j # i
          BY <1>1, <4>3, <4>4
        <5> QED
          BY <5>1, <4>3, <4>4
      <4> QED
        BY <4>1, <4>5
    <3>2. ASSUME NEW N, N = nextstate'
          PROVE  Marks(Visited \cup {here}, N)
      <4>1. \A e \in STExcl :
              N[e] = IF here \in Logical!Enters({here}, e)
                     THEN ChildNum(Logical!Child(here)) ELSE nextstate[e]
        BY <3>2, <2>1, <1>1, VisitMarks
      <4>2. Marks(Visited, nextstate)
        BY <1>1 DEF InTick
      <4> QED
        BY <3>1, <4>1, <4>2, MarksNext
    <3>3. Visited' = Visited \cup {here}
      BY <1>3, <2>1
    <3>4. ASSUME NEW V, NEW N, V = Visited', N = nextstate'
          PROVE  Marks(V, N)
      BY <3>2, <3>3, <3>4
    <3> QED
      BY <3>4
  <2>2. CASE here \notin Ran
    <3>1. Visited' = Visited /\ nextstate' = nextstate
      BY <1>1, <1>3, <2>2, VisitMarks
    <3>2. ASSUME NEW V, NEW N, V = Visited', N = nextstate'
          PROVE  Marks(V, N)
      BY <3>1, <3>2, <1>1 DEF InTick
    <3> QED
      BY <3>2
  <2> QED
    BY <2>1, <2>2
<1>7. isFinal' <=> Logical!Ends(Visited')
  <2>1. isFinal' <=> isFinal \/ Logical!Ends({here} \cap Ran)
    BY <1>1, VisitMarks
  <2>2. \A V, W : Logical!Ends(V \cup W) <=> Logical!Ends(V) \/ Logical!Ends(W)
    BY DEF Logical!Ends, Logical!Enters
  <2>3. Logical!Ends(Visited \cup ({here} \cap Ran))
          <=> Logical!Ends(Visited) \/ Logical!Ends({here} \cap Ran)
    BY <2>2
  <2>4. ASSUME NEW V, V = Visited'
        PROVE  isFinal' <=> Logical!Ends(V)
    BY <2>1, <2>3, <2>4, <1>1, <1>3 DEF InTick
  <2> QED
    BY <2>4
<1>8. InTick'
  BY <1>4, <1>5, <1>6, <1>7 DEF InTick
<1> QED
  BY <1>1, <1>2, <1>8 DEF LogicInv

(* The start of a tick: Root is on, and the inputs that are present.       *)
LEMMA StartTicks ==
  ASSUME TickInv, LogicInv, ReactsStart
  PROVE  LogicInv' /\ Logical!Ask(given')
<1>1. PICK in \in Known, min \in [Input -> Control] :
        CoverStart(in, min) /\ given' = {s \in Input : in[s] = On}
  BY DEF ReactsStart
<1>2. /\ mode = "idle" /\ mode' = "tick" /\ pos' = Len(topo)
      /\ signals' = [s \in Signal |-> IF s \in Input THEN in[s]
                                     ELSE IF s = "tick" THEN On ELSE Off]
      /\ ternary' = (ternary \/ \E s \in Input : in[s] = Unk)
      /\ sched' = [n \in Node |-> IF n = topo[Len(topo)] THEN On ELSE Off]
      /\ UNCHANGED <<topo, state, nextstate, isFinal>>
      /\ given' = {s \in Input : signals'[s] = On}
  BY <1>1, GraphAssumption DEF CoverStart, TickStart, dfsVars
<1>3. Root \in Node /\ topo[Len(topo)] = Root /\ Len(topo) \in Nat /\ DOMAIN topo = 1..Len(topo)
  BY <1>2, LiveIsOrdered, Position, GraphAssumption DEF TickInv, SimInv, ModeInv
<1>4. ~ternary' /\ given' \subseteq Input
  BY <1>2, Values DEF LogicInv, Known
<1>5. Ran' = {Root}
  BY <1>2, <1>3, Values DEF Ran
<1>6. Visited' = {}
  BY <1>2, <1>3 DEF Visited, Passed
<1>7. Logical!Emitted({}) = {} /\ \A e : Logical!Enters({}, e) = {}
  BY DEF Logical!Emitted, Logical!Enters
<1>8. Lights' = Logical!Present(given', {})
  <2>1. Input \subseteq Signal
    BY GraphAssumption
  <2>2. Logical!Present(given', {}) = given' \cup ((Signal \ Input) \cap {"tick"})
    BY <1>7 DEF Logical!Present, Logical!Always
  <2>3. Lights' = {s \in Signal : signals'[s] = On}
    BY DEF Lights
  <2>4. \A s \in Signal : signals'[s] = On <=> s \in given' \cup ((Signal \ Input) \cap {"tick"})
    BY <1>2, Values
  <2>5. given' \subseteq Signal
    BY <1>2, <2>1
  <2> QED
    BY <2>2, <2>3, <2>4, <2>5
<1>9. ASSUME NEW V, V = Visited'
      PROVE  /\ Reasons(state', Lights', Ran', V)
             /\ Lights' = Logical!Present(given', V)
             /\ Marks(V, nextstate')
             /\ isFinal' <=> Logical!Ends(V)
  <2>1. V = {}
    BY <1>6, <1>9
  <2>2. \A C, X : Reasons(C, X, {Root}, V)
    BY <1>3, <2>1 DEF Reasons
  <2>3. Marks(V, nextstate) /\ ~isFinal
    BY <1>2, <1>7, <2>1 DEF Marks, LogicInv, Unmarked
  <2>4. ~Logical!Ends(V)
    BY <1>7, <2>1 DEF Logical!Ends
  <2> QED
    BY <1>2, <1>5, <1>8, <2>1, <2>2, <2>3, <2>4
<1>10. InTick'
  BY <1>9 DEF InTick
<1> QED
  BY <1>2, <1>4, <1>10 DEF LogicInv, Logical!Ask

(* The last node is visited: what ran is a solution.                       *)
LEMMA TickAnswers ==
  ASSUME TickInv, LogicInv, mode = "tick", pos = 0
  PROVE  /\ Logical!Solution(state, given, Ran)
         /\ Lights = Logical!Present(given, Ran)
         /\ Marks(Ran, nextstate)
         /\ isFinal <=> Logical!Ends(Ran)
<1>1. SimInv /\ TwoValued /\ ~ternary /\ InTick /\ InPlace /\ SearchInv /\ dfs = "done"
  BY DEF TickInv, NestInv, LogicInv, SimInv, ModeInv
<1>2. \A n \in Ran : n \in InTopo(Len(topo)) /\ n \in Node
  BY <1>1, KnownHere DEF InPlace
<1>3. ASSUME NEW n \in Ran
      PROVE  Passed(n) /\ n \in Live
  <2>1. PICK i \in 1..Len(topo) : topo[i] = n
    BY <1>2 DEF InTopo
  <2>2. i \in DOMAIN topo /\ i > pos
    BY <1>1, Position
  <2> QED
    BY <1>1, <2>1, <2>2, LiveIsOrdered DEF Passed
<1>4. Visited = Ran
  BY <1>3 DEF Visited
<1>5. Reasons(state, Lights, Ran, Ran) /\ Lights = Logical!Present(given, Ran)
      /\ Marks(Ran, nextstate) /\ (isFinal <=> Logical!Ends(Ran))
  BY <1>1, <1>4 DEF InTick
<1>6. \A p \in Ran : Leads(p, state, Lights, Ran) \subseteq Node
  BY <1>2, LeadsOut, Arcs
<1>7. Ran = {Root} \cup UNION {Leads(p, state, Lights, Ran) : p \in Ran}
  <2>1. Root \in Node /\ Ran \subseteq Node
    BY GraphAssumption, <1>2
  <2> QED
    BY <1>5, <1>6, <2>1 DEF Reasons
<1>8. Logical!Solution(state, given, Ran)
  BY <1>3, <1>5, <1>7, SameGraph DEF Logical!Solution
<1> QED
  BY <1>5, <1>8

(* The end of a tick: the tree moves to where the last Enters say.         *)
LEMMA EndMoves ==
  ASSUME TickInv, LogicInv, TickEnd
  PROVE  Logical!Moves(state, Ran, state')
<1>1. mode = "tick" /\ pos = 0 /\ ~ternary
  BY DEF TickEnd, LogicInv
<1>2. Marks(Ran, nextstate) /\ Ran \subseteq Node
  BY <1>1, TickAnswers DEF Ran
<1>3. state' = [e \in STExcl |-> IF nextstate[e] # 0 THEN nextstate[e] ELSE state[e]]
  BY <1>1 DEF TickEnd
<1>4. ASSUME NEW e \in STExcl, NEW D, D = state'
      PROVE  IF Logical!Enters(Ran, e) = {} THEN D[e] = state[e]
             ELSE \E n \in Logical!LastEnters(Ran, e) : D[e] = ChildNum(Logical!Child(n))
  <2>1. CASE Logical!Enters(Ran, e) = {}
    BY <1>2, <1>3, <1>4, <2>1 DEF Marks
  <2>2. CASE Logical!Enters(Ran, e) # {}
    <3>1. PICK n \in Logical!LastEnters(Ran, e) : nextstate[e] = ChildNum(Logical!Child(n))
      BY <1>2, <2>2 DEF Marks
    <3>2. n \in Node /\ Kind(n) = "enter" /\ Logical!Child(n) # 0
      BY <1>2, SameGraph DEF Logical!LastEnters, Logical!Enters
    <3>3. Graph[n].st \in STNode /\ Logical!Child(n) = Settled[Graph[n].st]
      BY <3>2, Fields, SameGraph
    <3>4. ChildNum(Logical!Child(n)) # 0
      BY <3>2, <3>3, TreeAssumption
    <3> QED
      BY <1>3, <1>4, <2>2, <3>1, <3>4
  <2> QED
    BY <2>1, <2>2
<1>5. ASSUME NEW D, D = state'
      PROVE  Logical!Moves(state, Ran, D)
  BY <1>4, <1>5, SameGraph DEF Logical!Moves
<1> QED
  BY <1>5

(* The end of a tick answers.                                              *)
LEMMA EndTicks ==
  ASSUME TickInv, SimInv', LogicInv, ReactsEnd
  PROVE  LogicInv' /\ Logical!Answer
<1>1. TickEnd /\ mode = "tick" /\ pos = 0 /\ given' = given
  BY DEF ReactsEnd, CoverEnd, TickEnd
<1>2. /\ mode' = IF isFinal THEN "done" ELSE "idle"
      /\ UNCHANGED <<sched, signals, isFinal>> /\ ~ternary'
      /\ nextstate' = [e \in STExcl |-> 0]
  BY <1>1 DEF TickEnd, LogicInv
<1>3. Unmarked'
  BY <1>2 DEF Unmarked
<1>4. LogicInv'
  BY <1>1, <1>2, <1>3 DEF LogicInv
<1>5. ASSUME NEW R, R = Ran
      PROVE  /\ Logical!Solution(state, given, R) /\ Lights = Logical!Present(given, R)
             /\ Logical!Moves(state, R, state') /\ (isFinal <=> Logical!Ends(R))
  BY <1>1, <1>5, TickAnswers, EndMoves
<1>6. state' \in [Logical!STExcl -> Nat]
  BY SameGraph DEF SimInv, TypeOK
<1>7. ASSUME NEW R, R = (IF mode = "tick" THEN {} ELSE {n \in Logical!Node : sched[n] = On})'
      PROVE  R = Ran
  BY <1>2, <1>7, SameGraph DEF Ran
<1> QED
  BY <1>1, <1>2, <1>4, <1>5, <1>6, <1>7, SameGraph DEF Logical!Answer, Ran, Lights

(* The rest of the steps say nothing to the equations, but that a program  *)
(* whose graph has a cycle and one that stops leave.                       *)
LEMMA OtherTicks ==
  ASSUME TickInv, LogicInv, DefinedFirst,
         ReactsStep \/ UNCHANGED <<coverVars, history>>
  PROVE  LogicInv' /\ (Logical!Leave \/ UNCHANGED Logical!eqVars)
<1>1. given' = given
  BY DEF ReactsStep, history
<1>2. CASE Order \/ Stop
  <2>1. /\ mode \in {"init", "idle"} /\ mode' \in {"init", "idle", "done"}
        /\ mode = "idle" => mode' = "done"
        /\ UNCHANGED <<sched, signals, state, nextstate, ternary, isFinal>>
    BY <1>2 DEF Order, Stop
  <2>2. LogicInv'
    BY <1>1, <2>1 DEF LogicInv, Ran, Lights, Unmarked
  <2>3. CASE mode' = "done"
    BY <1>1, <2>1, <2>2, <2>3 DEF Logical!Leave
  <2>4. CASE mode' # "done"
    BY <1>1, <2>1, <2>2, <2>4 DEF Logical!eqVars
  <2> QED
    BY <2>2, <2>3, <2>4
<1>3. CASE Step
  <2>1. mode = "tick" /\ mode' = "tick" /\ state' = state
    BY <1>3, VisitWrites DEF TickInv
  <2>2. UNCHANGED Logical!eqVars
    BY <1>1, <2>1 DEF Logical!eqVars
  <2> QED
    BY <1>1, <1>3, <2>2, VisitKeeps
<1>4. CASE UNCHANGED vars
  <2>1. UNCHANGED <<mode, pos, sched, signals, state, nextstate, ternary, isFinal, topo>>
    BY <1>4 DEF vars, simVars, dfsVars
  <2>2. UNCHANGED <<Ran, Lights>> /\ Visited' = Visited
    BY <2>1 DEF Ran, Lights, Visited, Passed
  <2>3. ASSUME NEW V, V = Visited', mode = "tick"
        PROVE  /\ Reasons(state', Lights', Ran', V) /\ Lights' = Logical!Present(given', V)
               /\ Marks(V, nextstate') /\ (isFinal' <=> Logical!Ends(V))
    BY <1>1, <2>1, <2>2, <2>3 DEF LogicInv, InTick
  <2>4. mode = "tick" => InTick'
    BY <2>3 DEF InTick
  <2>5. LogicInv'
    BY <1>1, <2>1, <2>2, <2>4 DEF LogicInv, Unmarked
  <2>6. UNCHANGED Logical!eqVars
    BY <1>1, <2>1 DEF Logical!eqVars
  <2> QED
    BY <2>5, <2>6
<1> QED
  BY <1>2, <1>3, <1>4 DEF ReactsStep, CoverOrder, CoverStep, CoverStop, CoverHalted, Halted, coverVars

(* The first run is a run of the simulator here as well.                   *)
LEMMA ReactsRuns == ReactsSpec => CoverSpec
<1>1. ReactsInit => CoverInit
  BY DEF ReactsInit
<1>2. [ReactsNext]_<<coverVars, history>> => [CoverNext]_coverVars
  BY DEF ReactsNext, ReactsStart, ReactsStep, ReactsEnd, CoverNext, CoverStarts
<1> QED
  BY <1>1, <1>2, PTL DEF ReactsSpec, CoverSpec

(* Every tick of the simulator solves its equations: what has run when it  *)
(* is over has a reason to, every status has one, nothing that had a       *)
(* reason was left out, and the tree is where the last Enters say.         *)
THEOREM TickSolves == ReactsSpec /\ []DefinedFirst => Solves
<1>1. ReactsInit => LogicInv /\ Logical!EqInit
  <2> SUFFICES ASSUME ReactsInit
               PROVE  LogicInv /\ Logical!EqInit
    OBVIOUS
  <2>1. /\ mode = "init" /\ given = {} /\ ~ternary /\ ~isFinal
        /\ sched = [n \in Node |-> Off] /\ signals = [s \in Signal |-> Off]
        /\ state = [e \in STExcl |-> IF e = 1 THEN Len(Children(1)) ELSE 0]
        /\ nextstate = [e \in STExcl |-> 0]
    BY DEF ReactsInit, CoverInit, Init
  <2>2. Ran = {} /\ Lights = {} /\ Unmarked
    BY <2>1, Values DEF Ran, Lights, Unmarked
  <2>3. Logical!Children(1) = Children(1)
    BY DEF Logical!Children, Children
  <2> QED
    BY <2>1, <2>2, <2>3, SameGraph DEF LogicInv, Logical!EqInit, Ran, Lights
<1>2. TickInv /\ SimInv' /\ DefinedFirst /\ LogicInv /\ [ReactsNext]_<<coverVars, history>>
        => LogicInv' /\ [Logical!EqNext]_Logical!eqVars
  <2> SUFFICES ASSUME TickInv, SimInv', DefinedFirst, LogicInv, [ReactsNext]_<<coverVars, history>>
               PROVE  LogicInv' /\ [Logical!EqNext]_Logical!eqVars
    OBVIOUS
  <2>1. CASE ReactsStart
    <3>1. LogicInv' /\ Logical!Ask(given')
      BY <2>1, StartTicks
    <3>2. given' \in SUBSET Input
      BY <2>1 DEF ReactsStart
    <3> QED
      BY <3>1, <3>2 DEF Logical!EqNext, Logical!Ask
  <2>2. CASE ReactsEnd
    BY <2>2, EndTicks DEF Logical!EqNext
  <2>3. CASE ReactsStep \/ UNCHANGED <<coverVars, history>>
    BY <2>3, OtherTicks DEF Logical!EqNext
  <2> QED
    BY <2>1, <2>2, <2>3 DEF ReactsNext
<1>3. TickInv => SimInv
  BY DEF TickInv
<1> QED
  BY <1>1, <1>2, <1>3, ReactsRuns, CoverRuns, TickIsSound, PTL DEF ReactsSpec, Solves, Logical!EqSpec

=============================================================================
