---------------------------- MODULE GRCsimCover ----------------------------
(***************************************************************************)
(* What the three-valued simulator promises: a tick computed with unknown  *)
(* inputs speaks for every tick computed with known ones.                  *)
(*                                                                         *)
(* Two runs of GRCsim over the same graph visit the same node at the same  *)
(* time.  The inputs of the first are all known.  Those of the second are  *)
(* the same, or unknown; it starts every tick in the state of the first.   *)
(* Both use the order that one search found, since topo depends on the     *)
(* graph alone.                                                            *)
(*                                                                         *)
(* The first run implements two specifications of a tick: Reaction, which  *)
(* computes one, and Equations, which says what its result has to satisfy. *)
(* History variables keep what the mappings need, as state and signals     *)
(* change while a tick runs.                                               *)
(***************************************************************************)
EXTENDS GRCsim

VARIABLES msched, msignals, mnextstate, mternary, mfinal

May == INSTANCE GRCsim
         WITH sched <- msched, signals <- msignals, nextstate <- mnextstate,
              ternary <- mternary, isFinal <- mfinal

mayVars == <<msched, msignals, mnextstate, mternary, mfinal>>
coverVars == <<vars, mayVars>>

Known == [Input -> {Off, On}]

(* An unknown value stands for both others.                                *)
Stands(m, c) == m = Unk \/ m = c

-----------------------------------------------------------------------------

CoverInit == Init /\ May!Init

CoverOrder == Order /\ May!Order

CoverStart(in, min) ==
  /\ \A s \in Input : Stands(min[s], in[s])
  /\ TickStart(in)
  /\ May!TickStart(min)

CoverStep == Step /\ May!Step

(* The first run moves to the next state, and the second follows it.       *)
CoverEnd ==
  /\ TickEnd
  /\ mnextstate' = nextstate' /\ mternary' = ternary' /\ mfinal' = isFinal'
  /\ UNCHANGED <<msched, msignals>>

CoverStop == Stop /\ UNCHANGED mayVars
CoverHalted == Halted /\ UNCHANGED mayVars

CoverStarts == \E in \in Known, min \in [Input -> Control] : CoverStart(in, min)
CoverNext ==
  \/ CoverOrder \/ CoverStarts
  \/ CoverStep \/ CoverEnd \/ CoverStop \/ CoverHalted

CoverSpec == CoverInit /\ [][CoverNext]_coverVars

-----------------------------------------------------------------------------

(* The programs a three-valued tick is sound for: visit(UnaryOp) and       *)
(* visit(BinaryOp) read an unknown operand as true, and visit(DefineSignal)*)
(* clears a signal even if it is not known to run, so a signal must not be *)
(* set before the node that clears it.                                     *)
Supported ==
  /\ \A n \in OfKind("test") : Graph[n].op = "load" /\ \E s \in Signal : Reads(n) = {s}
  /\ \A n \in OfKind("define") : Sig(n) \notin Input
DefinedFirst ==
  \A n \in OfKind("define") :
    mode = "tick" /\ pos > 0 /\ here = n => signals[Sig(n)] = Off /\ msignals[Sig(n)] = Off

(* Every control value and every status that the run with unknown inputs   *)
(* has computed stands for the one of the run with known inputs: what it   *)
(* takes for certain is certain.                                           *)
Covers ==
  mode = "tick" =>
    /\ \A n \in Node : Stands(msched[n], sched[n])
    /\ \A s \in Signal : Stands(msignals[s], signals[s])

-----------------------------------------------------------------------------
(* What the first run implements.                                          *)

CONSTANT Output  \* the output signals

VARIABLES
  given,                \* the inputs of the tick that are present
  config, shown, alive  \* state, outputs and life after the last tick
history == <<given, config, shown, alive>>

Abstract == INSTANCE Reaction WITH asked <- (IF mode = "tick" THEN {given} ELSE {})
Logical == INSTANCE Equations
             WITH at <- (IF mode = "init" THEN "idle" ELSE mode),
                  inputs <- given,
                  config <- state,
                  run <- (IF mode = "tick" THEN {} ELSE {n \in Node : sched[n] = On}),
                  present <- (IF mode = "tick" THEN {} ELSE {s \in Signal : signals[s] = On})

ReactsInit == CoverInit /\ Abstract!ReactInit /\ given = {}

ReactsStart ==
  /\ \E in \in Known, min \in [Input -> Control] :
       CoverStart(in, min) /\ given' = {s \in Input : in[s] = On}
  /\ UNCHANGED <<config, shown, alive>>
ReactsStep ==
  /\ CoverOrder \/ CoverStep \/ CoverStop \/ CoverHalted
  /\ UNCHANGED history
ReactsEnd ==
  /\ CoverEnd
  /\ config' = Abstract!ActivePath(state')
  /\ shown' = {s \in Output : signals[s] = On}
  /\ alive' = ~isFinal
  /\ UNCHANGED given
ReactsNext == ReactsStart \/ ReactsStep \/ ReactsEnd
ReactsSpec == ReactsInit /\ [][ReactsNext]_<<coverVars, history>>

(* The state a tick moves to and the outputs it prints are those Reaction  *)
(* computes from the state it starts in and its inputs, whatever order init*)
(* has found; what the ticks before have left besides is without effect.   *)
Reacts == Abstract!ReactSpec

(* What has run when a tick is over solves the equations of the tick: each *)
(* node has a reason to have run, each status has one, and nothing that    *)
(* had a reason was left out; and the tree is where the last Enters say.   *)
Solves == Logical!EqSpec

=============================================================================
