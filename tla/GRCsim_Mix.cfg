SPECIFICATION Spec
CONSTANTS
  Graph <- MixGraph
  Tree <- MixTree
  Root <- MixRoot
  Input <- MixInput
  Signal <- MixSignal
INVARIANTS TypeOK JoinsEveryThread ControlReachesExit ActiveHasState
PROPERTIES NoLateWrite NoLateControl
