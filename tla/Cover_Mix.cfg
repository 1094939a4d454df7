SPECIFICATION ReactsSpec
CONSTANTS
  Graph <- MixGraph
  Tree <- MixTree
  Root <- MixRoot
  Input <- MixInput
  Signal <- MixSignal
  Output <- MixOutput
INVARIANTS Covers DefinedFirst
PROPERTIES Reacts Solves
