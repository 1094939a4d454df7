SPECIFICATION TracedSpec
CONSTANTS
  Graph <- MixGraph
  Tree <- MixTree
  Root <- MixRoot
  Input <- MixInput
  Signal <- MixSignal
  Output <- MixOutput
PROPERTIES Reacts
