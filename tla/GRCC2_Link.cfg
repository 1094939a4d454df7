SPECIFICATION TracedSpec
CONSTANTS
  Graph <- LinkGraph
  Tree <- LinkTree
  Root <- LinkRoot
  Input <- LinkInput
  Signal <- LinkSignal
  Output <- LinkOutput
INVARIANTS CTypeOK AllClustered OneThreadStays RunsInOrder Solved
PROPERTIES LinkedOnce Reacts ClusteringEnds TickReturns
