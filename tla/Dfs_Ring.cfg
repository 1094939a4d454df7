SPECIFICATION DfsSpec
CONSTANTS
  Graph <- RingGraph
  Tree <- RingTree
  Root <- RingRoot
  Input <- RingInput
  Signal <- RingSignal
INVARIANTS Ordered CycleIsReal
PROPERTIES DfsEnds
CHECK_DEADLOCK FALSE
