SPECIFICATION Spec
CONSTANTS
  Graph <- TriGraph
  Tree <- TriTree
  Root <- TriRoot
  Input <- TriInput
  Signal <- TriSignal
INVARIANTS ScanStaysInside
