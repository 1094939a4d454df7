SPECIFICATION DeadSpec
CONSTANTS
  Graph <- Trap13Graph
  Tree <- Trap13Tree
  Root <- Trap13Root
  Input <- Trap13Input
  Signal <- Trap13Signal
INVARIANTS OptTypeOK Closed FindsLeast LeavesGraph KeepsWhatRuns KeepsExits KeepsBranches
PROPERTIES AnalysisEnds
