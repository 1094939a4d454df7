SPECIFICATION Spec
CONSTANTS
  Graph <- SuspGraph
  Tree <- SuspTree
  Root <- SuspRoot
  Input <- SuspInput
  Signal <- SuspSignal
PROPERTIES StateMovedByOwnTick
