CONSTANT Programs <- AllSamples
INIT CompileInit
NEXT CompileNext
INVARIANTS
  SameReaction
  WellBuilt
  Ordered
  OnceEach
CHECK_DEADLOCK FALSE
