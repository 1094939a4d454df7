CONSTANT Programs <- OnlyLate
INIT CompileInit
NEXT CompileNext
INVARIANT StartsLate
CHECK_DEADLOCK FALSE
