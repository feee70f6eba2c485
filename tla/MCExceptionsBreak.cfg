SPECIFICATION ExSpec
CONSTANTS
  e1 = e1
  e2 = e2
  NoException = noException
  Exceptions = {e1, e2}
  Habits = {"jumpOut"}
  MaxDepth = 3
SYMMETRY Symmetry
INVARIANT
  HandlersMatchNesting
CHECK_DEADLOCK FALSE
