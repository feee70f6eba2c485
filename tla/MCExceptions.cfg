SPECIFICATION ExSpec
CONSTANTS
  e1 = e1
  e2 = e2
  NoException = noException
  Exceptions = {e1, e2}
  Habits = {"tryInFinally"}
  MaxDepth = 6
SYMMETRY Symmetry
INVARIANTS
  HandlersMatchNesting
  PendingOfFinally
PROPERTIES
  FinallyNotSkipped
CHECK_DEADLOCK FALSE
