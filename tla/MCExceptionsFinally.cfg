SPECIFICATION ExSpec
CONSTANTS
  e1 = e1
  e2 = e2
  NoException = noException
  Exceptions = {e1, e2}
  Habits = {"tryInFinally"}
  MaxDepth = 4
SYMMETRY Symmetry
INVARIANT
  FinallyKeepsItsException
CHECK_DEADLOCK FALSE
