SPECIFICATION ExSpec
CONSTANTS
  e1 = e1
  e2 = e2
  NoException = noException
  Exceptions = {e1, e2}
  Habits = {"returnOut"}
  MaxDepth = 3
SYMMETRY Symmetry
PROPERTY
  FinallyNotSkipped
CHECK_DEADLOCK FALSE
