SPECIFICATION VmSpec
CONSTANTS
  co = co
  gen = gen
  Root = root
  NoVm = noVm
  VmThreads = {root, co, gen}
  Generators = {gen}
  Base = 0
  Habits = {}
  MaxFrames = 3
  MaxTries = 1
  MaxRuns = 3
INVARIANTS
  NativesGetTheirAnswer
  ModeMeansIterating
  HandlersFitFrames
PROPERTIES
  OneControlStack
CHECK_DEADLOCK FALSE
