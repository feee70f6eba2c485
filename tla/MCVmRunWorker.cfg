SPECIFICATION VmSpec
CONSTANTS
  co = co
  gen = gen
  Root = root
  NoVm = noVm
  VmThreads = {root, co, gen}
  Generators = {gen}
  Base = 1
  Habits = {}
  MaxFrames = 3
  MaxTries = 0
  MaxRuns = 1
INVARIANT
  EndsWhole
CHECK_DEADLOCK FALSE
