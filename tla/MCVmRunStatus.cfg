SPECIFICATION VmSpec
CONSTANTS
  co = co
  gen = gen
  Root = root
  NoVm = noVm
  VmThreads = {root, co, gen}
  Generators = {gen}
  Base = 0
  Habits = {}
  MaxFrames = 3
  MaxTries = 0
  MaxRuns = 1
INVARIANT
  OffStackIsSuspended
CHECK_DEADLOCK FALSE
