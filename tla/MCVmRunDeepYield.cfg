SPECIFICATION VmSpec
CONSTANTS
  co = co
  gen = gen
  Root = root
  NoVm = noVm
  VmThreads = {root, co, gen}
  Generators = {gen}
  Base = 0
  Habits = {"deepYield"}
  MaxFrames = 3
  MaxTries = 0
  MaxRuns = 1
INVARIANT
  InsideCoroutineCanYield
CHECK_DEADLOCK FALSE
