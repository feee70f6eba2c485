SPECIFICATION VmSpec
CONSTANTS
  co = co
  gen = gen
  Root = root
  NoVm = noVm
  VmThreads = {root, co, gen}
  Generators = {gen}
  Base = 0
  Habits = {"catchAcrossNative"}
  MaxFrames = 3
  MaxTries = 1
  MaxRuns = 2
INVARIANT
  NativesGetTheirAnswer
CHECK_DEADLOCK FALSE
