SPECIFICATION VmSpec
CONSTANTS
  co = co
  gen = gen
  Root = root
  NoVm = noVm
  VmThreads = {root, co, gen}
  Generators = {gen}
  Base = 0
  Habits = {"returnUnderNative"}
  MaxFrames = 3
  MaxTries = 0
  MaxRuns = 2
PROPERTY
  OnlyTheEndFinishes
CHECK_DEADLOCK FALSE
