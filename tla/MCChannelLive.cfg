SPECIFICATION FairChSpec
CONSTANTS
  a = a
  b = b
  Main = main
  MainVm = main
  NoThread = noThread
  NoVm = noVm
  NoValue = noValue
  Threads = {main, a}
  VmThreads = {main, a}
  Capacities = {1}
  MaxValues = 2
INVARIANTS
  StacksMarked
PROPERTIES
  StepsAreGilSteps
  CloseReleasesEveryone
  ValuesFlow
