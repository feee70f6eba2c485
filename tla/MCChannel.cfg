SPECIFICATION ChSpec
CONSTANTS
  a = a
  b = b
  Main = main
  MainVm = main
  NoThread = noThread
  NoVm = noVm
  NoValue = noValue
  Threads = {main, a, b}
  VmThreads = {main, a, b}
  Capacities = {1, 2}
  MaxValues = 3
SYMMETRY Symmetry
INVARIANTS
  QueueConsistent
  NoLostWakeup
PROPERTIES
  FifoPipe
  QueuedNotFreed
