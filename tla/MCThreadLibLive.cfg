SPECIFICATION FairThSpec
CONSTANTS
  w1 = w1
  w2 = w2
  Main = main
  MainVm = main
  NoThread = noThread
  NoVm = noVm
  Threads = {main, w1}
  VmThreads = {main, w1}
  HoldsRefs = TRUE
PROPERTIES
  EveryoneReturns
  WorkersStart
