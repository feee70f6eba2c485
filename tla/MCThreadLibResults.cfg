SPECIFICATION ThSpec
CONSTANTS
  w1 = w1
  w2 = w2
  Main = main
  MainVm = main
  NoThread = noThread
  NoVm = noVm
  Threads = {main, w1, w2}
  VmThreads = {main, w1, w2}
  HoldsRefs = TRUE
SYMMETRY Symmetry
INVARIANT
  ResultsAlive
