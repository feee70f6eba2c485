SPECIFICATION Spec
CONSTANTS
  w1 = w1
  w2 = w2
  c1 = c1
  c2 = c2
  c3 = c3
  Main = main
  MainVm = vmMain
  NoThread = noThread
  NoVm = noVm
  Threads = {main, w1, w2}
  VmThreads = {vmMain, c1, c2, c3}
SYMMETRY Symmetry
INVARIANTS
  TypeOK
  ParkedExactly
  LiveStacksMarked
PROPERTIES
  CurrentNotClobbered
