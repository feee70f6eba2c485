SPECIFICATION Spec
CONSTANTS
  Programs <- MCRetyping
  Scripts <- MCScripts
  NativeModules = {"coroutine"}
  MaxIndexed = 40
  MaxFrames = 64
  MaxHandlers = 64
  MaxGeneratorFrames = 24
  MaxGeneratorHandlers = 16
  MaxPending = 8
  MinArray = 8
  Junk = 1
INVARIANT NumbersWhereTyped
CHECK_DEADLOCK FALSE
