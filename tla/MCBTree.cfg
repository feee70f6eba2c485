SPECIFICATION BtSpec
CONSTANTS
  small = small
  big = big
  Keys = {1, 2, 3, 4, 5, 6}
  Values = {small, big}
  Entries <- Pairs
  SizeOf <- Sizes
  SepSize = 3
  PageRoom = 6
  MaxCrashes = 1
  CrashFrom = 3
  MaxPages = 14
  AfterCrash = FALSE
CHECK_DEADLOCK FALSE
INVARIANTS
  PagesAccounted
  LookupsAgree
  RangesAgree
PROPERTIES
  CrashKeepsTheRest
VIEW Renumbered
